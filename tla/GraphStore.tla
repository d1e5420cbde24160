------------------------------ MODULE GraphStore ------------------------------
(***************************************************************************)
(* The storage handles of one cell inside one graph node                   *)
(* (src/hydradb/src/core/state.rs) and the reads that go through them      *)
(* (src/hydradb/src/shard/lifecycle.rs).                                   *)
(*                                                                         *)
(* A GraphStore answers reads from the process's SlateDB writer handle     *)
(* while that handle is open, and otherwise from a reader of its own.  The *)
(* writer handle is shared by every GraphStore the process has open on the *)
(* cell (ProcessWriterState), the reader is not.  A reader lags behind the *)
(* durable log; losing the writer handle therefore bumps                   *)
(* reader_refresh_generation, and a reader is used again only after a      *)
(* refresh that acknowledges that generation.                              *)
(*                                                                         *)
(* SlateDB itself is external: a handle is its writer epoch and the last   *)
(* durable sequence it knows, `rival' is the writer of another node, and a *)
(* fenced handle stays open until SlateDB notices.                         *)
(***************************************************************************)
EXTENDS Naturals, FiniteSets

CONSTANTS Stores,    \* the GraphStores (scope runtimes) of the process
          Callers,   \* tasks, each making one call
          Setups,    \* the calls and faults of one behaviour, see TypeOK
          MaxSeq,    \* bound on durable commits
          MaxEpoch   \* bound on writer epochs

VARIABLES setup,      \* the setup chosen for this behaviour
          committed,  \* the durable sequence of the cell in object storage
          epoch,      \* the newest SlateDB writer epoch
          rival,      \* the epoch of the other node's writer, 0 for none
          handle,     \* ProcessWriterState::writer
          closing,    \* ProcessWriterState::closing
          owners,     \* ProcessWriterState::owners
          openGate,   \* who holds ProcessWriterState::open_gate
          attached,   \* the stores whose writer_owner_active is set
          retiring,   \* the stores whose retiring flag is set
          reader,     \* GraphStoreInner::reader, per store
          lossGen,    \* reader_refresh_generation, per store
          ackGen,     \* reader_refreshed_generation, per store
          refreshGate,\* who holds reader_refresh_gate, per store
          unasked,    \* history: stores whose reader was not asked to catch up
                      \* with a writer handle the process lost
          op,         \* the call of every caller
          bookmark    \* the newest bookmark a client was given

storeVars == <<setup, committed, epoch, rival, handle, closing, owners, openGate,
               attached, retiring, reader, lossGen, ackGen, refreshGate, unasked, op, bookmark>>

\* No task: a gate that is free.
Free == "free"
NoHandle == [epoch |-> 0, seq |-> 0, fenced |-> FALSE]
NoReader == [open |-> FALSE, seq |-> 0]

\* A call before it starts.
NotCalled == [at |-> "idle", then |-> "none", min |-> 0, need |-> 0, floor |-> 0,
              got |-> 0, stale |-> FALSE]

Kinds == {"none", "read", "strong", "write", "promote", "retire", "close", "fence"}
Steps == {"idle", "sequence", "snapshot", "open", "lock", "loop", "pull", "pulled", "use", "mark",
          "gate", "install", "drain", "done", "failed"}
Uses == {"none", "sequence", "snapshot", "full", "mark"}

\* A writer handle that is open from the start belongs to a store that is there.
ASSUME StoreAssumption ==
    /\ IsFiniteSet(Stores) /\ Free \notin Callers
    /\ MaxSeq \in Nat \ {0} /\ MaxEpoch \in Nat \ {0}
    /\ \A u \in Setups : /\ u.kind \in [Callers -> Kinds] /\ u.store \in [Callers -> Stores]
                         /\ u.late \subseteq Stores /\ (u.writer => u.late # Stores)

Kind(t) == setup.kind[t]
StoreOf(t) == setup.store[t]

\* The caller has not called yet and its store has been constructed.
Ready(t) == op[t].at = "idle" /\ StoreOf(t) \in attached \cup retiring

-----------------------------------------------------------------------------
(* The handles *)

\* GraphStore::open_writer: a store that is retiring, or a state that is
\* closing, has no writer.
OpenWriter(s) == s \notin retiring /\ ~closing /\ handle # NoHandle

\* readable_writer would answer from the handle: it has no close reason.
ReadableWriter(s) == OpenWriter(s) /\ ~handle.fenced

\* readable_writer finds a handle SlateDB closed: clear_closed_writer drops it
\* and asks this store's reader for a refresh.
FindsClosed(s) == OpenWriter(s) /\ handle.fenced

\* clear_closed_writer for the store s.
ClearClosedWriter(s) ==
    /\ handle' = NoHandle
    /\ lossGen' = [lossGen EXCEPT ![s] = @ + 1]
    /\ unasked' = unasked \cup (attached \ {s})

Goto(t, step) == op' = [op EXCEPT ![t].at = step]
Continue(t, step, then) == op' = [op EXCEPT ![t].at = step, ![t].then = then]
Return(t, value) == op' = [op EXCEPT ![t].at = "done", ![t].got = value]
Fail(t) == Goto(t, "failed")

\* The two ways a read of s can fall behind a sequence it was shown before: the
\* handle is fenced and SlateDB has not noticed, or it was taken away and the
\* refresh that makes up for it was not asked of this store.
Behind(s) == handle.epoch \in 1 .. epoch - 1 \/ s \in unasked

-----------------------------------------------------------------------------
(* Calls *)

HandleState == <<committed, epoch, rival, handle, closing, owners, openGate, attached, retiring>>
ReaderState == <<reader, lossGen, ackGen, refreshGate, unasked>>

\* A client calls: a causal read with a bookmark first waits for it
\* (wait_for_storage_sequence), one without goes to its snapshot, a strong read
\* refreshes the reader (refresh_storage_sequence).
Begin(t) ==
    /\ Ready(t) /\ Kind(t) # "none"
    /\ \/ /\ Kind(t) = "read"
          /\ \E min \in {0, bookmark} :
                op' = [op EXCEPT ![t].at = IF min = 0 THEN "snapshot" ELSE "sequence",
                                 ![t].min = min, ![t].floor = committed]
       \/ /\ Kind(t) = "strong"
          /\ op' = [op EXCEPT ![t].at = "open", ![t].then = "full", ![t].floor = committed]
    /\ UNCHANGED <<setup, HandleState, ReaderState, bookmark>>

\* durable_sequence at the start of wait_for_storage_sequence, or after a
\* mutation (ClientQueryService::bookmark_after): the handle's durable sequence,
\* or the reader's.
DurableSequence(t) ==
    /\ op[t].at \in {"sequence", "mark"}
    /\ LET s == StoreOf(t) IN
       \/ /\ ReadableWriter(s)
          /\ IF op[t].at = "mark"
             THEN Return(t, handle.seq) /\ bookmark' = IF handle.seq > bookmark
                                                       THEN handle.seq ELSE bookmark
             ELSE /\ IF handle.seq >= op[t].min THEN Goto(t, "snapshot")
                                                ELSE Continue(t, "open", "full")
                  /\ UNCHANGED bookmark
          /\ UNCHANGED <<HandleState, ReaderState>>
       \/ /\ FindsClosed(s)
          /\ ClearClosedWriter(s)
          /\ Continue(t, "open", op[t].at)
          /\ UNCHANGED <<committed, epoch, rival, closing, owners, openGate, attached, retiring,
                         reader, ackGen, refreshGate, bookmark>>
       \/ /\ ~OpenWriter(s)
          /\ op' = [op EXCEPT ![t].at = "open", ![t].then = op[t].at,
                              ![t].stale = @ \/ Behind(s)]
          /\ UNCHANGED <<HandleState, ReaderState, bookmark>>
    /\ UNCHANGED setup

\* GraphStore::snapshot: a durable snapshot of the handle if it is readable, else
\* of the reader.
Snapshot(t) ==
    /\ op[t].at = "snapshot"
    /\ LET s == StoreOf(t) IN
       \/ /\ ReadableWriter(s)
          /\ op' = [op EXCEPT ![t].at = "done", ![t].got = handle.seq,
                              ![t].stale = @ \/ Behind(s)]
          /\ UNCHANGED <<HandleState, ReaderState>>
       \/ /\ FindsClosed(s)
          /\ ClearClosedWriter(s)
          /\ Continue(t, "open", "snapshot")
          /\ UNCHANGED <<committed, epoch, rival, closing, owners, openGate, attached, retiring,
                         reader, ackGen, refreshGate>>
       \/ /\ ~OpenWriter(s)
          /\ op' = [op EXCEPT ![t].at = "open", ![t].then = "snapshot",
                              ![t].stale = @ \/ Behind(s)]
          /\ UNCHANGED <<HandleState, ReaderState>>
    /\ UNCHANGED <<setup, bookmark>>

\* open_reader, then the comparison of generations at the top of readable_reader.
\* A cell no writer ever opened has no database and reads as empty.
OpenReader(t) ==
    /\ op[t].at = "open"
    /\ LET s == StoreOf(t)
           full == op[t].then = "full" IN
       IF s \in retiring THEN Fail(t) /\ UNCHANGED reader
       ELSE IF epoch = 0 THEN /\ IF full THEN Continue(t, "open", "snapshot") ELSE Return(t, 0)
                              /\ UNCHANGED reader
       ELSE /\ reader' = IF reader[s].open THEN reader
                         ELSE [reader EXCEPT ![s] = [open |-> TRUE, seq |-> committed]]
            /\ Goto(t, IF ~full /\ lossGen[s] = ackGen[s] THEN "use" ELSE "lock")
    /\ UNCHANGED <<setup, HandleState, lossGen, ackGen, refreshGate, unasked, bookmark>>

\* The reader_refresh_gate.
LockRefresh(t) ==
    /\ op[t].at = "lock" /\ refreshGate[StoreOf(t)] = Free
    /\ refreshGate' = [refreshGate EXCEPT ![StoreOf(t)] = t]
    /\ Goto(t, "loop")
    /\ UNCHANGED <<setup, HandleState, reader, lossGen, ackGen, unasked, bookmark>>

\* Mutant: refresh_durable_reader returns without a refresh when no generation is
\* outstanding, as readable_reader does.
RefreshLoopLazily(t) ==
    /\ op[t].at = "loop"
    /\ LET s == StoreOf(t) IN
       IF lossGen[s] = ackGen[s]
       THEN /\ refreshGate' = [refreshGate EXCEPT ![s] = Free]
            /\ Goto(t, "use")
       ELSE /\ op' = [op EXCEPT ![t].at = "pull", ![t].need = lossGen[s]]
            /\ UNCHANGED refreshGate
    /\ UNCHANGED <<setup, HandleState, reader, lossGen, ackGen, unasked, bookmark>>

\* The generation this refresh answers is read before the refresh: one that
\* arrives meanwhile is not acknowledged by it.  refresh_durable_reader always
\* refreshes, readable_reader only while a generation is unacknowledged.
RefreshLoop(t) ==
    /\ op[t].at = "loop"
    /\ LET s == StoreOf(t) IN
       IF op[t].then # "full" /\ lossGen[s] = ackGen[s]
       THEN /\ refreshGate' = [refreshGate EXCEPT ![s] = Free]
            /\ Goto(t, "use")
       ELSE /\ op' = [op EXCEPT ![t].at = "pull", ![t].need = lossGen[s]]
            /\ UNCHANGED refreshGate
    /\ UNCHANGED <<setup, HandleState, reader, lossGen, ackGen, unasked, bookmark>>

\* DbReader::refresh reads the manifest at some moment while it runs.
ReadManifest(t) ==
    /\ op[t].at = "pull" /\ reader[StoreOf(t)].open
    /\ op' = [op EXCEPT ![t].at = "pulled", ![t].got = committed]
    /\ UNCHANGED <<setup, HandleState, ReaderState, bookmark>>

\* The generation a finished refresh acknowledges: the one read before it.
Acknowledged(t) == op[t].need

\* DbReader::refresh returns.  refresh_durable_reader goes round again when the
\* writer was lost meanwhile.
Refreshed(t) ==
    /\ op[t].at = "pulled" /\ reader[StoreOf(t)].open
    /\ LET s == StoreOf(t) IN
       /\ reader' = [reader EXCEPT ![s].seq = IF op[t].got > @ THEN op[t].got ELSE @]
       /\ unasked' = IF op[t].got = committed THEN unasked \ {s} ELSE unasked
       /\ ackGen' = [ackGen EXCEPT ![s] = Acknowledged(t)]
       /\ IF op[t].then = "full" /\ lossGen[s] = op[t].need
          THEN /\ refreshGate' = [refreshGate EXCEPT ![s] = Free]
               /\ Goto(t, "use")
          ELSE Goto(t, "loop") /\ UNCHANGED refreshGate
    /\ UNCHANGED <<setup, HandleState, lossGen, bookmark>>

\* DbReader::refresh fails, as it does once the store has closed its reader: the
\* error is returned and the gate released.
RefreshFails(t) ==
    /\ op[t].at \in {"pull", "pulled"} /\ (setup.faults \/ ~reader[StoreOf(t)].open)
    /\ refreshGate' = [refreshGate EXCEPT ![StoreOf(t)] = Free]
    /\ Fail(t)
    /\ UNCHANGED <<setup, HandleState, reader, lossGen, ackGen, unasked, bookmark>>

\* The reader is used: for the sequence a bookmark or a mutation asks about, for
\* the snapshot of a causal read, or by refresh_durable_reader, after which a
\* causal read takes its snapshot from the handle again and a strong one from the
\* reader (reader_snapshot).  A bookmark still ahead is waited for in a loop.
UseReader(t) ==
    /\ op[t].at = "use"
    /\ LET s == StoreOf(t)
           then == op[t].then IN
       IF ~reader[s].open THEN Fail(t) /\ UNCHANGED bookmark
       ELSE IF then = "mark"
       THEN /\ Return(t, reader[s].seq)
            /\ bookmark' = IF reader[s].seq > bookmark THEN reader[s].seq ELSE bookmark
       ELSE /\ IF then = "snapshot" THEN Return(t, reader[s].seq)
               ELSE IF reader[s].seq < op[t].min THEN Continue(t, "open", "full")
               ELSE IF Kind(t) = "strong" THEN Continue(t, "open", "snapshot")
               ELSE Goto(t, "snapshot")
            /\ UNCHANGED bookmark
    /\ UNCHANGED <<setup, HandleState, ReaderState>>

-----------------------------------------------------------------------------
(* Writes and the writer handle *)

\* A mutation commits through the handle; a fenced handle refuses it, and
\* SlateDB closes the handle.
CommitStarts(t) ==
    /\ Ready(t) /\ Kind(t) = "write" /\ committed < MaxSeq
    /\ LET s == StoreOf(t) IN
       \/ /\ ~OpenWriter(s)
          /\ Fail(t) /\ UNCHANGED <<committed, handle>>
       \/ /\ OpenWriter(s) /\ handle.epoch = epoch /\ ~handle.fenced
          /\ committed' = committed + 1
          /\ handle' = [handle EXCEPT !.seq = committed + 1]
          /\ op' = [op EXCEPT ![t].at = "mark", ![t].floor = committed + 1]
       \/ /\ OpenWriter(s) /\ (handle.epoch < epoch \/ handle.fenced)
          /\ handle' = [handle EXCEPT !.fenced = TRUE]
          /\ Fail(t) /\ UNCHANGED committed
    /\ UNCHANGED <<setup, epoch, rival, closing, owners, openGate, attached, retiring,
                   ReaderState, bookmark>>

\* promote_writer, retire_writer and refresh_writer_fence queue on open_gate;
\* promote_writer returns at once when there is a writer or the store retires.
BeginGated(t) ==
    /\ Ready(t) /\ Kind(t) \in {"promote", "retire", "fence"}
    /\ IF Kind(t) = "promote" /\ StoreOf(t) \in retiring THEN Fail(t)
       ELSE IF Kind(t) = "promote" /\ OpenWriter(StoreOf(t)) THEN Goto(t, "done")
       ELSE Goto(t, "gate")
    /\ UNCHANGED <<setup, HandleState, ReaderState, bookmark>>

\* Mutant: only the handle is looked at again.
PromoteLockedRetiring(t) ==
    /\ op[t].at = "gate" /\ Kind(t) = "promote" /\ openGate = Free
    /\ IF OpenWriter(StoreOf(t)) THEN Goto(t, "done") /\ UNCHANGED openGate
       ELSE Goto(t, "install") /\ openGate' = t
    /\ UNCHANGED <<setup, committed, epoch, rival, handle, closing, owners, attached, retiring,
                   ReaderState, bookmark>>

\* promote_writer_owned once it holds the gate: the store and the handle are
\* looked at again before a writer is opened.
PromoteLocked(t) ==
    /\ op[t].at = "gate" /\ Kind(t) = "promote" /\ openGate = Free
    /\ IF StoreOf(t) \in retiring THEN Fail(t) /\ UNCHANGED openGate
       ELSE IF OpenWriter(StoreOf(t)) THEN Goto(t, "done") /\ UNCHANGED openGate
       ELSE Goto(t, "install") /\ openGate' = t
    /\ UNCHANGED <<setup, committed, epoch, rival, handle, closing, owners, attached, retiring,
                   ReaderState, bookmark>>

\* install_writer: open_graph_db takes the next epoch and fences every earlier
\* handle, and the new handle is stored.
InstallWriter(t) ==
    /\ op[t].at = "install" /\ epoch < MaxEpoch
    /\ epoch' = epoch + 1
    /\ handle' = [epoch |-> epoch + 1, seq |-> committed, fenced |-> FALSE]
    /\ openGate' = Free
    /\ Goto(t, "done")
    /\ UNCHANGED <<setup, committed, rival, closing, owners, attached, retiring, ReaderState,
                   bookmark>>

\* Mutant: the open fails and the gate stays taken.
OpenFailsLocked(t) ==
    /\ op[t].at = "install" /\ (setup.faults \/ epoch = MaxEpoch)
    /\ Fail(t)
    /\ UNCHANGED <<setup, HandleState, ReaderState, bookmark>>

\* The open fails and the gate is released.
OpenFails(t) ==
    /\ op[t].at = "install" /\ (setup.faults \/ epoch = MaxEpoch)
    /\ openGate' = Free
    /\ Fail(t)
    /\ UNCHANGED <<setup, committed, epoch, rival, handle, closing, owners, attached, retiring,
                   ReaderState, bookmark>>

\* refresh_writer_fence: under the gate the manifest is read; a fenced handle is
\* dropped and the error returned.
CheckFence(t) ==
    /\ op[t].at = "gate" /\ Kind(t) = "fence" /\ openGate = Free
    /\ LET s == StoreOf(t) IN
       IF OpenWriter(s) /\ handle.epoch < epoch
       THEN ClearClosedWriter(s) /\ Fail(t)
       ELSE /\ Goto(t, IF OpenWriter(s) THEN "done" ELSE "failed")
            /\ UNCHANGED <<handle, lossGen, unasked>>
    /\ UNCHANGED <<setup, committed, epoch, rival, closing, owners, openGate, attached, retiring,
                   reader, ackGen, refreshGate, bookmark>>

\* ProcessWriterState::retire_writer: under the gate the state is closing and the
\* handle is taken, then closed.
RetireLocked(t) ==
    /\ op[t].at = "gate" /\ Kind(t) = "retire" /\ openGate = Free
    /\ openGate' = t /\ closing' = TRUE
    /\ op' = [op EXCEPT ![t].at = "drain", ![t].got = handle.epoch]
    /\ handle' = NoHandle
    /\ unasked' = IF handle = NoHandle THEN unasked ELSE unasked \cup attached
    /\ UNCHANGED <<setup, committed, epoch, rival, owners, attached, retiring, reader, lossGen,
                   ackGen, refreshGate, bookmark>>

\* Db::close returns.  GraphStore::retire_writer asks this store's reader for a
\* refresh only if there was a writer and it closed without an error.
Retired(t) ==
    /\ op[t].at = "drain" /\ Kind(t) = "retire"
    /\ openGate' = Free /\ closing' = FALSE
    /\ \/ /\ lossGen' = IF op[t].got = 0 THEN lossGen
                        ELSE [lossGen EXCEPT ![StoreOf(t)] = @ + 1]
          /\ unasked' = IF op[t].got = 0 THEN unasked ELSE unasked \ {StoreOf(t)}
          /\ Goto(t, "done")
       \/ /\ setup.faults /\ op[t].got # 0 /\ Fail(t)
          /\ UNCHANGED <<lossGen, unasked>>
    /\ UNCHANGED <<setup, committed, epoch, rival, handle, owners, attached, retiring,
                   reader, ackGen, refreshGate, bookmark>>

-----------------------------------------------------------------------------
(* Opening and closing a store *)

\* GraphStore::lazy joins the process's writer state (process_writer_state).
Attach(s) ==
    /\ s \in setup.late /\ s \notin attached /\ s \notin retiring
    /\ attached' = attached \cup {s} /\ owners' = owners + 1
    /\ UNCHANGED <<setup, committed, epoch, rival, handle, closing, openGate, retiring,
                   ReaderState, op, bookmark>>

\* GraphStore::close: the store retires and drops its reader; the last owner
\* marks the state closing (begin_release) and leaves the close to a task.
CloseStore(t) ==
    /\ Ready(t) /\ Kind(t) = "close"
    /\ LET s == StoreOf(t)
           final == s \in attached /\ owners = 1 IN
       /\ retiring' = retiring \cup {s}
       /\ reader' = [reader EXCEPT ![s] = NoReader]
       /\ attached' = attached \ {s}
       /\ owners' = IF s \in attached THEN owners - 1 ELSE owners
       /\ closing' = (closing \/ final)
       /\ Goto(t, IF final THEN "gate" ELSE "done")
    /\ UNCHANGED <<setup, committed, epoch, rival, handle, openGate, lossGen, ackGen, refreshGate,
                   unasked, bookmark>>

\* close_final_owner_writer takes and closes the handle it finds.
ReleaseLocked(t) ==
    /\ op[t].at = "gate" /\ Kind(t) = "close" /\ openGate = Free
    /\ openGate' = t /\ handle' = NoHandle
    /\ unasked' = IF handle = NoHandle THEN unasked ELSE unasked \cup attached
    /\ Goto(t, "drain")
    /\ UNCHANGED <<setup, committed, epoch, rival, closing, owners, attached, retiring, reader,
                   lossGen, ackGen, refreshGate, bookmark>>

Released(t) ==
    /\ op[t].at = "drain" /\ Kind(t) = "close"
    /\ openGate' = Free /\ closing' = FALSE
    /\ Goto(t, "done")
    /\ UNCHANGED <<setup, committed, epoch, rival, handle, owners, attached, retiring, ReaderState,
                   bookmark>>

-----------------------------------------------------------------------------
(* SlateDB and the other node (external) *)

\* The other node opens the cell's writer, which fences this node's handle.
RivalOpens ==
    /\ setup.rival /\ epoch < MaxEpoch /\ rival # epoch
    /\ epoch' = epoch + 1 /\ rival' = epoch + 1
    /\ UNCHANGED <<setup, committed, handle, closing, owners, openGate, attached, retiring,
                   ReaderState, op, bookmark>>

\* It commits, and its client carries the bookmark to this node.
RivalCommits ==
    /\ rival = epoch /\ rival # 0 /\ committed < MaxSeq
    /\ committed' = committed + 1 /\ bookmark' = committed + 1
    /\ UNCHANGED <<setup, epoch, rival, handle, closing, owners, openGate, attached, retiring,
                   ReaderState, op>>

\* SlateDB's manifest poll closes a fenced handle.
NoticeFence ==
    /\ handle # NoHandle /\ handle.epoch < epoch /\ ~handle.fenced
    /\ handle' = [handle EXCEPT !.fenced = TRUE]
    /\ UNCHANGED <<setup, committed, epoch, rival, closing, owners, openGate, attached, retiring,
                   ReaderState, op, bookmark>>

\* A DbReader polls the manifest by itself.
ReaderPolls(s) ==
    /\ setup.polls /\ reader[s].open /\ reader[s].seq < committed
    /\ reader' = [reader EXCEPT ![s].seq = committed]
    /\ unasked' = unasked \ {s}
    /\ UNCHANGED <<setup, HandleState, lossGen, ackGen, refreshGate, op, bookmark>>

-----------------------------------------------------------------------------
StoreInit ==
    /\ setup \in Setups
    /\ epoch \in {0, 1} /\ (epoch = 0 => ~setup.writer)
    /\ committed = epoch /\ rival = 0 /\ bookmark = epoch /\ unasked = {}
    /\ handle = IF setup.writer THEN [epoch |-> 1, seq |-> 1, fenced |-> FALSE] ELSE NoHandle
    /\ closing = FALSE /\ openGate = Free
    /\ attached = Stores \ setup.late /\ owners = Cardinality(Stores \ setup.late)
    /\ retiring = {}
    /\ reader = [s \in Stores |-> IF s \in setup.late \/ epoch = 0 THEN NoReader
                                  ELSE [open |-> TRUE, seq |-> 0]]
    /\ lossGen = [s \in Stores |-> 0] /\ ackGen = [s \in Stores |-> 0]
    /\ refreshGate = [s \in Stores |-> Free]
    /\ op = [t \in Callers |-> NotCalled]

CallStep(t) ==
    \/ Begin(t) \/ DurableSequence(t) \/ Snapshot(t) \/ OpenReader(t) \/ LockRefresh(t)
    \/ RefreshLoop(t) \/ ReadManifest(t) \/ Refreshed(t) \/ RefreshFails(t) \/ UseReader(t)
    \/ CommitStarts(t) \/ BeginGated(t) \/ PromoteLocked(t) \/ InstallWriter(t) \/ OpenFails(t)
    \/ CheckFence(t) \/ RetireLocked(t) \/ Retired(t)
    \/ CloseStore(t) \/ ReleaseLocked(t) \/ Released(t)

StoreNext ==
    \/ \E t \in Callers : CallStep(t)
    \/ \E s \in Stores : Attach(s) \/ ReaderPolls(s)
    \/ RivalOpens \/ RivalCommits \/ NoticeFence

\* A call that was started goes on: the runtime polls ready tasks and SlateDB
\* answers.
CallProgress(t) ==
    \/ DurableSequence(t) \/ Snapshot(t) \/ OpenReader(t) \/ LockRefresh(t)
    \/ RefreshLoop(t) \/ ReadManifest(t) \/ Refreshed(t) \/ UseReader(t)
    \/ PromoteLocked(t) \/ InstallWriter(t) \/ OpenFails(t) \/ CheckFence(t) \/ RetireLocked(t)
    \/ Retired(t) \/ ReleaseLocked(t) \/ Released(t)

StoreFairness == \A t \in Callers : WF_storeVars(CallProgress(t))
StoreSpec == StoreInit /\ [][StoreNext]_storeVars /\ StoreFairness

-----------------------------------------------------------------------------
(* Properties *)

\* The type of the state, and that the owner count is the number of stores that
\* joined the process's writer state and have not released it.
StoreTypeOK ==
    /\ committed \in 0 .. MaxSeq /\ epoch \in 0 .. MaxEpoch /\ rival \in 0 .. epoch
    /\ handle = NoHandle \/ handle \in [epoch : 1 .. epoch, seq : 0 .. committed, fenced : BOOLEAN]
    /\ closing \in BOOLEAN /\ openGate \in Callers \cup {Free}
    /\ attached \subseteq Stores /\ retiring \subseteq Stores /\ unasked \subseteq Stores
    /\ owners = Cardinality(attached)
    /\ reader \in [Stores -> [open : BOOLEAN, seq : 0 .. committed]]
    /\ \A s \in Stores : ackGen[s] \in 0 .. lossGen[s] /\ refreshGate[s] \in Callers \cup {Free}
    /\ bookmark \in 0 .. committed
    /\ \A t \in Callers : op[t].at \in Steps /\ op[t].then \in Uses /\ op[t].min \in 0 .. committed

Settled(t) == op[t].at \in {"idle", "done", "failed"}

\* A strong read (refresh_storage_sequence, then reader_snapshot) observes every
\* write that was durable when it was called, on any node and however refreshes,
\* promotions and retirements interleave with it.
StrongReadIsFresh ==
    \A t \in Callers : Kind(t) = "strong" /\ op[t].at = "done" => op[t].got >= op[t].floor

\* A causal read falls below its bookmark, and a mutation's bookmark below the
\* mutation, only while this node's handle is fenced and nobody has noticed, or
\* after the handle was taken from a store whose reader was not asked to refresh.
\* A store that loses the handle by noticing it closed always catches up first.
BehindOnlyIfUnasked ==
    \A t \in Callers :
        op[t].at = "done" =>
            /\ Kind(t) = "read" /\ op[t].got < op[t].min => op[t].stale
            /\ Kind(t) = "write" /\ op[t].got < op[t].floor => op[t].stale

\* What the documentation promises of every causal read with a bookmark.
CausalHonoursBookmark ==
    \A t \in Callers : Kind(t) = "read" /\ op[t].at = "done" => op[t].got >= op[t].min

\* When the last store has released the writer state and every call has ended,
\* no writer handle is left open and nobody is told the state is closing, even
\* when a promotion was under way (spawn_writer_promotion is detached).
NoWriterLeftOpen ==
    owners = 0 /\ (\A t \in Callers : Settled(t)) => handle = NoHandle /\ ~closing

\* Every call that has started returns: the open gate, the refresh gate and the
\* wait for a bookmark never block one another for good.
EveryCallReturns == \A t \in Callers : ~Settled(t) ~> Settled(t)

\* No read is behind what its caller may rely on, except where nobody could tell.
ReadsAreFresh == StrongReadIsFresh /\ BehindOnlyIfUnasked

\* The writer state is owned by exactly the stores that joined it, and goes with
\* the last of them.
WriterIsOwned == StoreTypeOK /\ NoWriterLeftOpen
=============================================================================
