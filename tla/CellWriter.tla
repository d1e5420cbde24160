----------------------------- MODULE CellWriter -----------------------------
(***************************************************************************)
(* The write path of one cell (hydradb/src/engine/cluster.rs and           *)
(* core/state.rs): a routed write asks rendezvous placement, paces a       *)
(* re-open after a fence, takes the durable lease, opens the SlateDB       *)
(* writer, checks that the lease outlived the opening, and commits.        *)
(*                                                                         *)
(* It composes the lease directory of WriterLease with the process's       *)
(* writer handle and SlateDB's writer epoch.  The placement answer is an   *)
(* input here; module Placement models how it is computed.                 *)
(***************************************************************************)
EXTENDS WriterLease, Sequences

CONSTANTS
  Requests,    \* the tasks that serve writes
  Renewers,    \* the tasks that renew leases
  Interval,    \* the heartbeat interval: the wait after a fence and its cap
  Floor,       \* FENCE_BACKOFF_FLOOR
  Ceiling,     \* MAX_FENCE_BACKOFF
  Faults,      \* what goes wrong in this instance
  MaxFaults,   \* bound: how often something goes wrong
  MaxEpoch,    \* bound: openings of the writer
  MaxCommits   \* bound: commits

ASSUME CellAssumption ==
  /\ Requests \subseteq Tasks /\ Renewers \subseteq Tasks
  /\ Faults \subseteq {"open", "store", "crash", "cancel"}
  /\ Interval \in Nat /\ Floor \in Nat \ {0} /\ Ceiling \in Nat

VARIABLES
  pc,         \* where each request is in ensure_local_writer
  spawned,    \* the detached promotion a request started
  gate,       \* open_gate: the promotion that holds it, and the epoch it took
  handle,     \* the epoch of the open writer handle of a process, or 0
  notBefore,  \* WriterReopenGate
  backoff,
  openers,    \* SlateDB's manifest: openers[e] took epoch e
  log,        \* what was committed
  record,     \* the advisory cell-writer record
  faults      \* how often something went wrong

cellVars == <<pc, spawned, gate, handle, notBefore, backoff, openers, log, record, faults>>
vars == <<leaseVars, cellVars>>

Epoch == Len(openers)
NoGate == [task |-> "none", epoch |-> 0]
NoRecord == [proc |-> "none", epoch |-> 0]

Init ==
  /\ LeaseInit
  /\ pc = [t \in Requests |-> "idle"]
  /\ spawned = [t \in Requests |-> "none"]
  /\ gate = [p \in Procs |-> NoGate]
  /\ handle = [p \in Procs |-> 0]
  /\ notBefore = [p \in Procs |-> 0]
  /\ backoff = [p \in Procs |-> Floor]
  /\ openers = <<>> /\ log = <<>> /\ record = NoRecord /\ faults = 0

-----------------------------------------------------------------------------
\* Something goes wrong, of a kind this instance allows.
Fault(kind) ==
  /\ kind \in Faults /\ faults < MaxFaults
  /\ faults' = faults + 1

\* WriterReopenGate: a fence waits one interval and resets the ladder, a failed
\* open climbs it, an opened writer clears it.
NoteFence(p) ==
  /\ backoff' = [backoff EXCEPT ![p] = Floor]
  /\ notBefore' = [notBefore EXCEPT ![p] = now + Interval]

NoteFailure(p) ==
  LET wait == IF 2 * backoff[p] <= Ceiling THEN 2 * backoff[p] ELSE Ceiling
  IN  /\ backoff' = [backoff EXCEPT ![p] = wait]
      /\ notBefore' = [notBefore EXCEPT ![p] = now + wait]

NoteSuccess(p) ==
  /\ backoff' = [backoff EXCEPT ![p] = Floor]
  /\ notBefore' = [notBefore EXCEPT ![p] = 0]

\* The start of ensure_local_writer: whoever holds a valid or parked lease may go
\* on, anyone else only where placement selects this node.
MayContend(p, ownership) ==
  HoldsValidLocal(p) \/ HoldsAbandonedLocal(p) \/ ownership \in {"Local", "Unowned"}

ReopenDelay(p) ==
  IF handle[p] # 0 \/ notBefore[p] <= now THEN 0 ELSE notBefore[p] - now

\* A write is refused by placement (NotCellWriter), or by a re-open delay longer
\* than one interval (AdmissionRejected).  An expired parked lease is forgotten.
RefuseWrite(t, ownership) ==
  LET p == ProcOf[t]
  IN  /\ p \in up /\ users[p] > 0 /\ pc[t] = "idle" /\ call[t].pc = "idle"
      /\ ~MayContend(p, ownership) \/ ReopenDelay(p) > Interval
      /\ abandoned[p] # NoLocal /\ ~HoldsValidLocal(p) /\ ~HoldsAbandonedLocal(p)
      /\ abandoned' = [abandoned EXCEPT ![p] = NoLocal]
      /\ UNCHANGED <<up, now, stored, local, users, observed, call, releases>>
      /\ UNCHANGED cellVars

\* It sleeps until the re-open gate opens, or goes on to acquire_or_renew.
EnsureLocalWriter(t, ownership) ==
  LET p == ProcOf[t]
  IN  /\ p \in up /\ users[p] > 0 /\ pc[t] = "idle" /\ spawned[t] = "none"
      /\ MayContend(p, ownership)
      /\ \/ /\ ReopenDelay(p) = 0 /\ StartAcquire(t)
            /\ pc' = [pc EXCEPT ![t] = "leasing"]
         \/ /\ ReopenDelay(p) \in 1..Interval /\ call[t].pc = "idle"
            /\ pc' = [pc EXCEPT ![t] = "sleep"]
            /\ UNCHANGED leaseVars
      /\ UNCHANGED <<spawned, gate, handle, notBefore, backoff, openers, log, record, faults>>

AwaitWriterReopen(t) ==
  /\ pc[t] = "sleep" /\ now >= notBefore[ProcOf[t]]
  /\ StartAcquire(t)
  /\ pc' = [pc EXCEPT ![t] = "leasing"]
  /\ UNCHANGED <<spawned, gate, handle, notBefore, backoff, openers, log, record, faults>>

\* With the lease, promote_to_writer: an open writer is enough; otherwise a
\* detached task opens one, so a cancelled request strands no half-open writer.
PromoteToWriter(t) ==
  LET open == handle[ProcOf[t]] # 0
  IN  /\ pc[t] = "leasing" /\ call[t].pc = "done" /\ Return(t)
      /\ pc' = [pc EXCEPT ![t] = IF open THEN "check" ELSE "opening"]
      /\ spawned' = IF open THEN spawned ELSE [spawned EXCEPT ![t] = "queued"]
      /\ UNCHANGED <<gate, handle, notBefore, backoff, openers, log, record, faults>>

LeaseRefused(t) ==
  /\ pc[t] = "leasing" /\ call[t].pc = "failed" /\ Return(t)
  /\ pc' = [pc EXCEPT ![t] = "idle"]
  /\ UNCHANGED <<spawned, gate, handle, notBefore, backoff, openers, log, record, faults>>

\* promote_writer_owned under open_gate: somebody else may have opened the writer
\* meanwhile; if not, SlateDB takes the next epoch.
OpenWriter(t) ==
  LET p == ProcOf[t]
  IN  /\ spawned[t] = "queued" /\ gate[p] = NoGate /\ p \in up
      /\ IF handle[p] # 0
           THEN /\ spawned' = [spawned EXCEPT ![t] = "ok"]
                /\ UNCHANGED <<gate, openers>>
           ELSE /\ Epoch < MaxEpoch
                /\ openers' = Append(openers, p)
                /\ spawned' = [spawned EXCEPT ![t] = "opened"]
                /\ gate' = [gate EXCEPT ![p] = [task |-> t, epoch |-> Epoch + 1]]
      /\ UNCHANGED <<leaseVars, pc, handle, notBefore, backoff, log, record, faults>>

\* install_writer: the opened handle becomes the process's writer.
InstallWriter(t) ==
  LET p == ProcOf[t]
  IN  /\ gate[p].task = t /\ p \in up
      /\ handle' = [handle EXCEPT ![p] = gate[p].epoch]
      /\ spawned' = [spawned EXCEPT ![t] = "ok"]
      /\ gate' = [gate EXCEPT ![p] = NoGate]
      /\ NoteSuccess(p)
      /\ UNCHANGED <<leaseVars, pc, openers, log, record, faults>>

OpenFailed(t) ==
  LET p == ProcOf[t]
  IN  /\ Fault("open")
      /\ spawned[t] = "queued" /\ gate[p] = NoGate /\ p \in up /\ handle[p] = 0
      /\ spawned' = [spawned EXCEPT ![t] = "error"]
      /\ NoteFailure(p)
      /\ UNCHANGED <<leaseVars, pc, gate, handle, openers, log, record>>

\* A failed promotion gives the lease back.
PromotionFailed(t) ==
  /\ pc[t] = "opening" /\ spawned[t] = "error"
  /\ StartRelease(t)
  /\ pc' = [pc EXCEPT ![t] = "releasing"]
  /\ spawned' = [spawned EXCEPT ![t] = "none"]
  /\ UNCHANGED <<gate, handle, notBefore, backoff, openers, log, record, faults>>

LeaseReleased(t) ==
  /\ pc[t] \in {"releasing", "closing"} /\ Return(t)
  /\ pc' = [pc EXCEPT ![t] = "idle"]
  /\ UNCHANGED <<spawned, gate, handle, notBefore, backoff, openers, log, record, faults>>

Advertised(p) == [proc |-> p, epoch |-> handle[p]]

\* The opening may have outlived the lease: then the writer is retired and the
\* write refused.  A new writer is written down in the advisory record.
CheckLease(t) ==
  LET p == ProcOf[t]
      opened == pc[t] = "opening" /\ spawned[t] = "ok"
  IN  /\ pc[t] = "check" \/ opened
      /\ p \in up
      /\ spawned' = IF opened THEN [spawned EXCEPT ![t] = "none"] ELSE spawned
      /\ IF HoldsValidLocal(p)
           THEN /\ pc' = [pc EXCEPT ![t] = "commit"]
                /\ record' = IF opened /\ handle[p] # 0
                               THEN Advertised(p) ELSE record
                /\ UNCHANGED handle
           ELSE /\ gate[p] = NoGate
                /\ handle' = [handle EXCEPT ![p] = 0]
                /\ pc' = [pc EXCEPT ![t] = "idle"]
                /\ UNCHANGED record
      /\ UNCHANGED <<leaseVars, gate, notBefore, backoff, openers, log, faults>>

\* Mutant: a write does not look for a later epoch.
NeverFenced(p) == FALSE

\* refresh_writer_fence: somebody else opened the cell's writer since.
IsFenced(p) == handle[p] # Epoch

\* The shard's write: refresh_writer_fence and the SlateDB transaction.  A fenced
\* handle is dropped and arms the re-open gate; nothing is promoted here.
Commit(t) ==
  LET p == ProcOf[t]
  IN  /\ pc[t] = "commit" /\ p \in up
      /\ pc' = [pc EXCEPT ![t] = "idle"]
      /\ \/ /\ handle[p] = 0  \* ReadOnlyShardStorage
            /\ UNCHANGED <<handle, notBefore, backoff, log>>
         \/ /\ handle[p] # 0 /\ ~IsFenced(p)
            /\ Len(log) < MaxCommits
            /\ log' = Append(log, [proc |-> p, epoch |-> handle[p]])
            /\ UNCHANGED <<handle, notBefore, backoff>>
         \/ /\ handle[p] # 0 /\ IsFenced(p)
            /\ gate[p] = NoGate
            /\ handle' = [handle EXCEPT ![p] = 0]
            /\ NoteFence(p)
            /\ UNCHANGED log
      /\ UNCHANGED <<leaseVars, spawned, gate, openers, record, faults>>

\* A timed-out request is dropped at an await.
Cancel(t) ==
  /\ Fault("cancel")
  /\ pc[t] \in {"sleep", "leasing", "opening", "releasing"} /\ call[t].pc # "write"
  /\ pc' = [pc EXCEPT ![t] = "idle"]
  /\ call' = [call EXCEPT ![t] = Idle]
  /\ spawned' = [spawned EXCEPT ![t] = IF @ \in {"ok", "error"} THEN "none" ELSE @]
  /\ UNCHANGED <<up, now, stored, local, abandoned, users, observed, releases, gate,
                 handle, notBefore, backoff, openers, log, record>>

\* A detached promotion nobody waits for any more ends.
SpawnEnds(t) ==
  /\ pc[t] # "opening" /\ spawned[t] \in {"ok", "error"}
  /\ spawned' = [spawned EXCEPT ![t] = "none"]
  /\ UNCHANGED <<leaseVars, pc, gate, handle, notBefore, backoff, openers, log, record, faults>>

-----------------------------------------------------------------------------
\* renew_writer_leases: every held lease is renewed; one whose ownership is lost
\* takes its writer with it, if the scope is still open.
Renew(t) ==
  /\ t \in Requests => pc[t] = "idle"
  /\ StartRenew(t)
  /\ UNCHANGED cellVars

Renewed(t) ==
  LET p == ProcOf[t]
      retire == call[t].pc = "lost" /\ users[p] > 0
  IN  /\ call[t].op = "renew" /\ Return(t)
      /\ retire => gate[p] = NoGate
      /\ handle' = IF retire THEN [handle EXCEPT ![p] = 0] ELSE handle
      /\ UNCHANGED <<pc, spawned, gate, notBefore, backoff, openers, log, record, faults>>

Unused(p) == \A t \in Requests : ProcOf[t] = p => pc[t] = "idle" /\ call[t].pc = "idle"

OpenCluster(p) == RegisterScope(p) /\ UNCHANGED cellVars

\* retire_unowned_writers: an idle cluster whose writer has no valid lease is
\* closed, and its lease released.
RetireUnownedWriter(t) ==
  LET p == ProcOf[t]
  IN  /\ users[p] > 0 /\ handle[p] # 0 /\ ~HoldsValidLocal(p)
      /\ Unused(p) /\ gate[p] = NoGate
      /\ handle' = [handle EXCEPT ![p] = 0]
      /\ ReleaseScope(t)
      /\ pc' = [pc EXCEPT ![t] = "closing"]
      /\ UNCHANGED <<spawned, gate, notBefore, backoff, openers, log, record, faults>>

\* close_for_eviction: the writer is closed, the lease parked.
EvictCluster(p) ==
  /\ users[p] > 0 /\ Unused(p) /\ gate[p] = NoGate
  /\ handle' = [handle EXCEPT ![p] = 0]
  /\ AbandonScope(p)
  /\ UNCHANGED <<pc, spawned, gate, notBefore, backoff, openers, log, record, faults>>

CrashProcess(p) ==
  /\ Fault("crash") /\ Crash(p)
  /\ pc' = [t \in Requests |-> IF ProcOf[t] = p THEN "idle" ELSE pc[t]]
  /\ spawned' = [t \in Requests |-> IF ProcOf[t] = p THEN "none" ELSE spawned[t]]
  /\ gate' = [gate EXCEPT ![p] = NoGate]
  /\ handle' = [handle EXCEPT ![p] = 0]
  /\ UNCHANGED <<notBefore, backoff, openers, log, record>>

DirectoryStep(t) == LeaseStep(t) /\ UNCHANGED cellVars

DirectoryError(t) ==
  /\ Fault("store") /\ StoreError(t)
  /\ UNCHANGED <<pc, spawned, gate, handle, notBefore, backoff, openers, log, record>>

Time == Tick /\ UNCHANGED cellVars

RequestStep(t) ==
  \/ \E own \in {"Local", "Remote", "Unowned", "Unknown"} :
       RefuseWrite(t, own) \/ EnsureLocalWriter(t, own)
  \/ AwaitWriterReopen(t) \/ PromoteToWriter(t) \/ LeaseRefused(t)
  \/ OpenWriter(t) \/ InstallWriter(t) \/ OpenFailed(t) \/ PromotionFailed(t)
  \/ LeaseReleased(t) \/ CheckLease(t) \/ Commit(t) \/ Cancel(t) \/ SpawnEnds(t)
  \/ RetireUnownedWriter(t)

Next ==
  \/ \E t \in Requests : RequestStep(t)
  \/ \E t \in Renewers : Renew(t) \/ Renewed(t)
  \/ \E t \in Tasks : DirectoryStep(t) \/ DirectoryError(t)
  \/ \E p \in Procs : OpenCluster(p) \/ EvictCluster(p) \/ CrashProcess(p)
  \/ Time

Spec == Init /\ [][Next]_vars

-----------------------------------------------------------------------------
\* The types of the directory's and of the write path's state.
TypeOK ==
  /\ LeaseTypeOK
  /\ pc \in [Requests -> {"idle", "sleep", "leasing", "opening", "releasing", "closing",
                          "check", "commit"}]
  /\ spawned \in [Requests -> {"none", "queued", "opened", "ok", "error"}]
  /\ gate \in [Procs -> [task : Requests \cup {"none"}, epoch : Nat]]
  /\ handle \in [Procs -> Nat] /\ notBefore \in [Procs -> Nat] /\ backoff \in [Procs -> Nat]
  /\ openers \in Seq(Procs) /\ log \in Seq([proc : Procs, epoch : Nat])
  /\ record \in [proc : Procs \cup {"none"}, epoch : Nat]
  /\ faults \in Nat

\* The valid leases of p, in use or parked.
Holdings(p) == {lease \in {local[p], abandoned[p]} : ValidAt(lease, now)}

\* At most one process may act as the admitted writer: no two hold a lease they
\* believe valid at the same time.
SoleHolder == \A p, q \in Procs : Holdings(p) # {} /\ Holdings(q) # {} => p = q

\* Nobody takes a lease over while its holder believes it valid, unless the
\* holder's own process had released that generation of it: waiting for the
\* durable expiry is enough, whatever the delays of puts and their answers.
TakeoverIsSafe ==
  \A p, q \in Procs : \A a \in Holdings(p), b \in Holdings(q) :
    a.gen < b.gen => p = q \/ a.gen \in releases

\* Two processes never hold leases of the same generation, however their puts,
\* answers, releases and expiries interleave, and nobody holds a generation the
\* object has not reached.
GenerationUnique ==
  \A p, q \in Procs : \A a \in {local[p], abandoned[p]}, b \in {local[q], abandoned[q]} :
    /\ a.gen <= stored.gen
    /\ a # NoLocal /\ b # NoLocal /\ a.gen = b.gen => p = q

\* The generation of the durable lease only grows, across takeovers, releases and
\* crashes.
GenerationNeverDecreases == [][stored'.gen >= stored.gen]_vars

\* An advisory record names the process that really took the epoch it states, so
\* a record above one's own epoch names a process that fenced one.
RecordTruthful == record.epoch > 0 => openers[record.epoch] = record.proc

\* Every commit is by the process that holds the latest epoch.
Fenced == INSTANCE FencedLog WITH Procs <- Procs, openers <- openers, log <- log
FencedSpec == Fenced!Spec
=============================================================================
