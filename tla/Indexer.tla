------------------------------- MODULE Indexer -------------------------------
(***************************************************************************)
(* The scope scheduler of HydraDB's indexer process                        *)
(* (src/hydradb/src/bin/graph-indexer.rs).  One process works through the  *)
(* registered scopes in slices, behind a cursor kept in the object store   *)
(* and shared with other indexers, and keeps a bounded cache of open scope *)
(* readers.  What is built for a scope is the business of GraphIndex; here *)
(* a scope is dirty or not, and its indexing may fail.                     *)
(*                                                                         *)
(* Scopes are numbers in the order in which the registry snapshot is       *)
(* sorted (GraphScope's derived Ord); Name[s] is the rank of the scope's   *)
(* printed name, which the cursor holds and which is compared as a string. *)
(* The two orders differ when one namespace is a prefix of another: '-'    *)
(* and '.' may appear in a namespace and sort before '/'.                  *)
(***************************************************************************)
EXTENDS Integers, Sequences, FiniteSets, SequencesExt

CONSTANTS NScopes,      \* scopes that may be registered
          Name,         \* the rank of each scope's name
          Setups,       \* the settings of a process, the scopes it starts with, and a
                        \* bound on the registrations and writes that follow
          Threshold,    \* readiness_failure_threshold
          MaxFaults     \* bound on failed calls, lost races and restarts

Scopes == 1 .. NScopes

ASSUME IndexerAssumption ==
    /\ NScopes \in Nat /\ Threshold \in Nat \ {0} /\ MaxFaults \in Nat
    /\ Name \in [Scopes -> Nat \ {0}]
    /\ \A s, t \in Scopes : Name[s] = Name[t] => s = t
    /\ \A u \in Setups : /\ u.concurrency >= 1
                         /\ u.perCycle >= u.concurrency
                         /\ u.maxOpen >= u.concurrency
                         /\ u.registered \subseteq Scopes
                         /\ u.maxWrites \in Nat

HotBudgetDivisor == 4   \* HOT_SCOPE_BUDGET_DIVISOR
IdleRechecks == 2       \* HOT_SCOPE_IDLE_RECHECKS

VARIABLES setup,      \* the settings of the process
          content,    \* per scope: unregistered, empty, dirty or indexed
          writes,     \* registrations and writes so far
          stored,     \* the durable cursor: a scope's name, 0 when absent
          raced,      \* whether another indexer wrote it since we loaded it
          schedule,   \* the registry snapshot of the current rotation
          cursor,     \* the cursor the process holds (-1: to be loaded)
          cache,      \* the open scopes: whether hot, and their idle rechecks
          lru,        \* scopes in the order of their last access
          plan,       \* the batches left in this cycle
          flight,     \* the scopes of the current batch and how far they are
          cycle,      \* what the cycle remembers until its end
          health,     \* failed cycles in a row, and the readiness they leave
          faults      \* faults so far

process == <<schedule, cursor, cache, lru, plan, flight, cycle, health>>
vars == <<setup, content, writes, stored, raced, process, faults>>

Unheld == -1

NoCycle == [on |-> FALSE, start |-> 0, ending |-> 0, progressed |-> FALSE, failed |-> FALSE]

Registry == {s \in Scopes : content[s] # "unregistered"}

\* The scopes whose reader somebody besides the cache holds.
InUse == {s \in DOMAIN flight : flight[s] \in {"hit", "miss"}}

Init ==
    /\ setup \in Setups
    /\ content = [s \in Scopes |-> IF s \in setup.registered THEN "dirty" ELSE "unregistered"]
    /\ writes = 0 /\ faults = 0
    /\ stored = 0 /\ raced = FALSE
    /\ schedule = <<>> /\ cursor = Unheld
    /\ cache = <<>> /\ lru = <<>>
    /\ plan = <<>> /\ flight = <<>>
    /\ cycle = NoCycle
    /\ health = [failures |-> 0, ready |-> TRUE]

-----------------------------------------------------------------------------
(* The world around the process.                                           *)

\* A node registers the scope before the first write to it.
Register(s) ==
    /\ writes < setup.maxWrites /\ content[s] = "unregistered"
    /\ writes' = writes + 1
    /\ content' = [content EXCEPT ![s] = "empty"]
    /\ UNCHANGED <<setup, stored, raced, process, faults>>

\* A write that changes the topology of a registered scope.
Write(s) ==
    /\ writes < setup.maxWrites /\ content[s] \in {"empty", "indexed"}
    /\ writes' = writes + 1
    /\ content' = [content EXCEPT ![s] = "dirty"]
    /\ UNCHANGED <<setup, stored, raced, process, faults>>

\* Another indexer advances the shared cursor.
OtherIndexer(s) ==
    /\ faults < MaxFaults /\ s \in Registry
    /\ faults' = faults + 1
    /\ stored' = Name[s]
    /\ raced' = TRUE
    /\ UNCHANGED <<setup, content, writes, process>>

\* The process stops and starts again: only the durable cursor is left.
Restart ==
    /\ faults < MaxFaults
    /\ faults' = faults + 1
    /\ schedule' = <<>> /\ cursor' = Unheld
    /\ cache' = <<>> /\ lru' = <<>>
    /\ plan' = <<>> /\ flight' = <<>>
    /\ cycle' = NoCycle
    /\ health' = [failures |-> 0, ready |-> TRUE]
    /\ UNCHANGED <<setup, content, writes, stored, raced>>

-----------------------------------------------------------------------------
(* Planning a cycle: run_registered_scopes_cycle up to its batches.        *)

Least(a, b) == IF a < b THEN a ELSE b

Most(a, b) == IF a < b THEN b ELSE a

\* The readers re-checked ahead of the fair slice, which keeps at least one place.
HotBudget ==
    IF setup.perCycle = 1 THEN 0
    ELSE Least(Least(Most(setup.perCycle \div HotBudgetDivisor, 1), setup.concurrency),
               setup.perCycle - 1)

\* hot_scopes: the hot scopes of the cache, the last used first.
HotScopes(c) ==
    LET hot == SelectSeq(Reverse(lru), LAMBDA s : s \in DOMAIN c /\ c[s].hot)
    IN SubSeq(hot, 1, Least(HotBudget, Len(hot)))

\* Where slice::binary_search_by ends on the names of a list: exactly the name's
\* place when the names are sorted, some other place when they are not.
BinarySearch(list, name) ==
    LET narrow[size \in 1 .. Len(list)] ==
            [base \in 0 .. Len(list) - 1 |->
                IF size = 1 THEN base
                ELSE LET half == size \div 2
                         mid == base + half
                     IN IF mid >= Len(list) \/ Name[list[mid + 1]] > name
                        THEN narrow[size - half][base]
                        ELSE narrow[size - half][mid]]
    IN narrow[Len(list)][0] + 1

\* Whether the cursor's scope is found among the registered ones.
Found(list, name) == Name[list[BinarySearch(list, name)]] = name

\* Mutant: the slice begins at the scope the cursor stands on.
StartAtCursor(list, name) == IF Found(list, name) THEN BinarySearch(list, name) ELSE 1

\* Where the fair slice begins: after the scope of the cursor, if it is found.
StartIndex(list, name) ==
    IF Found(list, name) THEN (BinarySearch(list, name) % Len(list)) + 1 ELSE 1

\* The next `budget' scopes of the rotation.
FairSlice(list, name, budget) ==
    [i \in 1 .. Least(budget, Len(list)) |->
        list[((StartIndex(list, name) + i - 2) % Len(list)) + 1]]

\* The batches of scopes that run concurrently.
Batches(kind, s) ==
    [i \in 1 .. (Len(s) + setup.concurrency - 1) \div setup.concurrency |->
        [kind |-> kind,
         scopes |-> SubSeq(s, (i - 1) * setup.concurrency + 1,
                           Least(i * setup.concurrency, Len(s)))]]

\* retain_registered: between cycles no reader is in use, so the readers of the
\* scopes that left the registry are closed.
Retained(c) == [s \in DOMAIN c \cap Registry |-> c[s]]

\* record_failed_cycle_readiness, and the reset by a successful cycle.
Judge(failed) ==
    health' = IF failed
              THEN [failures |-> Least(health.failures + 1, Threshold),
                    ready |-> health.ready /\ health.failures + 1 < Threshold]
              ELSE [failures |-> 0, ready |-> TRUE]

\* The registry snapshot is listed only when the last rotation has ended.
Listed ==
    IF schedule = <<>> THEN SelectSeq([s \in Scopes |-> s], LAMBDA s : s \in Registry)
    ELSE schedule

KeptReaders == IF schedule = <<>> THEN Retained(cache) ELSE cache

\* A cycle begins: the registry is listed if need be, the cursor loaded if it is
\* not held, and the hot and the fair scopes of the cycle are chosen.
StartCycle ==
    /\ ~cycle.on /\ Listed # <<>>
    /\ LET held == IF cursor = Unheld THEN stored ELSE cursor
           hot == HotScopes(KeptReaders)
           cold == FairSlice(Listed, held, setup.perCycle - Len(hot))
           extra == SelectSeq(hot, LAMBDA s : ~Contains(cold, s))
       IN /\ plan' = Batches("hot", extra) \o Batches("cold", cold)
          /\ cycle' = [on |-> TRUE, start |-> held, ending |-> held,
                       progressed |-> FALSE, failed |-> FALSE]
          /\ cursor' = held
    /\ schedule' = Listed
    /\ cache' = KeptReaders
    /\ raced' = (raced /\ cursor # Unheld)
    /\ UNCHANGED <<setup, content, writes, stored, lru, flight, health, faults>>

\* Nothing is registered: the cycle is over, and counts as a full sweep.
EmptyCycle ==
    /\ ~cycle.on /\ Listed = <<>>
    /\ Judge(FALSE)
    /\ cache' = KeptReaders
    /\ UNCHANGED <<setup, content, writes, stored, raced, schedule, cursor, lru, plan,
                   flight, cycle, faults>>

\* The listing fails, or the loading of the cursor after it, and with it the cycle.
StartFails ==
    /\ ~cycle.on /\ faults < MaxFaults
    /\ faults' = faults + 1
    /\ Judge(TRUE)
    /\ \/ /\ schedule = <<>>
          /\ UNCHANGED <<schedule, cache>>
       \/ /\ Listed # <<>> /\ cursor = Unheld
          /\ schedule' = Listed
          /\ cache' = KeptReaders
    /\ UNCHANGED <<setup, content, writes, stored, raced, cursor, lru, plan, flight, cycle>>

-----------------------------------------------------------------------------
(* The scopes of a batch, concurrently: run_registered_scope and the cache.*)

StartBatch ==
    /\ cycle.on /\ flight = <<>> /\ plan # <<>>
    /\ flight' = [s \in Range(Head(plan).scopes) |-> "start"]
    /\ UNCHANGED <<setup, content, writes, stored, raced, schedule, cursor, cache, lru,
                   plan, cycle, health, faults>>

Reaches(s, stage) == flight' = [flight EXCEPT ![s] = stage]

At(s, stage) == s \in DOMAIN flight /\ flight[s] = stage

\* invalidate, invalidate_scope: the reader is closed and forgotten.
Forget(s) == [x \in DOMAIN cache \ {s} |-> cache[x]]

\* A scope without data is skipped, and its reader closed.
SkipEmptyScope(s) ==
    /\ At(s, "start") /\ content[s] = "empty"
    /\ Reaches(s, "done")
    /\ cache' = Forget(s)
    /\ UNCHANGED <<setup, content, writes, stored, raced, schedule, cursor, lru, plan,
                   cycle, health, faults>>

\* cluster_for_scope up to its first unlock: a cached reader is taken, a missing
\* one is opened outside the lock.
LookUpScope(s) ==
    /\ At(s, "start") /\ content[s] # "empty"
    /\ lru' = Append(SelectSeq(lru, LAMBDA x : x # s), s)
    /\ Reaches(s, IF s \in DOMAIN cache THEN "hit" ELSE "opening")
    /\ UNCHANGED <<setup, content, writes, stored, raced, schedule, cursor, cache, plan,
                   cycle, health, faults>>

\* The readers that nobody but the cache holds.
Evictable == DOMAIN cache \ InUse

Accessed(s) == CHOOSE i \in DOMAIN lru : lru[i] = s

\* Mutant: the first reader of the map goes.
VictimFirst == CHOOSE s \in DOMAIN cache : \A x \in DOMAIN cache : s <= x

\* The least recently used reader that may go.
Victim == CHOOSE s \in Evictable : \A x \in Evictable : Accessed(s) <= Accessed(x)

IsFull == Cardinality(DOMAIN cache) >= setup.maxOpen

\* The opened reader enters the cache, a full cache giving up its victim.  Without
\* one the reader is closed again and the scope fails.
InstallScope(s) ==
    /\ At(s, "opening")
    /\ LET out == IF IsFull /\ Evictable # {} THEN {Victim} ELSE {}
           rejected == IsFull /\ Evictable = {}
       IN /\ Reaches(s, IF rejected THEN "done" ELSE "miss")
          /\ cycle' = [cycle EXCEPT !.failed = @ \/ rejected]
          /\ cache' = IF rejected THEN cache
                      ELSE [x \in (DOMAIN cache \ out) \cup {s} |->
                               IF x = s THEN [hot |-> FALSE, idle |-> 0] ELSE cache[x]]
    /\ UNCHANGED <<setup, content, writes, stored, raced, schedule, cursor, lru, plan,
                   health, faults>>

\* finish_scope: a scope that was built is hot; a hot scope found idle stays open
\* for one more recheck; any other idle scope is closed.
Finished(s, built) ==
    CASE built -> [cache EXCEPT ![s] = [hot |-> TRUE, idle |-> 0]]
      [] ~built /\ flight[s] = "hit" /\ cache[s].hot /\ cache[s].idle + 1 < IdleRechecks ->
             [cache EXCEPT ![s].idle = @ + 1]
      [] OTHER -> Forget(s)

\* The scope has been indexed, or nothing in it was stale.
FinishScope(s) ==
    /\ s \in InUse
    /\ cache' = IF s \in DOMAIN cache THEN Finished(s, content[s] = "dirty") ELSE cache
    /\ content' = [content EXCEPT ![s] = "indexed"]
    /\ Reaches(s, "done")
    /\ UNCHANGED <<setup, writes, stored, raced, schedule, cursor, lru, plan, cycle, health,
                   faults>>

\* Looking for data, opening, or indexing fails; the reader is not kept.
FailScope(s) ==
    /\ s \in DOMAIN flight /\ flight[s] # "done" /\ faults < MaxFaults
    /\ faults' = faults + 1
    /\ cache' = IF s \in InUse THEN Forget(s) ELSE cache
    /\ cycle' = [cycle EXCEPT !.failed = TRUE]
    /\ Reaches(s, "done")
    /\ UNCHANGED <<setup, content, writes, stored, raced, schedule, cursor, lru, plan, health>>

-----------------------------------------------------------------------------
(* After a batch: advancing the cursor, and the end of the cycle.          *)

BatchDone == flight # <<>> /\ \A s \in DOMAIN flight : flight[s] = "done"

EndHotBatch ==
    /\ BatchDone /\ Head(plan).kind = "hot"
    /\ plan' = Tail(plan) /\ flight' = <<>>
    /\ UNCHANGED <<setup, content, writes, stored, raced, schedule, cursor, cache, lru,
                   cycle, health, faults>>

\* advance_scope_cursor: the conditional put succeeds if nobody wrote the cursor
\* since it was read.
AdvanceCursor ==
    /\ BatchDone /\ Head(plan).kind = "cold" /\ ~raced
    /\ LET last == Name[Last(Head(plan).scopes)]
       IN /\ stored' = last /\ cursor' = last
          /\ cycle' = [cycle EXCEPT !.ending = last, !.progressed = TRUE]
    /\ plan' = Tail(plan) /\ flight' = <<>>
    /\ UNCHANGED <<setup, content, writes, raced, schedule, cache, lru, health, faults>>

\* The conditional put lost: the cycle stops and the next one loads the cursor.
LoseRace ==
    /\ BatchDone /\ Head(plan).kind = "cold" /\ raced
    /\ plan' = <<>> /\ flight' = <<>>
    /\ cursor' = Unheld
    /\ UNCHANGED <<setup, content, writes, stored, raced, schedule, cache, lru, cycle,
                   health, faults>>

\* The put fails, with or without having taken effect.
AdvanceFails ==
    /\ BatchDone /\ Head(plan).kind = "cold" /\ faults < MaxFaults
    /\ faults' = faults + 1
    /\ \/ UNCHANGED stored
       \/ ~raced /\ stored' = Name[Last(Head(plan).scopes)]
    /\ plan' = <<>> /\ flight' = <<>>
    /\ cursor' = Unheld
    /\ cycle' = [cycle EXCEPT !.failed = TRUE]
    /\ UNCHANGED <<setup, content, writes, raced, schedule, cache, lru, health>>

\* completed_scope_sweep: the cursor reached the last scope, or moved backwards
\* over it.
CompletedSweep ==
    LET final == Name[Last(schedule)]
    IN /\ cycle.progressed
       /\ \/ cycle.ending = final
          \/ /\ Found(schedule, cycle.start)
             /\ cycle.start # final /\ cycle.ending < cycle.start

\* The end of a cycle: the snapshot is given up after a completed sweep, unless
\* the cycle failed.
EndCycle ==
    /\ cycle.on /\ plan = <<>> /\ flight = <<>>
    /\ Judge(cycle.failed)
    /\ schedule' = IF CompletedSweep /\ ~cycle.failed THEN <<>> ELSE schedule
    /\ cycle' = NoCycle
    /\ UNCHANGED <<setup, content, writes, stored, raced, cursor, cache, lru, plan, flight,
                   faults>>

IndexerStep ==
    \/ StartCycle \/ EmptyCycle \/ StartBatch \/ EndHotBatch \/ AdvanceCursor \/ LoseRace
    \/ EndCycle
    \/ \E s \in Scopes : SkipEmptyScope(s) \/ LookUpScope(s) \/ InstallScope(s) \/ FinishScope(s)

Next ==
    \/ IndexerStep
    \/ StartFails \/ AdvanceFails \/ Restart
    \/ \E s \in Scopes : FailScope(s) \/ OtherIndexer(s) \/ Register(s) \/ Write(s)

\* The loop of the process and the futures of a batch are always polled; calls
\* fail, nodes write and other indexers race without any fairness.
Spec == Init /\ [][Next]_vars /\ WF_vars(IndexerStep)

-----------------------------------------------------------------------------
TypeOK ==
    /\ content \in [Scopes -> {"unregistered", "empty", "dirty", "indexed"}]
    /\ stored \in {0} \cup Range(Name) /\ cursor \in {Unheld, 0} \cup Range(Name)
    /\ Range(schedule) \subseteq Registry /\ IsInjective(schedule)
    /\ DOMAIN cache \subseteq Registry \cap Range(lru) /\ IsInjective(lru)
    /\ \A s \in DOMAIN cache : cache[s].idle \in 0 .. IdleRechecks - 1
    /\ health.failures \in 0 .. Threshold

\* Never more readers are open than the limit allows, counting the ones that are
\* cached; opening happens outside the lock, so the check and the insertion must
\* be made together.
OpenScopesBounded == Cardinality(DOMAIN cache) <= setup.maxOpen

\* A reader is never evicted or closed by another scope's work while it is used.
UsedReaderStaysOpen == InUse \subseteq DOMAIN cache

\* Since the cache has room for every scope of a batch, no scope is turned away.
RoomForTheBatch == \A s \in DOMAIN flight : flight[s] = "opening" => ~(IsFull /\ Evictable = {})

\* Every registered scope with unindexed changes is indexed in the end, whatever
\* other scopes are registered or hot, if calls fail only finitely often.
EveryScopeIsIndexed == \A s \in Scopes : content[s] = "dirty" ~> content[s] = "indexed"

\* The cache of open readers: bounded, never short of room for the batch in
\* flight, and never without a reader that somebody uses.
ReadersWellKept == TypeOK /\ OpenScopesBounded /\ UsedReaderStaysOpen /\ RoomForTheBatch
=============================================================================
