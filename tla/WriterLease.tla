---------------------------- MODULE WriterLease ----------------------------
(***************************************************************************)
(* ObjectStoreWriterLeaseDirectory (hydradb/src/engine/writer_lease.rs):   *)
(* the durable lease that admits the writer of one (scope, cell).          *)
(*                                                                         *)
(* The lease is one object, changed only by compare-and-swap.  A process   *)
(* keeps its own lease in memory, valid for Duration from the instant      *)
(* before its write; it judges another's by the object's server timestamp  *)
(* and remembers the judgement by the object's fingerprint.  Every await   *)
(* of the code is a step boundary here, so the calls of several tasks of a *)
(* process, and of several processes, interleave at each of them.          *)
(*                                                                         *)
(* A process stands for its holder id (a restarted node is a new process), *)
(* and the object's version is its heartbeat, which every write increments.*)
(***************************************************************************)
EXTENDS Integers, FiniteSets

CONSTANTS
  Procs,        \* processes: one holder id and one in-memory directory each
  Tasks,        \* concurrent callers
  ProcOf,       \* the process a task runs in
  Duration,     \* lease_duration, in ticks
  Guard,        \* SERVER_TIMESTAMP_RESOLUTION_GUARD, in ticks
  MaxAttempts,  \* MAX_WRITER_LEASE_CAS_ATTEMPTS
  Patience,     \* ticks that may pass between the two clock reads of a probe
  MaxTime,      \* bound: the last tick
  MaxBeat,      \* bound: the lease object is written at most this often
  MaxUsers      \* bound: clusters of the scope a process has open

ASSUME LeaseAssumption ==
  /\ ProcOf \in [Tasks -> Procs]
  /\ Duration \in Nat \ {0} /\ Guard \in Nat
  /\ MaxAttempts \in Nat \ {0} /\ Patience \in Nat
  /\ MaxTime \in Nat /\ MaxBeat \in Nat /\ MaxUsers \in Nat

VARIABLES
  up,         \* the processes that are running
  now,        \* the time, of every process and of the object store
  stored,     \* the lease object, or NoLease
  local,      \* the leases this process may act under
  abandoned,  \* leases parked by abandon_scope
  users,      \* scope_users: open clusters of the scope
  observed,   \* what a process last concluded about the lease object
  call,       \* the directory call each task is in
  releases    \* history: the generations that were released

leaseVars == <<up, now, stored, local, abandoned, users, observed, call, releases>>

NoLease == [holder |-> "none", gen |-> 0, beat |-> 0, released |-> TRUE, modified |-> 0]
NoLocal == [gen |-> 0, until |-> 0]
NoObservation == [beat |-> 0, at |-> 0, remaining |-> 0]
Idle == [op |-> "none", pc |-> "idle", gen |-> 0, seen |-> NoLease, at |-> 0,
         tries |-> 0]

Lease == [holder : Procs \cup {"none"}, gen : Nat, beat : Nat, released : BOOLEAN,
          modified : Nat]
LocalLease == [gen : Nat, until : Nat]
Observation == [beat : Nat, at : Nat, remaining : Nat]
Call == [op : {"none", "acquire", "renew", "release"},
         pc : {"idle", "read", "probe", "write", "ack", "done", "failed", "lost"},
         gen : Nat, seen : Lease, at : Nat, tries : Nat]

\* The types of the directory's state.
LeaseTypeOK ==
  /\ up \subseteq Procs /\ now \in Nat /\ stored \in Lease
  /\ local \in [Procs -> LocalLease] /\ abandoned \in [Procs -> LocalLease]
  /\ users \in [Procs -> Nat] /\ observed \in [Procs -> Observation]
  /\ call \in [Tasks -> Call] /\ releases \subseteq Nat

LeaseInit ==
  /\ up = Procs
  /\ now = 0
  /\ stored = NoLease
  /\ local = [p \in Procs |-> NoLocal]
  /\ abandoned = [p \in Procs |-> NoLocal]
  /\ users = [p \in Procs |-> 0]
  /\ observed = [p \in Procs |-> NoObservation]
  /\ call = [t \in Tasks |-> Idle]
  /\ releases = {}

-----------------------------------------------------------------------------
\* holds_valid_local and the validity test of holds_abandoned_local.  An absent
\* entry has until = 0 and is never valid.
ValidAt(lease, time) == lease # NoLocal /\ time < lease.until
HoldsValidLocal(p) == ValidAt(local[p], now)
HoldsAbandonedLocal(p) == ValidAt(abandoned[p], now)

\* The holder of a lease object that has not been released.
OwnedBy(lease, p) == ~lease.released /\ lease.holder = p

Remaining(entry, time) ==
  IF time - entry.at >= entry.remaining THEN 0 ELSE entry.remaining - (time - entry.at)

\* shared_remaining_ms after a probe: the age of the object by the server's own
\* two timestamps, and the guard for their resolution.
RemainingByServer(lease, serverNow) ==
  LET age == serverNow - lease.modified
  IN  IF age >= Duration + Guard THEN 0 ELSE Duration + Guard - age

\* Mutant: a takeover keeps the generation of the lease it takes over.
NextLeaseKeepsGeneration(p, seen) ==
  [holder |-> p, gen |-> IF seen = NoLease THEN 1 ELSE seen.gen, beat |-> seen.beat + 1,
   released |-> FALSE, modified |-> 0]

\* What the next write of p makes of the lease it read: the same generation while
\* p holds it, a new one when it takes it over or the lease was released.
NextLease(p, seen) ==
  [holder   |-> p,
   gen      |-> IF OwnedBy(seen, p) THEN seen.gen ELSE seen.gen + 1,
   beat     |-> seen.beat + 1,
   released |-> FALSE,
   modified |-> 0]

ReleasedLease(p, seen) ==
  [holder |-> p, gen |-> seen.gen, beat |-> seen.beat + 1, released |-> TRUE, modified |-> 0]

-----------------------------------------------------------------------------
Pending(t) == call[t].pc \in {"read", "probe", "write", "ack"}

\* How a call ends.  A renewal that failed with no valid lease left removes the
\* entry (renew_local), and reports ownership as lost.
Finish(t, result) ==
  call' = [call EXCEPT ![t] = [Idle EXCEPT !.op = call[t].op, !.pc = result]]

Fail(t, localNow) ==
  LET p == ProcOf[t]
      lost == call[t].op = "renew" /\ ~ValidAt(localNow, now)
  IN  /\ local' = [local EXCEPT ![p] = IF lost THEN NoLocal ELSE localNow]
      /\ call' = [call EXCEPT ![t] =
                    [Idle EXCEPT !.op = call[t].op,
                                 !.pc = IF lost THEN "lost" ELSE "failed"]]

Retry(t) ==
  IF call[t].tries + 1 < MaxAttempts
    THEN /\ call' = [call EXCEPT ![t].pc = "read", ![t].tries = @ + 1]
         /\ UNCHANGED local
    ELSE Fail(t, local[ProcOf[t]])

\* register_scope, when a cluster of the scope opens.
RegisterScope(p) ==
  /\ p \in up
  /\ users[p] < MaxUsers
  /\ users' = [users EXCEPT ![p] = @ + 1]
  /\ UNCHANGED <<up, now, stored, local, abandoned, observed, call, releases>>

\* acquire_or_renew: a lease with more than a third of its time left is enough.
StartAcquire(t) ==
  LET p == ProcOf[t]
      fresh == local[p] # NoLocal /\ now + Duration \div 3 < local[p].until
  IN  /\ p \in up
      /\ call[t].pc = "idle"
      /\ call' = [call EXCEPT ![t] =
                    [Idle EXCEPT !.op = "acquire", !.pc = IF fresh THEN "done" ELSE "read"]]
      /\ UNCHANGED <<up, now, stored, local, abandoned, users, observed, releases>>

\* renew_local for a lease it found: a forced renewal needs a valid local lease.
StartRenew(t) ==
  LET p == ProcOf[t]
  IN  /\ p \in up
      /\ call[t].pc = "idle"
      /\ local[p] # NoLocal
      /\ IF HoldsValidLocal(p)
           THEN /\ call' = [call EXCEPT ![t] = [Idle EXCEPT !.op = "renew", !.pc = "read"]]
                /\ UNCHANGED local
           ELSE /\ call' = [call EXCEPT ![t] = [Idle EXCEPT !.op = "renew", !.pc = "lost"]]
                /\ local' = [local EXCEPT ![p] = NoLocal]
      /\ UNCHANGED <<up, now, stored, abandoned, users, observed, releases>>

\* release_cell: forget the lease in memory, then release the object.
StartRelease(t) ==
  LET p == ProcOf[t]
      lease == IF local[p] # NoLocal THEN local[p] ELSE abandoned[p]
  IN  /\ p \in up
      /\ call[t].pc = "idle"
      /\ IF lease = NoLocal
           THEN call' = [call EXCEPT ![t] = [Idle EXCEPT !.op = "release", !.pc = "done"]]
           ELSE call' = [call EXCEPT ![t] = [Idle EXCEPT !.op = "release", !.pc = "read",
                                                         !.gen = lease.gen]]
      /\ local' = [local EXCEPT ![p] = NoLocal]
      /\ abandoned' = IF local[p] # NoLocal THEN abandoned
                                            ELSE [abandoned EXCEPT ![p] = NoLocal]
      /\ UNCHANGED <<up, now, stored, users, observed, releases>>

\* release_scope: the last cluster of the scope closes.  (Of a local and an
\* abandoned lease of the cell only one can be present.)
ReleaseScope(t) ==
  LET p == ProcOf[t]
      lease == IF local[p] # NoLocal THEN local[p] ELSE abandoned[p]
      last == users[p] <= 1
  IN  /\ p \in up
      /\ call[t].pc = "idle"
      /\ users' = [users EXCEPT ![p] = IF last THEN 0 ELSE @ - 1]
      /\ IF last /\ lease # NoLocal
           THEN call' = [call EXCEPT ![t] = [Idle EXCEPT !.op = "release", !.pc = "read",
                                                         !.gen = lease.gen]]
           ELSE call' = [call EXCEPT ![t] = [Idle EXCEPT !.op = "release", !.pc = "done"]]
      /\ local' = IF last THEN [local EXCEPT ![p] = NoLocal] ELSE local
      /\ abandoned' = IF last THEN [abandoned EXCEPT ![p] = NoLocal] ELSE abandoned
      /\ UNCHANGED <<up, now, stored, observed, releases>>

\* abandon_scope: an evicted scope parks its lease; the object is not touched.
AbandonScope(p) ==
  LET last == users[p] <= 1
      kept == IF HoldsAbandonedLocal(p) THEN abandoned[p] ELSE NoLocal
  IN  /\ p \in up
      /\ users' = [users EXCEPT ![p] = IF last THEN 0 ELSE @ - 1]
      /\ local' = IF last THEN [local EXCEPT ![p] = NoLocal] ELSE local
      /\ abandoned' =
           IF last THEN [abandoned EXCEPT ![p] = IF local[p] # NoLocal THEN local[p] ELSE kept]
                   ELSE abandoned
      /\ UNCHANGED <<up, now, stored, observed, call, releases>>

-----------------------------------------------------------------------------
\* Once the remaining time of the lease it read is known, the caller gives way
\* to another holder or issues its write, noting the time just before.
Decide(t, seen, remaining) ==
  LET p == ProcOf[t]
  IN  IF remaining > 0 /\ ~OwnedBy(seen, p)
        THEN /\ Fail(t, NoLocal)
             /\ abandoned' = [abandoned EXCEPT ![p] = NoLocal]
        ELSE /\ call' = [call EXCEPT ![t].pc = "write", ![t].seen = seen, ![t].at = now]
             /\ UNCHANGED <<local, abandoned>>

\* read_stored by acquire_or_renew_inner, up to its next await: the answer is
\* known if the lease was released or its fingerprint was seen before.
ReadStored(t) ==
  LET p == ProcOf[t]
  IN  /\ call[t].pc = "read" /\ call[t].op # "release"
      /\ stored.beat < MaxBeat
      /\ IF stored.released
           THEN Decide(t, stored, 0)
           ELSE IF observed[p].beat = stored.beat
                  THEN Decide(t, stored, Remaining(observed[p], now))
                  ELSE /\ call' = [call EXCEPT ![t].pc = "probe", ![t].seen = stored,
                                               ![t].at = now]
                       /\ UNCHANGED <<local, abandoned>>
      /\ UNCHANGED <<up, now, stored, users, observed, releases>>

\* probe_server_time and the rest of shared_remaining_ms.  The observation is
\* dated by the clock read before the probe.
ProbeServerTime(t) ==
  LET p == ProcOf[t]
      seen == call[t].seen
      remaining == RemainingByServer(seen, now)
  IN  /\ call[t].pc = "probe"
      /\ observed' = [observed EXCEPT ![p] =
                        [beat |-> seen.beat, at |-> call[t].at, remaining |-> remaining]]
      /\ Decide(t, seen, remaining)
      /\ UNCHANGED <<up, now, stored, users, releases>>

\* release_stored's read: nothing to do unless the object still is the lease
\* that was released in memory.
ReadForRelease(t) ==
  LET p == ProcOf[t]
  IN  /\ call[t].pc = "read" /\ call[t].op = "release"
      /\ IF stored = NoLease \/ stored.holder # p \/ stored.gen # call[t].gen
           THEN Finish(t, "done")
           ELSE /\ stored.beat < MaxBeat
                /\ call' = [call EXCEPT ![t].pc = "write", ![t].seen = stored, ![t].at = now]
      /\ UNCHANGED <<up, now, stored, local, abandoned, users, observed, releases>>

\* Mutant: the put is unconditional.
LandsAlways(t) == TRUE

\* PutMode::Update on the version that was read, PutMode::Create when there was
\* none.
Lands(t) == stored.beat = call[t].seen.beat

\* The conditional put reaches the object store.
Land(t) ==
  LET p == ProcOf[t]
      seen == call[t].seen
      new == IF call[t].op = "release" THEN ReleasedLease(p, seen) ELSE NextLease(p, seen)
  IN  /\ call[t].pc = "write"
      /\ IF Lands(t)
           THEN /\ stored' = [new EXCEPT !.modified = now]
                /\ call' = [call EXCEPT ![t].pc = IF p \in up THEN "ack" ELSE "failed",
                                        ![t].gen = new.gen]
                /\ releases' = IF call[t].op = "release" THEN releases \cup {new.gen}
                                                       ELSE releases
                /\ UNCHANGED local
           ELSE /\ IF p \in up THEN Retry(t) ELSE Finish(t, "failed") /\ UNCHANGED local
                /\ UNCHANGED <<stored, releases>>
      /\ UNCHANGED <<up, now, abandoned, users, observed>>

\* Mutant: the lease counts from its answer.
UntilFromAnswer(t) == now + Duration

\* The lease counts from the time before the put.
Until(t) == call[t].at + Duration

\* The put's answer arrives.  A forced renewal of a scope that was closed meanwhile stores nothing.
Acknowledge(t) ==
  LET p == ProcOf[t]
      until == Until(t)
      beat == call[t].seen.beat + 1
  IN  /\ call[t].pc = "ack"
      /\ CASE call[t].op = "release" ->
                /\ observed' = [observed EXCEPT ![p] =
                                  [beat |-> beat, at |-> call[t].at, remaining |-> 0]]
                /\ Finish(t, "done")
                /\ UNCHANGED <<local, abandoned>>
           [] call[t].op # "release" /\ now >= until ->
                /\ Retry(t)
                /\ UNCHANGED <<abandoned, observed>>
           [] OTHER ->
                /\ observed' = [observed EXCEPT ![p] =
                                  [beat |-> beat, at |-> call[t].at,
                                   remaining |-> Duration + Guard]]
                /\ IF call[t].op = "renew" /\ users[p] = 0
                     THEN /\ Fail(t, local[p])
                          /\ UNCHANGED abandoned
                     ELSE /\ local' = [local EXCEPT ![p] = [gen |-> call[t].gen,
                                                            until |-> until]]
                          /\ abandoned' = [abandoned EXCEPT ![p] = NoLocal]
                          /\ Finish(t, "done")
      /\ UNCHANGED <<up, now, stored, users, releases>>

\* Any request to the object store may fail; a put may fail after it landed.
StoreError(t) ==
  /\ ProcOf[t] \in up
  /\ Pending(t)
  /\ Fail(t, local[ProcOf[t]])
  /\ UNCHANGED <<up, now, stored, abandoned, users, observed, releases>>

\* The caller takes the result.
Return(t) ==
  /\ call[t].pc \in {"done", "failed", "lost"}
  /\ call' = [call EXCEPT ![t] = Idle]
  /\ UNCHANGED <<up, now, stored, local, abandoned, users, observed, releases>>

\* The process dies: everything it had in memory is gone, the object stays, and
\* a put it had sent may still land.
Crash(p) ==
  /\ p \in up
  /\ up' = up \ {p}
  /\ local' = [local EXCEPT ![p] = NoLocal]
  /\ abandoned' = [abandoned EXCEPT ![p] = NoLocal]
  /\ users' = [users EXCEPT ![p] = 0]
  /\ observed' = [observed EXCEPT ![p] = NoObservation]
  /\ call' = [t \in Tasks |->
                IF ProcOf[t] = p /\ call[t].pc # "write" THEN Idle ELSE call[t]]
  /\ UNCHANGED <<now, stored, releases>>

\* Time passes; a probe is answered within Patience.
Tick ==
  /\ now < MaxTime
  /\ \A t \in Tasks : call[t].pc = "probe" => now < call[t].at + Patience
  /\ now' = now + 1
  /\ UNCHANGED <<up, stored, local, abandoned, users, observed, call, releases>>

\* One step of a directory call of t.
LeaseStep(t) ==
  \/ ReadStored(t) \/ ProbeServerTime(t) \/ ReadForRelease(t)
  \/ Land(t) \/ Acknowledge(t)

LeaseNext ==
  \/ \E t \in Tasks :
       \/ StartAcquire(t) \/ StartRenew(t) \/ StartRelease(t) \/ ReleaseScope(t)
       \/ LeaseStep(t) \/ StoreError(t) \/ Return(t)
  \/ \E p \in Procs : RegisterScope(p) \/ AbandonScope(p) \/ Crash(p)
  \/ Tick

LeaseSpec == LeaseInit /\ [][LeaseNext]_leaseVars
=============================================================================
