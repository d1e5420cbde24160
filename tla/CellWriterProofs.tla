-------------------------- MODULE CellWriterProofs --------------------------
(***************************************************************************)
(* Proofs about the writer lease and the write path of a cell.             *)
(*                                                                         *)
(* The argument is about authorities: what a process may act under, now or *)
(* once the answer to a put that landed arrives.  Only the landing of a    *)
(* put creates one; everything else moves or drops authorities.            *)
(***************************************************************************)
EXTENDS CellWriter, TLAPS

\* The lease object: it was never written, or has a generation; a released one
\* is among the releases.
StoredSound ==
  /\ stored.modified <= now
  /\ stored.beat = 0 => stored = NoLease
  /\ stored.beat > 0 => stored.gen >= 1
  /\ stored.released /\ stored.beat > 0 => stored.gen \in releases

\* What a call has read is the object or an earlier one, a release in the course
\* of being written is of the caller's own lease, and a put that landed is the
\* last one only if the object names the caller.
CallSound(c, p) ==
  /\ c.at <= now
  /\ c.seen.beat <= stored.beat
  /\ c.seen.beat = stored.beat => c.seen = stored
  /\ c.pc = "probe" => c.op # "release"
  /\ c.pc = "write" /\ c.op = "release" => c.seen.holder = p /\ c.seen.beat > 0
  /\ c.pc = "ack" =>
       /\ c.seen.beat < stored.beat
       /\ c.seen.beat + 1 = stored.beat => stored.holder = p

CallsSound == \A t \in Tasks : CallSound(call[t], ProcOf[t])

\* What p may act under: its leases in memory and those whose put has landed.
Acknowledging(p) == {t \in Tasks : ProcOf[t] = p /\ call[t].pc = "ack" /\ call[t].op # "release"}
Authorities(p) ==
  ({local[p], abandoned[p]} \ {NoLocal})
    \cup {[gen |-> call[t].gen, until |-> call[t].at + Duration] : t \in Acknowledging(p)}

\* An authority is of a generation the object has reached, and of the present one
\* only for the holder; no two processes have one of the same generation.
AuthorityOwned ==
  \A p \in Procs : \A a \in Authorities(p) :
    a.gen \in 1..stored.gen /\ (a.gen = stored.gen => stored.holder = p)
AuthorityUnique ==
  \A p, q \in Procs : \A a \in Authorities(p), b \in Authorities(q) : a.gen = b.gen => p = q

LeaseInv == LeaseTypeOK /\ StoredSound /\ CallsSound /\ AuthorityOwned /\ AuthorityUnique

-----------------------------------------------------------------------------
\* Time.  A probe is answered within Patience; a put that takes a lease over was
\* issued after the lease had been released or had run out.
CallTimely(c, p) ==
  /\ c.pc = "probe" => now <= c.at + Patience
  /\ c.pc = "write" /\ c.op # "release" /\ ~OwnedBy(c.seen, p) =>
       c.seen.released \/ now >= c.seen.modified + Duration
CallsTimely == \A t \in Tasks : CallTimely(call[t], ProcOf[t])

\* What a process has concluded about another's lease does not end before it.
ObservationSound(o, p) ==
  /\ o.beat <= stored.beat
  /\ o.beat = stored.beat =>
       stored.released \/ stored.holder = p \/ o.at + o.remaining >= stored.modified + Duration
ObservationsSound == \A p \in Procs : ObservationSound(observed[p], p)

\* The authority of the present generation ends with the object's time; one of an
\* earlier generation has ended, or its generation was released.
AuthorityTimely ==
  \A p \in Procs : \A a \in Authorities(p) :
    /\ a.gen = stored.gen => a.until <= stored.modified + Duration
    /\ a.gen < stored.gen => now >= a.until \/ a.gen \in releases

TimeInv == LeaseInv /\ CallsTimely /\ ObservationsSound /\ AuthorityTimely

-----------------------------------------------------------------------------
\* Epochs: a handle and a promotion under way are of an epoch that was taken by
\* their process.
TookEpoch(p, e) == e = 0 \/ (e \in 1..Len(openers) /\ openers[e] = p)
EpochInv ==
  /\ \A p \in Procs : TookEpoch(p, handle[p]) /\ TookEpoch(p, gate[p].epoch)
  /\ TookEpoch(record.proc, record.epoch)

\* The types of the write path's own state.
PcStates == {"idle", "sleep", "leasing", "opening", "releasing", "closing", "check", "commit"}
SpawnStates == {"none", "queued", "opened", "ok", "error"}
Gates == [task : Requests \cup {"none"}, epoch : Nat]
Entries == [proc : Procs, epoch : Nat]
Adverts == [proc : Procs \cup {"none"}, epoch : Nat]

CellTypeOK ==
  /\ pc \in [Requests -> PcStates] /\ spawned \in [Requests -> SpawnStates]
  /\ gate \in [Procs -> Gates] /\ handle \in [Procs -> Nat]
  /\ notBefore \in [Procs -> Nat] /\ backoff \in [Procs -> Nat]
  /\ openers \in Seq(Procs) /\ log \in Seq(Entries) /\ record \in Adverts
  /\ faults \in Nat

-----------------------------------------------------------------------------
(* The parts of a call's state that its steps set.                         *)

\* The records the model is built from have their types.
LEMMA Records ==
  /\ NoLease \in Lease /\ NoLocal \in LocalLease /\ NoObservation \in Observation
  /\ Idle \in Call
  BY DEF NoLease, NoLocal, NoObservation, Idle, Lease, LocalLease, Observation, Call

\* LeaseInit: nothing has been written and nobody holds anything.
LEMMA LeaseInitInv == LeaseInit => TimeInv
  <1> SUFFICES ASSUME LeaseInit PROVE TimeInv
    OBVIOUS
  <1>1. LeaseTypeOK
    BY Records DEF LeaseInit, LeaseTypeOK
  <1>2. StoredSound
    BY DEF LeaseInit, StoredSound, NoLease
  <1>3. CallsSound
    <2> SUFFICES ASSUME NEW t \in Tasks PROVE CallSound(call[t], ProcOf[t])
      BY DEF CallsSound
    <2>1. call[t].at = 0 /\ call[t].seen = stored /\ call[t].pc = "idle" /\ now = 0
      BY DEF LeaseInit, Idle
    <2>2. stored.beat = 0
      BY DEF LeaseInit, NoLease
    <2> QED
      BY <2>1, <2>2 DEF CallSound
  <1>4. \A p \in Procs : Authorities(p) = {}
    BY DEF LeaseInit, Authorities, Acknowledging, Idle
  <1>5. AuthorityOwned /\ AuthorityUnique /\ AuthorityTimely
    BY <1>4 DEF AuthorityOwned, AuthorityUnique, AuthorityTimely
  <1>6. CallsTimely
    BY DEF LeaseInit, CallsTimely, CallTimely, Idle
  <1>7. ObservationsSound
    BY DEF LeaseInit, ObservationsSound, ObservationSound, NoLease, NoObservation
  <1> QED
    BY <1>1, <1>2, <1>3, <1>5, <1>6, <1>7 DEF TimeInv, LeaseInv

\* A step that leaves the lease object alone, and in which no process gains an
\* authority, keeps everything that is said of authorities.
LEMMA AuthoritiesShrink ==
  ASSUME LeaseTypeOK, stored' = stored, now' \in Nat, now' >= now, releases' = releases,
         \A p \in Procs : Authorities(p)' \subseteq Authorities(p),
         \A p \in Procs : \A a \in Authorities(p) : a.gen \in Nat /\ a.until \in Nat
  PROVE  /\ AuthorityOwned => AuthorityOwned'
         /\ AuthorityUnique => AuthorityUnique'
         /\ AuthorityTimely => AuthorityTimely'
  <1>1. AuthorityOwned => AuthorityOwned'
    BY DEF AuthorityOwned
  <1>2. AuthorityUnique => AuthorityUnique'
    BY DEF AuthorityUnique
  <1>3. AuthorityTimely => AuthorityTimely'
    <2> SUFFICES ASSUME AuthorityTimely, NEW p \in Procs, NEW a \in Authorities(p)'
                 PROVE  /\ a.gen = stored'.gen => a.until <= stored'.modified + Duration
                        /\ a.gen < stored'.gen => now' >= a.until \/ a.gen \in releases'
      BY DEF AuthorityTimely
    <2>1. a \in Authorities(p)
      OBVIOUS
    <2>2. /\ a.gen = stored.gen => a.until <= stored.modified + Duration
          /\ a.gen < stored.gen => now >= a.until \/ a.gen \in releases
      BY <2>1 DEF AuthorityTimely
    <2>3. now \in Nat /\ a.until \in Nat
      BY <2>1 DEF LeaseTypeOK
    <2> QED
      BY <2>2, <2>3
  <1> QED
    BY <1>1, <1>2, <1>3

\* Authorities are leases.
LEMMA AuthoritiesTyped ==
  ASSUME LeaseTypeOK, NEW p \in Procs, NEW a \in Authorities(p)
  PROVE  a \in LocalLease /\ a.gen \in Nat /\ a.until \in Nat
  <1>1. a \in LocalLease
    <2>1. CASE a \in {local[p], abandoned[p]}
      BY <2>1 DEF LeaseTypeOK
    <2>2. CASE \E t \in Acknowledging(p) :
                 a = [gen |-> call[t].gen, until |-> call[t].at + Duration]
      <3>1. PICK t \in Tasks : a = [gen |-> call[t].gen, until |-> call[t].at + Duration]
        BY <2>2 DEF Acknowledging
      <3>2. call[t].gen \in Nat /\ call[t].at + Duration \in Nat
        BY LeaseAssumption DEF LeaseTypeOK, Call
      <3> QED
        BY <3>1, <3>2 DEF LocalLease
    <2> QED
      BY <2>1, <2>2 DEF Authorities
  <1> QED
    BY <1>1 DEF LocalLease
-----------------------------------------------------------------------------
(* The steps of the directory, and what other steps of CellWriter do to it. *)

\* The caller has gone: the call is forgotten, or its result taken.
DropCall(t) ==
  /\ call[t].pc # "write"
  /\ call' = [call EXCEPT ![t] = Idle]
  /\ UNCHANGED <<up, now, stored, local, abandoned, users, observed, releases>>

ForgetParked(p) ==
  /\ abandoned' = [abandoned EXCEPT ![p] = NoLocal]
  /\ UNCHANGED <<up, now, stored, local, users, observed, call, releases>>

\* Every step but the landing of a put.
QuietTask(t) ==
  \/ StartAcquire(t) \/ StartRenew(t) \/ StartRelease(t) \/ ReleaseScope(t)
  \/ ReadStored(t) \/ ProbeServerTime(t) \/ ReadForRelease(t) \/ Acknowledge(t)
  \/ StoreError(t) \/ DropCall(t)
QuietProcess(p) == RegisterScope(p) \/ AbandonScope(p) \/ Crash(p) \/ ForgetParked(p)
DirectoryAction ==
  \/ \E t \in Tasks : QuietTask(t) \/ Land(t)
  \/ \E p \in Procs : QuietProcess(p)
  \/ Tick

\* Whatever a step of the cell's write path does to the directory is one of
\* these, or nothing.
LEMMA NextIsDirectoryAction == Next => DirectoryAction \/ UNCHANGED leaseVars
  <1> SUFFICES ASSUME Next PROVE DirectoryAction \/ UNCHANGED leaseVars
    OBVIOUS
  <1> USE DEF DirectoryAction, QuietTask, QuietProcess
  <1>0. Requests \subseteq Tasks /\ Renewers \subseteq Tasks /\ ProcOf \in [Tasks -> Procs]
    BY CellAssumption, LeaseAssumption, ZenonT(60)
  <1>1. ASSUME NEW t \in Requests, RequestStep(t)
        PROVE  DirectoryAction \/ UNCHANGED leaseVars
    <2>0. t \in Tasks /\ ProcOf[t] \in Procs
      BY <1>0
    <2>1. CASE \E own \in {"Local", "Remote", "Unowned", "Unknown"} : RefuseWrite(t, own)
      BY <2>0, <2>1, ZenonT(60) DEF RefuseWrite, ForgetParked
    <2>2. CASE \E own \in {"Local", "Remote", "Unowned", "Unknown"} : EnsureLocalWriter(t, own)
      BY <2>0, <2>2 DEF EnsureLocalWriter
    <2>3. CASE AwaitWriterReopen(t)
      BY <2>0, <2>3 DEF AwaitWriterReopen
    <2>4. CASE PromoteToWriter(t) \/ LeaseRefused(t) \/ LeaseReleased(t)
      BY <2>0, <2>4, Zenon DEF PromoteToWriter, LeaseRefused, LeaseReleased, Return, DropCall
    <2>5. CASE OpenWriter(t) \/ InstallWriter(t) \/ OpenFailed(t)
      BY <2>5, Zenon DEF OpenWriter, InstallWriter, OpenFailed
    <2>6. CASE PromotionFailed(t)
      BY <2>0, <2>6 DEF PromotionFailed
    <2>7. CASE CheckLease(t) \/ Commit(t) \/ SpawnEnds(t)
      BY <2>7 DEF CheckLease, Commit, SpawnEnds
    <2>8. CASE Cancel(t)
      BY <2>0, <2>8, Zenon DEF Cancel, DropCall
    <2>9. CASE RetireUnownedWriter(t)
      BY <2>0, <2>9 DEF RetireUnownedWriter
    <2> QED
      BY <1>1, <2>1, <2>2, <2>3, <2>4, <2>5, <2>6, <2>7, <2>8, <2>9 DEF RequestStep
  <1>2. ASSUME NEW t \in Renewers, Renew(t) \/ Renewed(t)
        PROVE  DirectoryAction
    BY <1>0, <1>2 DEF Renew, Renewed, Return, DropCall
  <1>3. ASSUME NEW t \in Tasks, DirectoryStep(t) \/ DirectoryError(t)
        PROVE  DirectoryAction
    BY <1>3 DEF DirectoryStep, DirectoryError, LeaseStep
  <1>4. ASSUME NEW p \in Procs, OpenCluster(p) \/ EvictCluster(p) \/ CrashProcess(p)
        PROVE  DirectoryAction
    BY <1>4 DEF OpenCluster, EvictCluster, CrashProcess
  <1>5. CASE Time
    BY <1>5 DEF Time
  <1> QED
    BY <1>1, <1>2, <1>3, <1>4, <1>5 DEF Next
-----------------------------------------------------------------------------
(* What a step makes of the call it is about.                              *)

\* What the proofs about time rest on: probes are answered within the guard.
Timely == Patience <= Guard /\ CallsTimely /\ ObservationsSound

\* A state of a call of p that keeps what is said of calls and is not the wait
\* for the answer to a put.
Fine(c, p) ==
  /\ c \in Call /\ c.pc # "ack"
  /\ CallSound(c, p)
  /\ Timely => CallTimely(c, p)

Ops == {"none", "acquire", "renew", "release"}
Plain == {"idle", "read", "done", "failed", "lost"}

\* A call that has read nothing is fine: every call that starts or ends is set to
\* such a record.
LEMMA FreshFine ==
  ASSUME LeaseTypeOK, StoredSound, NEW p \in Procs, NEW c \in Call,
         c.pc \in Plain, c.at = 0, c.seen = NoLease
  PROVE  Fine(c, p)
  <1>3. NoLease.beat = 0
    BY DEF NoLease
  <1>4. now \in Nat /\ stored.beat \in Nat
    BY DEF LeaseTypeOK, Lease
  <1>5. c.pc # "ack" /\ c.pc # "probe" /\ c.pc # "write"
    BY DEF Plain
  <1>6. CallSound(c, p)
    BY <1>3, <1>4, <1>5 DEF CallSound, StoredSound
  <1>7. CallTimely(c, p)
    BY <1>5 DEF CallTimely
  <1> QED
    BY <1>5, <1>6, <1>7 DEF Fine

\* The records Idle EXCEPT ... of the steps that start or end a call.
LEMMA FreshCalls ==
  ASSUME LeaseTypeOK, StoredSound, NEW p \in Procs, NEW o \in Ops, NEW x \in Plain,
         NEW g \in Nat
  PROVE  /\ Fine(Idle, p)
         /\ Fine([Idle EXCEPT !.op = o, !.pc = x], p)
         /\ Fine([Idle EXCEPT !.op = o, !.pc = x, !.gen = g], p)
  <1>1. Idle \in Call /\ Idle.pc \in Plain /\ Idle.at = 0 /\ Idle.seen = NoLease
    BY Records DEF Idle, Plain
  <1>2. \A c \in {[Idle EXCEPT !.op = o, !.pc = x], [Idle EXCEPT !.op = o, !.pc = x, !.gen = g]} :
          c \in Call /\ c.pc = x /\ c.at = 0 /\ c.seen = NoLease
    BY <1>1, Zenon DEF Call, Plain, Ops
  <1> QED
    BY <1>1, <1>2, FreshFine, Zenon

\* A call that keeps what it has read but takes another, plain, position is fine.
LEMMA MovedFine ==
  ASSUME LeaseTypeOK, CallsSound, NEW t \in Tasks
  PROVE  Fine([call[t] EXCEPT !.pc = "read", !.tries = @ + 1], ProcOf[t])
  <1> DEFINE c == [call[t] EXCEPT !.pc = "read", !.tries = @ + 1]
  <1>0. call[t] \in Call
    BY DEF LeaseTypeOK
  <1>1. c \in Call
    <2>1. call[t].tries + 1 \in Nat
      BY <1>0 DEF Call
    <2>2. c = [call[t] EXCEPT !.pc = "read", !.tries = call[t].tries + 1]
      BY <1>0 DEF Call
    <2> QED
      BY <1>0, <2>1, <2>2, Zenon DEF Call
  <1>2. c.pc = "read" /\ c.at = call[t].at /\ c.seen = call[t].seen
    BY DEF LeaseTypeOK, Call
  <1>3. CallSound(call[t], ProcOf[t])
    BY DEF CallsSound
  <1> HIDE DEF c
  <1>4. CallSound(c, ProcOf[t])
    BY <1>2, <1>3 DEF CallSound
  <1>5. CallTimely(c, ProcOf[t])
    BY <1>2 DEF CallTimely
  <1> QED
    BY <1>1, <1>2, <1>4, <1>5 DEF Fine, c

\* A call about to put, or to probe, with a lease it has read.
LEMMA ReadFine ==
  ASSUME LeaseTypeOK, NEW t \in Tasks, NEW seen \in Lease,
         NEW x \in {"write", "probe"},
         seen.beat <= stored.beat, seen.beat = stored.beat => seen = stored,
         call[t].op = "release" => x = "write" /\ seen.holder = ProcOf[t] /\ seen.beat > 0,
         Timely /\ x = "write" /\ call[t].op # "release" /\ ~OwnedBy(seen, ProcOf[t]) =>
           seen.released \/ now >= seen.modified + Duration
  PROVE  Fine([call[t] EXCEPT !.pc = x, !.seen = seen, !.at = now], ProcOf[t])
  <1> DEFINE c == [call[t] EXCEPT !.pc = x, !.seen = seen, !.at = now]
  <1>1. c \in Call
    BY ZenonT(60) DEF LeaseTypeOK, Call
  <1>2. c.pc = x /\ c.at = now /\ c.seen = seen /\ c.op = call[t].op
    BY DEF LeaseTypeOK, Call
  <1>3. now \in Nat /\ Patience \in Nat
    BY LeaseAssumption DEF LeaseTypeOK
  <1> HIDE DEF c
  <1>4. CallSound(c, ProcOf[t])
    BY <1>2, <1>3 DEF CallSound
  <1>5. Timely => CallTimely(c, ProcOf[t])
    BY <1>2, <1>3 DEF CallTimely
  <1> QED
    BY <1>1, <1>2, <1>4, <1>5 DEF Fine, c

\* What a process may hold in memory after a step: nothing it had no authority for.
Kept(p, l) == l \in LocalLease /\ (l = NoLocal \/ l \in Authorities(p))

\* What a task's step does to the call and to its process's memory.
Effect(t, c, l, a) ==
  /\ Fine(c, ProcOf[t]) /\ Kept(ProcOf[t], l) /\ Kept(ProcOf[t], a)
  /\ call' = [call EXCEPT ![t] = c]
  /\ local' = [local EXCEPT ![ProcOf[t]] = l]
  /\ abandoned' = [abandoned EXCEPT ![ProcOf[t]] = a]

\* Keeping or dropping what is in memory brings no new authority.
LEMMA MemoryKept ==
  ASSUME LeaseTypeOK, NEW p \in Procs
  PROVE  /\ Kept(p, NoLocal) /\ Kept(p, local[p]) /\ Kept(p, abandoned[p])
         /\ local = [local EXCEPT ![p] = local[p]]
         /\ abandoned = [abandoned EXCEPT ![p] = abandoned[p]]
  BY Records DEF LeaseTypeOK, Kept, Authorities
\* Fail, for a call of an operation under way.
LEMMA FailEffect ==
  ASSUME LeaseTypeOK, StoredSound, ProcOf \in [Tasks -> Procs], NEW t \in Tasks,
         NEW l \in LocalLease, Kept(ProcOf[t], l), Fail(t, l)
  PROVE  \E c, m : /\ Fine(c, ProcOf[t]) /\ Kept(ProcOf[t], m)
                   /\ call' = [call EXCEPT ![t] = c]
                   /\ local' = [local EXCEPT ![ProcOf[t]] = m]
  <1> DEFINE p == ProcOf[t]
             lost == call[t].op = "renew" /\ ~ValidAt(l, now)
             x == IF lost THEN "lost" ELSE "failed"
             c == [Idle EXCEPT !.op = call[t].op, !.pc = x]
             m == IF lost THEN NoLocal ELSE l
  <1>1. p \in Procs /\ call[t].op \in Ops /\ x \in Plain
    BY DEF LeaseTypeOK, Call, Ops, Plain
  <1>z. 0 \in Nat
    OBVIOUS
  <1>2. Fine(c, p)
    <2> HIDE DEF x, p
    <2> QED
      BY <1>1, <1>z, FreshCalls, Zenon
  <1>3. Kept(p, m)
    BY <1>1, MemoryKept
  <1>4. call' = [call EXCEPT ![t] = c] /\ local' = [local EXCEPT ![p] = m]
    BY DEF Fail
  <1> QED
    BY <1>2, <1>3, <1>4, Zenon

\* Finish.
LEMMA FinishEffect ==
  ASSUME LeaseTypeOK, StoredSound, ProcOf \in [Tasks -> Procs], NEW t \in Tasks,
         NEW x \in Plain, Finish(t, x)
  PROVE  \E c : Fine(c, ProcOf[t]) /\ call' = [call EXCEPT ![t] = c]
  <1>1. ProcOf[t] \in Procs /\ call[t].op \in Ops
    BY DEF LeaseTypeOK, Call, Ops
  <1>z. 0 \in Nat
    OBVIOUS
  <1>2. Fine([Idle EXCEPT !.op = call[t].op, !.pc = x], ProcOf[t])
    BY <1>1, <1>z, FreshCalls, Zenon
  <1> QED
    BY <1>2, Zenon DEF Finish

\* Retry: once more from the read, or the end of the call.
LEMMA RetryEffect ==
  ASSUME LeaseTypeOK, StoredSound, CallsSound, ProcOf \in [Tasks -> Procs], NEW t \in Tasks,
         Retry(t)
  PROVE  \E c, m : /\ Fine(c, ProcOf[t]) /\ Kept(ProcOf[t], m)
                   /\ call' = [call EXCEPT ![t] = c]
                   /\ local' = [local EXCEPT ![ProcOf[t]] = m]
  <1>0. ProcOf[t] \in Procs
    OBVIOUS
  <1>1. CASE call[t].tries + 1 < MaxAttempts
    <2>1. call' = [call EXCEPT ![t] = [call[t] EXCEPT !.pc = "read", !.tries = @ + 1]]
      BY <1>1, Zenon DEF Retry
    <2>2. local' = local
      BY <1>1 DEF Retry
    <2> QED
      BY <1>0, <2>1, <2>2, MovedFine, MemoryKept, Zenon
  <1>2. CASE ~(call[t].tries + 1 < MaxAttempts)
    <2>1. Fail(t, local[ProcOf[t]])
      BY <1>2 DEF Retry
    <2>2. Kept(ProcOf[t], local[ProcOf[t]]) /\ local[ProcOf[t]] \in LocalLease
      BY <1>0, MemoryKept DEF Kept
    <2> QED
      BY <2>1, <2>2, FailEffect
  <1> QED
    BY <1>1, <1>2

\* Decide: a refusal, or the put.
LEMMA DecideEffect ==
  ASSUME LeaseTypeOK, StoredSound, ProcOf \in [Tasks -> Procs], NEW t \in Tasks,
         NEW seen \in Lease, NEW remaining \in Nat, Decide(t, seen, remaining),
         call[t].op # "release",
         seen.beat <= stored.beat, seen.beat = stored.beat => seen = stored,
         Timely /\ remaining = 0 /\ ~OwnedBy(seen, ProcOf[t]) =>
           seen.released \/ now >= seen.modified + Duration
  PROVE  \E c, l, a : Effect(t, c, l, a)
  <1> DEFINE p == ProcOf[t]
  <1>0. p \in Procs
    OBVIOUS
  <1>1. CASE remaining > 0 /\ ~OwnedBy(seen, p)
    <2>1. Fail(t, NoLocal) /\ abandoned' = [abandoned EXCEPT ![p] = NoLocal]
      BY <1>1 DEF Decide
    <2>2. PICK c, m : /\ Fine(c, p) /\ Kept(p, m)
                      /\ call' = [call EXCEPT ![t] = c]
                      /\ local' = [local EXCEPT ![p] = m]
      BY <1>0, <2>1, Records, MemoryKept, FailEffect
    <2> QED
      BY <1>0, <2>1, <2>2, MemoryKept, Zenon DEF Effect
  <1>2. CASE ~(remaining > 0 /\ ~OwnedBy(seen, p))
    <2> DEFINE c == [call[t] EXCEPT !.pc = "write", !.seen = seen, !.at = now]
    <2>1. call' = [call EXCEPT ![t] = c]
      BY <1>2, Zenon DEF Decide
    <2>2. local' = local /\ abandoned' = abandoned
      BY <1>2 DEF Decide
    <2>3. Timely /\ ~OwnedBy(seen, p) => seen.released \/ now >= seen.modified + Duration
      BY <1>2
    <2>4. "write" \in {"write", "probe"}
      OBVIOUS
    <2>5. Fine(c, p)
      BY <2>3, <2>4, ReadFine, Zenon
    <2> QED
      BY <1>0, <2>1, <2>2, <2>5, MemoryKept, Zenon DEF Effect
  <1> QED
    BY <1>1, <1>2
\* What the remaining time of a lease comes to.
LEMMA RemainingFacts ==
  ASSUME LeaseTypeOK, NEW lease \in Lease, NEW o \in Observation
  PROVE  /\ RemainingByServer(lease, now) \in Nat
         /\ RemainingByServer(lease, now) = 0 => now >= lease.modified + Duration
         /\ now + RemainingByServer(lease, now) >= lease.modified + Duration + Guard
         /\ Remaining(o, now) \in Nat
         /\ Remaining(o, now) = 0 => now >= o.at + o.remaining
  <1>1. now \in Nat /\ lease.modified \in Nat /\ o.at \in Nat /\ o.remaining \in Nat
        /\ Duration \in Nat /\ Duration > 0 /\ Guard \in Nat
    BY LeaseAssumption DEF LeaseTypeOK, Lease, Observation
  <1> QED
    BY <1>1 DEF RemainingByServer, Remaining

\* The steps of a task other than the landing of its put: the call stays fine, and
\* the process's memory holds nothing new but what an answer brought.
LEMMA TaskEffect ==
  ASSUME LeaseTypeOK, StoredSound, CallsSound, NEW t \in Tasks, QuietTask(t)
  PROVE  /\ \E c, l, a : Effect(t, c, l, a)
         /\ up' = up /\ now' = now /\ stored' = stored /\ releases' = releases
         /\ users' \in [Procs -> Nat]
  <1> DEFINE p == ProcOf[t]
  <1>0. ProcOf \in [Tasks -> Procs]
    BY LeaseAssumption
  <1>1. /\ p \in Procs /\ call[t] \in Call /\ call[t].op \in Ops /\ stored \in Lease
        /\ local[p] \in LocalLease /\ abandoned[p] \in LocalLease
        /\ local[p].gen \in Nat /\ abandoned[p].gen \in Nat
        /\ CallSound(call[t], p)
    BY <1>0 DEF LeaseTypeOK, Call, Ops, LocalLease, CallsSound
  <1>2. /\ Kept(p, NoLocal) /\ Kept(p, local[p]) /\ Kept(p, abandoned[p])
        /\ local = [local EXCEPT ![p] = local[p]]
        /\ abandoned = [abandoned EXCEPT ![p] = abandoned[p]]
    BY <1>1, MemoryKept
  <1>3. \A o \in Ops, x \in Plain, g \in Nat :
          /\ Fine(Idle, p)
          /\ Fine([Idle EXCEPT !.op = o, !.pc = x], p)
          /\ Fine([Idle EXCEPT !.op = o, !.pc = x, !.gen = g], p)
    BY <1>1, FreshCalls, Zenon
  <1>4. /\ "acquire" \in Ops /\ "renew" \in Ops /\ "release" \in Ops /\ "done" \in Plain
        /\ "read" \in Plain /\ "lost" \in Plain /\ 0 \in Nat
    BY DEF Ops, Plain
  <1>5. users \in [Procs -> Nat]
    BY DEF LeaseTypeOK
  <1> HIDE DEF p
  <1>a. CASE StartAcquire(t)
    <2>1. PICK x \in Plain : call' = [call EXCEPT ![t] = [Idle EXCEPT !.op = "acquire", !.pc = x]]
      BY <1>a, <1>4, Zenon DEF StartAcquire
    <2>2. Fine([Idle EXCEPT !.op = "acquire", !.pc = x], p)
      BY <1>3, <1>4, Zenon
    <2>3. local' = local /\ abandoned' = abandoned /\ users' = users
          /\ up' = up /\ now' = now /\ stored' = stored /\ releases' = releases
      BY <1>a DEF StartAcquire
    <2> QED
      BY <1>2, <1>5, <2>1, <2>2, <2>3, Zenon DEF Effect, p
  <1>b. CASE StartRenew(t)
    <2>1. PICK x \in Plain, l \in {local[p], NoLocal} :
            /\ call' = [call EXCEPT ![t] = [Idle EXCEPT !.op = "renew", !.pc = x]]
            /\ local' = [local EXCEPT ![p] = l]
      <3>1. CASE HoldsValidLocal(p)
        BY <1>b, <1>2, <1>4, <3>1, Zenon DEF StartRenew, p
      <3>2. CASE ~HoldsValidLocal(p)
        BY <1>b, <1>2, <1>4, <3>2, Zenon DEF StartRenew, p
      <3> QED
        BY <3>1, <3>2, Zenon
    <2>2. Fine([Idle EXCEPT !.op = "renew", !.pc = x], p)
      BY <1>3, <1>4, Zenon
    <2>3. abandoned' = abandoned /\ users' = users
          /\ up' = up /\ now' = now /\ stored' = stored /\ releases' = releases
      BY <1>b DEF StartRenew
    <2>4. Kept(p, l)
      BY <1>2
    <2> QED
      BY <1>2, <1>5, <2>1, <2>2, <2>3, <2>4, Zenon DEF Effect, p
  <1>c. CASE StartRelease(t)
    <2> DEFINE lease == IF local[p] # NoLocal THEN local[p] ELSE abandoned[p]
               c == IF lease = NoLocal THEN [Idle EXCEPT !.op = "release", !.pc = "done"]
                    ELSE [Idle EXCEPT !.op = "release", !.pc = "read", !.gen = lease.gen]
               a == IF local[p] # NoLocal THEN abandoned[p] ELSE NoLocal
    <2>1. call' = [call EXCEPT ![t] = c] /\ local' = [local EXCEPT ![p] = NoLocal]
      BY <1>c, Zenon DEF StartRelease, p
    <2>2. abandoned' = [abandoned EXCEPT ![p] = a]
      BY <1>c, <1>2, Zenon DEF StartRelease, p
    <2>3. users' = users /\ up' = up /\ now' = now /\ stored' = stored /\ releases' = releases
      BY <1>c DEF StartRelease
    <2>4. lease.gen \in Nat
      BY <1>1
    <2>5. Fine(c, p)
      BY <1>3, <1>4, <2>4, Zenon
    <2>6. Kept(p, a)
      BY <1>2
    <2> HIDE DEF c, a
    <2> QED
      BY <1>2, <1>5, <2>1, <2>2, <2>3, <2>5, <2>6, Zenon DEF Effect, p
  <1>d. CASE ReleaseScope(t)
    <2> DEFINE lease == IF local[p] # NoLocal THEN local[p] ELSE abandoned[p]
               last == users[p] <= 1
               c == IF last /\ lease # NoLocal
                    THEN [Idle EXCEPT !.op = "release", !.pc = "read", !.gen = lease.gen]
                    ELSE [Idle EXCEPT !.op = "release", !.pc = "done"]
               l == IF last THEN NoLocal ELSE local[p]
               a == IF last THEN NoLocal ELSE abandoned[p]
    <2>1. call' = [call EXCEPT ![t] = c]
      BY <1>d, Zenon DEF ReleaseScope, p
    <2>2. local' = [local EXCEPT ![p] = l] /\ abandoned' = [abandoned EXCEPT ![p] = a]
      BY <1>d, <1>2, Zenon DEF ReleaseScope, p
    <2>3. up' = up /\ now' = now /\ stored' = stored /\ releases' = releases
      BY <1>d DEF ReleaseScope
    <2>4. users' \in [Procs -> Nat]
      <3>1. users' = [users EXCEPT ![p] = IF users[p] <= 1 THEN 0 ELSE users[p] - 1]
        BY <1>d DEF ReleaseScope, p
      <3> QED
        BY <1>1, <1>5, <3>1
    <2>5. lease.gen \in Nat
      BY <1>1
    <2>6. Fine(c, p)
      BY <1>3, <1>4, <2>5, Zenon
    <2>7. Kept(p, l) /\ Kept(p, a)
      BY <1>2
    <2> HIDE DEF c, a, l
    <2> QED
      BY <2>1, <2>2, <2>3, <2>4, <2>6, <2>7, Zenon DEF Effect, p
  <1>e. CASE ReadStored(t)
    <2>1. users' = users /\ up' = up /\ now' = now /\ stored' = stored /\ releases' = releases
      BY <1>e DEF ReadStored
    <2>2. call[t].op # "release"
      BY <1>e DEF ReadStored
    <2>3. \E c, l, a : Effect(t, c, l, a)
      <3>1. CASE stored.released
        <4>1. Decide(t, stored, 0)
          BY <1>e, <3>1, Zenon DEF ReadStored
        <4>2. stored.beat <= stored.beat
          <5>1. stored.beat \in Nat
            BY <1>1, Zenon DEF Lease
          <5> QED
            BY <5>1
        <4> QED
          BY <1>0, <1>1, <1>4, <2>2, <3>1, <4>1, <4>2, DecideEffect
      <3>2. CASE ~stored.released /\ observed[p].beat = stored.beat
        <4> DEFINE r == Remaining(observed[p], now)
        <4>1. Decide(t, stored, r)
          BY <1>e, <3>2, Zenon DEF ReadStored, p
        <4>2. observed[p] \in Observation
          BY <1>1 DEF LeaseTypeOK
        <4>3. r \in Nat /\ (r = 0 => now >= observed[p].at + observed[p].remaining)
          BY <1>1, <4>2, RemainingFacts
        <4> HIDE DEF r
        <4>4. ASSUME Timely, r = 0, ~OwnedBy(stored, p) PROVE now >= stored.modified + Duration
          <5>1. ObservationSound(observed[p], p)
            BY <1>1, <4>4 DEF Timely, ObservationsSound
          <5>2. observed[p].at + observed[p].remaining >= stored.modified + Duration
            BY <5>1, <3>2, <4>4 DEF ObservationSound, OwnedBy
          <5>3. /\ observed[p].at \in Nat /\ observed[p].remaining \in Nat /\ now \in Nat
                /\ stored.modified \in Nat /\ Duration \in Nat
            BY <1>1, <4>2, LeaseAssumption, Zenon DEF Observation, Lease, LeaseTypeOK
          <5> QED
            BY <4>3, <4>4, <5>2, <5>3
        <4>5. stored.beat <= stored.beat
          <5>1. stored.beat \in Nat
            BY <1>1, Zenon DEF Lease
          <5> QED
            BY <5>1
        <4> QED
          BY <1>0, <1>1, <2>2, <4>1, <4>3, <4>4, <4>5, DecideEffect DEF p
      <3>3. CASE ~stored.released /\ observed[p].beat # stored.beat
        <4> DEFINE c == [call[t] EXCEPT !.pc = "probe", !.seen = stored, !.at = now]
        <4>1. call' = [call EXCEPT ![t] = c] /\ local' = local /\ abandoned' = abandoned
          BY <1>e, <3>3, Zenon DEF ReadStored, p
        <4>2. stored.beat <= stored.beat /\ "probe" \in {"write", "probe"} /\ "probe" # "write"
          <5>1. stored.beat \in Nat
            BY <1>1, Zenon DEF Lease
          <5> QED
            BY <5>1
        <4>3. Fine(c, p)
          BY <1>1, <2>2, <4>2, ReadFine, Zenon DEF p
        <4> HIDE DEF c
        <4> QED
          BY <1>2, <4>1, <4>3, Zenon DEF Effect, p
      <3> QED
        BY <3>1, <3>2, <3>3, ZenonT(60)
    <2> QED
      BY <1>5, <2>1, <2>3
  <1>f. CASE ProbeServerTime(t)
    <2> DEFINE seen == call[t].seen
               r == RemainingByServer(seen, now)
    <2>1. users' = users /\ up' = up /\ now' = now /\ stored' = stored /\ releases' = releases
      BY <1>f, Zenon DEF ProbeServerTime
    <2>2. call[t].pc = "probe" /\ Decide(t, seen, r)
      BY <1>f, Zenon DEF ProbeServerTime
    <2>3. /\ call[t].op # "release" /\ seen.beat <= stored.beat
          /\ seen.beat = stored.beat => seen = stored
      BY <1>1, <2>2 DEF CallSound
    <2>4. seen \in Lease
      BY <1>1 DEF Call
    <2>5. r \in Nat /\ (r = 0 => now >= seen.modified + Duration)
      <3>1. NoObservation \in Observation
        BY Records
      <3> QED
        BY <2>4, <3>1, RemainingFacts
    <2> HIDE DEF r, seen
    <2>6. \E c, l, a : Effect(t, c, l, a)
      BY <1>0, <2>2, <2>3, <2>4, <2>5, DecideEffect
    <2> QED
      BY <1>5, <2>1, <2>6, Zenon
  <1>g. CASE ReadForRelease(t)
    <2>1. /\ local' = local /\ abandoned' = abandoned
          /\ users' = users /\ up' = up /\ now' = now /\ stored' = stored /\ releases' = releases
      BY <1>g, Zenon DEF ReadForRelease
    <2>2. \E c : Fine(c, p) /\ call' = [call EXCEPT ![t] = c]
      <3>1. CASE stored = NoLease \/ stored.holder # p \/ stored.gen # call[t].gen
        <4>1. Finish(t, "done")
          BY <1>g, <3>1, Zenon DEF ReadForRelease, p
        <4> QED
          BY <1>0, <1>4, <4>1, FinishEffect DEF p
      <3>2. CASE ~(stored = NoLease \/ stored.holder # p \/ stored.gen # call[t].gen)
        <4> DEFINE c == [call[t] EXCEPT !.pc = "write", !.seen = stored, !.at = now]
        <4>1. call' = [call EXCEPT ![t] = c] /\ call[t].op = "release"
          BY <1>g, <3>2, Zenon DEF ReadForRelease, p
        <4>2. /\ stored.beat <= stored.beat /\ stored.beat > 0 /\ "write" \in {"write", "probe"}
              /\ stored.holder = p
          BY <1>1, <3>2 DEF Lease, StoredSound
        <4>3. Fine(c, p)
          BY <1>1, <4>1, <4>2, ReadFine, Zenon DEF p
        <4> QED
          BY <4>1, <4>3, Zenon
      <3> QED
        BY <3>1, <3>2
    <2> QED
      BY <1>2, <1>5, <2>1, <2>2, Zenon DEF Effect, p
  <1>h. CASE Acknowledge(t)
    <2> DEFINE until == Until(t)
               new == [gen |-> call[t].gen, until |-> until]
    <2>1. users' = users /\ up' = up /\ now' = now /\ stored' = stored /\ releases' = releases
      BY <1>h DEF Acknowledge
    <2>2. call[t].pc = "ack"
      BY <1>h, Zenon DEF Acknowledge
    <2>3. \E c, l, a : Effect(t, c, l, a)
      <3>1. CASE call[t].op = "release"
        <4>1. Finish(t, "done") /\ local' = local /\ abandoned' = abandoned
          BY <1>h, <3>1 DEF Acknowledge
        <4>2. \E c : Fine(c, p) /\ call' = [call EXCEPT ![t] = c]
          BY <1>0, <1>4, <4>1, FinishEffect DEF p
        <4> QED
          BY <1>2, <4>1, <4>2, Zenon DEF Effect, p
      <3>2. CASE call[t].op # "release" /\ now >= until
        <4>1. Retry(t) /\ abandoned' = abandoned
          BY <1>h, <3>2 DEF Acknowledge
        <4>2. PICK c, m : /\ Fine(c, p) /\ Kept(p, m)
                          /\ call' = [call EXCEPT ![t] = c]
                          /\ local' = [local EXCEPT ![p] = m]
          BY <1>0, <4>1, RetryEffect DEF p
        <4> QED
          BY <1>2, <4>1, <4>2, Zenon DEF Effect, p
      <3>3. CASE call[t].op # "release" /\ ~(now >= until)
        <4>1. CASE call[t].op = "renew" /\ users[p] = 0
          <5>1. Fail(t, local[p]) /\ abandoned' = abandoned
            BY <1>h, <3>3, <4>1, Zenon DEF Acknowledge, p
          <5>2. PICK c, m : /\ Fine(c, p) /\ Kept(p, m)
                            /\ call' = [call EXCEPT ![t] = c]
                            /\ local' = [local EXCEPT ![p] = m]
            BY <1>0, <1>1, <1>2, <5>1, FailEffect DEF p
          <5> QED
            BY <1>2, <5>1, <5>2, Zenon DEF Effect, p
        <4>2. CASE ~(call[t].op = "renew" /\ users[p] = 0)
          <5>1. /\ local' = [local EXCEPT ![p] = new]
                /\ abandoned' = [abandoned EXCEPT ![p] = NoLocal]
                /\ Finish(t, "done")
            BY <1>h, <3>3, <4>2 DEF Acknowledge, p
          <5>2. \E c : Fine(c, p) /\ call' = [call EXCEPT ![t] = c]
            BY <1>0, <1>4, <5>1, FinishEffect, Zenon DEF p
          <5>3. new \in Authorities(p)
            BY <2>2, <3>3, Zenon DEF Authorities, Acknowledging, p, Until
          <5>4. Kept(p, new)
            BY <1>1, <5>3, AuthoritiesTyped DEF Kept
          <5> HIDE DEF new
          <5> QED
            BY <1>2, <5>1, <5>2, <5>4, Zenon DEF Effect, p
        <4> QED
          BY <4>1, <4>2
      <3> QED
        BY <3>1, <3>2, <3>3
    <2> QED
      BY <1>5, <2>1, <2>3
  <1>i. CASE StoreError(t)
    <2>1. /\ abandoned' = abandoned /\ Fail(t, local[p])
          /\ users' = users /\ up' = up /\ now' = now /\ stored' = stored /\ releases' = releases
      BY <1>i DEF StoreError, p
    <2>2. PICK c, m : /\ Fine(c, p) /\ Kept(p, m)
                      /\ call' = [call EXCEPT ![t] = c]
                      /\ local' = [local EXCEPT ![p] = m]
      BY <1>0, <1>1, <1>2, <2>1, FailEffect DEF p
    <2> QED
      BY <1>2, <1>5, <2>1, <2>2, ZenonT(60) DEF Effect, p
  <1>j. CASE DropCall(t)
    <2>1. /\ call' = [call EXCEPT ![t] = Idle] /\ local' = local /\ abandoned' = abandoned
          /\ users' = users /\ up' = up /\ now' = now /\ stored' = stored /\ releases' = releases
      BY <1>j DEF DropCall
    <2>2. Fine(Idle, p)
      BY <1>3, <1>4, Zenon
    <2> QED
      BY <1>2, <1>5, <2>1, <2>2, Zenon DEF Effect, p
  <1> QED
    BY <1>a, <1>b, <1>c, <1>d, <1>e, <1>f, <1>g, <1>h, <1>i, <1>j DEF QuietTask
\* What a task concludes about the lease object is sound: a probe is answered
\* within the guard, and a put that landed made the task's process the holder.
LEMMA TaskObserves ==
  ASSUME LeaseTypeOK, CallsSound, NEW t \in Tasks, QuietTask(t)
  PROVE  /\ observed' \in [Procs -> Observation]
         /\ Timely => ObservationsSound'
  <1> DEFINE p == ProcOf[t]
  <1>1. /\ p \in Procs /\ call[t] \in Call /\ CallSound(call[t], p)
        /\ observed \in [Procs -> Observation] /\ stored \in Lease /\ now \in Nat
    BY LeaseAssumption, Zenon DEF LeaseTypeOK, CallsSound
  <1>2. /\ call[t].seen \in Lease /\ call[t].at \in Nat /\ Duration \in Nat /\ Guard \in Nat
        /\ Patience \in Nat
        /\ stored.beat \in Nat /\ stored.modified \in Nat
    BY <1>1, LeaseAssumption DEF Call, Lease
  <1>3. call[t].seen.beat \in Nat
    BY <1>2 DEF Lease
  <1> HIDE DEF p
  <1>4. ASSUME NEW o \in Observation, observed' = [observed EXCEPT ![p] = o], stored' = stored,
               Timely => ObservationSound(o, p)
        PROVE  observed' \in [Procs -> Observation] /\ (Timely => ObservationsSound')
    <2>1. observed' \in [Procs -> Observation]
      BY <1>1, <1>4
    <2>2. ASSUME Timely, NEW q \in Procs PROVE ObservationSound(observed[q], q)'
      <3>1. ObservationSound(observed'[q], q)
        BY <1>1, <1>4, <2>2 DEF Timely, ObservationsSound
      <3> QED
        BY <1>4, <3>1 DEF ObservationSound
    <2> QED
      BY <2>1, <2>2 DEF ObservationsSound
  <1>5. CASE observed' = observed /\ stored' = stored
    <2>1. Timely => ObservationsSound'
      BY <1>5 DEF Timely, ObservationsSound, ObservationSound
    <2> QED
      BY <1>1, <1>5, <2>1
  <1>6. CASE ProbeServerTime(t)
    <2> DEFINE seen == call[t].seen
               r == RemainingByServer(seen, now)
               o == [beat |-> seen.beat, at |-> call[t].at, remaining |-> r]
    <2>1. observed' = [observed EXCEPT ![p] = o] /\ stored' = stored /\ call[t].pc = "probe"
      BY <1>6 DEF ProbeServerTime, p
    <2>2. r \in Nat /\ now + r >= seen.modified + Duration + Guard
      <3>1. NoObservation \in Observation
        BY Records
      <3> QED
        BY <1>2, <3>1, RemainingFacts
    <2> HIDE DEF r
    <2>3. o \in Observation /\ o.beat = seen.beat /\ o.at = call[t].at /\ o.remaining = r
      BY <1>2, <1>3, <2>2, Zenon DEF Observation
    <2>4. seen.beat <= stored.beat /\ (seen.beat = stored.beat => seen = stored)
      BY <1>1 DEF CallSound
    <2>5. ASSUME Timely PROVE ObservationSound(o, p)
      <3>1. now <= call[t].at + Patience /\ Patience <= Guard
        BY <1>1, <2>1, <2>5 DEF Timely, CallsTimely, CallTimely
      <3>2. seen.modified \in Nat
        BY <1>2, ZenonT(60) DEF Lease
      <3>3. call[t].at + r >= seen.modified + Duration
        BY <1>1, <1>2, <2>2, <3>1, <3>2
      <3> HIDE DEF o, seen
      <3> QED
        BY <2>3, <2>4, <3>3, ZenonT(60) DEF ObservationSound
    <2> HIDE DEF o
    <2> QED
      BY <1>4, <2>1, <2>3, <2>5, ZenonT(60)
  <1>7. CASE Acknowledge(t)
    <2> DEFINE beat == call[t].seen.beat + 1
    <2>1. stored' = stored /\ call[t].pc = "ack"
      BY <1>7, ZenonT(60) DEF Acknowledge
    <2>2. \/ observed' = observed
          \/ \E r \in Nat :
               observed' = [observed EXCEPT ![p] = [beat |-> beat, at |-> call[t].at,
                                                    remaining |-> r]]
      <3>1. 0 \in Nat /\ Duration + Guard \in Nat
        BY <1>2
      <3>2. CASE call[t].op = "release"
        BY <1>7, <3>1, <3>2 DEF Acknowledge, p
      <3>3. CASE call[t].op # "release" /\ now >= Until(t)
        BY <1>7, <3>3 DEF Acknowledge
      <3>4. CASE call[t].op # "release" /\ ~(now >= Until(t))
        BY <1>7, <3>1, <3>4 DEF Acknowledge, p
      <3> QED
        BY <3>2, <3>3, <3>4
    <2>3. ASSUME NEW r \in Nat,
                 observed' = [observed EXCEPT ![p] = [beat |-> beat, at |-> call[t].at,
                                                      remaining |-> r]]
          PROVE  observed' \in [Procs -> Observation] /\ (Timely => ObservationsSound')
      <3> DEFINE o == [beat |-> beat, at |-> call[t].at, remaining |-> r]
      <3>1. o \in Observation /\ o.beat = beat
        BY <1>2, <1>3 DEF Observation
      <3>2. beat <= stored.beat /\ (beat = stored.beat => stored.holder = p)
        BY <1>1, <1>2, <1>3, <2>1 DEF CallSound
      <3> HIDE DEF o, beat
      <3>3. ObservationSound(o, p)
        BY <3>1, <3>2 DEF ObservationSound
      <3> QED
        BY <1>4, <2>1, <2>3, <3>1, <3>3, Zenon DEF o
    <2> QED
      BY <1>5, <2>1, <2>2, <2>3
  <1>8. CASE StartAcquire(t) \/ StartRenew(t) \/ StartRelease(t) \/ ReleaseScope(t)
             \/ ReadStored(t) \/ ReadForRelease(t) \/ StoreError(t) \/ DropCall(t)
    BY <1>5, <1>8, Zenon DEF StartAcquire, StartRenew, StartRelease, ReleaseScope, ReadStored,
                             ReadForRelease, StoreError, DropCall
  <1> QED
    BY <1>6, <1>7, <1>8 DEF QuietTask

\* So the step of a task keeps the invariant.
LEMMA EffectKeeps ==
  ASSUME LeaseInv, NEW t \in Tasks, NEW c, NEW l, NEW a, Effect(t, c, l, a),
         up' = up, now' = now, stored' = stored, releases' = releases,
         users' \in [Procs -> Nat], observed' \in [Procs -> Observation]
  PROVE  /\ LeaseInv'
         /\ Timely => CallsTimely'
         /\ AuthorityTimely => AuthorityTimely'
  <1> DEFINE p == ProcOf[t]
  <1>1. LeaseTypeOK /\ StoredSound /\ CallsSound /\ AuthorityOwned /\ AuthorityUnique
    BY DEF LeaseInv
  <1>2. /\ p \in Procs /\ ProcOf \in [Tasks -> Procs]
        /\ call \in [Tasks -> Call] /\ local \in [Procs -> LocalLease]
        /\ abandoned \in [Procs -> LocalLease] /\ now \in Nat
    BY <1>1, LeaseAssumption DEF LeaseTypeOK
  <1>3. /\ c \in Call /\ c.pc # "ack" /\ CallSound(c, p) /\ (Timely => CallTimely(c, p))
        /\ Kept(p, l) /\ Kept(p, a) /\ l \in LocalLease /\ a \in LocalLease
    BY DEF Effect, Fine, Kept
  <1>4. /\ call' = [call EXCEPT ![t] = c] /\ local' = [local EXCEPT ![p] = l]
        /\ abandoned' = [abandoned EXCEPT ![p] = a]
    BY Zenon DEF Effect
  <1> HIDE DEF p
  <1>5. LeaseTypeOK'
    BY <1>1, <1>2, <1>3, <1>4 DEF LeaseTypeOK
  <1>6. StoredSound'
    BY <1>1 DEF StoredSound
  <1>7. \A u \in Tasks : call'[u] = IF u = t THEN c ELSE call[u]
    BY <1>2, <1>4
  <1>8. CallsSound'
    <2> SUFFICES ASSUME NEW u \in Tasks PROVE CallSound(call[u], ProcOf[u])'
      BY DEF CallsSound
    <2>1. CallSound(call'[u], ProcOf[u])
      BY <1>1, <1>3, <1>7, Zenon DEF CallsSound, p
    <2> QED
      BY <2>1, ZenonT(60) DEF CallSound
  <1>9. Timely => CallsTimely'
    <2> SUFFICES ASSUME Timely, NEW u \in Tasks PROVE CallTimely(call[u], ProcOf[u])'
      BY Zenon DEF CallsTimely
    <2>1. CallTimely(call'[u], ProcOf[u])
      BY <1>3, <1>7, Zenon DEF Timely, CallsTimely, p
    <2> QED
      BY <2>1, Zenon DEF CallTimely
  <1>10. ASSUME NEW q \in Procs PROVE Authorities(q)' \subseteq Authorities(q)
    <2>1. \A u \in Acknowledging(q)' : u \in Acknowledging(q) /\ call'[u] = call[u]
      BY <1>3, <1>7, Zenon DEF Acknowledging
    <2>2. local'[q] \in {NoLocal} \cup Authorities(q)
      BY <1>2, <1>3, <1>4, Zenon DEF Kept, Authorities
    <2>3. abandoned'[q] \in {NoLocal} \cup Authorities(q)
      BY <1>2, <1>3, <1>4, Zenon DEF Kept, Authorities
    <2>4. ASSUME NEW u \in Acknowledging(q)'
          PROVE  [gen |-> call'[u].gen, until |-> call'[u].at + Duration] \in Authorities(q)
      BY <2>1, <2>4, Zenon DEF Authorities
    <2> QED
      BY <2>2, <2>3, <2>4, Zenon DEF Authorities
  <1>11. \A q \in Procs : \A b \in Authorities(q) : b.gen \in Nat /\ b.until \in Nat
    BY <1>1, AuthoritiesTyped
  <1>12. now' >= now /\ now' \in Nat
    BY <1>2
  <1>13. AuthorityOwned' /\ AuthorityUnique' /\ (AuthorityTimely => AuthorityTimely')
    BY <1>1, <1>10, <1>11, <1>12, AuthoritiesShrink, Zenon
  <1> QED
    BY <1>5, <1>6, <1>8, <1>9, <1>13 DEF LeaseInv
\* A step of a process, or of time, that changes no call but those it drops, and
\* brings no lease into memory, keeps the invariant.
LEMMA ProcessKeeps ==
  ASSUME LeaseInv, NEW P \in SUBSET Tasks,
         call' = [t \in Tasks |-> IF t \in P THEN Idle ELSE call[t]],
         local' \in [Procs -> LocalLease], abandoned' \in [Procs -> LocalLease],
         \A q \in Procs : {local'[q], abandoned'[q]} \subseteq {local[q], abandoned[q], NoLocal},
         up' \subseteq Procs, users' \in [Procs -> Nat], stored' = stored, releases' = releases,
         now' \in Nat, now' >= now,
         observed' \in [Procs -> Observation],
         \A q \in Procs : observed'[q] \in {observed[q], NoObservation},
         \A t \in Tasks : call[t].pc = "probe" => now' <= call[t].at + Patience \/ now' = now
  PROVE  /\ LeaseInv'
         /\ Timely => Timely'
         /\ AuthorityTimely => AuthorityTimely'
  <1>1. LeaseTypeOK /\ StoredSound /\ CallsSound /\ AuthorityOwned /\ AuthorityUnique
    BY Zenon DEF LeaseInv
  <1>2. /\ call \in [Tasks -> Call] /\ now \in Nat /\ stored \in Lease
        /\ Idle \in Call /\ Idle.pc = "idle" /\ Idle.at = 0 /\ Idle.seen = NoLease
        /\ NoLease.beat = 0 /\ NoObservation.beat = 0 /\ NoLease.released
        /\ Duration \in Nat /\ Patience \in Nat
    BY <1>1, Records, LeaseAssumption, Zenon DEF LeaseTypeOK, Idle, NoLease, NoObservation
  <1>3. stored.beat \in Nat /\ stored.modified \in Nat
    BY <1>2, Zenon DEF Lease
  <1>4. LeaseTypeOK'
    BY <1>1, <1>2, ZenonT(60) DEF LeaseTypeOK
  <1>5. StoredSound'
    BY <1>1, <1>2, <1>3 DEF StoredSound
  <1>6. \A t \in Tasks : call'[t] = IF t \in P THEN Idle ELSE call[t]
    BY Zenon
  <1>7. CallsSound'
    <2> SUFFICES ASSUME NEW t \in Tasks PROVE CallSound(call[t], ProcOf[t])'
      BY ZenonT(60) DEF CallsSound
    <2>1. CASE t \in P
      <3>1. call'[t] = Idle
        BY <1>6, <2>1, Zenon
      <3>2. stored.beat = 0 => stored = NoLease
        BY <1>1, ZenonT(60) DEF StoredSound
      <3> QED
        BY <1>2, <1>3, <3>1, <3>2 DEF CallSound
    <2>2. CASE t \notin P
      <3>1. call'[t] = call[t] /\ CallSound(call[t], ProcOf[t]) /\ call[t].at \in Nat
        BY <1>1, <1>2, <1>6, <2>2 DEF CallsSound, Call
      <3> QED
        BY <1>2, <3>1 DEF CallSound
    <2> QED
      BY <2>1, <2>2, Zenon
  <1>8. ASSUME NEW q \in Procs PROVE Authorities(q)' \subseteq Authorities(q)
    <2>1. \A u \in Acknowledging(q)' : u \in Acknowledging(q) /\ call'[u] = call[u]
      BY <1>2, <1>6, Zenon DEF Acknowledging
    <2>2. {local'[q], abandoned'[q]} \subseteq {NoLocal} \cup Authorities(q)
      BY DEF Authorities
    <2>3. ASSUME NEW u \in Acknowledging(q)'
          PROVE  [gen |-> call'[u].gen, until |-> call'[u].at + Duration] \in Authorities(q)
      BY <2>1, <2>3, Zenon DEF Authorities
    <2> QED
      BY <2>2, <2>3, ZenonT(60) DEF Authorities
  <1>9. \A q \in Procs : \A b \in Authorities(q) : b.gen \in Nat /\ b.until \in Nat
    BY <1>1, AuthoritiesTyped, Zenon
  <1>10. AuthorityOwned' /\ AuthorityUnique' /\ (AuthorityTimely => AuthorityTimely')
    BY <1>1, <1>8, <1>9, AuthoritiesShrink, Zenon
  <1>11. ASSUME Timely PROVE CallsTimely'
    <2> SUFFICES ASSUME NEW t \in Tasks PROVE CallTimely(call[t], ProcOf[t])'
      BY Zenon DEF CallsTimely
    <2>1. CASE t \in P
      <3>1. call'[t] = Idle
        BY <1>6, <2>1, ZenonT(60)
      <3> QED
        BY <1>2, <3>1, Zenon DEF CallTimely
    <2>2. CASE t \notin P
      <3>1. call'[t] = call[t] /\ CallTimely(call[t], ProcOf[t]) /\ call[t] \in Call
        BY <1>2, <1>6, <1>11, <2>2, Zenon DEF Timely, CallsTimely
      <3>2. call[t].at \in Nat /\ call[t].seen \in Lease
        BY <3>1, Zenon DEF Call
      <3>3. call[t].seen.modified \in Nat
        BY <3>2, Zenon DEF Lease
      <3>4. call[t].pc = "probe" => now' <= call[t].at + Patience
        BY <3>1, Zenon DEF CallTimely
      <3> QED
        BY <1>2, <3>1, <3>2, <3>3, <3>4 DEF CallTimely, OwnedBy
    <2> QED
      BY <2>1, <2>2, Zenon
  <1>12. ASSUME Timely PROVE ObservationsSound'
    <2> SUFFICES ASSUME NEW q \in Procs PROVE ObservationSound(observed[q], q)'
      BY Zenon DEF ObservationsSound
    <2>1. CASE observed'[q] = observed[q]
      <3>1. ObservationSound(observed[q], q)
        BY <1>12, ZenonT(60) DEF Timely, ObservationsSound
      <3> QED
        BY <2>1, <3>1, Zenon DEF ObservationSound
    <2>2. CASE observed'[q] = NoObservation
      <3>1. stored.beat = 0 => stored = NoLease
        BY <1>1 DEF StoredSound
      <3> QED
        BY <1>2, <1>3, <2>2, <3>1 DEF ObservationSound
    <2> QED
      BY <2>1, <2>2, Zenon
  <1> QED
    BY <1>4, <1>5, <1>7, <1>10, <1>11, <1>12, Zenon DEF LeaseInv, Timely
\* Every step but the landing of a put keeps the invariant and the lease object.
LEMMA QuietKeeps ==
  ASSUME LeaseInv,
         \/ \E t \in Tasks : QuietTask(t)
         \/ \E p \in Procs : QuietProcess(p)
         \/ Tick
  PROVE  /\ LeaseInv' /\ stored' = stored
         /\ Timely => Timely'
         /\ AuthorityTimely => AuthorityTimely'
  <1>1. LeaseTypeOK /\ StoredSound /\ CallsSound /\ AuthorityOwned /\ AuthorityUnique
    BY DEF LeaseInv
  <1>2. ASSUME NEW t \in Tasks, QuietTask(t)
        PROVE  /\ LeaseInv' /\ stored' = stored
               /\ Timely => Timely'
               /\ AuthorityTimely => AuthorityTimely'
    <2>1. /\ \E c, l, a : Effect(t, c, l, a)
          /\ up' = up /\ now' = now /\ stored' = stored /\ releases' = releases
          /\ users' \in [Procs -> Nat]
      BY <1>1, <1>2, TaskEffect
    <2>2. observed' \in [Procs -> Observation] /\ (Timely => ObservationsSound')
      BY <1>1, <1>2, TaskObserves
    <2>3. PICK c, l, a : Effect(t, c, l, a)
      BY <2>1
    <2>4. /\ LeaseInv'
          /\ Timely => CallsTimely'
          /\ AuthorityTimely => AuthorityTimely'
      BY <2>1, <2>2, <2>3, EffectKeeps
    <2> QED
      BY <2>1, <2>2, <2>4 DEF Timely
  <1>3. /\ call \in [Tasks -> Call] /\ local \in [Procs -> LocalLease] /\ now \in Nat
        /\ abandoned \in [Procs -> LocalLease] /\ users \in [Procs -> Nat]
        /\ up \subseteq Procs /\ observed \in [Procs -> Observation]
    BY <1>1 DEF LeaseTypeOK
  <1>4. /\ NoLocal \in LocalLease /\ NoObservation \in Observation
        /\ {} \in SUBSET Tasks /\ now >= now
    BY <1>3, Records
  <1>5. call = [t \in Tasks |-> IF t \in {} THEN Idle ELSE call[t]]
    BY <1>3
  <1>6. ASSUME NEW p \in Procs, RegisterScope(p)
        PROVE  /\ LeaseInv' /\ stored' = stored
               /\ Timely => Timely'
               /\ AuthorityTimely => AuthorityTimely'
    <2>1. users' \in [Procs -> Nat]
      BY <1>3, <1>6 DEF RegisterScope
    <2>2. /\ up' = up /\ now' = now /\ stored' = stored /\ local' = local
          /\ abandoned' = abandoned /\ observed' = observed /\ call' = call /\ releases' = releases
      BY <1>6 DEF RegisterScope
    <2> QED
      BY <1>3, <1>4, <1>5, <2>1, <2>2, ProcessKeeps, Zenon
  <1>7. ASSUME NEW p \in Procs, AbandonScope(p)
        PROVE  /\ LeaseInv' /\ stored' = stored
               /\ Timely => Timely'
               /\ AuthorityTimely => AuthorityTimely'
    <2>1. users' \in [Procs -> Nat]
      <3>1. users' = [users EXCEPT ![p] = IF users[p] <= 1 THEN 0 ELSE users[p] - 1]
        BY <1>7 DEF AbandonScope
      <3> QED
        BY <1>3, <3>1
    <2>2. /\ up' = up /\ now' = now /\ stored' = stored
          /\ observed' = observed /\ call' = call /\ releases' = releases
      BY <1>7 DEF AbandonScope
    <2>3. PICK l \in {local[p], NoLocal} : local' = [local EXCEPT ![p] = l]
      <3>1. local = [local EXCEPT ![p] = local[p]]
        BY <1>3
      <3> QED
        BY <1>7, <3>1, Zenon DEF AbandonScope
    <2>4. PICK a \in {local[p], abandoned[p], NoLocal} : abandoned' = [abandoned EXCEPT ![p] = a]
      <3>1. abandoned = [abandoned EXCEPT ![p] = abandoned[p]]
        BY <1>3
      <3> QED
        BY <1>7, <3>1, Zenon DEF AbandonScope
    <2>5. local' \in [Procs -> LocalLease] /\ abandoned' \in [Procs -> LocalLease]
      BY <1>3, <1>4, <2>3, <2>4, Zenon
    <2>6. \A q \in Procs : {local'[q], abandoned'[q]} \subseteq {local[q], abandoned[q], NoLocal}
      BY <1>3, <2>3, <2>4
    <2> QED
      BY <1>3, <1>4, <1>5, <2>1, <2>2, <2>5, <2>6, ProcessKeeps, Zenon
  <1>8. ASSUME NEW p \in Procs, ForgetParked(p)
        PROVE  /\ LeaseInv' /\ stored' = stored
               /\ Timely => Timely'
               /\ AuthorityTimely => AuthorityTimely'
    <2>1. /\ up' = up /\ now' = now /\ stored' = stored /\ local' = local /\ users' = users
          /\ observed' = observed /\ call' = call /\ releases' = releases
          /\ abandoned' = [abandoned EXCEPT ![p] = NoLocal]
      BY <1>8 DEF ForgetParked
    <2>2. /\ abandoned' \in [Procs -> LocalLease]
          /\ \A q \in Procs : {local'[q], abandoned'[q]} \subseteq {local[q], abandoned[q], NoLocal}
      BY <1>3, <1>4, <2>1, Zenon
    <2> QED
      BY <1>3, <1>4, <1>5, <2>1, <2>2, ProcessKeeps, Zenon
  <1>9. ASSUME NEW p \in Procs, Crash(p)
        PROVE  /\ LeaseInv' /\ stored' = stored
               /\ Timely => Timely'
               /\ AuthorityTimely => AuthorityTimely'
    <2> DEFINE P == {t \in Tasks : ProcOf[t] = p /\ call[t].pc # "write"}
    <2>1. /\ up' \subseteq Procs /\ now' = now /\ stored' = stored /\ releases' = releases
          /\ users' \in [Procs -> Nat]
      BY <1>3, <1>9 DEF Crash
    <2>2. /\ abandoned' = [abandoned EXCEPT ![p] = NoLocal]
          /\ local' = [local EXCEPT ![p] = NoLocal]
          /\ observed' = [observed EXCEPT ![p] = NoObservation]
      BY <1>9, Zenon DEF Crash
    <2>3. /\ abandoned' \in [Procs -> LocalLease] /\ local' \in [Procs -> LocalLease]
          /\ observed' \in [Procs -> Observation]
          /\ \A q \in Procs : {local'[q], abandoned'[q]} \subseteq {local[q], abandoned[q], NoLocal}
          /\ \A q \in Procs : observed'[q] \in {observed[q], NoObservation}
      BY <1>3, <1>4, <2>2, ZenonT(60)
    <2>4. call' = [t \in Tasks |-> IF t \in P THEN Idle ELSE call[t]]
      BY <1>9 DEF Crash
    <2>5. P \in SUBSET Tasks
      OBVIOUS
    <2> HIDE DEF P
    <2> QED
      BY <1>3, <1>4, <2>1, <2>3, <2>4, <2>5, ProcessKeeps, ZenonT(60)
  <1>10. CASE Tick
    <2>1. /\ up' = up /\ now' = now + 1 /\ stored' = stored /\ local' = local /\ users' = users
          /\ observed' = observed /\ call' = call /\ releases' = releases
          /\ abandoned' = abandoned
          /\ \A t \in Tasks : call[t].pc = "probe" => now < call[t].at + Patience
      BY <1>10, Zenon DEF Tick
    <2>2. now' \in Nat /\ now' >= now
      BY <1>3, <2>1
    <2>3. \A t \in Tasks : call[t].pc = "probe" => now' <= call[t].at + Patience
      <3> TAKE t \in Tasks
      <3>1. call[t].at \in Nat /\ Patience \in Nat
        BY <1>3, LeaseAssumption DEF Call
      <3> QED
        BY <1>3, <2>1, <3>1
    <2> QED
      BY <1>3, <1>4, <1>5, <2>1, <2>2, <2>3, ProcessKeeps, Zenon
  <1> QED
    BY <1>2, <1>6, <1>7, <1>8, <1>9, <1>10 DEF QuietProcess
\* A put that fails its condition goes back to the read or ends the call.
LEMMA MissKeeps ==
  ASSUME LeaseInv, NEW t \in Tasks, Land(t), ~Lands(t)
  PROVE  /\ LeaseInv' /\ stored' = stored
         /\ Timely => Timely'
         /\ AuthorityTimely => AuthorityTimely'
  <1> DEFINE p == ProcOf[t]
  <1>1. LeaseTypeOK /\ StoredSound /\ CallsSound
    BY DEF LeaseInv
  <1>2. /\ ProcOf \in [Tasks -> Procs] /\ p \in Procs
        /\ users \in [Procs -> Nat] /\ observed \in [Procs -> Observation]
    BY <1>1, LeaseAssumption DEF LeaseTypeOK
  <1>3. /\ stored' = stored /\ releases' = releases /\ up' = up /\ now' = now
        /\ abandoned' = abandoned /\ users' = users /\ observed' = observed
    BY DEF Land
  <1>4. Retry(t) \/ (Finish(t, "failed") /\ local' = local)
    BY DEF Land
  <1>5. /\ Kept(p, local[p]) /\ Kept(p, abandoned[p])
        /\ local = [local EXCEPT ![p] = local[p]]
        /\ abandoned = [abandoned EXCEPT ![p] = abandoned[p]]
    BY <1>1, <1>2, MemoryKept, Zenon
  <1>6. \E c, m : /\ Fine(c, p) /\ Kept(p, m)
                  /\ call' = [call EXCEPT ![t] = c] /\ local' = [local EXCEPT ![p] = m]
    <2>1. CASE Retry(t)
      BY <1>1, <1>2, <2>1, RetryEffect
    <2>2. CASE Finish(t, "failed") /\ local' = local
      <3>1. "failed" \in Plain
        BY DEF Plain
      <3>2. PICK c : Fine(c, p) /\ call' = [call EXCEPT ![t] = c]
        BY <1>1, <1>2, <2>2, <3>1, FinishEffect
      <3> QED
        BY <1>5, <2>2, <3>2, Zenon
    <2> QED
      BY <1>4, <2>1, <2>2, Zenon
  <1>7. PICK c, l, a : Effect(t, c, l, a)
    BY <1>3, <1>5, <1>6, Zenon DEF Effect
  <1>8. /\ LeaseInv'
        /\ Timely => CallsTimely'
        /\ AuthorityTimely => AuthorityTimely'
    BY <1>2, <1>3, <1>7, EffectKeeps, Zenon
  <1>9. Timely => ObservationsSound'
    BY <1>3 DEF Timely, ObservationsSound, ObservationSound
  <1> QED
    BY <1>3, <1>8, <1>9 DEF Timely

\* What a put that lands makes of the lease object: the next write of the object
\* that was read, with the caller as its holder.
LEMMA LandFacts ==
  ASSUME LeaseInv, NEW t \in Tasks, Land(t), Lands(t)
  PROVE  /\ call[t].seen = stored /\ call[t].pc = "write"
         /\ stored' \in Lease
         /\ stored'.holder = ProcOf[t] /\ stored'.beat = stored.beat + 1
         /\ stored'.modified = now
         /\ stored'.gen >= stored.gen /\ stored'.gen >= 1
         /\ stored'.released => call[t].op = "release"
         /\ call[t].op = "release" => releases' = releases \cup {stored'.gen}
         /\ call[t].op # "release" => releases' = releases
         /\ stored'.gen = stored.gen => stored.holder = ProcOf[t]
         /\ stored'.gen # stored.gen => call[t].op # "release" /\ ~OwnedBy(stored, ProcOf[t])
         /\ call' = [call EXCEPT ![t].pc = IF ProcOf[t] \in up THEN "ack" ELSE "failed",
                                 ![t].gen = stored'.gen]
         /\ up' = up /\ now' = now /\ local' = local /\ abandoned' = abandoned
         /\ users' = users /\ observed' = observed
  <1> DEFINE p == ProcOf[t]
             seen == call[t].seen
             new == IF call[t].op = "release" THEN ReleasedLease(p, seen) ELSE NextLease(p, seen)
  <1>1. LeaseTypeOK /\ StoredSound /\ CallSound(call[t], p)
    BY DEF LeaseInv, CallsSound
  <1>2. p \in Procs /\ stored \in Lease /\ now \in Nat
    BY <1>1, LeaseAssumption DEF LeaseTypeOK
  <1>3. /\ stored.gen \in Nat /\ stored.beat \in Nat /\ stored.modified \in Nat
        /\ stored.released \in BOOLEAN
    BY <1>2 DEF Lease
  <1>4. seen = stored /\ call[t].pc = "write"
    BY <1>1 DEF Land, Lands, CallSound
  <1>5. /\ stored' = [new EXCEPT !.modified = now]
        /\ call' = [call EXCEPT ![t].pc = IF p \in up THEN "ack" ELSE "failed",
                                ![t].gen = new.gen]
        /\ releases' = IF call[t].op = "release" THEN releases \cup {new.gen} ELSE releases
    BY DEF Land
  <1>6. /\ up' = up /\ now' = now /\ local' = local /\ abandoned' = abandoned
        /\ users' = users /\ observed' = observed
    BY ZenonT(60) DEF Land
  <1>7. stored.beat = 0 => stored.released /\ stored.gen = 0
    BY <1>1 DEF StoredSound, NoLease
  <1>8. stored.beat > 0 => stored.gen >= 1
    BY <1>1 DEF StoredSound
  <1>9. CASE call[t].op = "release"
    <2>1. new = [holder |-> p, gen |-> stored.gen, beat |-> stored.beat + 1, released |-> TRUE,
                 modified |-> 0]
      BY <1>4, <1>9, Zenon DEF ReleasedLease
    <2> HIDE DEF new
    <2>2. new \in Lease /\ new.gen = stored.gen /\ new.holder = p /\ new.beat = stored.beat + 1
      BY <1>2, <1>3, <2>1 DEF Lease
    <2>3. stored.holder = p /\ stored.beat > 0
      BY <1>1, <1>4, <1>9 DEF CallSound
    <2>4. /\ stored' \in Lease
          /\ stored'.holder = p /\ stored'.gen = stored.gen /\ stored'.beat = stored.beat + 1
          /\ stored'.modified = now /\ new.gen = stored'.gen
      BY <1>2, <1>5, <2>2, ZenonT(60) DEF Lease
    <2>5. stored'.gen >= stored.gen /\ stored'.gen >= 1
      BY <1>3, <1>8, <2>3, <2>4
    <2>6. releases' = releases \cup {stored'.gen}
      BY <1>5, <1>9, <2>4
    <2> QED
      BY <1>4, <1>5, <1>6, <1>9, <2>3, <2>4, <2>5, <2>6, Zenon
  <1>10. CASE call[t].op # "release"
    <2> DEFINE g == IF OwnedBy(stored, p) THEN stored.gen ELSE stored.gen + 1
    <2>1. new = [holder |-> p, gen |-> g, beat |-> stored.beat + 1, released |-> FALSE,
                 modified |-> 0]
      BY <1>4, <1>10, ZenonT(60) DEF NextLease
    <2>2. g \in Nat /\ g >= stored.gen /\ g >= 1 /\ (g = stored.gen => stored.holder = p)
          /\ (g # stored.gen => ~OwnedBy(stored, p))
      BY <1>3, <1>7, <1>8 DEF OwnedBy
    <2> HIDE DEF g, new
    <2>3. /\ new \in Lease /\ new.gen = g /\ new.holder = p /\ new.beat = stored.beat + 1
          /\ ~new.released
      BY <1>2, <1>3, <2>1, <2>2 DEF Lease
    <2>4. /\ stored' \in Lease
          /\ stored'.holder = p /\ stored'.gen = g /\ stored'.beat = stored.beat + 1
          /\ stored'.modified = now /\ new.gen = stored'.gen
      BY <1>2, <1>5, <2>3 DEF Lease
    <2>5. ~stored'.released
      BY <1>5, <2>3, Zenon DEF Lease
    <2> QED
      BY <1>3, <1>4, <1>5, <1>6, <1>10, <2>2, <2>4, <2>5, Zenon
  <1> QED
    BY <1>9, <1>10, Zenon
\* The landing of a put keeps the invariant.  The one authority it creates is of
\* the generation it writes; if that is a new one, it is above all others, and
\* what is left of the authority it ends has run out or was released.
LEMMA LandKeeps ==
  ASSUME LeaseInv, NEW t \in Tasks, Land(t), Lands(t)
  PROVE  /\ LeaseInv'
         /\ Timely => Timely'
         /\ Timely /\ AuthorityTimely => AuthorityTimely'
  <1> DEFINE p == ProcOf[t]
             x == IF p \in up THEN "ack" ELSE "failed"
             g == stored'.gen
             c == [call[t] EXCEPT !.pc = x, !.gen = g]
             n == [gen |-> g, until |-> call[t].at + Duration]
  <1>1. LeaseTypeOK /\ StoredSound /\ CallsSound /\ AuthorityOwned /\ AuthorityUnique
    BY Zenon DEF LeaseInv
  <1>2. /\ ProcOf \in [Tasks -> Procs] /\ p \in Procs /\ stored \in Lease /\ now \in Nat
        /\ call \in [Tasks -> Call] /\ call[t] \in Call /\ Duration \in Nat /\ releases \subseteq Nat
        /\ CallSound(call[t], p)
    BY <1>1, LeaseAssumption, ZenonT(60) DEF LeaseTypeOK, CallsSound
  <1>3. /\ stored.gen \in Nat /\ stored.beat \in Nat /\ stored.modified \in Nat
        /\ call[t].at \in Nat /\ call[t].at <= now
    BY <1>2 DEF Lease, Call, CallSound
  <1>4. /\ call[t].seen = stored /\ call[t].pc = "write"
        /\ stored' \in Lease /\ g \in Nat
        /\ stored'.holder = p /\ stored'.beat = stored.beat + 1 /\ stored'.modified = now
        /\ g >= stored.gen /\ g >= 1
        /\ stored'.released => call[t].op = "release"
        /\ call[t].op = "release" => releases' = releases \cup {g}
        /\ call[t].op # "release" => releases' = releases
        /\ g = stored.gen => stored.holder = p
        /\ g # stored.gen => call[t].op # "release" /\ ~OwnedBy(stored, p)
    BY LandFacts, Zenon DEF Lease
  <1>a. call[t].seen = stored
    BY <1>4, Zenon
  <1>b. g \in Nat /\ g >= stored.gen /\ g >= 1
    BY <1>4, Zenon
  <1>c. stored'.holder = p /\ stored'.gen = g
    BY <1>4, Zenon
  <1>d. stored'.beat = stored.beat + 1
    BY <1>4, Zenon
  <1>e. stored'.modified = now
    BY <1>4, Zenon
  <1>f. g = stored.gen => stored.holder = p
    BY <1>4, Zenon
  <1>g. g # stored.gen => call[t].op # "release" /\ ~OwnedBy(stored, p)
    BY <1>4, Zenon
  <1>h. releases \subseteq releases'
    BY <1>4, Zenon
  <1>k. stored.gen \in Nat /\ stored.beat \in Nat /\ stored.modified \in Nat /\ now \in Nat
    BY <1>2, <1>3, Zenon
  <1>5. /\ up' = up /\ now' = now /\ local' = local /\ abandoned' = abandoned
        /\ users' = users /\ observed' = observed
    BY LandFacts, Zenon
  <1>t. now' = now
    BY <1>5, Zenon
  <1>6. call' = [call EXCEPT ![t] = c]
    BY LandFacts, ZenonT(60)
  <1> HIDE DEF g
  <1>7. c \in Call /\ c.pc \in {"ack", "failed"} /\ c.gen = g /\ c.seen = stored
        /\ c.at = call[t].at /\ c.op = call[t].op
    BY <1>2, <1>4, Zenon DEF Call
  <1> HIDE DEF c, p
  <1>8. \A u \in Tasks : call'[u] = IF u = t THEN c ELSE call[u]
    BY <1>2, <1>6
  <1>9. LeaseTypeOK'
    <2>1. call' \in [Tasks -> Call]
      <3>1. call \in [Tasks -> Call] /\ c \in Call
        BY <1>2, <1>7, Zenon
      <3> QED
        BY <1>6, <3>1
    <2>2. releases' \subseteq Nat
      BY <1>2, <1>4, Zenon
    <2> QED
      BY <1>1, <1>4, <1>5, <2>1, <2>2, Zenon DEF LeaseTypeOK
  <1>10. StoredSound'
    <2>1. stored'.modified <= now' /\ stored'.beat > 0 /\ stored'.gen >= 1
      BY <1>b, <1>c, <1>d, <1>e, <1>k, <1>t
    <2>2. stored'.released => stored'.gen \in releases'
      BY <1>4, Zenon DEF g
    <2>3. stored'.beat # 0
      BY <1>d, <1>k
    <2> QED
      BY <2>1, <2>2, <2>3, Zenon DEF StoredSound
  <1>11. CallsSound'
    <2> SUFFICES ASSUME NEW u \in Tasks PROVE CallSound(call[u], ProcOf[u])'
      BY ZenonT(60) DEF CallsSound
    <2>1. CASE u = t
      <3>1. call'[u] = c
        BY <1>8, <2>1, ZenonT(60)
      <3>2. c.pc # "probe" /\ c.pc # "write"
        BY <1>7
      <3>3. c.at <= now
        BY <1>3, <1>7, Zenon
      <3>4. c.seen.beat = stored.beat
        BY <1>7, Zenon
      <3>5. stored'.holder = ProcOf[u]
        BY <1>c, <2>1, ZenonT(60) DEF p
      <3> QED
        BY <1>d, <1>k, <1>t, <3>1, <3>2, <3>3, <3>4, <3>5 DEF CallSound
    <2>2. CASE u # t
      <3>1. call'[u] = call[u] /\ CallSound(call[u], ProcOf[u]) /\ call[u].seen \in Lease
        BY <1>1, <1>2, <1>8, <2>2, ZenonT(60) DEF CallsSound, Call
      <3>2. call[u].seen.beat \in Nat
        BY <3>1 DEF Lease
      <3> QED
        BY <1>d, <1>k, <1>t, <3>1, <3>2 DEF CallSound
    <2> QED
      BY <2>1, <2>2, Zenon
  <1>12. ASSUME NEW q \in Procs, NEW a \in Authorities(q)'
         PROVE  a \in Authorities(q) \/ (q = p /\ a = n)
    <2>1. CASE a \in {local'[q], abandoned'[q]} \ {NoLocal}
      BY <1>5, <2>1, Zenon DEF Authorities
    <2>2. ASSUME NEW u \in Acknowledging(q)',
                 a = [gen |-> call'[u].gen, until |-> call'[u].at + Duration]
          PROVE  a \in Authorities(q) \/ (q = p /\ a = n)
      <3>0. u \in Tasks /\ ProcOf[u] = q /\ call'[u].pc = "ack" /\ call'[u].op # "release"
        BY <2>2 DEF Acknowledging
      <3>1. CASE u = t
        BY <1>7, <1>8, <2>2, <3>0, <3>1, Zenon DEF p
      <3>2. CASE u # t
        <4>1. call'[u] = call[u]
          BY <1>8, <3>0, <3>2, Zenon
        <4>2. u \in Acknowledging(q)
          BY <3>0, <4>1, Zenon DEF Acknowledging
        <4> QED
          BY <2>2, <4>1, <4>2, Zenon DEF Authorities
      <3> QED
        BY <3>1, <3>2, ZenonT(60)
    <2> QED
      BY <1>12, <2>1, <2>2, Zenon DEF Authorities
  <1>13. ASSUME NEW q \in Procs, NEW a \in Authorities(q)
         PROVE  /\ a.gen \in 1..stored.gen /\ (a.gen = stored.gen => stored.holder = q)
                /\ a.gen \in Nat /\ a.until \in Nat
    BY <1>1, AuthoritiesTyped, Zenon DEF AuthorityOwned
  <1>14. n.gen = g /\ n.until = call[t].at + Duration
    BY Zenon
  <1> HIDE DEF n
  <1>15. AuthorityOwned'
    <2> SUFFICES ASSUME NEW q \in Procs, NEW a \in Authorities(q)'
                 PROVE  a.gen \in 1..stored'.gen /\ (a.gen = stored'.gen => stored'.holder = q)
      BY Zenon DEF AuthorityOwned
    <2>1. CASE a \in Authorities(q)
      <3>1. a.gen \in 1..stored.gen /\ (a.gen = stored.gen => stored.holder = q)
        BY <1>13, <2>1, Zenon
      <3> QED
        BY <1>b, <1>c, <1>f, <1>k, <3>1
    <2>2. CASE q = p /\ a = n
      <3>1. a.gen = g
        BY <1>14, <2>2, ZenonT(60)
      <3> QED
        BY <1>b, <1>c, <2>2, <3>1
    <2> QED
      BY <1>12, <2>1, <2>2
  <1>16. AuthorityUnique'
    <2> SUFFICES ASSUME NEW q \in Procs, NEW r \in Procs, NEW a \in Authorities(q)',
                        NEW b \in Authorities(r)', a.gen = b.gen
                 PROVE  q = r
      BY DEF AuthorityUnique
    <2>1. CASE a \in Authorities(q) /\ b \in Authorities(r)
      BY <1>1, <2>1 DEF AuthorityUnique
    <2>2. CASE a.gen = g
      BY <1>15, <2>2, Zenon DEF AuthorityOwned, g
    <2> QED
      BY <1>12, <1>14, <2>1, <2>2
  <1>17. ASSUME Timely, AuthorityTimely PROVE AuthorityTimely'
    <2> SUFFICES ASSUME NEW q \in Procs, NEW a \in Authorities(q)'
                 PROVE  /\ a.gen = stored'.gen => a.until <= stored'.modified + Duration
                        /\ a.gen < stored'.gen => now' >= a.until \/ a.gen \in releases'
      BY ZenonT(60) DEF AuthorityTimely
    <2>1. CASE q = p /\ a = n
      <3>1. a.gen = g /\ a.until = call[t].at + Duration
        BY <1>14, <2>1, Zenon
      <3>2. call[t].at \in Nat /\ call[t].at <= now /\ Duration \in Nat
        BY <1>2, <1>3, Zenon
      <3> QED
        BY <1>b, <1>c, <1>e, <1>k, <3>1, <3>2
    <2>2. CASE a \in Authorities(q)
      <3>1. /\ a.gen = stored.gen => a.until <= stored.modified + Duration
            /\ a.gen < stored.gen => now >= a.until \/ a.gen \in releases
            /\ stored.modified <= now
        BY <1>1, <1>17, <2>2, Zenon DEF AuthorityTimely, StoredSound
      <3>2. a.gen \in Nat /\ a.until \in Nat /\ a.gen <= stored.gen /\ a.gen >= 1
        <4>1. a.gen \in 1..stored.gen /\ a.gen \in Nat /\ a.until \in Nat
          BY <1>13, <2>2, Zenon
        <4> QED
          BY <1>k, <4>1
      <3>3. releases \subseteq releases' /\ Duration \in Nat
        BY <1>2, <1>h, Zenon
      <3>4. a.gen = stored'.gen => a.until <= stored'.modified + Duration
        <4>1. a.gen = g => a.gen = stored.gen
          BY <1>b, <1>k, <3>2
        <4> QED
          BY <1>c, <1>e, <1>k, <3>1, <3>2, <3>3, <4>1
      <3>5. ASSUME a.gen < stored'.gen PROVE now' >= a.until \/ a.gen \in releases'
        <4>1. CASE a.gen < stored.gen
          BY <1>5, <3>1, <3>3, <4>1, ZenonT(60)
        <4>2. CASE a.gen = stored.gen
          <5>1. call[t].op # "release" /\ ~OwnedBy(stored, p)
            <6>1. g # stored.gen
              BY <1>b, <1>c, <1>k, <3>5, <4>2
            <6> QED
              BY <1>g, <6>1, Zenon
          <5>2. stored.released \/ now >= stored.modified + Duration
            BY <1>2, <1>4, <1>17, <5>1, Zenon DEF Timely, CallsTimely, CallTimely, p
          <5>3. stored.beat # 0
            <6>1. stored.beat = 0 => stored = NoLease
              BY <1>1, Zenon DEF StoredSound
            <6>2. NoLease.gen = 0
              BY DEF NoLease
            <6> QED
              BY <3>2, <4>2, <6>1, <6>2
          <5>4. stored.released => stored.gen \in releases
            <6>1. stored.released /\ stored.beat > 0 => stored.gen \in releases
              BY <1>1, Zenon DEF StoredSound
            <6> QED
              BY <1>k, <5>3, <6>1
          <5> QED
            BY <1>k, <1>t, <3>1, <3>2, <3>3, <4>2, <5>2, <5>4
        <4> QED
          BY <1>k, <3>2, <4>1, <4>2
      <3> QED
        BY <3>4, <3>5, Zenon
    <2> QED
      BY <1>12, <2>1, <2>2
  <1>18. ASSUME Timely PROVE CallsTimely'
    <2> SUFFICES ASSUME NEW u \in Tasks PROVE CallTimely(call[u], ProcOf[u])'
      BY Zenon DEF CallsTimely
    <2>1. CASE u = t
      <3>1. call'[u] = c
        BY <1>8, <2>1, Zenon
      <3> QED
        BY <1>7, <3>1, Zenon DEF CallTimely
    <2>2. CASE u # t
      <3>1. call'[u] = call[u] /\ CallTimely(call[u], ProcOf[u])
        BY <1>8, <1>18, <2>2, ZenonT(60) DEF Timely, CallsTimely
      <3> QED
        BY <1>5, <3>1, Zenon DEF CallTimely
    <2> QED
      BY <2>1, <2>2, Zenon
  <1>19. ASSUME Timely PROVE ObservationsSound'
    <2> SUFFICES ASSUME NEW q \in Procs PROVE ObservationSound(observed[q], q)'
      BY DEF ObservationsSound
    <2>1. ObservationSound(observed[q], q) /\ observed[q] \in Observation
      BY <1>1, <1>19 DEF Timely, ObservationsSound, LeaseTypeOK
    <2>2. observed[q].beat \in Nat
      BY <2>1 DEF Observation
    <2>3. observed' = observed
      BY <1>5, Zenon
    <2> QED
      BY <1>d, <1>k, <2>1, <2>2, <2>3 DEF ObservationSound
  <1> QED
    BY <1>9, <1>10, <1>11, <1>15, <1>16, <1>17, <1>18, <1>19, Zenon DEF LeaseInv, Timely
-----------------------------------------------------------------------------
(* Epochs, and the write path's own state.                                 *)

\* A step of the storage, or none.
FencedStep == Fenced!Next \/ UNCHANGED <<openers, log>>

Keeps == CellTypeOK' /\ EpochInv' /\ FencedStep

\* The states of a request and of its promotion, by name.
LEMMA StateNames ==
  /\ {"idle", "sleep", "leasing", "opening", "releasing", "closing", "check", "commit"}
       \subseteq PcStates
  /\ {"none", "queued", "opened", "ok", "error"} \subseteq SpawnStates
  BY DEF PcStates, SpawnStates

\* TypeOK is what the directory and the write path each promise of their state.
LEMMA TypeParts == TypeOK <=> LeaseTypeOK /\ CellTypeOK
  BY Zenon DEF TypeOK, CellTypeOK, PcStates, SpawnStates, Gates, Entries, Adverts

\* A step that takes no epoch and installs no handle.
LEMMA EpochsKept ==
  ASSUME EpochInv, openers' = openers, log' = log, record' = record,
         \A q \in Procs : handle'[q] \in {handle[q], 0},
         \A q \in Procs : gate'[q] \in {gate[q], NoGate}
  PROVE  EpochInv' /\ FencedStep
  <1>1. NoGate.epoch = 0
    BY Zenon DEF NoGate
  <1> QED
    BY <1>1, ZenonT(60) DEF EpochInv, TookEpoch, FencedStep

\* The steps of a request.
LEMMA RequestKeeps ==
  ASSUME TypeOK, EpochInv, NEW t \in Requests, RequestStep(t)
  PROVE  Keeps
  <1> DEFINE p == ProcOf[t]
  <1>0. CellTypeOK /\ now \in Nat
    BY TypeParts, Zenon DEF LeaseTypeOK
  <1>1. /\ p \in Procs /\ t \in Tasks
        /\ Interval \in Nat /\ Floor \in Nat /\ Ceiling \in Nat
    BY LeaseAssumption, CellAssumption
  <1>2. NoGate \in Gates /\ NoGate.epoch = 0
    BY Zenon DEF NoGate, Gates
  <1>3. /\ handle \in [Procs -> Nat]
        /\ gate \in [Procs -> Gates]
        /\ openers \in Seq(Procs)
    BY <1>0, Zenon DEF CellTypeOK
  <1> HIDE DEF p
  <1>5. /\ pc \in [Requests -> PcStates]
        /\ spawned \in [Requests -> SpawnStates]
        /\ notBefore \in [Procs -> Nat] /\ backoff \in [Procs -> Nat] /\ faults \in Nat
        /\ record \in Adverts
    BY <1>0, Zenon DEF CellTypeOK
  <1>a. CASE \E own \in {"Local", "Remote", "Unowned", "Unknown"} : RefuseWrite(t, own)
    <2>1. UNCHANGED cellVars
      BY <1>a DEF RefuseWrite
    <2> QED
      BY <1>0, <2>1, EpochsKept, ZenonT(60) DEF cellVars, CellTypeOK, Keeps
  <1>b. CASE \/ \E own \in {"Local", "Remote", "Unowned", "Unknown"} : EnsureLocalWriter(t, own)
             \/ AwaitWriterReopen(t) \/ LeaseRefused(t) \/ LeaseReleased(t)
    <2>1. /\ UNCHANGED <<spawned, gate, handle, notBefore, backoff, openers, log, record, faults>>
          /\ \E x \in {"leasing", "sleep", "idle"} : pc' = [pc EXCEPT ![t] = x]
      BY <1>b, Zenon DEF EnsureLocalWriter, AwaitWriterReopen, LeaseRefused, LeaseReleased
    <2>2. EpochInv' /\ FencedStep
      BY <2>1, EpochsKept, Zenon
    <2>3. CellTypeOK'
      BY <1>0, <2>1, StateNames, Zenon DEF CellTypeOK
    <2> QED
      BY <2>2, <2>3, Zenon DEF Keeps
  <1>c. CASE PromoteToWriter(t) \/ PromotionFailed(t) \/ SpawnEnds(t)
    <2>1. /\ UNCHANGED <<gate, handle, notBefore, backoff, openers, log, record, faults>>
          /\ pc' = pc \/ \E x \in {"check", "opening", "releasing"} : pc' = [pc EXCEPT ![t] = x]
          /\ spawned' = spawned
               \/ \E y \in {"queued", "none"} : spawned' = [spawned EXCEPT ![t] = y]
      BY <1>c, Zenon DEF PromoteToWriter, PromotionFailed, SpawnEnds
    <2>2. EpochInv' /\ FencedStep
      BY <2>1, EpochsKept, Zenon
    <2>3. CellTypeOK'
      <3>1. pc' \in [Requests -> PcStates]
        <4>1. pc \in [Requests -> PcStates]
          BY <1>5, Zenon
        <4>2. pc' = pc \/ \E x \in PcStates : pc' = [pc EXCEPT ![t] = x]
          BY <2>1, StateNames, Zenon
        <4> QED
          BY <4>1, <4>2, Zenon
      <3>2. spawned' \in [Requests -> SpawnStates]
        <4>1. spawned \in [Requests -> SpawnStates]
          BY <1>5, Zenon
        <4>2. spawned' = spawned \/ \E y \in SpawnStates : spawned' = [spawned EXCEPT ![t] = y]
          BY <2>1, StateNames, Zenon
        <4> QED
          BY <4>1, <4>2, Zenon
      <3> QED
        BY <1>0, <2>1, <3>1, <3>2, Zenon DEF CellTypeOK
    <2> QED
      BY <2>2, <2>3, Zenon DEF Keeps
  <1>d. CASE OpenWriter(t)
    <2>1. UNCHANGED <<pc, handle, notBefore, backoff, log, record, faults>>
      BY <1>d, Zenon DEF OpenWriter
    <2>2. CASE handle[p] # 0
      <3>1. spawned' = [spawned EXCEPT ![t] = "ok"] /\ gate' = gate /\ openers' = openers
        BY <1>d, <2>2, Zenon DEF OpenWriter, p
      <3>2. EpochInv' /\ FencedStep
        BY <2>1, <3>1, EpochsKept, Zenon
      <3>3. CellTypeOK'
        BY <1>0, <2>1, <3>1, StateNames, Zenon DEF CellTypeOK
      <3> QED
        BY <3>2, <3>3, Zenon DEF Keeps
    <2>3. CASE handle[p] = 0
      <3>1. /\ openers' = Append(openers, p)
            /\ spawned' = [spawned EXCEPT ![t] = "opened"]
            /\ gate' = [gate EXCEPT ![p] = [task |-> t, epoch |-> Len(openers) + 1]]
        BY <1>d, <2>3, ZenonT(60) DEF OpenWriter, p, Epoch
      <3>2. /\ openers' \in Seq(Procs) /\ Len(openers') = Len(openers) + 1
            /\ Len(openers) \in Nat /\ openers'[Len(openers) + 1] = p
            /\ \A e \in 1..Len(openers) : openers'[e] = openers[e]
        BY <1>1, <1>3, <3>1
      <3>3. CellTypeOK'
        <4>1. gate' \in [Procs -> Gates]
          <5>1. [task |-> t, epoch |-> Len(openers) + 1] \in Gates
            BY <3>2 DEF Gates
          <5> QED
            BY <1>3, <3>1, <5>1, ZenonT(60)
        <4>2. spawned' \in [Requests -> SpawnStates]
          BY <1>5, <3>1, StateNames, Zenon
        <4> QED
          BY <1>0, <2>1, <3>2, <4>1, <4>2, Zenon DEF CellTypeOK
      <3>4. \A q, e : TookEpoch(q, e) => TookEpoch(q, e)'
        BY <3>2 DEF TookEpoch
      <3>5. EpochInv'
        <4>1. TookEpoch(record.proc, record.epoch)'
          BY <2>1, <3>4, Zenon DEF EpochInv
        <4>2. ASSUME NEW q \in Procs
              PROVE  TookEpoch(q, handle[q])' /\ TookEpoch(q, gate[q].epoch)'
          <5>1. TookEpoch(q, handle[q]) /\ TookEpoch(q, gate[q].epoch)
            BY Zenon DEF EpochInv
          <5>2. TookEpoch(q, handle[q])'
            BY <2>1, <3>4, <5>1, Zenon
          <5>3. CASE q # p
            <6>1. gate'[q] = gate[q]
              BY <1>3, <3>1, <5>3, ZenonT(60)
            <6> QED
              BY <3>4, <5>1, <5>2, <6>1, Zenon
          <5>4. CASE q = p
            <6>1. gate'[q].epoch = Len(openers) + 1
              BY <1>3, <3>1, <5>4
            <6> QED
              BY <3>2, <5>2, <5>4, <6>1 DEF TookEpoch
          <5> QED
            BY <5>3, <5>4, Zenon
        <4> QED
          BY <4>1, <4>2, Zenon DEF EpochInv
      <3>6. FencedStep
        <4>1. Fenced!TakeEpoch(p)
          BY <2>1, <3>1 DEF Fenced!TakeEpoch
        <4> QED
          BY <1>1, <4>1, Zenon DEF FencedStep, Fenced!Next
      <3> QED
        BY <3>3, <3>5, <3>6, Zenon DEF Keeps
    <2> QED
      BY <2>2, <2>3
  <1>e. CASE InstallWriter(t)
    <2>1. /\ UNCHANGED <<pc, openers, log, record, faults>>
          /\ handle' = [handle EXCEPT ![p] = gate[p].epoch]
          /\ spawned' = [spawned EXCEPT ![t] = "ok"]
          /\ gate' = [gate EXCEPT ![p] = NoGate]
          /\ backoff' = [backoff EXCEPT ![p] = Floor]
          /\ notBefore' = [notBefore EXCEPT ![p] = 0]
      BY <1>e, Zenon DEF InstallWriter, NoteSuccess, p
    <2>2. CellTypeOK'
      <3>1. handle' \in [Procs -> Nat]
        <4>1. gate[p] \in Gates
          BY <1>1, <1>3, Zenon
        <4>2. gate[p].epoch \in Nat
          BY <4>1, Zenon DEF Gates
        <4> QED
          BY <1>3, <2>1, <4>2, Zenon
      <3>2. gate' \in [Procs -> Gates]
        BY <1>2, <1>3, <2>1, Zenon
      <3>3. /\ spawned' \in [Requests -> SpawnStates]
            /\ notBefore' \in [Procs -> Nat] /\ backoff' \in [Procs -> Nat]
        <4>1. 0 \in Nat
          OBVIOUS
        <4> QED
          BY <1>1, <1>5, <2>1, <4>1, StateNames, Zenon
      <3> QED
        BY <1>0, <2>1, <3>1, <3>2, <3>3, Zenon DEF CellTypeOK
    <2>3. EpochInv'
      BY <1>1, <1>2, <1>3, <2>1, Zenon DEF EpochInv, TookEpoch
    <2> QED
      BY <2>1, <2>2, <2>3, Zenon DEF Keeps, FencedStep
  <1>f. CASE OpenFailed(t)
    <2> DEFINE wait == IF 2 * backoff[p] <= Ceiling THEN 2 * backoff[p] ELSE Ceiling
    <2>1. /\ UNCHANGED <<pc, gate, handle, openers, log, record>>
          /\ faults' = faults + 1 /\ spawned' = [spawned EXCEPT ![t] = "error"]
          /\ backoff' = [backoff EXCEPT ![p] = wait]
          /\ notBefore' = [notBefore EXCEPT ![p] = now + wait]
      BY <1>f DEF OpenFailed, NoteFailure, Fault, p
    <2>2. wait \in Nat /\ now + wait \in Nat
      <3>1. backoff[p] \in Nat /\ Ceiling \in Nat /\ now \in Nat
        BY <1>0, <1>1, <1>5, Zenon
      <3> QED
        BY <3>1
    <2> HIDE DEF wait
    <2>3. CellTypeOK'
      <3>1. faults \in Nat
        BY <1>5, Zenon
      <3>2. faults' \in Nat
        BY <2>1, <3>1
      <3> QED
        BY <1>0, <2>1, <2>2, <3>2, StateNames, Zenon DEF CellTypeOK
    <2>4. EpochInv' /\ FencedStep
      BY <2>1, EpochsKept, Zenon
    <2> QED
      BY <2>3, <2>4, Zenon DEF Keeps
  <1>g. CASE CheckLease(t)
    <2>1. UNCHANGED <<gate, notBefore, backoff, openers, log, faults>>
      BY <1>g, Zenon DEF CheckLease
    <2>2. /\ spawned' = spawned \/ spawned' = [spawned EXCEPT ![t] = "none"]
          /\ \E x \in {"commit", "idle"} : pc' = [pc EXCEPT ![t] = x]
      BY <1>g, Zenon DEF CheckLease
    <2>3. \/ handle' = handle /\ (record' = record \/ record' = [proc |-> p, epoch |-> handle[p]])
          \/ handle' = [handle EXCEPT ![p] = 0] /\ record' = record
      BY <1>g, Zenon DEF CheckLease, p, Advertised
    <2>4. CellTypeOK'
      <3>0. pc' \in [Requests -> PcStates]
        BY <1>5, <2>2, StateNames, Zenon
      <3>1. spawned' \in [Requests -> SpawnStates]
        BY <1>5, <2>2, StateNames, Zenon
      <3>2. /\ handle' \in [Procs -> Nat]
            /\ record' \in Adverts
        <4>1. 0 \in Nat
          OBVIOUS
        <4>2. [proc |-> p, epoch |-> handle[p]] \in Adverts
          BY <1>1, <1>3, Zenon DEF Adverts
        <4> QED
          BY <1>3, <1>5, <2>3, <4>1, <4>2, Zenon
      <3> QED
        BY <1>0, <2>1, <3>0, <3>1, <3>2, Zenon DEF CellTypeOK
    <2>5. EpochInv'
      <3>1. CASE handle' = handle /\ record' = record
        BY <2>1, <3>1, EpochsKept, Zenon
      <3>2. CASE handle' = [handle EXCEPT ![p] = 0] /\ record' = record
        <4>1. \A q \in Procs : handle'[q] \in {handle[q], 0}
          BY <1>3, <3>2, Zenon
        <4> QED
          BY <2>1, <3>2, <4>1, EpochsKept, Zenon
      <3>3. CASE handle' = handle /\ record' = [proc |-> p, epoch |-> handle[p]]
        <4>1. record'.proc = p /\ record'.epoch = handle[p] /\ TookEpoch(p, handle[p])
          BY <1>1, <3>3, Zenon DEF EpochInv
        <4>2. TookEpoch(record.proc, record.epoch)'
          BY <2>1, <4>1, Zenon DEF TookEpoch
        <4>3. handle' = handle /\ gate' = gate /\ openers' = openers
          BY <2>1, <3>3, Zenon
        <4> QED
          BY <4>2, <4>3, Zenon DEF EpochInv, TookEpoch
      <3> QED
        BY <2>3, <3>1, <3>2, <3>3, Zenon
    <2> QED
      BY <2>1, <2>4, <2>5, Zenon DEF Keeps, FencedStep
  <1>h. CASE Commit(t)
    <2>1. UNCHANGED <<spawned, gate, openers, record, faults>> /\ pc' = [pc EXCEPT ![t] = "idle"]
      BY <1>h, Zenon DEF Commit
    <2>2. CASE UNCHANGED <<handle, notBefore, backoff, log>>
      <3>1. CellTypeOK'
        BY <1>0, <2>1, <2>2, StateNames, Zenon DEF CellTypeOK
      <3> QED
        BY <2>1, <2>2, <3>1, EpochsKept, Zenon DEF Keeps
    <2>3. CASE /\ handle[p] # 0 /\ ~IsFenced(p) /\ UNCHANGED <<handle, notBefore, backoff>>
               /\ log' = Append(log, [proc |-> p, epoch |-> handle[p]])
      <3>1. CellTypeOK'
        <4>1. log \in Seq(Entries)
          BY <1>0, Zenon DEF CellTypeOK
        <4>2. [proc |-> p, epoch |-> handle[p]] \in Entries
          BY <1>1, <1>3, Zenon DEF Entries
        <4>3. log' \in Seq(Entries)
          <5>1. log' = Append(log, [proc |-> p, epoch |-> handle[p]])
            BY <2>3, Zenon
          <5> HIDE DEF p
          <5> QED
            BY <4>1, <4>2, <5>1
        <4> QED
          BY <1>0, <2>1, <2>3, <4>3, StateNames, Zenon DEF CellTypeOK
      <3>2. EpochInv'
        BY <2>1, <2>3, Zenon DEF EpochInv, TookEpoch
      <3>3. Fenced!Append1(p)
        <4>1. handle[p] = Len(openers) /\ TookEpoch(p, handle[p])
          BY <1>1, <2>3, Zenon DEF IsFenced, Epoch, EpochInv
        <4>2. openers # <<>> /\ openers[Len(openers)] = p
          BY <1>3, <2>3, <4>1, Zenon DEF TookEpoch
        <4> QED
          BY <2>1, <2>3, <4>1, <4>2, Zenon DEF Fenced!Append1
      <3> QED
        BY <1>1, <3>1, <3>2, <3>3, Zenon DEF Keeps, FencedStep, Fenced!Next
    <2>4. CASE NoteFence(p) /\ handle' = [handle EXCEPT ![p] = 0] /\ UNCHANGED log
      <3>1. CellTypeOK'
        <4>1. 0 \in Nat /\ now + Interval \in Nat
          BY <1>0, <1>1
        <4> QED
          BY <1>0, <1>1, <2>1, <2>4, <4>1, StateNames, Zenon DEF CellTypeOK, NoteFence
      <3>2. \A q \in Procs : handle'[q] \in {handle[q], 0}
        BY <1>3, <2>4
      <3> QED
        BY <2>1, <2>4, <3>1, <3>2, EpochsKept, Zenon DEF Keeps
    <2> QED
      BY <1>h, <2>2, <2>3, <2>4, Zenon DEF Commit, p
  <1>i. CASE Cancel(t)
    <2>1. /\ UNCHANGED <<gate, handle, notBefore, backoff, openers, log, record>>
          /\ faults' = faults + 1 /\ pc' = [pc EXCEPT ![t] = "idle"]
          /\ spawned' = [spawned EXCEPT ![t] = IF spawned[t] \in {"ok", "error"} THEN "none"
                                                                              ELSE spawned[t]]
      BY <1>i, Zenon DEF Cancel, Fault
    <2>2. CellTypeOK'
      <3>1. faults' \in Nat
        BY <1>5, <2>1
      <3> QED
        BY <1>0, <2>1, <3>1, StateNames, ZenonT(60) DEF CellTypeOK
    <2>3. EpochInv' /\ FencedStep
      BY <2>1, EpochsKept, Zenon
    <2> QED
      BY <2>2, <2>3, Zenon DEF Keeps
  <1>j. CASE RetireUnownedWriter(t)
    <2>1. /\ UNCHANGED <<spawned, gate, notBefore, backoff, openers, log, record, faults>>
          /\ handle' = [handle EXCEPT ![p] = 0] /\ pc' = [pc EXCEPT ![t] = "closing"]
      BY <1>j, Zenon DEF RetireUnownedWriter, p
    <2>2. CellTypeOK'
      <3>1. 0 \in Nat
        OBVIOUS
      <3> QED
        BY <1>0, <2>1, <3>1, StateNames, Zenon DEF CellTypeOK
    <2>3. \A q \in Procs : handle'[q] \in {handle[q], 0}
      BY <1>3, <2>1
    <2> QED
      BY <2>1, <2>2, <2>3, EpochsKept, Zenon DEF Keeps
  <1> QED
    BY <1>a, <1>b, <1>c, <1>d, <1>e, <1>f, <1>g, <1>h, <1>i, <1>j, Zenon DEF RequestStep
\* Every step keeps the types and the epochs, and is a step of the fenced log.
LEMMA CellKeeps ==
  ASSUME TypeOK, EpochInv, [Next]_vars
  PROVE  Keeps
  <1>0. CellTypeOK
    BY TypeParts, Zenon
  <1>1. /\ handle \in [Procs -> Nat] /\ faults \in Nat
        /\ gate \in [Procs -> Gates]
    BY <1>0 DEF CellTypeOK
  <1>2. NoGate \in Gates /\ NoGate.epoch = 0
    BY Zenon DEF NoGate, Gates
  <1>3. CASE UNCHANGED cellVars
    BY <1>0, <1>3, EpochsKept, Zenon DEF cellVars, CellTypeOK, Keeps
  <1>4. ASSUME NEW t \in Requests, RequestStep(t) PROVE Keeps
    BY <1>4, RequestKeeps
  <1>5. ASSUME NEW t \in Renewers, Renew(t) \/ Renewed(t) PROVE Keeps
    <2>1. CASE Renew(t)
      BY <1>3, <2>1 DEF Renew
    <2>2. CASE Renewed(t)
      <3>0. ProcOf[t] \in Procs
        BY LeaseAssumption, CellAssumption
      <3>1. /\ UNCHANGED <<pc, spawned, gate, notBefore, backoff, openers, log, record, faults>>
            /\ handle' = handle \/ handle' = [handle EXCEPT ![ProcOf[t]] = 0]
        BY <2>2, Zenon DEF Renewed
      <3>2. CellTypeOK'
        <4>1. handle' \in [Procs -> Nat]
          BY <1>1, <3>0, <3>1
        <4> QED
          BY <1>0, <3>1, <4>1, Zenon DEF CellTypeOK
      <3>3. \A q \in Procs : handle'[q] \in {handle[q], 0}
        BY <1>1, <3>1
      <3> QED
        BY <3>1, <3>2, <3>3, EpochsKept, Zenon DEF Keeps
    <2> QED
      BY <1>5, <2>1, <2>2
  <1>6. ASSUME NEW t \in Tasks, DirectoryStep(t) \/ DirectoryError(t) PROVE Keeps
    <2>1. CASE DirectoryStep(t)
      BY <1>3, <2>1, Zenon DEF DirectoryStep
    <2>2. CASE DirectoryError(t)
      <3>1. /\ UNCHANGED <<pc, spawned, gate, handle, notBefore, backoff, openers, log, record>>
            /\ faults' = faults + 1
        BY <2>2, Zenon DEF DirectoryError, Fault
      <3>2. CellTypeOK'
        <4>1. faults' \in Nat
          BY <1>1, <3>1
        <4> QED
          BY <1>0, <3>1, <4>1, Zenon DEF CellTypeOK
      <3> QED
        BY <3>1, <3>2, EpochsKept, Zenon DEF Keeps
    <2> QED
      BY <1>6, <2>1, <2>2
  <1>7. ASSUME NEW p \in Procs, OpenCluster(p) \/ EvictCluster(p) \/ CrashProcess(p) PROVE Keeps
    <2>1. CASE OpenCluster(p)
      BY <1>3, <2>1, ZenonT(60) DEF OpenCluster
    <2>2. CASE EvictCluster(p)
      <3>1. /\ UNCHANGED <<pc, spawned, gate, notBefore, backoff, openers, log, record, faults>>
            /\ handle' = [handle EXCEPT ![p] = 0]
        BY <2>2, Zenon DEF EvictCluster
      <3>2. CellTypeOK'
        <4>1. handle' \in [Procs -> Nat]
          BY <1>1, <3>1
        <4> QED
          BY <1>0, <3>1, <4>1, Zenon DEF CellTypeOK
      <3>3. \A q \in Procs : handle'[q] \in {handle[q], 0}
        BY <1>1, <3>1
      <3> QED
        BY <3>1, <3>2, <3>3, EpochsKept, Zenon DEF Keeps
    <2>3. CASE CrashProcess(p)
      <3>1. /\ UNCHANGED <<notBefore, backoff, openers, log, record>>
            /\ handle' = [handle EXCEPT ![p] = 0] /\ gate' = [gate EXCEPT ![p] = NoGate]
            /\ faults' = faults + 1
            /\ pc' = [t \in Requests |-> IF ProcOf[t] = p THEN "idle" ELSE pc[t]]
            /\ spawned' = [t \in Requests |-> IF ProcOf[t] = p THEN "none" ELSE spawned[t]]
        BY <2>3, Zenon DEF CrashProcess, Fault
      <3>2. CellTypeOK'
        <4>1. gate' \in [Procs -> Gates]
          BY <1>1, <1>2, <3>1, ZenonT(60)
        <4>2. /\ handle' \in [Procs -> Nat] /\ faults' \in Nat
          BY <1>1, <3>1
        <4>3. /\ pc' \in [Requests -> PcStates]
              /\ spawned' \in [Requests -> SpawnStates]
          BY <1>0, <3>1, StateNames, ZenonT(60) DEF CellTypeOK
        <4> QED
          BY <1>0, <3>1, <4>1, <4>2, <4>3, Zenon DEF CellTypeOK
      <3>3. \A q \in Procs : handle'[q] \in {handle[q], 0} /\ gate'[q] \in {gate[q], NoGate}
        BY <1>1, <3>1
      <3> QED
        BY <3>1, <3>2, <3>3, EpochsKept, Zenon DEF Keeps
    <2> QED
      BY <1>7, <2>1, <2>2, <2>3
  <1>8. CASE Time
    BY <1>3, <1>8 DEF Time
  <1>9. CASE UNCHANGED vars
    BY <1>3, <1>9, Zenon DEF vars
  <1> QED
    BY <1>4, <1>5, <1>6, <1>7, <1>8, <1>9, Zenon DEF Next

-----------------------------------------------------------------------------
(* The theorems.                                                           *)

\* What holds of the lease and of the epochs at every step, whatever the timing.
SafeInv == LeaseInv /\ TypeOK /\ EpochInv

\* Init: nothing is held, open or written down.
LEMMA SafeInit == Init => SafeInv
  <1> SUFFICES ASSUME Init PROVE SafeInv
    OBVIOUS
  <1>1. LeaseInv
    BY LeaseInitInv DEF Init, TimeInv
  <1>2. Floor \in Nat
    BY CellAssumption, Zenon
  <1>3. NoGate \in Gates /\ NoGate.epoch = 0
        /\ NoRecord \in Adverts /\ NoRecord.epoch = 0 /\ 0 \in Nat
    BY Zenon DEF NoGate, NoRecord, Gates, Adverts
  <1>4. <<>> \in Seq(Procs) /\ <<>> \in Seq(Entries)
    OBVIOUS
  <1>5. CellTypeOK
    BY <1>2, <1>3, <1>4, StateNames, ZenonT(60) DEF Init, CellTypeOK
  <1>6. EpochInv
    BY <1>3 DEF Init, EpochInv, TookEpoch
  <1> QED
    BY <1>1, <1>5, <1>6, TypeParts, Zenon DEF SafeInv, LeaseInv

\* Every step keeps the invariant; the generation of the object only grows.
LEMMA SafeStep ==
  ASSUME SafeInv, [Next]_vars
  PROVE  /\ SafeInv' /\ FencedStep
         /\ stored'.gen >= stored.gen
         /\ Timely => Timely'
         /\ Timely /\ AuthorityTimely => AuthorityTimely'
  <1>1. LeaseInv /\ TypeOK /\ EpochInv
    BY DEF SafeInv
  <1>2. Keeps
    BY <1>1, CellKeeps
  <1>3. stored.gen \in Nat
    BY <1>1 DEF LeaseInv, LeaseTypeOK, Lease
  <1>4. /\ LeaseInv' /\ stored'.gen >= stored.gen
        /\ Timely => Timely'
        /\ Timely /\ AuthorityTimely => AuthorityTimely'
    <2>1. CASE UNCHANGED leaseVars
      <3>1. /\ LeaseInv'
            /\ Timely => Timely'
            /\ AuthorityTimely => AuthorityTimely'
        <4>1. /\ call \in [Tasks -> Call] /\ local \in [Procs -> LocalLease]
              /\ abandoned \in [Procs -> LocalLease] /\ users \in [Procs -> Nat]
              /\ up \subseteq Procs /\ observed \in [Procs -> Observation]
              /\ now \in Nat /\ now >= now /\ {} \in SUBSET Tasks
          BY <1>1 DEF LeaseInv, LeaseTypeOK
        <4>2. call = [t \in Tasks |-> IF t \in {} THEN Idle ELSE call[t]]
          BY <4>1, Zenon
        <4>3. /\ up' = up /\ now' = now /\ stored' = stored /\ local' = local
              /\ abandoned' = abandoned /\ users' = users /\ observed' = observed
              /\ call' = call /\ releases' = releases
          BY <2>1, Zenon DEF leaseVars
        <4> QED
          BY <1>1, <4>1, <4>2, <4>3, ProcessKeeps, ZenonT(60)
      <3> QED
        BY <1>3, <2>1, <3>1 DEF leaseVars
    <2>2. CASE DirectoryAction
      <3>1. CASE \/ \E t \in Tasks : QuietTask(t)
                 \/ \E p \in Procs : QuietProcess(p)
                 \/ Tick
        BY <1>1, <1>3, <3>1, QuietKeeps
      <3>2. ASSUME NEW t \in Tasks, Land(t)
            PROVE  /\ LeaseInv' /\ stored'.gen >= stored.gen
                   /\ Timely => Timely'
                   /\ Timely /\ AuthorityTimely => AuthorityTimely'
        <4>1. CASE Lands(t)
          BY <1>1, <3>2, <4>1, LandKeeps, LandFacts, ZenonT(60)
        <4>2. CASE ~Lands(t)
          BY <1>1, <1>3, <3>2, <4>2, MissKeeps
        <4> QED
          BY <4>1, <4>2
      <3> QED
        BY <2>2, <3>1, <3>2, Zenon DEF DirectoryAction
    <2> QED
      BY <2>1, <2>2, NextIsDirectoryAction, ZenonT(60) DEF vars
  <1>5. SafeInv'
    <2>1. LeaseTypeOK' /\ CellTypeOK' /\ EpochInv'
      BY <1>2, <1>4 DEF LeaseInv, Keeps
    <2> QED
      BY <1>4, <2>1, Zenon DEF SafeInv, TypeOK, CellTypeOK, PcStates, SpawnStates, Gates,
                               Entries, Adverts
  <1> QED
    BY <1>2, <1>4, <1>5, Zenon DEF Keeps

\* The invariant is inductive.
LEMMA SafeAlways == Spec => []SafeInv
  <1>1. SafeInv /\ [Next]_vars => SafeInv'
    BY SafeStep
  <1> QED
    BY <1>1, SafeInit, PTL DEF Spec

\* Every state of the write path and of the lease directory is of its type.
THEOREM WriterTypeCorrect == Spec => []TypeOK
  <1>1. SafeInv => TypeOK
    BY DEF SafeInv
  <1> QED
    BY <1>1, SafeAlways, PTL

\* However puts, their answers, releases, expiries and crashes interleave, no two
\* processes hold leases of the same generation, and nobody holds a generation
\* the lease object has not reached (the conditional put of put_lease).
THEOREM GenerationUniqueTheorem == Spec => []GenerationUnique
  <1>1. SafeInv => GenerationUnique
    <2> SUFFICES ASSUME SafeInv, NEW p \in Procs, NEW q \in Procs,
                        NEW a \in {local[p], abandoned[p]}, NEW b \in {local[q], abandoned[q]}
                 PROVE  /\ a.gen <= stored.gen
                        /\ a # NoLocal /\ b # NoLocal /\ a.gen = b.gen => p = q
      BY Zenon DEF GenerationUnique
    <2>1. LeaseTypeOK /\ AuthorityOwned /\ AuthorityUnique
      BY Zenon DEF SafeInv, LeaseInv
    <2>2. stored.gen \in Nat /\ NoLocal.gen = 0
      BY <2>1 DEF LeaseTypeOK, Lease, NoLocal
    <2>3. a # NoLocal => a \in Authorities(p)
      BY Zenon DEF Authorities
    <2>4. b # NoLocal => b \in Authorities(q)
      BY ZenonT(60) DEF Authorities
    <2>5. a.gen <= stored.gen
      BY <2>1, <2>2, <2>3 DEF AuthorityOwned
    <2> QED
      BY <2>1, <2>3, <2>4, <2>5, Zenon DEF AuthorityUnique
  <1> QED
    BY <1>1, SafeAlways, PTL

\* The generation of the durable lease never decreases, across takeovers, releases
\* and crashes.
THEOREM GenerationMonotonic == Spec => GenerationNeverDecreases
  <1>1. SafeInv /\ [Next]_vars => [stored'.gen >= stored.gen]_vars
    BY SafeStep
  <1> QED
    BY <1>1, SafeAlways, PTL DEF Spec, GenerationNeverDecreases

\* When a probe is answered within the guard that shared_remaining_ms adds for the
\* resolution of the server's timestamps, waiting for the durable expiry is
\* enough: nobody takes over a lease its holder believes valid, unless the
\* holder's own process had released it.
THEOREM TakeoverTheorem ==
  ASSUME Patience <= Guard
  PROVE  Spec => []TakeoverIsSafe
  <1> DEFINE I == SafeInv /\ Timely /\ AuthorityTimely
  <1>1. Init => I
    BY SafeInit, LeaseInitInv DEF Init, TimeInv, Timely
  <1>2. I /\ [Next]_vars => I'
    BY SafeStep, Zenon
  <1>3. I => TakeoverIsSafe
    <2> SUFFICES ASSUME I, NEW p \in Procs, NEW q \in Procs,
                        NEW a \in Holdings(p), NEW b \in Holdings(q), a.gen < b.gen
                 PROVE  p = q \/ a.gen \in releases
      BY DEF TakeoverIsSafe
    <2>1. LeaseTypeOK /\ AuthorityOwned /\ AuthorityTimely
      BY Zenon DEF SafeInv, LeaseInv
    <2>2. a \in Authorities(p) /\ b \in Authorities(q) /\ now < a.until
      BY Zenon DEF Holdings, ValidAt, Authorities
    <2>3. a.gen \in Nat /\ a.until \in Nat /\ b.gen \in Nat /\ now \in Nat /\ stored.gen \in Nat
      BY <2>1, <2>2, AuthoritiesTyped, Zenon DEF LeaseTypeOK, Lease
    <2>4. a.gen < stored.gen
      BY <2>1, <2>2, <2>3 DEF AuthorityOwned
    <2>5. now >= a.until \/ a.gen \in releases
      BY <2>1, <2>2, <2>4 DEF AuthorityTimely
    <2> QED
      BY <2>2, <2>3, <2>5
  <1> HIDE DEF I
  <1> QED
    BY <1>1, <1>2, <1>3, PTL DEF Spec

\* The advisory cell-writer record names the process that took the epoch it states.
THEOREM RecordTheorem == Spec => []RecordTruthful
  <1>1. SafeInv => RecordTruthful
    BY DEF SafeInv, EpochInv, TookEpoch, RecordTruthful
  <1> QED
    BY <1>1, SafeAlways, PTL

\* The write path, with its leases, placement answers, cancelled requests and late
\* openers, implements the fenced log: every commit is by the process that took
\* the latest epoch.
THEOREM WriterImplementsFencedLog == Spec => FencedSpec
  <1>1. Init => Fenced!Init
    BY DEF Init, Fenced!Init
  <1>2. SafeInv /\ [Next]_vars => [Fenced!Next]_<<openers, log>>
    BY SafeStep DEF FencedStep
  <1> QED
    BY <1>1, <1>2, SafeAlways, PTL DEF Spec, FencedSpec, Fenced!Spec
=============================================================================
