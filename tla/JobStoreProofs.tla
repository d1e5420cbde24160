-------------------------- MODULE JobStoreProofs --------------------------
(***************************************************************************)
(* The job table is sound for any set of chunks and any number of          *)
(* attempts: its type, the resume point of a failed job, and the rule that *)
(* progress is never lost.                                                 *)
(***************************************************************************)
EXTENDS JobStore, JobStateLemmas

\* The inductive invariant: the rows are well typed and failed rows know
\* where to resume.  ResumePointKnown is not inductive alone, because the
\* resume point of an escalated failure is the one recorded before it.
IInv == TypeOK /\ ResumePointKnown

\* Init establishes the invariant: the table is empty.
LEMMA InitIInv == Init => IInv
  BY DEF Init, IInv, TypeOK, ResumePointKnown

\* Every call preserves the invariant.
LEMMA NextIInv == IInv /\ [Next]_job => IInv'
  <1> SUFFICES ASSUME IInv, [Next]_job PROVE IInv'
    OBVIOUS
  <1>1. CASE UNCHANGED job
    BY <1>1 DEF IInv, TypeOK, ResumePointKnown
  <1>2. ASSUME NEW c \in Chunks, Seed(c) PROVE IInv'
    BY <1>2, NewJobSound DEF Seed, IInv, TypeOK, ResumePointKnown
  <1>3. ASSUME NEW c \in Chunks, NEW new \in IngestionJobState, NEW error \in BOOLEAN,
               Transition(c, new, error)
        PROVE  IInv'
    <2> DEFINE row == TransitionRow(job[c], new, error)
    <2>1. c \in DOMAIN job /\ job[c] \in IngestionJob
      BY <1>3 DEF Transition, IInv, TypeOK
    <2>2. row \in IngestionJob /\ (new \in FailureStates => row.last_verified_state \in NonTerminalStates)
      BY <1>3, <2>1, TransitionRowSound DEF Transition, IInv, ResumePointKnown
    <2>3. row.state = new
      BY <1>3, <2>1, TransitionRowSound DEF Transition
    <2>4. job' = [job EXCEPT ![c] = row]
      BY <1>3 DEF Transition
    <2> HIDE DEF row
    <2> QED
      BY <2>1, <2>2, <2>3, <2>4 DEF IInv, TypeOK, ResumePointKnown
  <1> QED
    BY <1>1, <1>2, <1>3 DEF Next

\* The table keeps its type and every failed job its resume point.
THEOREM JobStoreSafe == Spec => [](TypeOK /\ ResumePointKnown)
  <1> QED
    BY InitIInv, NextIInv, PTL DEF Spec, IInv

\* No call but one out of manual_repair takes a job behind what it had reached.
THEOREM ProgressTheorem == Spec => ProgressNeverLost
  <1> DEFINE Kept == \A c \in DOMAIN job :
                       job[c].state # "manual_repair" => Progress(job[c]) <= Progress(job'[c])
  <1>1. IInv /\ [Next]_job => [Kept]_job
    <2> SUFFICES ASSUME IInv, Next PROVE Kept
      OBVIOUS
    <2>0. ASSUME NEW j \in IngestionJob PROVE Progress(j) <= Progress(j)
      BY DEF Progress, ForwardIndex, ResumeFrom, IngestionJob, IngestionJobState,
             ForwardStates, NonTerminalStates, FailureStates, NoState
    <2>1. ASSUME NEW c \in Chunks, Seed(c) PROVE Kept
      BY <2>0, <2>1 DEF Seed, IInv, TypeOK
    <2>2. ASSUME NEW c \in Chunks, NEW new \in IngestionJobState, NEW error \in BOOLEAN,
                 Transition(c, new, error)
          PROVE  Kept
      <3>1. c \in DOMAIN job /\ job[c] \in IngestionJob
        BY <2>2 DEF Transition, IInv, TypeOK
      <3>2. job[c].state # "manual_repair" =>
              Progress(job[c]) <= Progress(TransitionRow(job[c], new, error))
        BY <2>2, <3>1, TransitionKeepsProgress DEF Transition, IInv, ResumePointKnown
      <3>3. job' = [job EXCEPT ![c] = TransitionRow(job[c], new, error)]
        BY <2>2 DEF Transition
      <3> QED
        BY <2>0, <3>1, <3>2, <3>3 DEF IInv, TypeOK
    <2> QED
      BY <2>1, <2>2 DEF Next
  <1> QED
    BY <1>1, InitIInv, NextIInv, PTL DEF Spec, ProgressNeverLost
=============================================================================
