-------------------------- MODULE JobStateLemmas --------------------------
(* What one transition does to one row of ingestion_jobs, for any row. *)
EXTENDS JobStates, TLAPS

\* A legal transition of a well-formed row gives a well-formed row, and one
\* with a resume point when it fails (PostgresJobStore.transition).
LEMMA TransitionRowSound ==
  ASSUME NEW j \in IngestionJob, NEW new \in IngestionJobState, NEW error \in BOOLEAN,
         IsLegalJobTransition(j.state, new, j.last_verified_state)
  PROVE  /\ TransitionRow(j, new, error) \in IngestionJob
         /\ TransitionRow(j, new, error).state = new
         /\ (/\ new \in FailureStates
             /\ j.state \in FailureStates => j.last_verified_state \in NonTerminalStates) =>
              TransitionRow(j, new, error).last_verified_state \in NonTerminalStates
  BY DEF TransitionRow, NextLastVerified, IngestionJob, IngestionJobState, ForwardStates,
         NonTerminalStates, FailureStates, IsLegalJobTransition, NoState

\* The row of a new chunk is well formed and has not failed.
LEMMA NewJobSound == NewJob \in IngestionJob /\ NewJob.state \notin FailureStates
  BY DEF NewJob, IngestionJob, IngestionJobState, ForwardStates, NonTerminalStates, FailureStates

\* A legal transition out of any state but manual_repair keeps the progress of
\* the row: a failure remembers the state it leaves, a resume starts from it.
LEMMA TransitionKeepsProgress ==
  ASSUME NEW j \in IngestionJob, NEW new \in IngestionJobState, NEW error \in BOOLEAN,
         j.state \in FailureStates => j.last_verified_state \in NonTerminalStates,
         IsLegalJobTransition(j.state, new, j.last_verified_state),
         j.state # "manual_repair"
  PROVE  Progress(j) <= Progress(TransitionRow(j, new, error))
  BY DEF TransitionRow, NextLastVerified, IngestionJob, IngestionJobState, ForwardStates,
         NonTerminalStates, FailureStates, IsLegalJobTransition, NoState, Progress,
         ResumeFrom, ForwardIndex

\* A legal transition along the happy path brings the row exactly to the new
\* state, and a failure leaves its progress as it was.
LEMMA TransitionProgress ==
  ASSUME NEW j \in IngestionJob, NEW new \in IngestionJobState, NEW error \in BOOLEAN,
         IsLegalJobTransition(j.state, new, j.last_verified_state)
  PROVE  /\ new \in ForwardStates => Progress(TransitionRow(j, new, error)) = ForwardIndex[new]
         /\ new \in FailureStates => Progress(TransitionRow(j, new, error)) = Progress(j)
  BY DEF TransitionRow, NextLastVerified, IngestionJob, IngestionJobState, ForwardStates,
         NonTerminalStates, FailureStates, IsLegalJobTransition, NoState, Progress,
         ResumeFrom, ForwardIndex
=============================================================================
