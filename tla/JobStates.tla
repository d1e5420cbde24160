---------------------------- MODULE JobStates ----------------------------
(***************************************************************************)
(* The state table of an ingestion job (core/enums.py) and the effect of   *)
(* JobStore.transition on one row of ingestion_jobs (postgres.py).  This   *)
(* module has no variables: JobStore and Ingestion are built on it.        *)
(***************************************************************************)
EXTENDS Naturals

\* _NON_TERMINAL_STATES, _FAILURE_TRANSITIONS and the members of _FORWARD_ORDER.
NonTerminalStates == {"pending_graph", "pending_embeddings", "verifying"}

FailureStates == {"retryable_failed", "terminal_failed", "manual_repair"}

ForwardStates == NonTerminalStates \cup {"completed"}

IngestionJobState == ForwardStates \cup FailureStates

\* last_verified_state is NULL until the first transition.
NoState == "none"

\* _FORWARD_ORDER.index
ForwardIndex == [pending_graph |-> 0, pending_embeddings |-> 1,
                 verifying |-> 2, completed |-> 3]

\* `last_verified_state or PENDING_GRAPH`
ResumeFrom(lastVerified) ==
  IF lastVerified = NoState THEN "pending_graph" ELSE lastVerified

\* is_legal_job_transition
IsLegalJobTransition(current, new, lastVerified) ==
  \/ /\ current \in NonTerminalStates
     /\ \/ new \in FailureStates
        \/ /\ new \in ForwardStates
           /\ ForwardIndex[new] >= ForwardIndex[current]
  \/ /\ current = "retryable_failed"
     /\ \/ new \in {"terminal_failed", "manual_repair"}
        \/ /\ new \in ForwardStates
           /\ ForwardIndex[new] >= ForwardIndex[ResumeFrom(lastVerified)]
  \/ /\ current = "terminal_failed"
     /\ new = "manual_repair"
  \/ /\ current = "manual_repair"
     /\ new \in NonTerminalStates \cup {"terminal_failed"}

\* One row of ingestion_jobs.  last_error keeps only whether a text is there.
IngestionJob == [state : IngestionJobState,
                 attempt_count : Nat,
                 last_verified_state : NonTerminalStates \cup {NoState},
                 last_error : BOOLEAN]

\* The row PostgresChunkStore.put inserts together with the chunk.
NewJob == [state |-> "pending_graph", attempt_count |-> 0,
           last_verified_state |-> NoState, last_error |-> FALSE]

\* next_last_verified: the state being left, unless that is a failure state.
NextLastVerified(job) ==
  IF job.state \in FailureStates THEN job.last_verified_state ELSE job.state

\* The row after a legal transition to `new`.
TransitionRow(job, new, error) ==
  [state |-> new,
   attempt_count |-> IF new = "retryable_failed" THEN job.attempt_count + 1
                                                 ELSE job.attempt_count,
   last_verified_state |-> NextLastVerified(job),
   last_error |-> error]

\* How far along the happy path a row is known to be: the state itself, or the
\* state a failed job resumes from.
Progress(job) ==
  IF job.state \in ForwardStates
    THEN ForwardIndex[job.state]
    ELSE ForwardIndex[ResumeFrom(job.last_verified_state)]
=============================================================================
