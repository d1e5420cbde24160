----------------------------- MODULE JobStore -----------------------------
(***************************************************************************)
(* PostgresJobStore as its callers see it: a table of jobs, one per chunk, *)
(* in which any caller may ask for any transition at any time and only the *)
(* legal ones happen (the others raise IllegalJobTransitionError and leave *)
(* the row alone).  SELECT ... FOR UPDATE makes each call atomic.          *)
(* Ingestion is shown to implement this specification.                     *)
(***************************************************************************)
EXTENDS JobStates

CONSTANT Chunks  \* chunk identifiers

VARIABLE job    \* rows of ingestion_jobs; the domain grows as chunks arrive

Init == job = [c \in {} |-> NewJob]

\* PostgresChunkStore.put's insert, or JobStore.seed when the row is missing:
\* ON CONFLICT DO NOTHING, so an existing row is never reset.
Seed(c) ==
  /\ c \notin DOMAIN job
  /\ job' = [d \in DOMAIN job \cup {c} |-> IF d = c THEN NewJob ELSE job[d]]

\* A transition that is_legal_job_transition accepts.
Transition(c, new, error) ==
  /\ c \in DOMAIN job
  /\ IsLegalJobTransition(job[c].state, new, job[c].last_verified_state)
  /\ job' = [job EXCEPT ![c] = TransitionRow(@, new, error)]

Next ==
  \E c \in Chunks :
    \/ Seed(c)
    \/ \E new \in IngestionJobState, error \in BOOLEAN : Transition(c, new, error)

Spec == Init /\ [][Next]_job

-----------------------------------------------------------------------------
\* Every row of the table is a well-formed IngestionJob of a known chunk.
TypeOK ==
  /\ DOMAIN job \subseteq Chunks
  /\ \A c \in DOMAIN job : job[c] \in IngestionJob

\* A failed job always knows the non-terminal state to resume from, whatever
\* chain of failures, escalations and repairs brought it there: transition()
\* never records a failure state as last verified and never forgets the last
\* good one.
ResumePointKnown ==
  \A c \in DOMAIN job :
    job[c].state \in FailureStates =>
      job[c].last_verified_state \in NonTerminalStates

\* No call takes a job back behind the progress it had reached, except one that
\* a human makes out of manual_repair: a failure keeps the state it failed in
\* as the resume point, and a resume cannot aim behind it.
ProgressNeverLost ==
  [][\A c \in DOMAIN job :
       job[c].state # "manual_repair" => Progress(job[c]) <= Progress(job'[c])]_job
=============================================================================
