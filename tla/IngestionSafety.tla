-------------------------- MODULE IngestionSafety --------------------------
(***************************************************************************)
(* Type correctness and the safety invariants of Ingestion, for any number *)
(* of chunks, workers, runs and faults.  RunsBacked carries the induction: *)
(* what each worker believes to be behind it is in the stores, and the     *)
(* stores only grow.                                                       *)
(***************************************************************************)
EXTENDS Ingestion, JobStateLemmas, SequenceTheorems

USE IngestionAssumption

-----------------------------------------------------------------------------
(* Runs *)

\* A worker at rest is well formed.
LEMMA IdleOK == ASSUME NEW stored PROVE RunOK(Idle, stored)
  BY DEF RunOK, RunFields, Idle, Stages, NoChunk

\* A worker that only moves on, to a stage outside the loops, stays well formed.
LEMMA GotoOK ==
  ASSUME NEW stored, NEW r, RunOK(r, stored), r.pc # "idle",
         NEW stage \in Stages \ {"plan", "embed", "index"},
         stage \notin {"idle", "put"} => r.chunk \in stored
  PROVE  RunOK([r EXCEPT !.pc = stage], stored)
  BY DEF RunOK, RunFields

\* A worker stays well formed when more chunks are stored.
LEMMA RunGrows ==
  ASSUME NEW stored, NEW more, stored \subseteq more, NEW r, RunOK(r, stored)
  PROVE  RunOK(r, more)
  BY DEF RunOK

\* The candidates of an extraction are facts of the run's chunk.
LEMMA CandidatesOK ==
  ASSUME NEW r, NEW stored, RunOK(r, stored), r.chunk \in Chunks, NEW keys \in Seq(Keys)
  PROVE  [n \in DOMAIN keys |->
            [chunk |-> r.chunk, pos |-> n, key |-> keys[n], nonce |-> r.nonce]] \in Seq(Fact)
  <1> DEFINE cand(n) == [chunk |-> r.chunk, pos |-> n, key |-> keys[n], nonce |-> r.nonce]
  <1>1. Len(keys) \in Nat /\ DOMAIN keys = 1..Len(keys)
    OBVIOUS
  <1>2. \A n \in 1..Len(keys) : cand(n) \in Fact
    BY DEF RunOK, Fact
  <1> HIDE DEF cand
  <1>3. [n \in 1..Len(keys) |-> cand(n)] \in [1..Len(keys) -> Fact]
    BY <1>2
  <1>4. [n \in DOMAIN keys |-> cand(n)] \in Seq(Fact)
    BY <1>1, <1>3, SeqDef
  <1> QED
    BY <1>4 DEF cand

\* The candidate loop goes on well formed.
LEMMA NextCandidateOK ==
  ASSUME NEW r, NEW stored, RunOK(r, stored), r.pc = "plan"
  PROVE  RunOK(NextCandidate(r), stored)
  <1>1. r.accepted \in Seq(Fact) /\ r.i \in 1..Len(r.accepted)
    BY DEF RunOK
  <1>2. r.i # Len(r.accepted) => r.i + 1 \in DOMAIN r.accepted
    BY <1>1
  <1> QED
    BY <1>1, <1>2 DEF RunOK, RunFields, NextCandidate, Stages

\* So does a plan that a candidate was added to.
LEMMA PlanWithOK ==
  ASSUME NEW r, NEW stored, RunOK(r, stored), r.pc = "plan", NEW f \in Fact,
         NEW priors \in SUBSET Fact, NEW verdict \in Verdicts(priors)
  PROVE  RunOK(PlanWith(r, f, verdict), stored) /\ PlanWith(r, f, verdict).pc = "plan"
  <1> DEFINE q == PlanWith(r, f, verdict)
             chosen == {g \in DOMAIN verdict : verdict[g] # "no_update"}
  <1>1. chosen \subseteq Fact /\ \A g \in chosen : verdict[g] \in {"correction", "state_change"}
    BY DEF Verdicts
  <1>2. \A g \in chosen : [by |-> f, relation |-> verdict[g]] \in Verdict
    BY <1>1 DEF Verdict
  <1>3. DOMAIN q = RunFields /\ \A x \in RunFields \ {"about", "priors", "supersedes"} : q[x] = r[x]
    BY Zenon DEF PlanWith, RunOK, RunFields
  <1>4. q.about \subseteq Fact /\ q.supersedes \subseteq Fact \X Fact
    BY <1>1 DEF PlanWith, RunOK, RunFields
  <1>5. q.priors = [g \in DOMAIN r.priors \cup chosen |->
                      IF g \in chosen THEN [by |-> f, relation |-> verdict[g]] ELSE r.priors[g]]
    BY DEF PlanWith, RunOK, RunFields
  <1> HIDE DEF q, chosen
  <1>6. DOMAIN q.priors \subseteq Fact /\ \A g \in DOMAIN q.priors : q.priors[g] \in Verdict
    BY <1>1, <1>2, <1>5 DEF RunOK
  <1>7. RunOK(q, stored) /\ q.pc = "plan"
    BY <1>3, <1>4, <1>6 DEF RunOK, RunFields
  <1> QED
    BY <1>7 DEF q

-----------------------------------------------------------------------------
(* Fact tables *)

\* The facts of a well-formed run are facts.
LEMMA PlanFactsOK ==
  ASSUME NEW r, NEW stored, RunOK(r, stored)
  PROVE  PlanFacts(r) \subseteq Fact
  BY DEF RunOK, PlanFacts

\* Both merges of a plan into a table of facts keep the table well typed.
LEMMA MergeFactsOK ==
  ASSUME NEW r, NEW stored, RunOK(r, stored), NEW table, FactTable(table)
  PROVE  FactTable(MergeFacts(table, r))
  <1>1. \A f \in Fact : NewFact(r, f) \in FactPayload
    BY DEF RunOK, NewFact, FactPayload, Fact
  <1> QED
    BY <1>1, PlanFactsOK DEF FactTable, MergeFacts

\* Merging the partial nodes keeps a table of facts well typed.
LEMMA MergePriorsOK ==
  ASSUME NEW r, NEW stored, RunOK(r, stored), NEW table, FactTable(table)
  PROVE  FactTable(MergePriors(table, r))
  <1>1. ASSUME NEW payload \in FactPayload, NEW verdict \in Verdict
        PROVE  Close(payload, verdict) \in FactPayload
    BY Zenon DEF Close, FactPayload, Verdict, Fact
  <1> QED
    BY <1>1 DEF RunOK, FactTable, MergePriors

-----------------------------------------------------------------------------
(* Types *)

\* The part of TypeOK about the workers.
RunsOK == DOMAIN run = Workers /\ \A w \in Workers : RunOK(run[w], DOMAIN job)

\* A step of one worker leaves the others well formed.
LEMMA OneRunChanges ==
  ASSUME RunsOK, NEW w \in Workers, NEW r, run' = [run EXCEPT ![w] = r],
         DOMAIN job \subseteq DOMAIN job', RunOK(r, DOMAIN job')
  PROVE  RunsOK'
  BY RunGrows DEF RunsOK

\* A step may end with the worker idle again.
LEMMA ReturnOK ==
  ASSUME RunsOK, NEW w \in Workers, Return(w), DOMAIN job \subseteq DOMAIN job'
  PROVE  RunsOK'
  BY OneRunChanges, IdleOK, Zenon DEF Return

\* It may end at a stage outside the loops.
LEMMA GoOnOK ==
  ASSUME RunsOK, NEW w \in Workers, run[w].pc # "idle",
         NEW stage \in Stages \ {"plan", "embed", "index", "idle"}, Goto(w, stage),
         DOMAIN job \subseteq DOMAIN job', run[w].chunk \in DOMAIN job'
  PROVE  RunsOK'
  <1>1. run' = [run EXCEPT ![w] = [run[w] EXCEPT !.pc = stage]]
    BY DEF Goto, RunsOK
  <1>2. RunOK(run[w], DOMAIN job')
    BY RunGrows DEF RunsOK
  <1>3. RunOK([run[w] EXCEPT !.pc = stage], DOMAIN job')
    BY <1>2, GotoOK
  <1> QED
    BY <1>1, <1>3, OneRunChanges, Zenon

\* A legal transition of the worker's job keeps the job table well typed.
LEMMA TransitionOK ==
  ASSUME PostgresTypeOK, NEW c \in DOMAIN job, NEW new \in IngestionJobState, NEW error \in BOOLEAN,
         IsLegalJobTransition(job[c].state, new, job[c].last_verified_state),
         job' = [job EXCEPT ![c] = TransitionRow(job[c], new, error)],
         UNCHANGED <<content, attempts, manifest, manifestEdges, embeddings, searchIndex>>
  PROVE  PostgresTypeOK' /\ DOMAIN job' = DOMAIN job
  <1>1. TransitionRow(job[c], new, error) \in IngestionJob
    BY TransitionRowSound DEF PostgresTypeOK
  <1> QED
    BY <1>1 DEF PostgresTypeOK, FactTable

\* Every state is well typed at the start.
LEMMA InitTypeOK == Init => TypeOK
  BY IdleOK DEF Init, TypeOK, PostgresTypeOK, HydraTypeOK, FactTable

\* Every step keeps every state well typed.
LEMMA NextTypeOK == TypeOK /\ [Next]_vars => TypeOK'
  <1> SUFFICES ASSUME TypeOK, [Next]_vars PROVE TypeOK'
    OBVIOUS
  <1> USE DEF RunsOK
  <1>0. RunsOK /\ PostgresTypeOK /\ HydraTypeOK
    BY DEF TypeOK
  <1>a. \A w \in Workers : RunOK(run[w], DOMAIN job)
    BY <1>0
  <1>b. UNCHANGED postgres => PostgresTypeOK' /\ DOMAIN job' = DOMAIN job
    BY <1>0 DEF postgres, PostgresTypeOK, FactTable
  <1>c. UNCHANGED hydra => HydraTypeOK'
    BY <1>0 DEF hydra, HydraTypeOK, FactTable
  <1>d. UNCHANGED env => runs' \in [Chunks -> Nat] /\ faults' \in Nat /\ now' \in Nat
    BY DEF env, TypeOK
  <1>e. PostgresTypeOK' /\ HydraTypeOK' /\ RunsOK' /\ runs' \in [Chunks -> Nat] /\ faults' \in Nat /\ now' \in Nat
        => TypeOK'
    BY DEF TypeOK
  <1> HIDE DEF RunsOK
  <1>1. CASE UNCHANGED vars
    <2>1. UNCHANGED postgres /\ UNCHANGED hydra /\ UNCHANGED env /\ run' = run
      BY <1>1 DEF vars
    <2>2. RunsOK'
      BY <1>0, <1>b, <2>1 DEF RunsOK
    <2> QED
      BY <1>b, <1>c, <1>d, <1>e, <2>1, <2>2
  <1>2. ASSUME NEW w \in Workers, NEW c \in Chunks, NEW v \in Versions, RunRecord(w, c, v)
        PROVE  TypeOK'
    <2> DEFINE r == [Idle EXCEPT !.pc = "put", !.chunk = c, !.version = v,
                                 !.nonce = IF StableIds THEN 0 ELSE runs[c] + 1]
    <2>1. runs \in [Chunks -> Nat] /\ runs' \in [Chunks -> Nat] /\ faults' \in Nat /\ now' \in Nat
      BY <1>2 DEF RunRecord, TypeOK
    <2>2. RunOK(r, DOMAIN job)
      BY <2>1 DEF RunOK, RunFields, Idle, Stages
    <2>3. UNCHANGED postgres /\ UNCHANGED hydra /\ run' = [run EXCEPT ![w] = r]
      BY <1>2 DEF RunRecord
    <2> HIDE DEF r
    <2>4. RunsOK'
      BY <1>0, <1>b, <2>2, <2>3, OneRunChanges, Zenon
    <2> QED
      BY <1>b, <1>c, <1>e, <2>1, <2>3, <2>4
  <1>3. ASSUME NEW w \in Workers, PutChunk(w) PROVE TypeOK'
    <2>1. run[w].chunk \in Chunks /\ run[w].version \in Versions /\ run[w].pc = "put"
      BY <1>3, <1>a DEF PutChunk, RunOK
    <2>2. UNCHANGED hydra /\ UNCHANGED env
      BY <1>3 DEF PutChunk
    <2>3. PostgresTypeOK' /\ DOMAIN job \subseteq DOMAIN job'
      BY <1>0, <1>3, <2>1, NewJobSound, Zenon DEF PutChunk, PostgresTypeOK, FactTable
    <2>4. \/ Return(w)
          \/ Goto(w, "get") /\ run[w].chunk \in DOMAIN job'
      BY <1>0, <1>3 DEF PutChunk, PostgresTypeOK
    <2>5. RunsOK'
      BY <1>0, <2>1, <2>3, <2>4, ReturnOK, GoOnOK, Zenon DEF Stages
    <2> QED
      BY <1>c, <1>d, <1>e, <2>2, <2>3, <2>5
  <1>4. ASSUME NEW w \in Workers, GetJob(w) PROVE TypeOK'
    <2>1. UNCHANGED postgres /\ UNCHANGED hydra /\ UNCHANGED env
      BY <1>4 DEF GetJob
    <2>2. RunsOK'
      BY <1>0, <1>4, <1>a, <1>b, <2>1, ReturnOK, GoOnOK, Zenon DEF GetJob, Stages, RunOK
    <2> QED
      BY <1>b, <1>c, <1>d, <1>e, <2>1, <2>2
  <1>5. ASSUME NEW w \in Workers, NEW keys, Extract(w, keys) PROVE TypeOK'
    <2> DEFINE r == run[w]
               cands == [n \in DOMAIN keys |->
                          [chunk |-> r.chunk, pos |-> n, key |-> keys[n], nonce |-> r.nonce]]
               q == [r EXCEPT !.accepted = cands, !.created_at = now, !.i = 1,
                              !.pc = IF keys = <<>> THEN "register" ELSE "plan"]
    <2>1. r.chunk \in Chunks /\ r.chunk \in DOMAIN job /\ keys \in Seq(Keys) /\ RunOK(r, DOMAIN job)
      BY <1>5, <1>a, Zenon DEF Extract, RunOK
    <2>2. cands \in Seq(Fact) /\ DOMAIN cands = DOMAIN keys
      BY <2>1, CandidatesOK, Zenon
    <2>3. UNCHANGED hydra /\ UNCHANGED env /\ UNCHANGED <<content, job, manifest, manifestEdges, embeddings, searchIndex>>
          /\ attempts' = attempts \cup {[chunk |-> r.chunk, accepted |-> cands]}
      BY <1>5, Zenon DEF Extract, Candidates, RecordAttempt
    <2>4. run' = [run EXCEPT ![w] = q]
      BY <1>0, <1>5, Zenon DEF Extract, Candidates, RunsOK
    <2>5. keys # <<>> => 1 \in DOMAIN keys
      BY <2>1
    <2> HIDE DEF cands
    <2>6. PostgresTypeOK'
      BY <1>0, <2>1, <2>2, <2>3 DEF PostgresTypeOK, FactTable
    <2>7. RunOK(q, DOMAIN job)
      <3>1. now \in Nat
        BY DEF TypeOK
      <3>2. /\ DOMAIN q = RunFields /\ q.accepted = cands /\ q.created_at = now /\ q.i = 1
            /\ q.pc \in Stages \ {"idle", "put", "embed", "index"}
            /\ q.pc = "plan" => keys # <<>>
            /\ \A x \in {"chunk", "version", "nonce", "about", "priors", "supersedes"} : q[x] = r[x]
        BY <2>1 DEF RunOK, RunFields, Stages
      <3>3. r.version \in Versions
        BY <1>5, <2>1 DEF Extract, RunOK
      <3> HIDE DEF q
      <3> QED
        BY <2>1, <2>2, <2>5, <3>1, <3>2, <3>3 DEF RunOK
    <2> HIDE DEF q
    <2>8. RunsOK'
      BY <1>0, <2>3, <2>4, <2>7, OneRunChanges, Zenon
    <2> QED
      BY <1>c, <1>d, <1>e, <2>3, <2>6, <2>8
  <1>6. ASSUME NEW w \in Workers, PlanCandidate(w) PROVE TypeOK'
    <2> DEFINE r == run[w]
               f == r.accepted[r.i]
    <2>1. r.pc = "plan" /\ f \in Fact /\ RunOK(r, DOMAIN job)
      <3>1. r.pc = "plan" /\ RunOK(r, DOMAIN job)
        BY <1>6, <1>a, Zenon DEF PlanCandidate
      <3>2. r.accepted \in Seq(Fact) /\ r.i \in DOMAIN r.accepted
        BY <3>1, Zenon DEF RunOK
      <3>3. f \in Fact
        BY <3>2
      <3> QED
        BY <3>1, <3>3, Zenon
    <2>2. UNCHANGED postgres /\ UNCHANGED hydra /\ runs' \in [Chunks -> Nat] /\ faults' \in Nat /\ now' \in Nat
      BY <1>6 DEF PlanCandidate, TypeOK
    <2>3. PICK q : run' = [run EXCEPT ![w] = NextCandidate(q)] /\ RunOK(q, DOMAIN job) /\ q.pc = "plan"
      <3>1. \A S \in SUBSET Fact : \A verdict \in Verdicts(S) :
              RunOK(PlanWith(r, f, verdict), DOMAIN job) /\ PlanWith(r, f, verdict).pc = "plan"
        BY <2>1, PlanWithOK
      <3>2. Supersedable(f, FindExisting(f)) \subseteq Fact
        BY <1>0 DEF Supersedable, FindExisting, HydraTypeOK, FactTable
      <3>3. [g \in {} |-> "no_update"] \in Verdicts({})
        BY DEF Verdicts
      <3> QED
        BY <1>6, <2>1, <3>1, <3>2, <3>3, Zenon DEF PlanCandidate
    <2>4. RunsOK'
      BY <1>0, <1>b, <2>2, <2>3, NextCandidateOK, OneRunChanges, Zenon
    <2> QED
      BY <1>b, <1>c, <1>e, <2>2, <2>4
  <1>7. ASSUME NEW w \in Workers, Register(w) PROVE TypeOK'
    <2>1. UNCHANGED hydra /\ UNCHANGED env /\ UNCHANGED <<content, job, attempts, embeddings, searchIndex>>
      BY <1>7 DEF Register
    <2>2. RunOK(run[w], DOMAIN job)
      BY <1>a
    <2>3. FactTable(MergePriors(MergeFacts(manifest, run[w]), run[w]))
      BY <1>0, <2>2, MergeFactsOK, MergePriorsOK DEF PostgresTypeOK
    <2>4. FactTable(manifest)' /\ manifestEdges' \subseteq Fact \X Fact
      BY <1>0, <1>7, <2>2, <2>3 DEF Register, RunOK, PostgresTypeOK, FactTable
    <2>5. PostgresTypeOK'
      BY <1>0, <2>1, <2>4 DEF PostgresTypeOK
    <2>6. RunsOK'
      BY <1>0, <1>7, <2>1, <2>2, GoOnOK, Zenon DEF Register, RunOK, Stages
    <2> QED
      BY <1>c, <1>d, <1>e, <2>1, <2>5, <2>6
  <1>8. ASSUME NEW w \in Workers, WriteContext(w) PROVE TypeOK'
    <2>1. UNCHANGED postgres /\ UNCHANGED env
      BY <1>8 DEF WriteContext
    <2>2. HydraTypeOK'
      BY <1>0, <1>a, <1>8 DEF WriteContext, HydraTypeOK, FactTable, RunOK
    <2>3. RunsOK'
      BY <1>0, <1>a, <1>b, <1>8, <2>1, GoOnOK, Zenon DEF WriteContext, RunOK, Stages
    <2> QED
      BY <1>b, <1>d, <1>e, <2>1, <2>2, <2>3
  <1>9. ASSUME NEW w \in Workers, WriteFacts(w) PROVE TypeOK'
    <2>1. UNCHANGED postgres /\ UNCHANGED env
      BY <1>9 DEF WriteFacts
    <2>2. HydraTypeOK'
      BY <1>0, <1>a, <1>9, MergeFactsOK DEF WriteFacts, HydraTypeOK
    <2>3. RunsOK'
      BY <1>0, <1>a, <1>b, <1>9, <2>1, GoOnOK, Zenon DEF WriteFacts, RunOK, Stages
    <2> QED
      BY <1>b, <1>d, <1>e, <2>1, <2>2, <2>3
  <1>10. ASSUME NEW w \in Workers, WritePriors(w) PROVE TypeOK'
    <2>1. UNCHANGED postgres /\ UNCHANGED env
      BY <1>10 DEF WritePriors
    <2>2. HydraTypeOK'
      BY <1>0, <1>a, <1>10, MergePriorsOK DEF WritePriors, HydraTypeOK
    <2>3. RunsOK'
      BY <1>0, <1>a, <1>b, <1>10, <2>1, GoOnOK, Zenon DEF WritePriors, RunOK, Stages
    <2> QED
      BY <1>b, <1>d, <1>e, <2>1, <2>2, <2>3
  <1>11. ASSUME NEW w \in Workers, WriteSources(w) PROVE TypeOK'
    <2>1. UNCHANGED postgres /\ UNCHANGED env
      BY <1>11 DEF WriteSources
    <2>2. HydraTypeOK'
      BY <1>0, <1>a, <1>11, PlanFactsOK DEF WriteSources, HydraTypeOK, FactTable
    <2>3. RunsOK'
      BY <1>0, <1>a, <1>b, <1>11, <2>1, GoOnOK, Zenon DEF WriteSources, RunOK, Stages
    <2> QED
      BY <1>b, <1>d, <1>e, <2>1, <2>2, <2>3
  <1>12. ASSUME NEW w \in Workers, WriteAbout(w) PROVE TypeOK'
    <2>1. UNCHANGED postgres /\ UNCHANGED env
      BY <1>12 DEF WriteAbout
    <2>2. HydraTypeOK'
      BY <1>0, <1>a, <1>12 DEF WriteAbout, HydraTypeOK, FactTable, RunOK
    <2>3. RunsOK'
      BY <1>0, <1>a, <1>b, <1>12, <2>1, GoOnOK, Zenon DEF WriteAbout, RunOK, Stages
    <2> QED
      BY <1>b, <1>d, <1>e, <2>1, <2>2, <2>3
  <1>13. ASSUME NEW w \in Workers, WriteSupersedes(w) PROVE TypeOK'
    <2>1. UNCHANGED postgres /\ UNCHANGED env
      BY <1>13 DEF WriteSupersedes
    <2>2. HydraTypeOK'
      BY <1>0, <1>a, <1>13 DEF WriteSupersedes, HydraTypeOK, FactTable, RunOK
    <2>3. RunsOK'
      BY <1>0, <1>a, <1>b, <1>13, <2>1, GoOnOK, Zenon DEF WriteSupersedes, RunOK, Stages
    <2> QED
      BY <1>b, <1>d, <1>e, <2>1, <2>2, <2>3
  <1>14. ASSUME NEW w \in Workers, GraphWritten(w) PROVE TypeOK'
    <2>1. UNCHANGED hydra /\ UNCHANGED env
          /\ UNCHANGED <<content, attempts, manifest, manifestEdges, embeddings, searchIndex>>
      BY <1>14 DEF GraphWritten
    <2>2. run[w].chunk \in DOMAIN job /\ RunOK(run[w], DOMAIN job) /\ run[w].pc # "idle"
      BY <1>14, <1>a DEF GraphWritten, RunOK
    <2>3. CASE UNCHANGED job /\ Goto(w, "retryable_error")
      <3>1. UNCHANGED postgres
        BY <2>1, <2>3 DEF postgres
      <3>2. RunsOK'
        BY <1>0, <2>2, <2>3, GoOnOK, Zenon DEF Stages
      <3> QED
        BY <1>b, <1>c, <1>d, <1>e, <2>1, <3>1, <3>2
    <2>4. CASE /\ IsLegalJobTransition(job[run[w].chunk].state, "pending_embeddings", job[run[w].chunk].last_verified_state)
               /\ job' = [job EXCEPT ![run[w].chunk] = TransitionRow(job[run[w].chunk], "pending_embeddings", FALSE)]
               /\ run' = [run EXCEPT ![w].pc = IF run[w].accepted = <<>> THEN "embedded" ELSE "embed", ![w].i = 1]
      <3>1. "pending_embeddings" \in IngestionJobState
        BY DEF IngestionJobState, ForwardStates, NonTerminalStates
      <3>2. PostgresTypeOK' /\ DOMAIN job' = DOMAIN job
        BY <1>0, <2>1, <2>2, <2>4, <3>1, TransitionOK, Zenon
      <3> DEFINE q == [run[w] EXCEPT !.pc = IF run[w].accepted = <<>> THEN "embedded" ELSE "embed", !.i = 1]
      <3>a. run' = [run EXCEPT ![w] = q]
        BY <1>0, <2>4, Zenon DEF RunsOK
      <3>b. RunOK(q, DOMAIN job')
        BY <2>2, <3>2, <1>14 DEF GraphWritten, RunOK, RunFields, Stages
      <3> HIDE DEF q
      <3>3. RunsOK'
        BY <1>0, <3>2, <3>a, <3>b, OneRunChanges, Zenon
      <3> QED
        BY <1>c, <1>d, <1>e, <2>1, <3>2, <3>3, Zenon
    <2> QED
      BY <1>14, <2>3, <2>4, Zenon DEF GraphWritten, Advance
  <1>15. ASSUME NEW w \in Workers, PutEmbedding(w) PROVE TypeOK'
    <2>1. UNCHANGED hydra /\ UNCHANGED env
          /\ UNCHANGED <<content, job, attempts, manifest, manifestEdges, searchIndex>>
      BY <1>15 DEF PutEmbedding
    <2>2. RunOK(run[w], DOMAIN job) /\ run[w].pc = "embed" /\ run[w].accepted[run[w].i] \in Fact
      BY <1>a, <1>15 DEF PutEmbedding, RunOK
    <2>3. PostgresTypeOK'
      BY <1>0, <1>15, <2>1, <2>2 DEF PutEmbedding, PostgresTypeOK, FactTable
    <2>4. run' = [run EXCEPT ![w] = [run[w] EXCEPT !.pc = "index"]]
      BY <1>0, <1>15 DEF PutEmbedding, Goto, RunsOK
    <2>5. RunOK([run[w] EXCEPT !.pc = "index"], DOMAIN job)
      BY <2>2 DEF RunOK, RunFields, Stages
    <2>6. RunsOK'
      BY <1>0, <2>1, <2>4, <2>5, OneRunChanges, Zenon
    <2> QED
      BY <1>c, <1>d, <1>e, <2>1, <2>3, <2>6
  <1>16. ASSUME NEW w \in Workers, PutSearchIndex(w) PROVE TypeOK'
    <2> DEFINE r == run[w]
               q == [r EXCEPT !.i = IF r.i = Len(r.accepted) THEN 1 ELSE r.i + 1,
                              !.pc = IF r.i = Len(r.accepted) THEN "embedded" ELSE "embed"]
    <2>1. UNCHANGED hydra /\ UNCHANGED env
          /\ UNCHANGED <<content, job, attempts, manifest, manifestEdges, embeddings>>
      BY <1>16 DEF PutSearchIndex
    <2>2. RunOK(r, DOMAIN job) /\ r.pc = "index" /\ r.accepted[r.i] \in Fact
      <3>1. RunOK(r, DOMAIN job) /\ r.pc = "index"
        BY <1>a, <1>16 DEF PutSearchIndex
      <3> QED
        BY <3>1 DEF RunOK
    <2>3. PostgresTypeOK'
      BY <1>0, <1>16, <2>1, <2>2 DEF PutSearchIndex, PostgresTypeOK, FactTable
    <2>4. run' = [run EXCEPT ![w] = q]
      BY <1>0, <1>16, Zenon DEF PutSearchIndex, RunsOK
    <2>5. RunOK(q, DOMAIN job)
      <3>1. r.accepted \in Seq(Fact) /\ r.i \in 1..Len(r.accepted)
        BY <2>2 DEF RunOK
      <3>2. r.i # Len(r.accepted) => r.i + 1 \in DOMAIN r.accepted
        BY <3>1
      <3>3. /\ DOMAIN q = RunFields /\ q.i \in Nat /\ q.pc \in {"embedded", "embed"}
            /\ q.pc = "embed" => q.i \in DOMAIN r.accepted
            /\ \A x \in RunFields \ {"pc", "i"} : q[x] = r[x]
        <4> DEFINE j == IF r.i = Len(r.accepted) THEN 1 ELSE r.i + 1
                   at == IF r.i = Len(r.accepted) THEN "embedded" ELSE "embed"
        <4>1. j \in Nat /\ at \in {"embedded", "embed"} /\ (at = "embed" => j \in DOMAIN r.accepted)
          BY <3>1, <3>2
        <4>2. DOMAIN r = RunFields /\ {"pc", "i"} \subseteq RunFields
          BY <2>2, Zenon DEF RunOK, RunFields
        <4> HIDE DEF j, at
        <4>3. q = [r EXCEPT !.i = j, !.pc = at]
          BY Zenon DEF j, at
        <4> HIDE DEF q
        <4> QED
          BY <4>1, <4>2, <4>3, Zenon
      <3> HIDE DEF q
      <3>4. /\ q.accepted = r.accepted /\ q.nonce = r.nonce /\ q.created_at = r.created_at
            /\ q.about = r.about /\ q.priors = r.priors /\ q.supersedes = r.supersedes
            /\ q.chunk = r.chunk /\ q.version = r.version
        BY <3>3, Zenon DEF RunFields
      <3> QED
        BY <2>2, <3>3, <3>4, Zenon DEF RunOK, Stages
    <2> HIDE DEF q
    <2>6. RunsOK'
      BY <1>0, <2>1, <2>4, <2>5, OneRunChanges, Zenon
    <2> QED
      BY <1>c, <1>d, <1>e, <2>1, <2>3, <2>6
  <1>17. ASSUME NEW w \in Workers, Embedded(w) PROVE TypeOK'
    <2>1. UNCHANGED hydra /\ UNCHANGED env
          /\ UNCHANGED <<content, attempts, manifest, manifestEdges, embeddings, searchIndex>>
      BY <1>17 DEF Embedded
    <2>2. run[w].chunk \in DOMAIN job /\ RunOK(run[w], DOMAIN job) /\ run[w].pc # "idle"
      BY <1>17, <1>a DEF Embedded, RunOK
    <2>3. CASE UNCHANGED job /\ Goto(w, "retryable_error")
      <3>1. UNCHANGED postgres
        BY <2>1, <2>3 DEF postgres
      <3>2. RunsOK'
        BY <1>0, <2>2, <2>3, GoOnOK, Zenon DEF Stages
      <3> QED
        BY <1>b, <1>c, <1>d, <1>e, <2>1, <3>1, <3>2, Zenon
    <2>4. CASE /\ IsLegalJobTransition(job[run[w].chunk].state, "verifying", job[run[w].chunk].last_verified_state)
               /\ job' = [job EXCEPT ![run[w].chunk] = TransitionRow(job[run[w].chunk], "verifying", FALSE)]
               /\ Goto(w, "verify")
      <3>1. "verifying" \in IngestionJobState
        BY DEF IngestionJobState, ForwardStates, NonTerminalStates
      <3>2. PostgresTypeOK' /\ DOMAIN job' = DOMAIN job
        BY <1>0, <2>1, <2>2, <2>4, <3>1, TransitionOK, Zenon
      <3>3. RunsOK'
        BY <1>0, <2>2, <2>4, <3>2, GoOnOK, Zenon DEF Stages
      <3> QED
        BY <1>c, <1>d, <1>e, <2>1, <3>2, <3>3
    <2> QED
      BY <1>17, <2>3, <2>4, Zenon DEF Embedded, Advance
  <1>18. ASSUME NEW w \in Workers, Verify(w) PROVE TypeOK'
    <2>1. UNCHANGED postgres /\ UNCHANGED hydra /\ UNCHANGED env
      BY <1>18 DEF Verify
    <2>2. RunsOK'
      BY <1>0, <1>a, <1>b, <1>18, <2>1, GoOnOK DEF Verify, RunOK, Stages
    <2> QED
      BY <1>b, <1>c, <1>d, <1>e, <2>1, <2>2
  <1>19. ASSUME NEW w \in Workers, Complete(w) PROVE TypeOK'
    <2>1. UNCHANGED hydra /\ UNCHANGED env
          /\ UNCHANGED <<content, attempts, manifest, manifestEdges, embeddings, searchIndex>>
      BY <1>19 DEF Complete
    <2>2. run[w].chunk \in DOMAIN job /\ RunOK(run[w], DOMAIN job) /\ run[w].pc # "idle"
      BY <1>19, <1>a DEF Complete, RunOK
    <2>3. CASE UNCHANGED job /\ Goto(w, "retryable_error")
      <3>1. UNCHANGED postgres
        BY <2>1, <2>3 DEF postgres
      <3>2. RunsOK'
        BY <1>0, <2>2, <2>3, GoOnOK, Zenon DEF Stages
      <3> QED
        BY <1>b, <1>c, <1>d, <1>e, <2>1, <3>1, <3>2
    <2>4. CASE /\ IsLegalJobTransition(job[run[w].chunk].state, "completed", job[run[w].chunk].last_verified_state)
               /\ job' = [job EXCEPT ![run[w].chunk] = TransitionRow(job[run[w].chunk], "completed", FALSE)]
               /\ Return(w)
      <3>1. "completed" \in IngestionJobState
        BY DEF IngestionJobState, ForwardStates, NonTerminalStates
      <3>2. PostgresTypeOK' /\ DOMAIN job' = DOMAIN job
        BY <1>0, <2>1, <2>2, <2>4, <3>1, TransitionOK, Zenon
      <3>3. RunsOK'
        BY <1>0, <2>4, <3>2, ReturnOK
      <3> QED
        BY <1>c, <1>d, <1>e, <2>1, <3>2, <3>3, Zenon
    <2> QED
      BY <1>19, <2>3, <2>4, Zenon DEF Complete, Advance
  <1>20. ASSUME NEW w \in Workers, Handle(w) PROVE TypeOK'
    <2> DEFINE c == run[w].chunk
               new == IF run[w].pc = "terminal_error" THEN "terminal_failed" ELSE "retryable_failed"
    <2>1. UNCHANGED hydra /\ UNCHANGED env /\ Return(w)
          /\ UNCHANGED <<content, attempts, manifest, manifestEdges, embeddings, searchIndex>>
      BY <1>20 DEF Handle
    <2>2. c \in DOMAIN job /\ new \in IngestionJobState
      BY <1>20, <1>a, Zenon DEF Handle, RunOK, IngestionJobState, FailureStates
    <2>3. \/ UNCHANGED job
          \/ /\ IsLegalJobTransition(job[c].state, new, job[c].last_verified_state)
             /\ job' = [job EXCEPT ![c] = TransitionRow(job[c], new, TRUE)]
      BY <1>20, Zenon DEF Handle
    <2> HIDE DEF new, c
    <2>4. PostgresTypeOK' /\ DOMAIN job' = DOMAIN job
      BY <1>0, <1>b, <2>1, <2>2, <2>3, TransitionOK, Zenon DEF postgres
    <2>5. RunsOK'
      BY <1>0, <2>1, <2>4, ReturnOK
    <2> QED
      BY <1>c, <1>d, <1>e, <2>1, <2>4, <2>5
  <1>21. ASSUME NEW w \in Workers, Raise(w) \/ Crash(w) PROVE TypeOK'
    <2>1. UNCHANGED postgres /\ UNCHANGED hydra /\ runs' \in [Chunks -> Nat] /\ faults' \in Nat /\ now' \in Nat
      <3>1. runs \in [Chunks -> Nat] /\ faults \in Nat /\ now \in Nat
        BY Zenon DEF TypeOK
      <3> QED
        BY <1>21, <3>1 DEF Raise, Crash
    <2>2. RunsOK'
      BY <1>0, <1>a, <1>b, <1>21, <2>1, GoOnOK, ReturnOK DEF Raise, Crash, RunOK, Stages, Pipeline
    <2> QED
      BY <1>b, <1>c, <1>e, <2>1, <2>2
  <1>22. CASE Tick
    <2>1. UNCHANGED postgres /\ UNCHANGED hydra /\ run' = run
          /\ runs' \in [Chunks -> Nat] /\ faults' \in Nat /\ now' \in Nat
      <3>1. runs \in [Chunks -> Nat] /\ faults \in Nat /\ now \in Nat
        BY Zenon DEF TypeOK
      <3> QED
        BY <1>22, <3>1 DEF Tick
    <2>2. RunsOK'
      BY <1>0, <1>b, <2>1 DEF RunsOK
    <2> QED
      BY <1>b, <1>c, <1>e, <2>1, <2>2
  <1> QED
    BY <1>1, <1>2, <1>3, <1>4, <1>5, <1>6, <1>7, <1>8, <1>9, <1>10, <1>11, <1>12, <1>13,
       <1>14, <1>15, <1>16, <1>17, <1>18, <1>19, <1>20, <1>21, <1>22 DEF Next, Step

\* Types hold in every reachable state, whatever fails.
THEOREM TypeCorrect == Spec => []TypeOK
  BY InitTypeOK, NextTypeOK, PTL DEF Spec

-----------------------------------------------------------------------------
(* What the stores hold *)

HIDE IngestionAssumption

\* The inductive invariant.
IInv ==
  /\ TypeOK
  /\ RunsBacked
  /\ sourceEdges \subseteq DOMAIN factNodes
  /\ SupersededByNewer
  /\ SupersedesIsForward
  /\ GraphWasRegistered
  /\ SearchableIsInGraph
  /\ StageMeansDone

\* Nothing is ever removed from the stores, and what the manifest says of a
\* fact's immutable properties never changes.
Grows ==
  /\ DOMAIN factNodes \subseteq DOMAIN factNodes'
  /\ turnNodes \subseteq turnNodes'
  /\ sourceEdges \subseteq sourceEdges'
  /\ attempts \subseteq attempts'
  /\ embeddings \subseteq embeddings' /\ searchIndex \subseteq searchIndex'
  /\ manifestEdges \subseteq manifestEdges'
  /\ DOMAIN manifest \subseteq DOMAIN manifest'
  /\ \A f \in DOMAIN manifest : manifest'[f].created_at = manifest[f].created_at

\* A worker that does not move stays backed when the stores grow.
LEMMA StaysBacked ==
  ASSUME NEW r, RunBacked(r), Grows
  PROVE  RunBacked(r)'
  <1>1. PlanBacked(r)'
    BY DEF PlanBacked, RunBacked, Grows
  <1>2. r.pc \in Registered =>
          /\ \A f \in PlanFacts(r) : f \in DOMAIN manifest' /\ manifest'[f].created_at = r.created_at
          /\ r.supersedes \subseteq manifestEdges'
    BY Zenon DEF RunBacked, Grows
  <1> QED
    BY <1>1, <1>2 DEF RunBacked, Grows

\* A worker is backed after a step if the record it then holds is.
LEMMA BackedAt ==
  ASSUME NEW u, NEW q, run'[u] = q, RunBacked(q)'
  PROVE  RunBacked(run[u])'
  <1>1. PlanFacts(run'[u]) = PlanFacts(q)
    BY DEF PlanFacts
  <1>2. PlanBacked(run[u])'
    BY <1>1 DEF RunBacked, PlanBacked, PlanFacts
  <1> QED
    BY <1>1, <1>2 DEF RunBacked, PlanFacts

\* A step of one worker leaves the others backed.
LEMMA OneBackedChanges ==
  ASSUME TypeOK, RunsBacked, Grows, NEW w \in Workers, NEW r, run' = [run EXCEPT ![w] = r],
         RunBacked(r)'
  PROVE  RunsBacked'
  <1> SUFFICES ASSUME NEW u \in Workers PROVE RunBacked(run[u])'
    BY DEF RunsBacked
  <1>1. CASE u = w
    <2>1. run'[u] = r
      BY <1>1 DEF TypeOK
    <2> QED
      BY <2>1, BackedAt
  <1>2. CASE u # w
    <2>1. PICK q : q = run[u]
      OBVIOUS
    <2>2. run'[u] = q
      BY <1>2, <2>1 DEF TypeOK
    <2>3. RunBacked(q)'
      BY <2>1, StaysBacked DEF RunsBacked
    <2> QED
      BY <2>2, <2>3, BackedAt
  <1> QED
    BY <1>1, <1>2

\* A worker at rest has done nothing.
LEMMA IdleBacked ==
  ASSUME NEW r, r = Idle
  PROVE  RunBacked(r) /\ RunBacked(r)'
  <1>1. r.pc = "idle" /\ r.supersedes = {} /\ r.priors = [f \in {} |-> 0]
    BY DEF Idle
  <1>2. DOMAIN r.priors = {}
    BY <1>1
  <1>3. PlanBacked(r) /\ PlanBacked(r)'
    BY <1>1, <1>2 DEF PlanBacked
  <1>4. r.pc \notin Extracted
    BY <1>1 DEF Extracted, Registered, ContextIn, FactsIn, Sourced, Indexed
  <1>5. r.pc \notin Registered /\ r.pc \notin ContextIn /\ r.pc \notin FactsIn
        /\ r.pc \notin Sourced /\ r.pc \notin Indexed
    BY <1>4 DEF Extracted, Registered, ContextIn, FactsIn, Sourced, Indexed
  <1> QED
    BY <1>1, <1>3, <1>4, <1>5 DEF RunBacked

-----------------------------------------------------------------------------
(* What a step keeps when it leaves the relevant tables alone *)

\* No new edge: the edges there are stay forward.
LEMMA ForwardKept ==
  ASSUME SupersedesIsForward, Grows, UNCHANGED supersedesEdges
  PROVE  SupersedesIsForward'
  BY DEF SupersedesIsForward, Grows

\* No new node or edge: what is in the graph stays registered.
LEMMA RegisteredKept ==
  ASSUME GraphWasRegistered, Grows, UNCHANGED <<factNodes, supersedesEdges>>
  PROVE  GraphWasRegistered'
  BY DEF GraphWasRegistered, Grows

\* No new index entry: what can be found stays in the graph.
LEMMA SearchableKept ==
  ASSUME SearchableIsInGraph, Grows, UNCHANGED <<embeddings, searchIndex>>
  PROVE  SearchableIsInGraph'
  BY DEF SearchableIsInGraph, Grows

\* Work that is done stays done.
LEMMA DoneKept ==
  ASSUME Grows, NEW c
  PROVE  (GraphDone(c) => GraphDone(c)') /\ (IndexDone(c) => IndexDone(c)')
  BY DEF Grows, GraphDone, IndexDone

\* No job moved: its progress stays backed.
LEMMA StageKept ==
  ASSUME StageMeansDone, Grows, UNCHANGED job
  PROVE  StageMeansDone'
  BY DoneKept DEF StageMeansDone

\* A job's row may change if what the new row claims is done.
LEMMA StageMoved ==
  ASSUME StageMeansDone, Grows, NEW c \in DOMAIN job, NEW row, job' = [job EXCEPT ![c] = row],
         Progress(row) >= 1 => GraphDone(c)', Progress(row) >= 2 => IndexDone(c)'
  PROVE  StageMeansDone'
  <1> SUFFICES ASSUME NEW d \in DOMAIN job
               PROVE  /\ Progress(job'[d]) >= 1 => GraphDone(d)'
                      /\ Progress(job'[d]) >= 2 => IndexDone(d)'
    BY DEF StageMeansDone
  <1> QED
    BY DoneKept DEF StageMeansDone

\* A step that changes no store keeps the invariant if the worker it moves is
\* still backed.
LEMMA QuietStep ==
  ASSUME IInv, TypeOK', UNCHANGED postgres, UNCHANGED hydra, RunsBacked'
  PROVE  IInv'
  <1>1. Grows
    BY DEF Grows, postgres, hydra
  <1>2. SupersededByNewer'
    BY DEF IInv, SupersededByNewer, hydra
  <1>3. SupersedesIsForward' /\ GraphWasRegistered' /\ SearchableIsInGraph' /\ StageMeansDone'
    BY <1>1, ForwardKept, RegisteredKept, SearchableKept, StageKept DEF IInv, postgres, hydra
  <1> QED
    BY <1>2, <1>3 DEF IInv, hydra

\* The workers are backed after a step that changes no store and leaves a
\* worker idle, or failed, or in any other backed state.
LEMMA QuietRun ==
  ASSUME IInv, UNCHANGED postgres, UNCHANGED hydra, NEW w \in Workers, NEW r,
         run' = [run EXCEPT ![w] = r], RunBacked(r)
  PROVE  RunsBacked'
  <1>1. Grows
    BY DEF Grows, postgres, hydra
  <1>2. RunBacked(r)'
    BY <1>1, StaysBacked
  <1> QED
    BY <1>1, <1>2, OneBackedChanges, Zenon DEF IInv

\* A step that ends a run keeps the workers backed.
LEMMA ReturnBacked ==
  ASSUME IInv, Grows, NEW w \in Workers, Return(w)
  PROVE  RunsBacked'
  <1>1. PICK r : r = Idle
    OBVIOUS
  <1>2. RunBacked(r)'
    BY <1>1, IdleBacked
  <1> QED
    BY <1>1, <1>2, OneBackedChanges, Zenon DEF Return, IInv

\* Moving on to a stage is backed if the stage claims no more than is true.
LEMMA GotoBacked ==
  ASSUME IInv, Grows, NEW w \in Workers, run[w].pc # "idle", NEW stage \in Stages, Goto(w, stage),
         NEW r, r = run[w], RunBacked([r EXCEPT !.pc = stage])'
  PROVE  RunsBacked'
  <1>1. run' = [run EXCEPT ![w] = [r EXCEPT !.pc = stage]]
    BY DEF Goto, IInv, TypeOK
  <1> QED
    BY <1>1, OneBackedChanges, Zenon DEF IInv

\* A failed run claims nothing but its plan.
LEMMA FailBacked ==
  ASSUME IInv, Grows, NEW w \in Workers, run[w].pc # "idle",
         NEW stage \in {"retryable_error", "terminal_error"}, Goto(w, stage)
  PROVE  RunsBacked'
  <1>1. PICK r : r = run[w]
    OBVIOUS
  <1>2. DOMAIN r = RunFields /\ RunBacked(r)
    BY <1>1 DEF IInv, TypeOK, RunOK, RunsBacked
  <1>3. RunBacked(r)'
    BY <1>2, StaysBacked
  <1> DEFINE q == [r EXCEPT !.pc = stage]
  <1>4. q.pc = stage /\ \A x \in RunFields \ {"pc"} : q[x] = r[x]
    BY <1>2 DEF RunFields
  <1> HIDE DEF q
  <1>5. q.supersedes = r.supersedes /\ q.priors = r.priors /\ q.accepted = r.accepted
    BY <1>4 DEF RunFields
  <1>6. RunBacked(q)'
    <2>1. q.chunk = r.chunk /\ q.created_at = r.created_at /\ q.i = r.i
      BY <1>4, Zenon DEF RunFields
    <2>2. PlanFacts(q) = PlanFacts(r)
      BY <1>5, Zenon DEF PlanFacts
    <2> QED
      BY <1>3, <1>4, <1>5, <2>1, <2>2, Zenon
      DEF RunBacked, PlanBacked, PlanFacts, Extracted, Registered, ContextIn, FactsIn, Sourced, Indexed
  <1> QED
    BY <1>1, <1>6, GotoBacked DEF q, Stages

-----------------------------------------------------------------------------
(* One lemma per action *)

\* The fields a step does not name keep their values.
LEMMA MovedFields ==
  ASSUME NEW r, DOMAIN r = RunFields, NEW stage
  PROVE  LET q == [r EXCEPT !.pc = stage] IN
         /\ q.pc = stage /\ q.chunk = r.chunk /\ q.accepted = r.accepted /\ q.i = r.i
         /\ q.priors = r.priors /\ q.supersedes = r.supersedes /\ q.created_at = r.created_at
         /\ PlanFacts(q) = PlanFacts(r)
  BY DEF RunFields, PlanFacts

\* run_record starts with nothing done.
LEMMA RunRecordIInv ==
  ASSUME IInv, TypeOK', NEW w \in Workers, NEW c \in Chunks, NEW v \in Versions, RunRecord(w, c, v)
  PROVE  IInv'
  <1>1. PICK r : r = [Idle EXCEPT !.pc = "put", !.chunk = c, !.version = v,
                                  !.nonce = IF StableIds THEN 0 ELSE runs[c] + 1]
    OBVIOUS
  <1>2. r.pc = "put" /\ r.supersedes = {} /\ r.priors = [f \in {} |-> 0]
    BY <1>1 DEF Idle
  <1>3. RunBacked(r)
    BY <1>2 DEF RunBacked, PlanBacked, Extracted, Registered, ContextIn, FactsIn, Sourced, Indexed
  <1>4. run' = [run EXCEPT ![w] = r] /\ UNCHANGED postgres /\ UNCHANGED hydra
    BY <1>1 DEF RunRecord
  <1> QED
    BY <1>3, <1>4, QuietRun, QuietStep, Zenon

\* Storing a chunk adds a job that claims nothing.
LEMMA PutChunkIInv ==
  ASSUME IInv, TypeOK', NEW w \in Workers, PutChunk(w)
  PROVE  IInv'
  <1>1. PICK r : r = run[w]
    OBVIOUS
  <1>2. RunBacked(r) /\ DOMAIN r = RunFields /\ r.pc = "put"
    BY <1>1, Zenon DEF IInv, TypeOK, RunOK, RunsBacked, PutChunk
  <1>3. Grows /\ UNCHANGED hydra /\ UNCHANGED <<attempts, manifest, manifestEdges, embeddings, searchIndex>>
    BY DEF Grows, PutChunk, hydra
  <1>4. RunBacked([r EXCEPT !.pc = "get"])'
    <2>1. RunBacked(r)'
      BY <1>2, <1>3, StaysBacked
    <2> QED
      BY <1>2, <2>1, MovedFields
      DEF RunBacked, PlanBacked, Extracted, Registered, ContextIn, FactsIn, Sourced, Indexed
  <1>5. RunsBacked'
    BY <1>1, <1>2, <1>3, <1>4, ReturnBacked, GotoBacked DEF PutChunk, Stages
  <1>6. StageMeansDone'
    <2>1. Progress(NewJob) = 0
      BY DEF Progress, NewJob, ForwardStates, NonTerminalStates, ForwardIndex
    <2>2. CASE UNCHANGED job
      BY <1>3, <2>2, StageKept DEF IInv
    <2>3. CASE job' = [d \in DOMAIN job \cup {r.chunk} |-> IF d = r.chunk THEN NewJob ELSE job[d]]
      <3> SUFFICES ASSUME NEW d \in DOMAIN job'
                   PROVE  /\ Progress(job'[d]) >= 1 => GraphDone(d)'
                          /\ Progress(job'[d]) >= 2 => IndexDone(d)'
        BY DEF StageMeansDone
      <3>1. CASE d = r.chunk
        BY <2>1, <2>3, <3>1
      <3>2. CASE d # r.chunk
        BY <1>3, <2>3, <3>2, DoneKept, Zenon DEF IInv, StageMeansDone
      <3> QED
        BY <3>1, <3>2
    <2> QED
      BY <1>1, <2>2, <2>3 DEF PutChunk
  <1>7. SupersededByNewer'
    BY <1>3, Zenon DEF IInv, SupersededByNewer, hydra
  <1>8. SupersedesIsForward' /\ GraphWasRegistered' /\ SearchableIsInGraph'
    BY <1>3, ForwardKept, RegisteredKept, SearchableKept DEF IInv, hydra
  <1> QED
    BY <1>3, <1>5, <1>6, <1>7, <1>8 DEF IInv, hydra

\* Reading the job claims nothing.
LEMMA GetJobIInv ==
  ASSUME IInv, TypeOK', NEW w \in Workers, GetJob(w)
  PROVE  IInv'
  <1>1. PICK r : r = run[w]
    OBVIOUS
  <1>2. RunBacked(r) /\ DOMAIN r = RunFields /\ r.pc = "get" /\ UNCHANGED postgres /\ UNCHANGED hydra
    BY <1>1, Zenon DEF IInv, TypeOK, RunOK, RunsBacked, GetJob
  <1>3. Grows
    BY <1>2 DEF Grows, postgres, hydra
  <1>4. RunBacked([r EXCEPT !.pc = "extract"])'
    <2>1. RunBacked(r)'
      BY <1>2, <1>3, StaysBacked
    <2> QED
      BY <1>2, <2>1, MovedFields
      DEF RunBacked, PlanBacked, Extracted, Registered, ContextIn, FactsIn, Sourced, Indexed
  <1>5. RunsBacked'
    BY <1>1, <1>2, <1>3, <1>4, ReturnBacked, GotoBacked DEF GetJob, Stages
  <1> QED
    BY <1>2, <1>5, QuietStep

\* Extraction records its attempt before it goes on.
LEMMA ExtractIInv ==
  ASSUME IInv, TypeOK', NEW w \in Workers, NEW keys, Extract(w, keys)
  PROVE  IInv'
  <1>1. PICK r : r = run[w]
    OBVIOUS
  <1>2. PICK cands : cands = [n \in DOMAIN keys |->
               [chunk |-> r.chunk, pos |-> n, key |-> keys[n], nonce |-> r.nonce]]
    BY Zenon
  <1>3. RunBacked(r) /\ DOMAIN r = RunFields /\ r.pc = "extract"
    BY <1>1, Zenon DEF IInv, TypeOK, RunOK, RunsBacked, Extract
  <1>4. PICK q : q = [r EXCEPT !.accepted = cands, !.created_at = now, !.i = 1,
                               !.pc = IF keys = <<>> THEN "register" ELSE "plan"]
    OBVIOUS
  <1>5. /\ q.pc \in {"register", "plan"} /\ q.chunk = r.chunk /\ q.accepted = cands
        /\ q.supersedes = {} /\ q.priors = r.priors
    BY <1>3, <1>4 DEF RunFields, RunBacked
  <1>6. /\ run' = [run EXCEPT ![w] = q] /\ attempts' = attempts \cup {[chunk |-> r.chunk, accepted |-> cands]}
        /\ UNCHANGED <<content, job, manifest, manifestEdges, embeddings, searchIndex>> /\ UNCHANGED hydra
    BY <1>1, <1>2, <1>4, Zenon DEF Extract, Candidates, RecordAttempt, IInv, TypeOK
  <1>7. Grows
    BY <1>6 DEF Grows, hydra
  <1>8. DOMAIN r.priors = {}
    BY <1>3, Zenon DEF RunBacked, PlanBacked
  <1>9. RunBacked(q)'
    BY <1>5, <1>6, <1>8, Zenon
    DEF RunBacked, PlanBacked, Extracted, Registered, ContextIn, FactsIn, Sourced, Indexed
  <1>10. RunsBacked'
    BY <1>6, <1>7, <1>9, OneBackedChanges, Zenon DEF IInv
  <1>11. SupersededByNewer'
    BY <1>6, Zenon DEF IInv, SupersededByNewer, hydra
  <1>12. SupersedesIsForward' /\ GraphWasRegistered' /\ SearchableIsInGraph' /\ StageMeansDone'
    BY <1>6, <1>7, ForwardKept, RegisteredKept, SearchableKept, StageKept, Zenon DEF IInv, hydra
  <1> QED
    BY <1>6, <1>10, <1>11, <1>12 DEF IInv, hydra

\* The prior facts a candidate may supersede are older facts of its key that
\* are in the graph, so the plan stays backed.
LEMMA PlanWithBacked ==
  ASSUME NEW r, DOMAIN r = RunFields, PlanBacked(r), NEW f \in PlanFacts(r),
         NEW S, S \subseteq Supersedable(f, FindExisting(f)), NEW verdict \in Verdicts(S)
  PROVE  LET q == PlanWith(r, f, verdict) IN
         /\ PlanBacked(q) /\ DOMAIN q = RunFields
         /\ q.pc = r.pc /\ q.chunk = r.chunk /\ q.accepted = r.accepted
  <1> DEFINE chosen == {g \in DOMAIN verdict : verdict[g] # "no_update"}
             q == PlanWith(r, f, verdict)
  <1>1. \A g \in chosen : /\ g \in DOMAIN factNodes /\ f.key = g.key
                          /\ ObservedAt[f.chunk] > ObservedAt[g.chunk]
    BY Zenon DEF Verdicts, Supersedable, FindExisting
  <1>2. /\ DOMAIN q = RunFields /\ q.pc = r.pc /\ q.chunk = r.chunk /\ q.accepted = r.accepted
        /\ q.supersedes = r.supersedes \cup {<<f, g>> : g \in chosen}
        /\ q.priors = [g \in DOMAIN r.priors \cup chosen |->
                         IF g \in chosen THEN [by |-> f, relation |-> verdict[g]] ELSE r.priors[g]]
    BY DEF PlanWith, RunFields
  <1> HIDE DEF chosen, q
  <1>3. PlanFacts(q) = PlanFacts(r)
    BY <1>2, SMTT(30) DEF PlanFacts
  <1>4. \A p \in q.supersedes :
          /\ p[1] \in PlanFacts(q) /\ p[2] \in DOMAIN factNodes
          /\ p[1].key = p[2].key /\ ObservedAt[p[1].chunk] > ObservedAt[p[2].chunk]
    BY <1>1, <1>2, <1>3 DEF PlanBacked
  <1>5. \A g \in DOMAIN q.priors : <<q.priors[g].by, g>> \in q.supersedes
    <2> SUFFICES ASSUME NEW g \in DOMAIN q.priors PROVE <<q.priors[g].by, g>> \in q.supersedes
      OBVIOUS
    <2>1. CASE g \in chosen
      BY <1>2, <2>1
    <2>2. CASE g \notin chosen
      BY <1>2, <2>2 DEF PlanBacked
    <2> QED
      BY <2>1, <2>2
  <1> QED
    BY <1>2, <1>4, <1>5, Zenon DEF PlanBacked, q

\* Planning a candidate.
LEMMA PlanCandidateIInv ==
  ASSUME IInv, TypeOK', NEW w \in Workers, PlanCandidate(w)
  PROVE  IInv'
  <1>1. PICK r : r = run[w]
    OBVIOUS
  <1>2. RunBacked(r) /\ RunOK(r, DOMAIN job) /\ DOMAIN r = RunFields /\ r.pc = "plan"
    BY <1>1, Zenon DEF IInv, TypeOK, RunOK, RunsBacked, PlanCandidate
  <1>3. PICK f : f = r.accepted[r.i]
    OBVIOUS
  <1>4. f \in PlanFacts(r)
    BY <1>2, <1>3 DEF RunOK, PlanFacts
  <1>5. UNCHANGED postgres /\ UNCHANGED hydra
    BY Zenon DEF PlanCandidate
  <1>6. PICK q : /\ run' = [run EXCEPT ![w] = NextCandidate(q)]
                 /\ PlanBacked(q) /\ DOMAIN q = RunFields
                 /\ q.chunk = r.chunk /\ q.accepted = r.accepted
    <2>1. CASE run' = [run EXCEPT ![w] = NextCandidate(r)]
      BY <1>2, <2>1, Zenon DEF RunBacked
    <2>2. ASSUME NEW verdict \in Verdicts(Supersedable(f, FindExisting(f))),
                 run' = [run EXCEPT ![w] = NextCandidate(PlanWith(r, f, verdict))]
          PROVE  \E q : /\ run' = [run EXCEPT ![w] = NextCandidate(q)]
                        /\ PlanBacked(q) /\ DOMAIN q = RunFields
                        /\ q.chunk = r.chunk /\ q.accepted = r.accepted
      BY <1>2, <1>4, <2>2, PlanWithBacked, ZenonT(40) DEF RunBacked
    <2>3. CASE run' = [run EXCEPT ![w] = NextCandidate(PlanWith(r, f, [g \in {} |-> "no_update"]))]
      <3>1. [g \in {} |-> "no_update"] \in Verdicts({})
        BY DEF Verdicts
      <3> QED
        BY <1>2, <1>4, <2>3, <3>1, PlanWithBacked, ZenonT(40) DEF RunBacked
    <2> QED
      BY <1>1, <1>3, <2>1, <2>2, <2>3, Zenon DEF PlanCandidate
  <1>7. PICK n : n = NextCandidate(q)
    OBVIOUS
  <1>8. /\ n.pc \in {"plan", "register"} /\ n.chunk = r.chunk /\ n.accepted = r.accepted
        /\ n.supersedes = q.supersedes /\ n.priors = q.priors
    BY <1>6, <1>7, Zenon DEF NextCandidate, RunFields
  <1>9. PlanBacked(n)
    <2>1. PlanFacts(n) = PlanFacts(q)
      BY <1>6, <1>8, Zenon DEF PlanFacts
    <2> QED
      BY <1>6, <1>8, <2>1, Zenon DEF PlanBacked
  <1>10. RunBacked(n)
    BY <1>2, <1>8, <1>9, Zenon DEF RunBacked, Extracted, Registered, ContextIn, FactsIn, Sourced, Indexed
  <1> QED
    BY <1>5, <1>6, <1>7, <1>10, QuietRun, QuietStep, Zenon

\* Merging a plan into the manifest changes no immutable property, because a
\* plan that would is refused.
LEMMA RegisterIInv ==
  ASSUME IInv, TypeOK', NEW w \in Workers, Register(w)
  PROVE  IInv'
  <1>1. PICK r : r = run[w]
    OBVIOUS
  <1>2. RunBacked(r) /\ RunOK(r, DOMAIN job) /\ DOMAIN r = RunFields /\ r.pc = "register"
    BY <1>1, Zenon DEF IInv, TypeOK, RunOK, RunsBacked, Register
  <1>3. UNCHANGED <<content, job, attempts, embeddings, searchIndex>> /\ UNCHANGED hydra
    BY Zenon DEF Register
  <1>4. FactTable(manifest)
    BY DEF IInv, TypeOK, PostgresTypeOK
  <1> DEFINE merged == MergeFacts(manifest, r)
  <1>5. CASE /\ ~PayloadConflict(r)
             /\ manifest' = MergePriors(merged, r)
             /\ manifestEdges' = manifestEdges \cup r.supersedes
             /\ Goto(w, "write_context")
    <2>1. /\ DOMAIN merged = DOMAIN manifest \cup PlanFacts(r)
          /\ \A f \in PlanFacts(r) : merged[f].created_at = r.created_at
          /\ \A f \in DOMAIN manifest : merged[f].created_at = manifest[f].created_at
      BY <1>5, Zenon DEF MergeFacts, NewFact, PayloadConflict
    <2>2. FactTable(merged)
      BY <1>2, <1>4, MergeFactsOK
    <2> HIDE DEF merged
    <2>3. /\ DOMAIN manifest' = DOMAIN merged
          /\ \A f \in DOMAIN merged : manifest'[f].created_at = merged[f].created_at
      BY <1>5, <2>2, Zenon DEF MergePriors, Close, FactTable, FactPayload
    <2>4. Grows
      BY <1>3, <1>5, <2>1, <2>3 DEF Grows, hydra
    <2>5. RunBacked(r)'
      BY <1>2, <2>4, StaysBacked
    <2>6. RunBacked([r EXCEPT !.pc = "write_context"])'
      <3>1. PICK q : q = [r EXCEPT !.pc = "write_context"]
        BY Zenon
      <3>2. /\ q.pc = "write_context" /\ q.chunk = r.chunk /\ q.accepted = r.accepted
            /\ q.priors = r.priors /\ q.supersedes = r.supersedes /\ q.created_at = r.created_at
            /\ PlanFacts(q) = PlanFacts(r)
        BY <1>2, <3>1, MovedFields, ZenonT(40)
      <3>3. \A f \in PlanFacts(r) : f \in DOMAIN manifest' /\ manifest'[f].created_at = r.created_at
        BY <2>1, <2>3
      <3>4. PlanBacked(q)'
        BY <2>5, <3>2, Zenon DEF RunBacked, PlanBacked
      <3>5. [chunk |-> r.chunk, accepted |-> r.accepted] \in attempts'
        BY <1>2, <2>5, Zenon DEF RunBacked, Extracted
      <3>6. RunBacked(q)'
        BY <1>5, <3>2, <3>3, <3>4, <3>5, Zenon
        DEF RunBacked, Extracted, Registered, ContextIn, FactsIn, Sourced, Indexed
      <3> QED
        BY <3>1, <3>6
    <2>7. RunsBacked'
      BY <1>1, <1>2, <1>5, <2>4, <2>6, GotoBacked DEF Stages
    <2>8. SupersededByNewer'
      BY <1>3 DEF IInv, SupersededByNewer, hydra
    <2>9. SupersedesIsForward' /\ GraphWasRegistered' /\ SearchableIsInGraph' /\ StageMeansDone'
      BY <1>3, <2>4, ForwardKept, RegisteredKept, SearchableKept, StageKept DEF IInv, hydra
    <2> QED
      BY <1>3, <2>7, <2>8, <2>9, Zenon DEF IInv, hydra
  <1>6. CASE Goto(w, "terminal_error") /\ UNCHANGED <<manifest, manifestEdges>>
    <2>1. UNCHANGED postgres
      BY <1>3, <1>6 DEF postgres
    <2>2. Grows
      BY <1>3, <2>1 DEF Grows, postgres, hydra
    <2>3. RunsBacked'
      BY <1>1, <1>2, <1>6, <2>2, FailBacked
    <2> QED
      BY <1>3, <2>1, <2>3, QuietStep
  <1> QED
    BY <1>1, <1>5, <1>6, Zenon DEF Register

\* Moving on to a later stage of the pipeline, outside the embedding loop, is
\* backed if what that stage adds is in the stores.
LEMMA MoveBacked ==
  ASSUME IInv, Grows, NEW w \in Workers, NEW r, r = run[w], r.pc \in Extracted,
         NEW stage \in Extracted \ {"embed", "index"}, Goto(w, stage),
         stage \in Registered => r.pc \in Registered,
         stage \in ContextIn => r.chunk \in turnNodes',
         stage \in FactsIn => PlanFacts(r) \subseteq DOMAIN factNodes',
         stage \in Sourced => PlanFacts(r) \subseteq sourceEdges',
         stage \in Indexed => PlanFacts(r) \subseteq embeddings' \cap searchIndex'
  PROVE  RunsBacked'
  <1>1. DOMAIN r = RunFields /\ RunBacked(r)
    BY Zenon DEF IInv, TypeOK, RunOK, RunsBacked
  <1>2. RunBacked(r)'
    BY <1>1, StaysBacked, Zenon
  <1>3. PICK q : q = [r EXCEPT !.pc = stage]
    BY Zenon
  <1>4. /\ q.pc = stage /\ q.chunk = r.chunk /\ q.accepted = r.accepted
        /\ q.priors = r.priors /\ q.supersedes = r.supersedes /\ q.created_at = r.created_at
        /\ PlanFacts(q) = PlanFacts(r)
    BY <1>1, <1>3, MovedFields
  <1>5. PlanBacked(q)'
    BY <1>2, <1>4, Zenon DEF RunBacked, PlanBacked
  <1>6. /\ [chunk |-> q.chunk, accepted |-> q.accepted] \in attempts'
        /\ q.pc \in Registered =>
             /\ \A f \in PlanFacts(q) : f \in DOMAIN manifest' /\ manifest'[f].created_at = q.created_at
             /\ q.supersedes \subseteq manifestEdges'
    BY <1>2, <1>4, Zenon DEF RunBacked
  <1>7. q.pc \notin {"idle", "put", "get", "extract", "embed", "index"}
    BY <1>4, Zenon DEF Extracted, Registered, ContextIn, FactsIn, Sourced, Indexed
  <1>8. RunBacked(q)'
    BY <1>4, <1>5, <1>6, <1>7, Zenon DEF RunBacked
  <1>9. stage \in Stages /\ run[w].pc # "idle"
    BY Zenon DEF Stages, Extracted, Registered, ContextIn, FactsIn, Sourced, Indexed
  <1> QED
    BY <1>3, <1>8, <1>9, GotoBacked

\* A step that only adds to the graph's other tables keeps what is said of the
\* Fact nodes, the indexes and the jobs.
LEMMA GraphStep ==
  ASSUME IInv, TypeOK', UNCHANGED postgres, UNCHANGED factNodes, Grows, RunsBacked',
         sourceEdges' \subseteq DOMAIN factNodes', SupersedesIsForward', GraphWasRegistered'
  PROVE  IInv'
  <1>1. SupersededByNewer'
    BY DEF IInv, SupersededByNewer
  <1>2. SearchableIsInGraph' /\ StageMeansDone'
    BY SearchableKept, StageKept DEF IInv, postgres
  <1> QED
    BY <1>1, <1>2 DEF IInv

\* The Session, Turn and entity nodes.
LEMMA WriteContextIInv ==
  ASSUME IInv, TypeOK', NEW w \in Workers, WriteContext(w)
  PROVE  IInv'
  <1>1. PICK r : r = run[w]
    OBVIOUS
  <1>2. RunBacked(r) /\ RunOK(r, DOMAIN job) /\ DOMAIN r = RunFields /\ r.pc = "write_context"
    BY <1>1, Zenon DEF IInv, TypeOK, RunOK, RunsBacked, WriteContext
  <1>3. /\ UNCHANGED postgres /\ UNCHANGED <<factNodes, sourceEdges, aboutEdges, supersedesEdges>>
        /\ turnNodes' = turnNodes \cup {r.chunk} /\ Goto(w, "write_facts")
    BY <1>1 DEF WriteContext
  <1>4. Grows
    BY <1>3, Zenon DEF Grows, postgres
  <1>5. RunsBacked'
    BY <1>1, <1>2, <1>3, <1>4, MoveBacked, Zenon DEF Extracted, Registered, ContextIn, FactsIn, Sourced, Indexed
  <1>6. SupersedesIsForward' /\ GraphWasRegistered' /\ sourceEdges' \subseteq DOMAIN factNodes'
    BY <1>3, <1>4, ForwardKept, RegisteredKept DEF IInv
  <1> QED
    BY <1>3, <1>4, <1>5, <1>6, GraphStep, Zenon

\* The source edges of the new facts.
LEMMA WriteSourcesIInv ==
  ASSUME IInv, TypeOK', NEW w \in Workers, WriteSources(w)
  PROVE  IInv'
  <1>1. PICK r : r = run[w]
    OBVIOUS
  <1>2. RunBacked(r) /\ RunOK(r, DOMAIN job) /\ DOMAIN r = RunFields /\ r.pc = "write_sources"
    BY <1>1, Zenon DEF IInv, TypeOK, RunOK, RunsBacked, WriteSources
  <1>3. /\ UNCHANGED postgres /\ UNCHANGED <<turnNodes, factNodes, aboutEdges, supersedesEdges>>
        /\ sourceEdges' = sourceEdges \cup
             {f \in PlanFacts(r) : f \in DOMAIN factNodes /\ r.chunk \in turnNodes}
        /\ Goto(w, "write_about")
    BY <1>1 DEF WriteSources
  <1>4. Grows
    BY <1>3 DEF Grows, postgres
  <1>5. PlanFacts(r) \subseteq DOMAIN factNodes /\ r.chunk \in turnNodes
    BY <1>2, Zenon DEF RunBacked, Extracted, Registered, ContextIn, FactsIn, Sourced, Indexed
  <1>6. RunsBacked'
    BY <1>1, <1>2, <1>3, <1>4, <1>5, MoveBacked, Zenon
    DEF Extracted, Registered, ContextIn, FactsIn, Sourced, Indexed
  <1>7. SupersedesIsForward' /\ GraphWasRegistered' /\ sourceEdges' \subseteq DOMAIN factNodes'
    BY <1>3, <1>4, <1>5, ForwardKept, RegisteredKept DEF IInv
  <1> QED
    BY <1>3, <1>4, <1>6, <1>7, GraphStep, Zenon

\* The ABOUT edges.
LEMMA WriteAboutIInv ==
  ASSUME IInv, TypeOK', NEW w \in Workers, WriteAbout(w)
  PROVE  IInv'
  <1>1. PICK r : r = run[w]
    OBVIOUS
  <1>2. RunBacked(r) /\ RunOK(r, DOMAIN job) /\ DOMAIN r = RunFields /\ r.pc = "write_about"
    BY <1>1, Zenon DEF IInv, TypeOK, RunOK, RunsBacked, WriteAbout
  <1>3. /\ UNCHANGED postgres /\ UNCHANGED <<turnNodes, factNodes, sourceEdges, supersedesEdges>>
        /\ Goto(w, "write_supersedes")
    BY DEF WriteAbout
  <1>4. Grows
    BY <1>3, Zenon DEF Grows, postgres
  <1>5. PlanFacts(r) \subseteq DOMAIN factNodes /\ PlanFacts(r) \subseteq sourceEdges /\ r.chunk \in turnNodes
    BY <1>2, Zenon DEF RunBacked, Extracted, Registered, ContextIn, FactsIn, Sourced, Indexed
  <1>6. RunsBacked'
    BY <1>1, <1>2, <1>3, <1>4, <1>5, MoveBacked
    DEF Extracted, Registered, ContextIn, FactsIn, Sourced, Indexed
  <1>7. SupersedesIsForward' /\ GraphWasRegistered' /\ sourceEdges' \subseteq DOMAIN factNodes'
    BY <1>3, <1>4, ForwardKept, RegisteredKept, Zenon DEF IInv
  <1> QED
    BY <1>3, <1>4, <1>6, <1>7, GraphStep, Zenon

\* The plan of a backed run is backed.
LEMMA PlanOfBacked ==
  ASSUME NEW r, RunBacked(r)
  PROVE  PlanBacked(r)
  BY Zenon DEF RunBacked

\* What a backed plan says of one of its SUPERSEDES edges.
LEMMA EdgeForward ==
  ASSUME NEW r, PlanBacked(r), NEW g, NEW f, <<g, f>> \in r.supersedes
  PROVE  g \in PlanFacts(r) /\ g.key = f.key /\ ObservedAt[g.chunk] > ObservedAt[f.chunk]
  <1>1. PICK p : p = <<g, f>>
    OBVIOUS
  <1>2. p[1] = g /\ p[2] = f /\ p \in r.supersedes
    BY <1>1
  <1>3. p[1] \in PlanFacts(r) /\ p[1].key = p[2].key /\ ObservedAt[p[1].chunk] > ObservedAt[p[2].chunk]
    BY <1>2, Zenon DEF PlanBacked
  <1> QED
    BY <1>2, <1>3, Zenon

\* The SUPERSEDES edges, forward because the plan's are.
LEMMA WriteSupersedesIInv ==
  ASSUME IInv, TypeOK', NEW w \in Workers, WriteSupersedes(w)
  PROVE  IInv'
  <1>1. PICK r : r = run[w]
    OBVIOUS
  <1>2. RunBacked(r) /\ RunOK(r, DOMAIN job) /\ DOMAIN r = RunFields /\ r.pc = "write_supersedes"
    BY <1>1, Zenon DEF IInv, TypeOK, RunOK, RunsBacked, WriteSupersedes
  <1>3. /\ UNCHANGED postgres /\ UNCHANGED <<turnNodes, factNodes, sourceEdges, aboutEdges>>
        /\ supersedesEdges' = supersedesEdges \cup
             {p \in r.supersedes : {p[1], p[2]} \subseteq DOMAIN factNodes}
        /\ Goto(w, "graph_written")
    BY <1>1, Zenon DEF WriteSupersedes
  <1>4. Grows
    BY <1>3, Zenon DEF Grows, postgres
  <1>5. PlanFacts(r) \subseteq DOMAIN factNodes /\ PlanFacts(r) \subseteq sourceEdges /\ r.chunk \in turnNodes
    BY <1>2, Zenon DEF RunBacked, Extracted, Registered, ContextIn, FactsIn, Sourced, Indexed
  <1>6. RunsBacked'
    BY <1>1, <1>2, <1>3, <1>4, <1>5, MoveBacked, Zenon
    DEF Extracted, Registered, ContextIn, FactsIn, Sourced, Indexed
  <1>7. SupersedesIsForward'
    <2>1. \A p \in r.supersedes : p[1].key = p[2].key /\ ObservedAt[p[1].chunk] > ObservedAt[p[2].chunk]
      BY <1>2, PlanOfBacked, Zenon DEF PlanBacked
    <2>2. SupersedesIsForward
      BY DEF IInv
    <2>3. factNodes' = factNodes
      BY <1>3
    <2> SUFFICES ASSUME NEW p \in supersedesEdges'
                 PROVE  /\ {p[1], p[2]} \subseteq DOMAIN factNodes
                        /\ p[1].key = p[2].key
                        /\ ObservedAt[p[1].chunk] > ObservedAt[p[2].chunk]
      BY <2>3, Zenon DEF SupersedesIsForward
    <2>4. CASE p \in supersedesEdges
      BY <2>2, <2>4, Zenon DEF SupersedesIsForward
    <2>5. CASE p \in r.supersedes /\ {p[1], p[2]} \subseteq DOMAIN factNodes
      BY <2>1, <2>5, Zenon
    <2> QED
      BY <1>3, <2>4, <2>5, Zenon
  <1>8. r.supersedes \subseteq manifestEdges
    BY <1>2, Zenon DEF RunBacked, Extracted, Registered, ContextIn, FactsIn, Sourced, Indexed
  <1>9. GraphWasRegistered'
    BY <1>3, <1>8 DEF IInv, GraphWasRegistered, postgres
  <1> QED
    BY <1>3, <1>4, <1>6, <1>7, <1>9, GraphStep, Zenon DEF IInv

\* What a new and a closed Fact node say.
LEMMA NewFactFields ==
  ASSUME NEW r, NEW f
  PROVE  /\ NewFact(r, f).created_at = r.created_at
         /\ NewFact(r, f).is_current /\ NewFact(r, f).superseded_at = Forever
  BY DEF NewFact

\* Closing touches none of the immutable properties.
LEMMA CloseFields ==
  ASSUME NEW payload \in FactPayload, NEW verdict
  PROVE  /\ Close(payload, verdict).created_at = payload.created_at
         /\ Close(payload, verdict).is_current = FALSE
         /\ Close(payload, verdict).superseded_at = ObservedAt[verdict.by.chunk]
  BY DEF Close, FactPayload

\* The new Fact nodes: current, open, and as registered.
LEMMA WriteFactsIInv ==
  ASSUME IInv, TypeOK', NEW w \in Workers, WriteFacts(w)
  PROVE  IInv'
  <1>1. PICK r : r = run[w]
    OBVIOUS
  <1>2. RunBacked(r) /\ RunOK(r, DOMAIN job) /\ DOMAIN r = RunFields /\ r.pc = "write_facts"
    BY <1>1, Zenon DEF IInv, TypeOK, RunOK, RunsBacked, WriteFacts
  <1>3. /\ UNCHANGED postgres /\ UNCHANGED <<turnNodes, sourceEdges, aboutEdges, supersedesEdges>>
        /\ factNodes' = MergeFacts(factNodes, r) /\ Goto(w, "write_priors")
    BY <1>1 DEF WriteFacts
  <1>4. DOMAIN factNodes' = DOMAIN factNodes \cup PlanFacts(r)
    BY <1>3 DEF MergeFacts
  <1>5. \A f \in PlanFacts(r) : factNodes'[f] = NewFact(r, f)
    BY <1>3 DEF MergeFacts
  <1>6. \A f \in DOMAIN factNodes : f \notin PlanFacts(r) => factNodes'[f] = factNodes[f]
    BY <1>3 DEF MergeFacts
  <1>7. Grows
    BY <1>3, <1>4, Zenon DEF Grows, postgres
  <1>8. r.chunk \in turnNodes
    BY <1>2, Zenon DEF RunBacked, Extracted, Registered, ContextIn, FactsIn, Sourced, Indexed
  <1>9. RunsBacked'
    BY <1>1, <1>2, <1>3, <1>4, <1>7, <1>8, MoveBacked, Zenon
    DEF Extracted, Registered, ContextIn, FactsIn, Sourced, Indexed
  <1>10. SupersededByNewer'
    <2> SUFFICES ASSUME NEW f \in DOMAIN factNodes'
                 PROVE  IF factNodes'[f].is_current
                        THEN factNodes'[f].superseded_at = Forever
                        ELSE \E g \in DOMAIN factNodes' :
                               /\ g.key = f.key
                               /\ ObservedAt[g.chunk] > ObservedAt[f.chunk]
                               /\ factNodes'[f].superseded_at = ObservedAt[g.chunk]
      BY DEF SupersededByNewer
    <2>1. CASE f \in PlanFacts(r)
      BY <1>5, <2>1, NewFactFields
    <2>2. CASE f \notin PlanFacts(r)
      BY <1>4, <1>6, <2>2 DEF IInv, SupersededByNewer
    <2> QED
      BY <2>1, <2>2
  <1>11. GraphWasRegistered'
    <2>1. \A f \in PlanFacts(r) : f \in DOMAIN manifest /\ manifest[f].created_at = r.created_at
      BY <1>2, Zenon DEF RunBacked, Extracted, Registered, ContextIn, FactsIn, Sourced, Indexed
    <2>2. manifest' = manifest /\ manifestEdges' = manifestEdges
      BY <1>3 DEF postgres
    <2>3. \A f \in PlanFacts(r) : factNodes'[f].created_at = manifest[f].created_at
      BY <1>5, <2>1, NewFactFields
    <2>4. \A f \in DOMAIN factNodes' : factNodes'[f].created_at = manifest[f].created_at
      BY <1>4, <1>6, <2>3 DEF IInv, GraphWasRegistered
    <2> QED
      BY <1>3, <1>4, <2>1, <2>2, <2>4, Zenon DEF IInv, GraphWasRegistered
  <1>12. SupersedesIsForward' /\ SearchableIsInGraph' /\ StageMeansDone'
    BY <1>3, <1>7, ForwardKept, SearchableKept, StageKept DEF IInv, postgres
  <1> QED
    BY <1>3, <1>4, <1>9, <1>10, <1>11, <1>12, Zenon DEF IInv

\* The superseded facts are closed at the time of the newer fact that closes them.
LEMMA WritePriorsIInv ==
  ASSUME IInv, TypeOK', NEW w \in Workers, WritePriors(w)
  PROVE  IInv'
  <1>1. PICK r : r = run[w]
    OBVIOUS
  <1>2. RunBacked(r) /\ RunOK(r, DOMAIN job) /\ DOMAIN r = RunFields /\ r.pc = "write_priors"
    BY <1>1, Zenon DEF IInv, TypeOK, RunOK, RunsBacked, WritePriors
  <1>3. /\ UNCHANGED postgres /\ UNCHANGED <<turnNodes, sourceEdges, aboutEdges, supersedesEdges>>
        /\ factNodes' = MergePriors(factNodes, r) /\ Goto(w, "write_sources")
    BY <1>1 DEF WritePriors
  <1>4. DOMAIN factNodes' = DOMAIN factNodes
    BY <1>3, Zenon DEF MergePriors
  <1>5. \A f \in DOMAIN factNodes : f \in DOMAIN r.priors => factNodes'[f] = Close(factNodes[f], r.priors[f])
    BY <1>3, Zenon DEF MergePriors
  <1>6. \A f \in DOMAIN factNodes : f \notin DOMAIN r.priors => factNodes'[f] = factNodes[f]
    BY <1>3, Zenon DEF MergePriors
  <1>7. Grows
    BY <1>3, <1>4, Zenon DEF Grows, postgres
  <1>8. r.chunk \in turnNodes /\ PlanFacts(r) \subseteq DOMAIN factNodes
    <2>1. r.pc \in ContextIn /\ r.pc \in FactsIn
      BY <1>2, Zenon DEF ContextIn, FactsIn
    <2> QED
      BY <1>2, <2>1, Zenon DEF RunBacked
  <1>9. RunsBacked'
    BY <1>1, <1>2, <1>3, <1>4, <1>7, <1>8, MoveBacked, Zenon
    DEF Extracted, Registered, ContextIn, FactsIn, Sourced, Indexed
  <1>10. \A f \in DOMAIN factNodes : f \in DOMAIN r.priors =>
           /\ factNodes'[f].is_current = FALSE
           /\ factNodes'[f].superseded_at = ObservedAt[r.priors[f].by.chunk]
           /\ factNodes'[f].created_at = factNodes[f].created_at
    <2>1. \A f \in DOMAIN factNodes : factNodes[f] \in FactPayload
      BY Zenon DEF IInv, TypeOK, HydraTypeOK, FactTable
    <2> QED
      <3> TAKE f \in DOMAIN factNodes
      <3> HAVE f \in DOMAIN r.priors
      <3>2. factNodes'[f] = Close(factNodes[f], r.priors[f])
        BY <1>5
      <3>3. /\ Close(factNodes[f], r.priors[f]).created_at = factNodes[f].created_at
            /\ Close(factNodes[f], r.priors[f]).is_current = FALSE
            /\ Close(factNodes[f], r.priors[f]).superseded_at = ObservedAt[r.priors[f].by.chunk]
        <4>1. PICK p, v : p = factNodes[f] /\ v = r.priors[f]
          OBVIOUS
        <4>2. p \in FactPayload
          BY <2>1, <4>1
        <4>3. /\ Close(p, v).created_at = p.created_at
              /\ Close(p, v).is_current = FALSE
              /\ Close(p, v).superseded_at = ObservedAt[v.by.chunk]
          BY <4>2, CloseFields, Zenon
        <4> QED
          BY <4>1, <4>3
      <3> QED
        BY <3>2, <3>3, Zenon
  <1>11. SupersededByNewer'
    <2> SUFFICES ASSUME NEW f \in DOMAIN factNodes
                 PROVE  IF factNodes'[f].is_current
                        THEN factNodes'[f].superseded_at = Forever
                        ELSE \E g \in DOMAIN factNodes :
                               /\ g.key = f.key
                               /\ ObservedAt[g.chunk] > ObservedAt[f.chunk]
                               /\ factNodes'[f].superseded_at = ObservedAt[g.chunk]
      BY <1>4 DEF SupersededByNewer
    <2>1. CASE f \in DOMAIN r.priors
      <3>1. PICK g : g = r.priors[f].by
        BY Zenon
      <3>2. <<g, f>> \in r.supersedes
        BY <1>2, <2>1, <3>1, PlanOfBacked, Zenon DEF PlanBacked
      <3>3. g \in PlanFacts(r) /\ g.key = f.key /\ ObservedAt[g.chunk] > ObservedAt[f.chunk]
        BY <1>2, <3>2, PlanOfBacked, EdgeForward, Zenon
      <3> QED
        BY <1>8, <1>10, <2>1, <3>1, <3>3
    <2>2. CASE f \notin DOMAIN r.priors
      BY <1>6, <2>2, Zenon DEF IInv, SupersededByNewer
    <2> QED
      BY <2>1, <2>2, Zenon
  <1>12. GraphWasRegistered'
    <2>1. \A f \in DOMAIN factNodes : factNodes'[f].created_at = factNodes[f].created_at
      BY <1>6, <1>10, Zenon
    <2> QED
      BY <1>3, <1>4, <2>1, Zenon DEF IInv, GraphWasRegistered, postgres
  <1>13. SupersedesIsForward' /\ SearchableIsInGraph' /\ StageMeansDone'
    BY <1>3, <1>7, ForwardKept, SearchableKept, StageKept DEF IInv, postgres
  <1> QED
    BY <1>3, <1>4, <1>9, <1>11, <1>12, <1>13, Zenon DEF IInv

-----------------------------------------------------------------------------
(* The job's transitions *)

\* A worker past a stage has a recorded attempt of its chunk that is wholly in
\* the stores the stage claims.
LEMMA RunDone ==
  ASSUME NEW r, RunBacked(r)
  PROVE  /\ r.pc \in Sourced => GraphDone(r.chunk)
         /\ r.pc \in Indexed => IndexDone(r.chunk)
  <1>1. PICK a : a = [chunk |-> r.chunk, accepted |-> r.accepted]
    BY Zenon
  <1>2. a.chunk = r.chunk /\ a.accepted = r.accepted
    BY <1>1
  <1>3. \A n \in DOMAIN a.accepted : a.accepted[n] \in PlanFacts(r)
    BY <1>2 DEF PlanFacts
  <1>4. CASE r.pc \in Sourced
    <2>1. a \in attempts /\ r.chunk \in turnNodes /\ PlanFacts(r) \subseteq sourceEdges
      BY <1>1, <1>4, Zenon DEF RunBacked, Extracted, Registered, ContextIn, FactsIn
    <2>2. r.pc \in Indexed => PlanFacts(r) \subseteq embeddings \cap searchIndex
      BY Zenon DEF RunBacked
    <2> QED
      BY <1>2, <1>3, <2>1, <2>2, Zenon DEF GraphDone, IndexDone
  <1> QED
    BY <1>4 DEF Sourced

\* A step that changes only job rows and workers.
LEMMA JobStep ==
  ASSUME IInv, TypeOK', UNCHANGED hydra,
         UNCHANGED <<attempts, manifest, manifestEdges, embeddings, searchIndex>>,
         RunsBacked', StageMeansDone'
  PROVE  IInv'
  <1>1. Grows
    BY Zenon DEF Grows, hydra
  <1>2. SupersededByNewer'
    BY Zenon DEF IInv, SupersededByNewer, hydra
  <1>3. SupersedesIsForward' /\ GraphWasRegistered' /\ SearchableIsInGraph'
    BY <1>1, ForwardKept, RegisteredKept, SearchableKept DEF IInv, hydra
  <1> QED
    BY <1>2, <1>3 DEF IInv, hydra

\* A legal transition of the run's own job is backed if the new state claims no
\* more than the run has done.
LEMMA AdvanceBacked ==
  ASSUME IInv, Grows, NEW c \in DOMAIN job, NEW new \in IngestionJobState, NEW error \in BOOLEAN,
         IsLegalJobTransition(job[c].state, new, job[c].last_verified_state),
         job' = [job EXCEPT ![c] = TransitionRow(job[c], new, error)],
         new \in ForwardStates \cup FailureStates,
         new \in ForwardStates /\ ForwardIndex[new] >= 1 => GraphDone(c),
         new \in ForwardStates /\ ForwardIndex[new] >= 2 => IndexDone(c)
  PROVE  StageMeansDone'
  <1>1. PICK row : row = TransitionRow(job[c], new, error)
    OBVIOUS
  <1>2. job[c] \in IngestionJob
    BY DEF IInv, TypeOK, PostgresTypeOK
  <1>3. /\ new \in ForwardStates => Progress(row) = ForwardIndex[new]
        /\ new \in FailureStates => Progress(row) = Progress(job[c])
    BY <1>1, <1>2, TransitionProgress
  <1>4. (Progress(row) >= 1 => GraphDone(c)) /\ (Progress(row) >= 2 => IndexDone(c))
    BY <1>3 DEF IInv, StageMeansDone
  <1>5. (Progress(row) >= 1 => GraphDone(c)') /\ (Progress(row) >= 2 => IndexDone(c)')
    BY <1>4, DoneKept
  <1> QED
    BY <1>1, <1>5, StageMoved, Zenon DEF IInv

\* The graph holds the whole attempt when the job leaves pending_graph.
LEMMA GraphWrittenIInv ==
  ASSUME IInv, TypeOK', NEW w \in Workers, GraphWritten(w)
  PROVE  IInv'
  <1>1. PICK r : r = run[w]
    OBVIOUS
  <1>2. RunBacked(r) /\ RunOK(r, DOMAIN job) /\ DOMAIN r = RunFields /\ r.pc = "graph_written"
    BY <1>1, Zenon DEF IInv, TypeOK, RunOK, RunsBacked, GraphWritten
  <1>3. /\ UNCHANGED hydra /\ UNCHANGED <<attempts, manifest, manifestEdges, embeddings, searchIndex>>
        /\ r.chunk \in DOMAIN job
    BY <1>2 DEF GraphWritten, RunOK
  <1>4. Grows
    BY <1>3 DEF Grows, hydra
  <1>5. CASE UNCHANGED job /\ Goto(w, "retryable_error")
    <2>1. RunsBacked'
      BY <1>1, <1>2, <1>4, <1>5, FailBacked
    <2> QED
      BY <1>3, <1>4, <1>5, <2>1, StageKept, JobStep DEF IInv
  <1>6. CASE /\ IsLegalJobTransition(job[r.chunk].state, "pending_embeddings", job[r.chunk].last_verified_state)
             /\ job' = [job EXCEPT ![r.chunk] = TransitionRow(job[r.chunk], "pending_embeddings", FALSE)]
             /\ run' = [run EXCEPT ![w].pc = IF run[w].accepted = <<>> THEN "embedded" ELSE "embed",
                                   ![w].i = 1]
    <2>1. GraphDone(r.chunk)
      BY <1>2, RunDone DEF Extracted, Registered, ContextIn, FactsIn, Sourced, Indexed
    <2>2. StageMeansDone'
      <3>1. ~(ForwardIndex["pending_embeddings"] >= 2)
        BY DEF ForwardIndex, ForwardStates, NonTerminalStates
      <3>2. "pending_embeddings" \in ForwardStates /\ "pending_embeddings" \in IngestionJobState
        BY DEF IngestionJobState, ForwardStates, NonTerminalStates
      <3> QED
        BY <1>3, <1>4, <1>6, <2>1, <3>1, <3>2, AdvanceBacked, Zenon
    <2>3. PICK q : q = [r EXCEPT !.pc = IF r.accepted = <<>> THEN "embedded" ELSE "embed", !.i = 1]
      OBVIOUS
    <2>4. run' = [run EXCEPT ![w] = q]
      BY <1>1, <1>6, <2>3, Zenon DEF IInv, TypeOK
    <2>5. /\ q.pc = IF r.accepted = <<>> THEN "embedded" ELSE "embed"
          /\ q.chunk = r.chunk /\ q.accepted = r.accepted /\ q.i = 1 /\ q.created_at = r.created_at
          /\ q.priors = r.priors /\ q.supersedes = r.supersedes /\ PlanFacts(q) = PlanFacts(r)
      BY <1>2, <2>3 DEF RunFields, PlanFacts
    <2>6. RunBacked(r)'
      BY <1>2, <1>4, StaysBacked, Zenon
    <2>7. PlanBacked(q)'
      BY <2>5, <2>6, Zenon DEF RunBacked, PlanBacked
    <2>8. r.accepted = <<>> => PlanFacts(r) = {}
      BY DEF PlanFacts
    <2>9. q.pc \in {"embedded", "embed"} /\ (q.pc = "embedded" => PlanFacts(q) = {})
      BY <2>5, <2>8, Zenon
    <2>10. /\ [chunk |-> q.chunk, accepted |-> q.accepted] \in attempts'
           /\ \A f \in PlanFacts(q) : f \in DOMAIN manifest' /\ manifest'[f].created_at = q.created_at
           /\ q.supersedes \subseteq manifestEdges'
           /\ q.chunk \in turnNodes'
           /\ PlanFacts(q) \subseteq DOMAIN factNodes' /\ PlanFacts(q) \subseteq sourceEdges'
      BY <1>2, <2>5, <2>6, Zenon
      DEF RunBacked, Extracted, Registered, ContextIn, FactsIn, Sourced, Indexed
    <2>11. \A n \in 1..(q.i - 1) : q.accepted[n] \in embeddings' \cap searchIndex'
      BY <2>5
    <2>12. RunBacked(q)'
      BY <2>7, <2>9, <2>10, <2>11, Zenon DEF RunBacked, Indexed
    <2> QED
      BY <1>3, <1>4, <2>2, <2>4, <2>12, OneBackedChanges, JobStep, Zenon DEF IInv
  <1> QED
    BY <1>1, <1>5, <1>6, Zenon DEF GraphWritten, Advance

\* Every fact of the attempt can be searched when the job enters verifying.
LEMMA EmbeddedIInv ==
  ASSUME IInv, TypeOK', NEW w \in Workers, Embedded(w)
  PROVE  IInv'
  <1>1. PICK r : r = run[w]
    OBVIOUS
  <1>2. RunBacked(r) /\ RunOK(r, DOMAIN job) /\ DOMAIN r = RunFields /\ r.pc = "embedded"
    BY <1>1, Zenon DEF IInv, TypeOK, RunOK, RunsBacked, Embedded
  <1>3. /\ UNCHANGED hydra /\ UNCHANGED <<attempts, manifest, manifestEdges, embeddings, searchIndex>>
        /\ r.chunk \in DOMAIN job
    BY <1>2, Zenon DEF Embedded, RunOK
  <1>4. Grows
    BY <1>3 DEF Grows, hydra
  <1>5. CASE UNCHANGED job /\ Goto(w, "retryable_error")
    <2>1. RunsBacked'
      BY <1>1, <1>2, <1>4, <1>5, FailBacked
    <2> QED
      BY <1>3, <1>4, <1>5, <2>1, StageKept, JobStep, Zenon DEF IInv
  <1>6. CASE /\ IsLegalJobTransition(job[r.chunk].state, "verifying", job[r.chunk].last_verified_state)
             /\ job' = [job EXCEPT ![r.chunk] = TransitionRow(job[r.chunk], "verifying", FALSE)]
             /\ Goto(w, "verify")
    <2>1. GraphDone(r.chunk) /\ IndexDone(r.chunk)
      BY <1>2, RunDone DEF Extracted, Registered, ContextIn, FactsIn, Sourced, Indexed
    <2>2. StageMeansDone'
      BY <1>3, <1>4, <1>6, <2>1, AdvanceBacked, Zenon
         DEF IngestionJobState, ForwardStates, NonTerminalStates, ForwardIndex
    <2>3. /\ r.chunk \in turnNodes' /\ PlanFacts(r) \subseteq DOMAIN factNodes'
          /\ PlanFacts(r) \subseteq sourceEdges' /\ PlanFacts(r) \subseteq embeddings' \cap searchIndex'
      BY <1>2, <1>3, Zenon
      DEF RunBacked, hydra, Extracted, Registered, ContextIn, FactsIn, Sourced, Indexed
    <2>4. RunsBacked'
      BY <1>1, <1>2, <1>4, <1>6, <2>3, MoveBacked, Zenon
      DEF Extracted, Registered, ContextIn, FactsIn, Sourced, Indexed
    <2> QED
      BY <1>3, <2>2, <2>4, JobStep
  <1> QED
    BY <1>1, <1>5, <1>6, Zenon DEF Embedded, Advance

\* A completed job's attempt can be searched.
LEMMA CompleteIInv ==
  ASSUME IInv, TypeOK', NEW w \in Workers, Complete(w)
  PROVE  IInv'
  <1>1. PICK r : r = run[w]
    OBVIOUS
  <1>2. RunBacked(r) /\ RunOK(r, DOMAIN job) /\ DOMAIN r = RunFields /\ r.pc = "verified"
    BY <1>1, Zenon DEF IInv, TypeOK, RunOK, RunsBacked, Complete
  <1>3. /\ UNCHANGED hydra /\ UNCHANGED <<attempts, manifest, manifestEdges, embeddings, searchIndex>>
        /\ r.chunk \in DOMAIN job
    BY <1>2, Zenon DEF Complete, RunOK
  <1>4. Grows
    BY <1>3 DEF Grows, hydra
  <1>5. CASE UNCHANGED job /\ Goto(w, "retryable_error")
    <2>1. RunsBacked'
      BY <1>1, <1>2, <1>4, <1>5, FailBacked
    <2> QED
      BY <1>3, <1>4, <1>5, <2>1, StageKept, JobStep DEF IInv
  <1>6. CASE /\ IsLegalJobTransition(job[r.chunk].state, "completed", job[r.chunk].last_verified_state)
             /\ job' = [job EXCEPT ![r.chunk] = TransitionRow(job[r.chunk], "completed", FALSE)]
             /\ Return(w)
    <2>1. GraphDone(r.chunk) /\ IndexDone(r.chunk)
      BY <1>2, RunDone DEF Extracted, Registered, ContextIn, FactsIn, Sourced, Indexed
    <2>2. StageMeansDone'
      BY <1>3, <1>4, <1>6, <2>1, AdvanceBacked, Zenon DEF IngestionJobState, ForwardStates
    <2> QED
      BY <1>3, <1>4, <1>6, <2>2, ReturnBacked, JobStep
  <1> QED
    BY <1>1, <1>5, <1>6, Zenon DEF Complete, Advance

-----------------------------------------------------------------------------
(* Embeddings and the search index *)

\* Filling the indexes with facts that have their source edges.
LEMMA IndexStep ==
  ASSUME IInv, TypeOK', UNCHANGED hydra, UNCHANGED <<job, attempts, manifest, manifestEdges>>, Grows,
         embeddings' \subseteq embeddings \cup sourceEdges,
         searchIndex' \subseteq searchIndex \cup sourceEdges, RunsBacked'
  PROVE  IInv'
  <1>1. SupersededByNewer'
    BY DEF IInv, SupersededByNewer, hydra
  <1>2. SupersedesIsForward' /\ GraphWasRegistered' /\ StageMeansDone'
    BY ForwardKept, RegisteredKept, StageKept DEF IInv, hydra
  <1>3. SearchableIsInGraph'
    BY DEF IInv, SearchableIsInGraph, hydra
  <1> QED
    BY <1>1, <1>2, <1>3 DEF IInv, hydra

\* The embedding of the candidate the loop is at.
LEMMA PutEmbeddingIInv ==
  ASSUME IInv, TypeOK', NEW w \in Workers, PutEmbedding(w)
  PROVE  IInv'
  <1>1. PICK r : r = run[w]
    OBVIOUS
  <1>2. RunBacked(r) /\ RunOK(r, DOMAIN job) /\ DOMAIN r = RunFields /\ r.pc = "embed"
    BY <1>1, Zenon DEF IInv, TypeOK, RunOK, RunsBacked, PutEmbedding
  <1>3. /\ UNCHANGED hydra /\ UNCHANGED <<job, attempts, manifest, manifestEdges, searchIndex>>
        /\ embeddings' = embeddings \cup {r.accepted[r.i]} /\ Goto(w, "index")
    BY <1>1 DEF PutEmbedding
  <1>4. Grows
    BY <1>3, Zenon DEF Grows, hydra
  <1>5. r.accepted[r.i] \in PlanFacts(r) /\ PlanFacts(r) \subseteq sourceEdges
    BY <1>2, Zenon
    DEF RunOK, RunBacked, PlanFacts, Extracted, Registered, ContextIn, FactsIn, Sourced, Indexed
  <1>6. RunBacked(r)'
    BY <1>2, <1>4, StaysBacked
  <1>7. PICK q : q = [r EXCEPT !.pc = "index"]
    BY Zenon
  <1>8. /\ q.pc = "index" /\ q.chunk = r.chunk /\ q.accepted = r.accepted /\ q.i = r.i
        /\ q.priors = r.priors /\ q.supersedes = r.supersedes /\ q.created_at = r.created_at
        /\ PlanFacts(q) = PlanFacts(r)
    BY <1>2, <1>7, MovedFields, Zenon
  <1>9. PlanBacked(q)'
    BY <1>6, <1>8, Zenon DEF RunBacked, PlanBacked
  <1>10. /\ [chunk |-> q.chunk, accepted |-> q.accepted] \in attempts'
         /\ \A f \in PlanFacts(q) : f \in DOMAIN manifest' /\ manifest'[f].created_at = q.created_at
         /\ q.supersedes \subseteq manifestEdges'
         /\ q.chunk \in turnNodes'
         /\ PlanFacts(q) \subseteq DOMAIN factNodes' /\ PlanFacts(q) \subseteq sourceEdges'
         /\ \A n \in 1..(q.i - 1) : q.accepted[n] \in embeddings' \cap searchIndex'
    BY <1>2, <1>6, <1>8, Zenon DEF RunBacked, Extracted, Registered, ContextIn, FactsIn, Sourced, Indexed
  <1>11. RunBacked(q)'
    BY <1>3, <1>8, <1>9, <1>10, Zenon DEF RunBacked, Indexed
  <1>12. RunsBacked'
    BY <1>1, <1>2, <1>3, <1>4, <1>7, <1>11, GotoBacked DEF Stages, Pipeline
  <1> QED
    BY <1>3, <1>4, <1>5, <1>12, IndexStep, Zenon

\* The search index entry, and on to the next candidate or out of the loop.
LEMMA PutSearchIndexIInv ==
  ASSUME IInv, TypeOK', NEW w \in Workers, PutSearchIndex(w)
  PROVE  IInv'
  <1>1. PICK r : r = run[w]
    OBVIOUS
  <1>2. RunBacked(r) /\ RunOK(r, DOMAIN job) /\ DOMAIN r = RunFields /\ r.pc = "index"
    BY <1>1, Zenon DEF IInv, TypeOK, RunOK, RunsBacked, PutSearchIndex
  <1>3. /\ UNCHANGED hydra /\ UNCHANGED <<job, attempts, manifest, manifestEdges, embeddings>>
        /\ searchIndex' = searchIndex \cup {r.accepted[r.i]}
        /\ run' = [run EXCEPT ![w].i = IF r.i = Len(r.accepted) THEN 1 ELSE r.i + 1,
                              ![w].pc = IF r.i = Len(r.accepted) THEN "embedded" ELSE "embed"]
    BY <1>1 DEF PutSearchIndex
  <1>4. Grows
    BY <1>3 DEF Grows, hydra
  <1>5. r.accepted[r.i] \in PlanFacts(r) /\ PlanFacts(r) \subseteq sourceEdges
    BY <1>2, Zenon
    DEF RunOK, RunBacked, PlanFacts, Extracted, Registered, ContextIn, FactsIn, Sourced, Indexed
  <1>6. RunBacked(r)'
    BY <1>2, <1>4, StaysBacked
  <1>7. PICK q : q = [r EXCEPT !.i = IF r.i = Len(r.accepted) THEN 1 ELSE r.i + 1,
                               !.pc = IF r.i = Len(r.accepted) THEN "embedded" ELSE "embed"]
    OBVIOUS
  <1>8. /\ q.chunk = r.chunk /\ q.accepted = r.accepted /\ q.created_at = r.created_at
        /\ q.priors = r.priors /\ q.supersedes = r.supersedes /\ PlanFacts(q) = PlanFacts(r)
        /\ q.i = (IF r.i = Len(r.accepted) THEN 1 ELSE r.i + 1)
        /\ q.pc = IF r.i = Len(r.accepted) THEN "embedded" ELSE "embed"
    BY <1>2, <1>7 DEF RunFields, PlanFacts
  <1>9. run' = [run EXCEPT ![w] = q]
    BY <1>1, <1>3, <1>7, Zenon DEF IInv, TypeOK
  <1>10. PlanBacked(q)'
    BY <1>6, <1>8, Zenon DEF RunBacked, PlanBacked
  <1>11. /\ [chunk |-> q.chunk, accepted |-> q.accepted] \in attempts'
         /\ \A f \in PlanFacts(q) : f \in DOMAIN manifest' /\ manifest'[f].created_at = q.created_at
         /\ q.supersedes \subseteq manifestEdges'
         /\ q.chunk \in turnNodes'
         /\ PlanFacts(q) \subseteq DOMAIN factNodes' /\ PlanFacts(q) \subseteq sourceEdges'
    BY <1>2, <1>6, <1>8, Zenon DEF RunBacked, Extracted, Registered, ContextIn, FactsIn, Sourced, Indexed
  <1>12. \A n \in 1..r.i : r.accepted[n] \in embeddings' \cap searchIndex'
    <2>1. \A n \in 1..(r.i - 1) : r.accepted[n] \in embeddings' \cap searchIndex'
      BY <1>2, <1>6, Zenon DEF RunBacked
    <2>2. r.accepted[r.i] \in embeddings' \cap searchIndex'
      BY <1>2, <1>3, <1>6 DEF RunBacked
    <2>3. r.i \in Nat
      BY <1>2 DEF RunOK
    <2>4. \A n \in 1..r.i : n \in 1..(r.i - 1) \/ n = r.i
      BY <2>3
    <2> QED
      BY <2>1, <2>2, <2>4
  <1>13. r.i \in Nat /\ r.accepted \in Seq(Fact)
    BY <1>2 DEF RunOK
  <1>14. CASE r.i = Len(r.accepted)
    <2>1. q.pc = "embedded"
      BY <1>8, <1>14
    <2>2. PlanFacts(q) \subseteq embeddings' \cap searchIndex'
      BY <1>8, <1>12, <1>13, <1>14 DEF PlanFacts
    <2>3. RunBacked(q)'
      BY <1>10, <1>11, <2>1, <2>2, Zenon DEF RunBacked
    <2>4. RunsBacked'
      BY <1>4, <1>9, <2>3, OneBackedChanges, Zenon DEF IInv
    <2> QED
      BY <1>3, <1>4, <1>5, <2>4, IndexStep
  <1>15. CASE r.i # Len(r.accepted)
    <2>1. q.pc = "embed"
      BY <1>8, <1>15
    <2>2. \A n \in 1..(q.i - 1) : q.accepted[n] \in embeddings' \cap searchIndex'
      BY <1>8, <1>12, <1>13, <1>15
    <2>3. RunBacked(q)'
      BY <1>10, <1>11, <2>1, <2>2, Zenon DEF RunBacked, Indexed
    <2>4. RunsBacked'
      BY <1>4, <1>9, <2>3, OneBackedChanges, Zenon DEF IInv
    <2> QED
      BY <1>3, <1>4, <1>5, <2>4, IndexStep
  <1> QED
    BY <1>14, <1>15, Zenon

-----------------------------------------------------------------------------
(* Verification, failures, the clock *)

\* Reading the chunk back changes no store.
LEMMA VerifyIInv ==
  ASSUME IInv, TypeOK', NEW w \in Workers, Verify(w)
  PROVE  IInv'
  <1>1. PICK r : r = run[w]
    OBVIOUS
  <1>2. RunBacked(r) /\ r.pc = "verify" /\ UNCHANGED postgres /\ UNCHANGED hydra
    BY <1>1, Zenon DEF IInv, RunsBacked, Verify
  <1>3. Grows
    BY <1>2 DEF Grows, postgres, hydra
  <1>4. CASE Goto(w, "retryable_error")
    BY <1>1, <1>2, <1>3, <1>4, FailBacked, QuietStep
  <1>5. CASE Goto(w, "verified")
    <2>1. /\ r.chunk \in turnNodes' /\ PlanFacts(r) \subseteq DOMAIN factNodes'
          /\ PlanFacts(r) \subseteq sourceEdges' /\ PlanFacts(r) \subseteq embeddings' \cap searchIndex'
      BY <1>2, Zenon
      DEF RunBacked, postgres, hydra, Extracted, Registered, ContextIn, FactsIn, Sourced, Indexed
    <2>2. RunsBacked'
      BY <1>1, <1>2, <1>3, <1>5, <2>1, MoveBacked, Zenon
      DEF Extracted, Registered, ContextIn, FactsIn, Sourced, Indexed
    <2> QED
      BY <1>2, <2>2, QuietStep, Zenon
  <1> QED
    BY <1>4, <1>5 DEF Verify

\* A recorded failure keeps the progress of the job.
LEMMA HandleIInv ==
  ASSUME IInv, TypeOK', NEW w \in Workers, Handle(w)
  PROVE  IInv'
  <1>1. PICK c, new : /\ c = run[w].chunk
                      /\ new = IF run[w].pc = "terminal_error" THEN "terminal_failed" ELSE "retryable_failed"
    OBVIOUS
  <1>2. /\ UNCHANGED hydra /\ UNCHANGED <<attempts, manifest, manifestEdges, embeddings, searchIndex>>
        /\ Return(w)
    BY Zenon DEF Handle
  <1>3. Grows
    BY <1>2 DEF Grows, hydra
  <1>4. RunsBacked'
    BY <1>2, <1>3, ReturnBacked
  <1>5. c \in DOMAIN job
    BY <1>1, Zenon DEF Handle, IInv, TypeOK, RunOK
  <1>6. /\ new \in IngestionJobState /\ new \in FailureStates
        /\ new \notin ForwardStates
    BY <1>1 DEF IngestionJobState, FailureStates, ForwardStates, NonTerminalStates
  <1>7. StageMeansDone'
    <2>1. CASE UNCHANGED job
      BY <1>3, <2>1, StageKept DEF IInv
    <2>2. CASE /\ IsLegalJobTransition(job[c].state, new, job[c].last_verified_state)
               /\ job' = [job EXCEPT ![c] = TransitionRow(job[c], new, TRUE)]
      BY <1>3, <1>5, <1>6, <2>2, AdvanceBacked, Zenon
    <2> QED
      BY <1>1, <2>1, <2>2, Zenon DEF Handle
  <1> QED
    BY <1>2, <1>4, <1>7, JobStep

\* A fault changes no store.
LEMMA FaultIInv ==
  ASSUME IInv, TypeOK', NEW w \in Workers, Raise(w) \/ Crash(w)
  PROVE  IInv'
  <1>1. UNCHANGED postgres /\ UNCHANGED hydra
    BY DEF Raise, Crash
  <1>2. Grows
    BY <1>1 DEF Grows, postgres, hydra
  <1>3. RunsBacked'
    BY <1>2, ReturnBacked, FailBacked DEF Raise, Crash, Pipeline
  <1> QED
    BY <1>1, <1>3, QuietStep

\* Neither does the clock, nor a stuttering step.
LEMMA StutterIInv ==
  ASSUME IInv, TypeOK', UNCHANGED postgres, UNCHANGED hydra, UNCHANGED run
  PROVE  IInv'
  <1>1. Grows
    BY DEF Grows, postgres, hydra
  <1>2. RunsBacked'
    <2> SUFFICES ASSUME NEW u \in Workers PROVE RunBacked(run[u])'
      BY DEF RunsBacked
    <2>1. PICK q : q = run[u]
      OBVIOUS
    <2>2. RunBacked(q)'
      BY <1>1, <2>1, StaysBacked DEF IInv, RunsBacked
    <2>3. run'[u] = q
      BY <2>1
    <2> QED
      BY <2>2, <2>3, BackedAt
  <1> QED
    BY <1>2, QuietStep

-----------------------------------------------------------------------------
(* The invariants *)

\* Nothing is stored and no one is running.
LEMMA InitIInv == Init => IInv
  <1> SUFFICES ASSUME Init PROVE IInv
    OBVIOUS
  <1>1. TypeOK
    BY InitTypeOK
  <1>2. \A w \in Workers : run[w] = Idle
    BY DEF Init
  <1>3. RunsBacked
    <2> SUFFICES ASSUME NEW w \in Workers PROVE RunBacked(run[w])
      BY DEF RunsBacked
    <2>1. PICK r : r = Idle
      OBVIOUS
    <2>2. run[w] = r
      BY <1>2, <2>1
    <2> QED
      BY <2>1, <2>2, IdleBacked
  <1> QED
    BY <1>1, <1>3, Zenon DEF Init, IInv, SupersededByNewer, SupersedesIsForward, GraphWasRegistered,
                      SearchableIsInGraph, StageMeansDone

\* Every step keeps the invariant.
LEMMA NextIInv == IInv /\ [Next]_vars => IInv'
  <1> SUFFICES ASSUME IInv, [Next]_vars PROVE IInv'
    OBVIOUS
  <1>1. TypeOK'
    BY NextTypeOK DEF IInv
  <1>2. CASE UNCHANGED vars
    BY <1>1, <1>2, StutterIInv DEF vars
  <1>3. ASSUME NEW w \in Workers, NEW c \in Chunks, NEW v \in Versions, RunRecord(w, c, v)
        PROVE  IInv'
    BY <1>1, <1>3, RunRecordIInv
  <1>4. ASSUME NEW w \in Workers, Step(w)
        PROVE  IInv'
    <2>1. CASE PutChunk(w) \/ GetJob(w)
      BY <1>1, <2>1, PutChunkIInv, GetJobIInv
    <2>2. ASSUME NEW keys \in UNION {Drafts[c] : c \in Chunks}, Extract(w, keys)
          PROVE  IInv'
      BY <1>1, <2>2, ExtractIInv
    <2>3. CASE PlanCandidate(w) \/ Register(w)
      BY <1>1, <2>3, PlanCandidateIInv, RegisterIInv
    <2>4. CASE WriteContext(w) \/ WriteFacts(w) \/ WritePriors(w)
      BY <1>1, <2>4, WriteContextIInv, WriteFactsIInv, WritePriorsIInv
    <2>5. CASE WriteSources(w) \/ WriteAbout(w) \/ WriteSupersedes(w)
      BY <1>1, <2>5, WriteSourcesIInv, WriteAboutIInv, WriteSupersedesIInv
    <2>6. CASE GraphWritten(w) \/ PutEmbedding(w) \/ PutSearchIndex(w) \/ Embedded(w)
      BY <1>1, <2>6, GraphWrittenIInv, PutEmbeddingIInv, PutSearchIndexIInv, EmbeddedIInv
    <2>7. CASE Verify(w) \/ Complete(w) \/ Handle(w)
      BY <1>1, <2>7, VerifyIInv, CompleteIInv, HandleIInv
    <2> QED
      BY <1>4, <2>1, <2>2, <2>3, <2>4, <2>5, <2>6, <2>7, Zenon DEF Step
  <1>5. ASSUME NEW w \in Workers, Raise(w) \/ Crash(w)
        PROVE  IInv'
    BY <1>1, <1>5, FaultIInv
  <1>6. CASE Tick
    BY <1>1, <1>6, StutterIInv DEF Tick
  <1> QED
    BY <1>2, <1>3, <1>4, <1>5, <1>6 DEF Next

\* The inductive invariant holds in every reachable state.
THEOREM IInvHolds == Spec => []IInv
  <1>1. Init => IInv
    BY InitIInv
  <1>2. IInv /\ [Next]_vars => IInv'
    BY NextIInv
  <1> QED
    BY <1>1, <1>2, PTL DEF Spec

\* What run_chunk has put behind it is in the stores, for every worker at every
\* stage, whatever the other workers and the faults do.
THEOREM BackedTheorem == Spec => []RunsBacked
  <1>1. IInv => RunsBacked
    BY DEF IInv
  <1> QED
    BY <1>1, IInvHolds, PTL

\* GraphPlanBuilder closes a fact only on account of a newer observation of the
\* same key that is in the graph, and closes it at that observation's time.
THEOREM SupersessionTheorem == Spec => []SupersededByNewer
  <1>1. IInv => SupersededByNewer
    BY DEF IInv
  <1> QED
    BY <1>1, IInvHolds, PTL

\* The SUPERSEDES edges the graph writer writes lead from newer to older facts,
\* so they form no cycle.
THEOREM ForwardTheorem == Spec => []SupersedesIsForward
  <1>1. IInv => SupersedesIsForward
    BY DEF IInv
  <1> QED
    BY <1>1, IInvHolds, PTL

\* GraphWriter writes to HydraDB only what the manifest has registered.
THEOREM RegisteredTheorem == Spec => []GraphWasRegistered
  <1>1. IInv => GraphWasRegistered
    BY DEF IInv
  <1> QED
    BY <1>1, IInvHolds, PTL

\* What the embedding store and the search index can return is a Fact node with
\* its source edges.
THEOREM SearchableTheorem == Spec => []SearchableIsInGraph
  <1>1. IInv => SearchableIsInGraph
    BY DEF IInv
  <1> QED
    BY <1>1, IInvHolds, PTL

\* The state of an ingestion job, also the one a failed job resumes from, is
\* backed by a whole attempt in the graph and in the indexes.
THEOREM StageTheorem == Spec => []StageMeansDone
  <1>1. IInv => StageMeansDone
    BY DEF IInv
  <1> QED
    BY <1>1, IInvHolds, PTL

-----------------------------------------------------------------------------
(* Ingestion implements JobStore *)

\* A legal transition of the row of a worker's chunk is a step of the job store.
LEMMA TransitionImplements ==
  ASSUME TypeOK, NEW c \in DOMAIN job, NEW new \in IngestionJobState, NEW error \in BOOLEAN,
         IsLegalJobTransition(job[c].state, new, job[c].last_verified_state),
         job' = [job EXCEPT ![c] = TransitionRow(job[c], new, error)]
  PROVE  Jobs!Next
  <1>1. c \in Chunks
    BY DEF TypeOK, PostgresTypeOK
  <1>2. Jobs!Transition(c, new, error)
    BY Zenon DEF Jobs!Transition, Jobs!IsLegalJobTransition, IsLegalJobTransition, Jobs!TransitionRow,
           TransitionRow, Jobs!NextLastVerified, NextLastVerified, Jobs!NonTerminalStates,
           NonTerminalStates, Jobs!FailureStates, FailureStates, Jobs!ForwardStates, ForwardStates,
           Jobs!ForwardIndex, ForwardIndex, Jobs!ResumeFrom, ResumeFrom, Jobs!NoState, NoState
  <1> QED
    BY <1>1, <1>2 DEF Jobs!Next, Jobs!IngestionJobState, IngestionJobState, Jobs!ForwardStates,
           ForwardStates, Jobs!FailureStates, FailureStates, Jobs!NonTerminalStates, NonTerminalStates

\* Storing a new chunk seeds its job.
LEMMA PutChunkImplements ==
  ASSUME TypeOK, NEW w \in Workers, PutChunk(w)
  PROVE  Jobs!Next \/ UNCHANGED job
  <1>1. PICK c : c = run[w].chunk
    BY Zenon
  <1>2. c \in Chunks /\ DOMAIN content = DOMAIN job
    BY <1>1, Zenon DEF TypeOK, PostgresTypeOK, RunOK, PutChunk
  <1>3. CASE /\ c \notin DOMAIN content
             /\ job' = [d \in DOMAIN job \cup {c} |-> IF d = c THEN NewJob ELSE job[d]]
    <2>1. Jobs!Seed(c)
      BY <1>2, <1>3, Zenon DEF Jobs!Seed, Jobs!NewJob, NewJob, Jobs!NoState, NoState
    <2> QED
      BY <1>2, <2>1, Zenon DEF Jobs!Next
  <1> QED
    BY <1>1, <1>3 DEF PutChunk

\* The transitions of run_chunk's happy path.
LEMMA AdvanceImplements ==
  ASSUME TypeOK, NEW w \in Workers, GraphWritten(w) \/ Embedded(w) \/ Complete(w)
  PROVE  Jobs!Next \/ UNCHANGED job
  <1>1. PICK c : c = run[w].chunk
    OBVIOUS
  <1>2. c \in DOMAIN job
    BY <1>1 DEF TypeOK, RunOK, GraphWritten, Embedded, Complete
  <1>3. UNCHANGED job \/ \E new \in {"pending_embeddings", "verifying", "completed"} :
          /\ IsLegalJobTransition(job[c].state, new, job[c].last_verified_state)
          /\ job' = [job EXCEPT ![c] = TransitionRow(job[c], new, FALSE)]
    BY <1>1, Zenon DEF GraphWritten, Embedded, Complete, Advance
  <1>4. {"pending_embeddings", "verifying", "completed"} \subseteq IngestionJobState
    BY DEF IngestionJobState, ForwardStates, NonTerminalStates
  <1> QED
    BY <1>2, <1>3, <1>4, TransitionImplements, Zenon

\* The failure transitions of the except clauses.
LEMMA HandleImplements ==
  ASSUME TypeOK, NEW w \in Workers, Handle(w)
  PROVE  Jobs!Next \/ UNCHANGED job
  <1>1. PICK c, new : /\ c = run[w].chunk
                      /\ new = IF run[w].pc = "terminal_error" THEN "terminal_failed" ELSE "retryable_failed"
    BY Zenon
  <1>2. c \in DOMAIN job /\ new \in IngestionJobState
    BY <1>1, Zenon DEF TypeOK, RunOK, Handle, IngestionJobState, FailureStates
  <1> QED
    BY <1>1, <1>2, TransitionImplements, Zenon DEF Handle

\* Every step of the pipeline is a step of the job store or leaves it alone.
LEMMA NextImplements == TypeOK /\ [Next]_vars => [Jobs!Next]_job
  <1> SUFFICES ASSUME TypeOK, [Next]_vars PROVE Jobs!Next \/ UNCHANGED job
    OBVIOUS
  <1>1. CASE UNCHANGED vars \/ Tick
    BY <1>1 DEF vars, Tick, postgres
  <1>2. ASSUME NEW w \in Workers, NEW c \in Chunks, NEW v \in Versions, RunRecord(w, c, v)
        PROVE  UNCHANGED job
    BY <1>2 DEF RunRecord, postgres
  <1>3. ASSUME NEW w \in Workers, Raise(w) \/ Crash(w)
        PROVE  UNCHANGED job
    BY <1>3, Zenon DEF Raise, Crash, postgres
  <1>4. ASSUME NEW w \in Workers, Step(w)
        PROVE  Jobs!Next \/ UNCHANGED job
    <2>1. ASSUME NEW keys, Extract(w, keys) PROVE UNCHANGED job
      BY <2>1 DEF Extract
    <2>2. CASE GetJob(w) \/ PlanCandidate(w) \/ Register(w) \/ Verify(w)
      BY <2>2, Zenon DEF GetJob, PlanCandidate, Register, Verify, postgres
    <2>3. CASE \/ WriteContext(w) \/ WriteFacts(w) \/ WritePriors(w)
               \/ WriteSources(w) \/ WriteAbout(w) \/ WriteSupersedes(w)
      BY <2>3, Zenon
      DEF WriteContext, WriteFacts, WritePriors, WriteSources, WriteAbout, WriteSupersedes, postgres
    <2>4. CASE PutEmbedding(w) \/ PutSearchIndex(w)
      BY <2>4 DEF PutEmbedding, PutSearchIndex
    <2> QED
      BY <1>4, <2>1, <2>2, <2>3, <2>4, PutChunkImplements, AdvanceImplements, HandleImplements, Zenon
      DEF Step
  <1> QED
    BY <1>1, <1>2, <1>3, <1>4 DEF Next

\* The pipeline drives the job rows only as PostgresJobStore allows.
THEOREM ImplementsJobStore == Spec => JobStoreSpec
  <1>1. Init => Jobs!Init
    BY DEF Init, Jobs!Init, Jobs!NewJob, NewJob, Jobs!NoState, NoState
  <1>2. TypeOK /\ [Next]_vars => [Jobs!Next]_job
    BY NextImplements
  <1> QED
    BY <1>1, <1>2, TypeCorrect, PTL DEF Spec, JobStoreSpec, Jobs!Spec

=============================================================================
