----------------------------- MODULE Ingestion -----------------------------
(***************************************************************************)
(* The ingestion pipeline: IngestionOrchestrator.run_record / run_chunk    *)
(* over the PostgreSQL stores, the graph manifest and HydraDB.             *)
(*                                                                         *)
(* A worker is a thread or process that runs one record at a time.  Each   *)
(* of its steps is one call to a store that commits by itself (a           *)
(* PostgreSQL transaction or one HydraDB request), so that other workers,  *)
(* an exception or a crash can come between any two of them.  Nothing is   *)
(* resumed: a later run of the same record replays the whole chunk.        *)
(***************************************************************************)
EXTENDS JobStates, Sequences, FiniteSets

CONSTANTS
  Chunks,        \* chunk ids, one per source record
  Versions,      \* contents a record with a given id may arrive with
  Workers,       \* threads and processes running the orchestrator
  Keys,          \* (subject entity, predicate_key) pairs facts are about
  Drafts,        \* what extraction may accept from each chunk: sequences of keys
  ObservedAt,    \* occurred_at of each chunk's record
  EffectiveAt,   \* `valid_from or observed_at` of the drafts of a chunk
  DraftValidTo,  \* valid_to of the drafts of a chunk
  Forever,       \* 9999999999, the open end of an interval
  StableIds,     \* TRUE: the extractor's candidate ids depend on the record only
  MaxRuns,       \* bound: how often each record is run
  MaxFaults,     \* bound: exceptions, crashes and failed lookups
  MaxClock       \* bound: seconds that pass

ASSUME IngestionAssumption ==
  /\ MaxRuns \in [Chunks -> Nat] /\ MaxFaults \in Nat /\ MaxClock \in Nat
  /\ StableIds \in BOOLEAN
  /\ Forever \in Nat
  /\ Drafts \in [Chunks -> SUBSET Seq(Keys)]
  /\ StableIds => \A c \in Chunks : \A s, t \in Drafts[c] : s = t
  /\ ObservedAt \in [Chunks -> Nat] /\ \A c \in Chunks : ObservedAt[c] < Forever
  /\ EffectiveAt \in [Chunks -> Nat]
  /\ DraftValidTo \in [Chunks -> Nat]

VARIABLES
  \* PostgreSQL
  content,          \* evidence_chunks: chunk id -> content
  job,              \* ingestion_jobs: chunk id -> row
  attempts,         \* extraction_attempts with their accepted candidates
  manifest,         \* graph_write_manifests, Fact nodes: fact -> payload
  manifestEdges,    \* graph_write_manifests, SUPERSEDES relationships
  embeddings,       \* memory_embeddings: facts with a vector
  searchIndex,      \* fact_search_index: facts with a text row
  \* HydraDB
  turnNodes,        \* chunks whose Session, Turn and Entity nodes are there
  factNodes,        \* Fact nodes: fact -> properties
  sourceEdges,      \* facts with HAS_TURN, EXTRACTED_FROM and STATED_BY
  aboutEdges,       \* facts with an ABOUT edge to their subject
  supersedesEdges,  \* pairs <<new, old>>
  \* the workers and their environment
  run,              \* what each worker is doing
  runs,             \* how often each record has been started
  faults,           \* exceptions, crashes and failed lookups so far
  now               \* the wall clock, in seconds

postgres == <<content, job, attempts, manifest, manifestEdges, embeddings, searchIndex>>
hydra    == <<turnNodes, factNodes, sourceEdges, aboutEdges, supersedesEdges>>
env      == <<runs, faults, now>>
vars     == <<postgres, hydra, run, env>>

-----------------------------------------------------------------------------
(* Facts, plans and workers *)

\* A Fact is known by its candidate_id: the position of its draft in the turn
\* and, when the extractor draws the id anew on every call, the run it is from.
Fact == [chunk : Chunks, pos : Nat, key : Keys, nonce : Nat]

\* The properties of a Fact node that the pipeline changes or compares; all
\* others are fixed by the fact's id.
FactPayload == [created_at : Nat, is_current : BOOLEAN, superseded_at : Nat, valid_to : Nat]

\* A verdict of the update classifier that a fact is superseded, and by which.
Verdict == [by : Fact, relation : {"correction", "state_change"}]

Stages == {"idle", "put", "get", "extract", "plan", "register",
           "write_context", "write_facts", "write_priors",
           "write_sources", "write_about", "write_supersedes", "graph_written",
           "embed", "index", "embedded", "verify", "verified",
           "retryable_error", "terminal_error"}

\* The stages inside the try block of run_chunk.
Pipeline == Stages \ {"idle", "put", "get", "retryable_error", "terminal_error"}

NoChunk == "none"

Idle == [pc |-> "idle", chunk |-> NoChunk, version |-> NoChunk, nonce |-> 0,
         accepted |-> <<>>, i |-> 0, about |-> {}, priors |-> [f \in {} |-> 0],
         supersedes |-> {}, created_at |-> 0]

\* The facts of a worker's plan.
PlanFacts(r) == {r.accepted[n] : n \in DOMAIN r.accepted}

Init ==
  /\ content = [c \in {} |-> NoChunk]
  /\ job = [c \in {} |-> NewJob]
  /\ attempts = {}
  /\ manifest = [f \in {} |-> 0] /\ manifestEdges = {}
  /\ embeddings = {} /\ searchIndex = {}
  /\ turnNodes = {} /\ factNodes = [f \in {} |-> 0]
  /\ sourceEdges = {} /\ aboutEdges = {} /\ supersedesEdges = {}
  /\ run = [w \in Workers |-> Idle]
  /\ runs = [c \in Chunks |-> 0]
  /\ faults = 0
  /\ now = 0

Goto(w, stage) == run' = [run EXCEPT ![w].pc = stage]

Return(w) == run' = [run EXCEPT ![w] = Idle]

-----------------------------------------------------------------------------
(* run_record *)

\* A batch hands a record to the orchestrator, for the first time or again.
RunRecord(w, c, v) ==
  /\ run[w].pc = "idle"
  /\ runs[c] < MaxRuns[c]
  /\ runs' = [runs EXCEPT ![c] = @ + 1]
  /\ run' = [run EXCEPT ![w] =
       [Idle EXCEPT !.pc = "put", !.chunk = c, !.version = v,
                    !.nonce = IF StableIds THEN 0 ELSE runs[c] + 1]]
  /\ UNCHANGED <<postgres, hydra, faults, now>>

\* PostgresChunkStore.put: a new chunk is inserted together with its job; the
\* same content again is a no-op; other content raises out of run_record.
PutChunk(w) ==
  LET c == run[w].chunk  v == run[w].version IN
  /\ run[w].pc = "put"
  /\ \/ /\ c \notin DOMAIN content
        /\ content' = [d \in DOMAIN content \cup {c} |-> IF d = c THEN v ELSE content[d]]
        /\ job' = [d \in DOMAIN job \cup {c} |-> IF d = c THEN NewJob ELSE job[d]]
        /\ Goto(w, "get")
     \/ /\ c \in DOMAIN content /\ content[c] = v
        /\ Goto(w, "get")
        /\ UNCHANGED <<content, job>>
     \/ /\ c \in DOMAIN content /\ content[c] # v
        /\ Return(w)
        /\ UNCHANGED <<content, job>>
  /\ UNCHANGED <<attempts, manifest, manifestEdges, embeddings, searchIndex, hydra, env>>

\* Mutant: a job that failed is not run again.
GetJobBlocksRetry(w) ==
  /\ run[w].pc = "get"
  /\ IF job[run[w].chunk].state \in {"completed", "retryable_failed", "terminal_failed", "manual_repair"}
     THEN Return(w) ELSE Goto(w, "extract")
  /\ UNCHANGED <<postgres, hydra, env>>

\* The job is read, and run_chunk skips a completed chunk and refuses one that
\* needs manual repair.
GetJob(w) ==
  LET state == job[run[w].chunk].state IN
  /\ run[w].pc = "get"
  /\ \/ /\ state \in {"completed", "terminal_failed", "manual_repair"}
        /\ Return(w)
     \/ /\ state \in {"pending_graph", "pending_embeddings", "verifying", "retryable_failed"}
        /\ Goto(w, "extract")
  /\ UNCHANGED <<postgres, hydra, env>>

-----------------------------------------------------------------------------
(* run_chunk: extraction and plan *)

\* ExtractionService.extract: the drafts that survive resolution and validation
\* become candidates, in the order of the drafts.
Candidates(r, keys) ==
  [n \in DOMAIN keys |-> [chunk |-> r.chunk, pos |-> n, key |-> keys[n], nonce |-> r.nonce]]

\* PostgresExtractionStore.record: attempt_id is a hash of chunk and drafts, so
\* an identical attempt is recorded once.
RecordAttempt(c, cands) == attempts' = attempts \cup {[chunk |-> c, accepted |-> cands]}

\* The extraction stage of run_chunk (the extractor returns no drafts at all
\* when the LLM call fails) and the head of GraphPlanBuilder.build, which reads
\* the clock once for all the Fact nodes of the plan.
Extract(w, keys) ==
  LET r == run[w]  cands == Candidates(r, keys) IN
  /\ r.pc = "extract"
  /\ keys \in Drafts[r.chunk]
  /\ RecordAttempt(r.chunk, cands)
  /\ run' = [run EXCEPT ![w].accepted = cands, ![w].created_at = now, ![w].i = 1,
                        ![w].pc = IF keys = <<>> THEN "register" ELSE "plan"]
  /\ UNCHANGED <<content, job, manifest, manifestEdges, embeddings, searchIndex, hydra, env>>

\* Mutant: the predicate is not part of the query.
FindExistingAnyKey(f) ==
  {g \in DOMAIN factNodes : factNodes[g].is_current /\ g \in aboutEdges}

\* HydraFactLookup.find_existing: current facts of the same subject and
\* predicate, found through their ABOUT edge.
FindExisting(f) ==
  {g \in DOMAIN factNodes : factNodes[g].is_current /\ g \in aboutEdges /\ g.key = f.key}

\* Mutant: equal observation times are not ruled out.
SupersedableOrEqual(f, hits) == {g \in hits : ObservedAt[f.chunk] >= ObservedAt[g.chunk]}

\* TemporalUpdateClassifier.classify asks the model only about older facts.
Supersedable(f, hits) == {g \in hits : ObservedAt[f.chunk] > ObservedAt[g.chunk]}

\* The candidate loop goes on to the next candidate, or the plan is complete.
NextCandidate(r) ==
  [r EXCEPT !.i = IF r.i = Len(r.accepted) THEN 1 ELSE r.i + 1,
            !.pc = IF r.i = Len(r.accepted) THEN "register" ELSE "plan"]

\* The candidate's ABOUT edge and, for every prior fact judged a correction or a
\* state change, its SUPERSEDES edge and the partial node that closes the fact;
\* the plan is a dictionary, in which the last candidate's partial node stands.
PlanWith(r, f, verdict) ==
  LET chosen == {g \in DOMAIN verdict : verdict[g] # "no_update"} IN
  [r EXCEPT !.about = r.about \cup {f},
            !.priors = [g \in DOMAIN r.priors \cup chosen |->
                          IF g \in chosen THEN [by |-> f, relation |-> verdict[g]]
                          ELSE r.priors[g]],
            !.supersedes = r.supersedes \cup {<<f, g>> : g \in chosen}]

\* The model's answers about a set of prior facts; it abstains as it finds no
\* update.
Verdicts(priors) == [priors -> {"correction", "state_change", "no_update"}]

\* One candidate of GraphPlanBuilder.build.  Its subject may stay unresolved;
\* otherwise the prior facts are looked up and judged one by one, and a lookup
\* that fails finds none.
PlanCandidate(w) ==
  LET r == run[w]
      f == r.accepted[r.i] IN
  /\ r.pc = "plan"
  /\ \/ /\ run' = [run EXCEPT ![w] = NextCandidate(r)]
        /\ UNCHANGED faults
     \/ /\ \E verdict \in Verdicts(Supersedable(f, FindExisting(f))) :
             run' = [run EXCEPT ![w] = NextCandidate(PlanWith(r, f, verdict))]
        /\ UNCHANGED faults
     \/ /\ faults < MaxFaults
        /\ faults' = faults + 1
        /\ run' = [run EXCEPT ![w] = NextCandidate(PlanWith(r, f, [g \in {} |-> "no_update"]))]
  /\ UNCHANGED <<postgres, hydra, runs, now>>

-----------------------------------------------------------------------------
(* run_chunk: GraphWriter.write *)

\* The Fact node the plan creates for one of its own candidates.
NewFact(r, f) ==
  [created_at |-> r.created_at, is_current |-> TRUE, superseded_at |-> Forever,
   valid_to |-> DraftValidTo[f.chunk]]

\* What the partial node of a superseded fact sets: is_current, superseded_at
\* and valid_to, the latter to the open end unless the change has a date.
Close(payload, verdict) ==
  [payload EXCEPT !.is_current = FALSE,
                  !.superseded_at = ObservedAt[verdict.by.chunk],
                  !.valid_to = IF verdict.relation = "state_change"
                               THEN EffectiveAt[verdict.by.chunk] ELSE Forever]

\* The plan's full nodes merged into a table of facts.
MergeFacts(table, r) ==
  [f \in DOMAIN table \cup PlanFacts(r) |->
     IF f \in PlanFacts(r) THEN NewFact(r, f) ELSE table[f]]

\* The plan's partial nodes merged into a table of facts.
MergePriors(table, r) ==
  [f \in DOMAIN table |->
     IF f \in DOMAIN r.priors THEN Close(table[f], r.priors[f]) ELSE table[f]]

\* Mutant: any property may change.
NoPayloadConflict(r) == FALSE

\* A fact is registered already with another value of a property that is not
\* one of NODE_MUTABLE_PROPERTIES.
PayloadConflict(r) ==
  \E f \in PlanFacts(r) : f \in DOMAIN manifest /\ manifest[f].created_at # r.created_at

\* PostgresGraphManifestStore.register: the whole plan in one transaction, or
\* GraphPayloadConflictError.
Register(w) ==
  LET r == run[w] IN
  /\ r.pc = "register"
  /\ \/ /\ PayloadConflict(r)
        /\ Goto(w, "terminal_error")
        /\ UNCHANGED <<manifest, manifestEdges>>
     \/ /\ ~PayloadConflict(r)
        /\ manifest' = MergePriors(MergeFacts(manifest, r), r)
        /\ manifestEdges' = manifestEdges \cup r.supersedes
        /\ Goto(w, "write_context")
  /\ UNCHANGED <<content, job, attempts, embeddings, searchIndex, hydra, env>>

\* Mutant: the Session, Turn and entity nodes are left for the end.
WriteContextLate(w) ==
  /\ run[w].pc = "write_context"
  /\ Goto(w, "write_facts")
  /\ UNCHANGED <<postgres, hydra, env>>

\* One HydraDB request per group, nodes before relationships, in the order the
\* plan names them.  The Session, Turn, speaker and entity nodes:
WriteContext(w) ==
  /\ run[w].pc = "write_context"
  /\ turnNodes' = turnNodes \cup {run[w].chunk}
  /\ Goto(w, "write_facts")
  /\ UNCHANGED <<postgres, factNodes, sourceEdges, aboutEdges, supersedesEdges, env>>

\* The new Fact nodes, MERGEd by id and SET.
WriteFacts(w) ==
  /\ run[w].pc = "write_facts"
  /\ factNodes' = MergeFacts(factNodes, run[w])
  /\ Goto(w, "write_priors")
  /\ UNCHANGED <<postgres, turnNodes, sourceEdges, aboutEdges, supersedesEdges, env>>

\* Mutant: the group of partial nodes is not sent.
WritePriorsLost(w) ==
  /\ run[w].pc = "write_priors"
  /\ Goto(w, "write_sources")
  /\ UNCHANGED <<postgres, hydra, env>>

\* The partial Fact nodes of the superseded facts, a group of its own because
\* its property names differ.
WritePriors(w) ==
  /\ run[w].pc = "write_priors"
  /\ factNodes' = MergePriors(factNodes, run[w])
  /\ Goto(w, "write_sources")
  /\ UNCHANGED <<postgres, turnNodes, sourceEdges, aboutEdges, supersedesEdges, env>>

\* HAS_TURN, EXTRACTED_FROM and STATED_BY; a relationship is written only if
\* both its endpoints MATCH.
WriteSources(w) ==
  LET r == run[w] IN
  /\ r.pc = "write_sources"
  /\ sourceEdges' = sourceEdges \cup
       {f \in PlanFacts(r) : f \in DOMAIN factNodes /\ r.chunk \in turnNodes}
  /\ Goto(w, "write_about")
  /\ UNCHANGED <<postgres, turnNodes, factNodes, aboutEdges, supersedesEdges, env>>

\* The ABOUT edges of the candidates whose subject was resolved.
WriteAbout(w) ==
  LET r == run[w] IN
  /\ r.pc = "write_about"
  /\ aboutEdges' = aboutEdges \cup (r.about \cap DOMAIN factNodes)
  /\ Goto(w, "write_supersedes")
  /\ UNCHANGED <<postgres, turnNodes, factNodes, sourceEdges, supersedesEdges, env>>

\* The SUPERSEDES edges, the last group of the plan.
WriteSupersedes(w) ==
  LET r == run[w] IN
  /\ r.pc = "write_supersedes"
  /\ supersedesEdges' = supersedesEdges \cup
       {p \in r.supersedes : {p[1], p[2]} \subseteq DOMAIN factNodes}
  /\ Goto(w, "graph_written")
  /\ UNCHANGED <<postgres, turnNodes, factNodes, sourceEdges, aboutEdges, env>>

-----------------------------------------------------------------------------
(* run_chunk: job transitions, embeddings, verification *)

\* PostgresJobStore.transition inside the try block: an illegal transition
\* raises IllegalJobTransitionError, which is handled as retryable.
Advance(w, new, next) ==
  LET c == run[w].chunk IN
  \/ /\ IsLegalJobTransition(job[c].state, new, job[c].last_verified_state)
     /\ job' = [job EXCEPT ![c] = TransitionRow(job[c], new, FALSE)]
     /\ next
  \/ /\ ~IsLegalJobTransition(job[c].state, new, job[c].last_verified_state)
     /\ Goto(w, "retryable_error")
     /\ UNCHANGED job

\* Mutant: the embeddings are skipped.
GraphWrittenSkips(w) ==
  /\ run[w].pc = "graph_written"
  /\ Advance(w, "pending_embeddings", Goto(w, "embedded"))
  /\ UNCHANGED <<content, attempts, manifest, manifestEdges, embeddings, searchIndex, hydra, env>>

\* The graph is written: the job moves on, and the loop over the accepted
\* candidates begins.
GraphWritten(w) ==
  /\ run[w].pc = "graph_written"
  /\ Advance(w, "pending_embeddings",
             run' = [run EXCEPT ![w].pc = IF run[w].accepted = <<>> THEN "embedded" ELSE "embed",
                                ![w].i = 1])
  /\ UNCHANGED <<content, attempts, manifest, manifestEdges, embeddings, searchIndex, hydra, env>>

\* PostgresEmbeddingStore.put: inserted once, a no-op on replay.
PutEmbedding(w) ==
  LET r == run[w] IN
  /\ r.pc = "embed"
  /\ embeddings' = embeddings \cup {r.accepted[r.i]}
  /\ Goto(w, "index")
  /\ UNCHANGED <<content, job, attempts, manifest, manifestEdges, searchIndex, hydra, env>>

\* PostgresSearchIndexStore.put, the second half of the loop's body.
PutSearchIndex(w) ==
  LET r == run[w] IN
  /\ r.pc = "index"
  /\ searchIndex' = searchIndex \cup {r.accepted[r.i]}
  /\ run' = [run EXCEPT ![w].i = IF r.i = Len(r.accepted) THEN 1 ELSE r.i + 1,
                        ![w].pc = IF r.i = Len(r.accepted) THEN "embedded" ELSE "embed"]
  /\ UNCHANGED <<content, job, attempts, manifest, manifestEdges, embeddings, hydra, env>>

\* All candidates are embedded and indexed.
Embedded(w) ==
  /\ run[w].pc = "embedded"
  /\ Advance(w, "verifying", Goto(w, "verify"))
  /\ UNCHANGED <<content, attempts, manifest, manifestEdges, embeddings, searchIndex, hydra, env>>

\* PostgresChunkStore.get finds the chunk, with this content.
HasChunk(c, v) == c \in DOMAIN content /\ content[c] = v

\* The chunk is read back and its content compared.
Verify(w) ==
  LET r == run[w] IN
  /\ r.pc = "verify"
  /\ Goto(w, IF HasChunk(r.chunk, r.version) THEN "verified" ELSE "retryable_error")
  /\ UNCHANGED <<postgres, hydra, env>>

\* The last transition of run_chunk.
Complete(w) ==
  /\ run[w].pc = "verified"
  /\ Advance(w, "completed", Return(w))
  /\ UNCHANGED <<content, attempts, manifest, manifestEdges, embeddings, searchIndex, hydra, env>>

-----------------------------------------------------------------------------
(* Failures *)

\* Mutant: the failure is recorded whatever state the job is in.
HandleAlways(w) ==
  LET c == run[w].chunk
      new == IF run[w].pc = "terminal_error" THEN "terminal_failed" ELSE "retryable_failed" IN
  /\ run[w].pc \in {"retryable_error", "terminal_error"}
  /\ job' = [job EXCEPT ![c] = TransitionRow(job[c], new, TRUE)]
  /\ Return(w)
  /\ UNCHANGED <<content, attempts, manifest, manifestEdges, embeddings, searchIndex, hydra, env>>

\* The except clauses: _safe_transition swallows an illegal transition.
Handle(w) ==
  LET c == run[w].chunk
      new == IF run[w].pc = "terminal_error" THEN "terminal_failed" ELSE "retryable_failed" IN
  /\ run[w].pc \in {"retryable_error", "terminal_error"}
  /\ \/ /\ IsLegalJobTransition(job[c].state, new, job[c].last_verified_state)
        /\ job' = [job EXCEPT ![c] = TransitionRow(job[c], new, TRUE)]
     \/ /\ ~IsLegalJobTransition(job[c].state, new, job[c].last_verified_state)
        /\ UNCHANGED job
  /\ Return(w)
  /\ UNCHANGED <<content, attempts, manifest, manifestEdges, embeddings, searchIndex, hydra, env>>

\* A call inside the try block raises: before it took effect, or (a lost
\* response) after it, which is the same exception one stage later.
Raise(w) ==
  /\ run[w].pc \in Pipeline
  /\ faults < MaxFaults
  /\ faults' = faults + 1
  /\ Goto(w, "retryable_error")
  /\ UNCHANGED <<postgres, hydra, runs, now>>

\* The worker dies, or a call outside the try block (chunk put, job get, the
\* handler's own transition) fails.
Crash(w) ==
  /\ run[w].pc # "idle"
  /\ faults < MaxFaults
  /\ faults' = faults + 1
  /\ Return(w)
  /\ UNCHANGED <<postgres, hydra, runs, now>>

Tick ==
  /\ now < MaxClock
  /\ now' = now + 1
  /\ UNCHANGED <<postgres, hydra, run, runs, faults>>

\* The steps of a run, in the order of the code.
Step(w) ==
  \/ PutChunk(w) \/ GetJob(w)
  \/ \E keys \in UNION {Drafts[c] : c \in Chunks} : Extract(w, keys)
  \/ PlanCandidate(w) \/ Register(w)
  \/ WriteContext(w) \/ WriteFacts(w) \/ WritePriors(w)
  \/ WriteSources(w) \/ WriteAbout(w) \/ WriteSupersedes(w)
  \/ GraphWritten(w) \/ PutEmbedding(w) \/ PutSearchIndex(w) \/ Embedded(w)
  \/ Verify(w) \/ Complete(w) \/ Handle(w)

Next ==
  \/ \E w \in Workers, c \in Chunks, v \in Versions : RunRecord(w, c, v)
  \/ \E w \in Workers : Step(w) \/ Raise(w) \/ Crash(w)
  \/ Tick

Spec == Init /\ [][Next]_vars

\* A worker that is running goes on to its next step, and a record that is not
\* finished is run again: the batch is submitted again after every failure.
Fairness ==
  /\ \A w \in Workers : WF_vars(Step(w))
  /\ \A c \in Chunks : WF_vars(\E w \in Workers, v \in Versions : RunRecord(w, c, v))

FairSpec == Spec /\ Fairness

-----------------------------------------------------------------------------
(* Types *)

RunFields == {"pc", "chunk", "version", "nonce", "accepted", "i", "about", "priors",
              "supersedes", "created_at"}

FactTable(t) == DOMAIN t \subseteq Fact /\ \A f \in DOMAIN t : t[f] \in FactPayload

\* What a worker must have at each stage: a record from the start, its stored
\* job after the chunk was put, and a candidate inside the two loops.
RunOK(r, stored) ==
  /\ DOMAIN r = RunFields
  /\ r.pc \in Stages /\ r.nonce \in Nat /\ r.i \in Nat /\ r.created_at \in Nat
  /\ r.accepted \in Seq(Fact) /\ r.about \subseteq Fact
  /\ DOMAIN r.priors \subseteq Fact /\ \A g \in DOMAIN r.priors : r.priors[g] \in Verdict
  /\ r.supersedes \subseteq Fact \X Fact
  /\ r.pc # "idle" => r.chunk \in Chunks /\ r.version \in Versions
  /\ r.pc \notin {"idle", "put"} => r.chunk \in stored
  /\ r.pc \in {"plan", "embed", "index"} => r.i \in DOMAIN r.accepted

PostgresTypeOK ==
  /\ DOMAIN job \subseteq Chunks /\ \A c \in DOMAIN job : job[c] \in IngestionJob
  /\ content \in [DOMAIN job -> Versions]
  /\ attempts \subseteq [chunk : Chunks, accepted : Seq(Fact)]
  /\ FactTable(manifest)
  /\ manifestEdges \subseteq Fact \X Fact
  /\ embeddings \subseteq Fact /\ searchIndex \subseteq Fact

HydraTypeOK ==
  /\ turnNodes \subseteq Chunks
  /\ FactTable(factNodes)
  /\ sourceEdges \subseteq Fact /\ aboutEdges \subseteq Fact
  /\ supersedesEdges \subseteq Fact \X Fact

\* The types of the rows, the nodes and the workers; a job row exists exactly
\* for the chunks that are stored.
TypeOK ==
  /\ PostgresTypeOK
  /\ HydraTypeOK
  /\ DOMAIN run = Workers /\ \A w \in Workers : RunOK(run[w], DOMAIN job)
  /\ runs \in [Chunks -> Nat] /\ faults \in Nat /\ now \in Nat

-----------------------------------------------------------------------------
(* Safety *)

\* A fact stops being current only in favour of a fact of the same subject and
\* predicate that is in the graph already and was observed later, and its
\* superseded_at is that observation: whatever runs concurrently, fails or is
\* replayed, the latest observation of a key is never closed and the lookup
\* (is_current) and retrieval (superseded_at) agree on who is superseded.
SupersededByNewer ==
  \A f \in DOMAIN factNodes :
    IF factNodes[f].is_current
    THEN factNodes[f].superseded_at = Forever
    ELSE \E g \in DOMAIN factNodes :
           /\ g.key = f.key
           /\ ObservedAt[g.chunk] > ObservedAt[f.chunk]
           /\ factNodes[f].superseded_at = ObservedAt[g.chunk]

\* SUPERSEDES edges lead from a later to an earlier observation of the same
\* key, so a chain of them never closes into a cycle, and both ends exist.
SupersedesIsForward ==
  \A p \in supersedesEdges :
    /\ {p[1], p[2]} \subseteq DOMAIN factNodes
    /\ p[1].key = p[2].key
    /\ ObservedAt[p[1].chunk] > ObservedAt[p[2].chunk]

\* Everything in HydraDB was registered in the manifest first, with the same
\* immutable properties.
GraphWasRegistered ==
  /\ DOMAIN factNodes \subseteq DOMAIN manifest
  /\ \A f \in DOMAIN factNodes : factNodes[f].created_at = manifest[f].created_at
  /\ supersedesEdges \subseteq manifestEdges

\* What keyword or vector search can return is a Fact node with its source
\* edges: the indexes are filled only behind the graph.
SearchableIsInGraph ==
  embeddings \cup searchIndex \subseteq {f \in sourceEdges : f \in DOMAIN factNodes}

\* All facts of one recorded attempt on the chunk are in the graph with their
\* sources, and are embedded and indexed too.
GraphDone(c) ==
  /\ c \in turnNodes
  /\ \E a \in attempts : a.chunk = c /\ \A n \in DOMAIN a.accepted : a.accepted[n] \in sourceEdges

IndexDone(c) ==
  \E a \in attempts :
    a.chunk = c /\ \A n \in DOMAIN a.accepted :
      a.accepted[n] \in sourceEdges \cap embeddings \cap searchIndex

\* A job's progress, also the progress a failed job resumes from, is backed by
\* the stores: past the graph write by a whole attempt in the graph, past the
\* embeddings by a whole attempt that can be searched.
StageMeansDone ==
  \A c \in DOMAIN job :
    /\ Progress(job[c]) >= 1 => GraphDone(c)
    /\ Progress(job[c]) >= 2 => IndexDone(c)

\* The stages behind which a part of the run's work is done.
Indexed    == {"embedded", "verify", "verified"}
Sourced    == Indexed \cup {"write_about", "write_supersedes", "graph_written", "embed", "index"}
FactsIn    == Sourced \cup {"write_priors", "write_sources"}
ContextIn  == FactsIn \cup {"write_facts"}
Registered == ContextIn \cup {"write_context"}
Extracted  == Registered \cup {"plan", "register"}

\* A plan's SUPERSEDES edges lead from its own facts to older facts of the same
\* key that are in the graph, and each fact it closes has one.
PlanBacked(r) ==
  /\ \A p \in r.supersedes :
       /\ p[1] \in PlanFacts(r) /\ p[2] \in DOMAIN factNodes
       /\ p[1].key = p[2].key /\ ObservedAt[p[1].chunk] > ObservedAt[p[2].chunk]
  /\ \A g \in DOMAIN r.priors : <<r.priors[g].by, g>> \in r.supersedes

\* What a run has put behind it is in the stores, and stays there.
RunBacked(r) ==
  /\ r.pc \in {"idle", "put", "get", "extract"} => r.supersedes = {}
  /\ PlanBacked(r)
  /\ r.pc \in Extracted => [chunk |-> r.chunk, accepted |-> r.accepted] \in attempts
  /\ r.pc \in Registered =>
       /\ \A f \in PlanFacts(r) : f \in DOMAIN manifest /\ manifest[f].created_at = r.created_at
       /\ r.supersedes \subseteq manifestEdges
  /\ r.pc \in ContextIn => r.chunk \in turnNodes
  /\ r.pc \in FactsIn => PlanFacts(r) \subseteq DOMAIN factNodes
  /\ r.pc \in Sourced => PlanFacts(r) \subseteq sourceEdges
  /\ r.pc \in {"embed", "index"} =>
       \A n \in 1..(r.i - 1) : r.accepted[n] \in embeddings \cap searchIndex
  /\ r.pc = "index" => r.accepted[r.i] \in embeddings
  /\ r.pc \in Indexed => PlanFacts(r) \subseteq embeddings \cap searchIndex

\* Every worker's belief about what it has done is true of the stores, at every
\* stage and whatever the other workers do: this is what makes going on after
\* each call, without reading anything back, right.
RunsBacked == \A w \in Workers : RunBacked(run[w])

\* The job rows move as the job store's own specification allows.
Jobs == INSTANCE JobStore
JobStoreSpec == Jobs!Spec

\* When every worker is idle and nothing has failed, the manifest holds exactly
\* what the graph holds, and every superseded fact has the SUPERSEDES edge of
\* the fact that closed it.  (One worker: two may register and write in
\* different orders.)
QuietStoresAgree ==
  (faults = 0 /\ \A w \in Workers : run[w].pc = "idle") =>
    /\ manifest = factNodes
    /\ manifestEdges = supersedesEdges
    /\ \A f \in DOMAIN factNodes :
         ~factNodes[f].is_current =>
           \E p \in supersedesEdges :
             p[2] = f /\ ObservedAt[p[1].chunk] = factNodes[f].superseded_at

-----------------------------------------------------------------------------
(* What a step may not do *)

-----------------------------------------------------------------------------
(* Liveness *)

\* A stored chunk is replayed until it is completed, unless an attempt was
\* interrupted after the job had reached `verifying`, or a conflict was found.
ReplayCompletes ==
  \A c \in Chunks :
    c \in DOMAIN job ~> /\ c \in DOMAIN job
                        /\ \/ job[c].state \in {"completed", "verifying", "terminal_failed"}
                           \/ job[c].last_verified_state = "verifying"

-----------------------------------------------------------------------------
(* What the repository's documents say of the pipeline and the code does not do *)

\* "an orchestrator that always replays a chunk's whole pipeline from the top
\* can re-issue a state it already reached": the replay's first transition is
\* legal when no other worker is on the chunk.
ReplayIsLegal ==
  \A w \in Workers :
    (/\ run[w].pc = "graph_written"
     /\ \A u \in Workers \ {w} : run[u].chunk # run[w].chunk) =>
      LET row == job[run[w].chunk] IN
      IsLegalJobTransition(row.state, "pending_embeddings", row.last_verified_state)

\* "every one of those stages was already built to be an idempotent no-op on
\* unchanged replay": replaying a record whose extraction says the same again
\* adds no second node for the same draft.
ReplayAddsNoFact ==
  \A f, g \in DOMAIN factNodes : (f.chunk = g.chunk /\ f.pos = g.pos) => f = g

\* "never wasted correctness": once all jobs are completed and no one is
\* running, a superseded fact has a SUPERSEDES edge.
CompletedIsLinked ==
  (/\ \A w \in Workers : run[w].pc = "idle"
   /\ \A c \in DOMAIN job : job[c].state = "completed") =>
    \A f \in DOMAIN factNodes :
      ~factNodes[f].is_current => \E p \in supersedesEdges : p[2] = f

\* "Does NOT change `valid_to`": a step that closes a fact on account of a
\* correction leaves the end of its world validity alone.
CorrectionKeepsValidTo ==
  [][\A w \in Workers :
       (run[w].pc = "write_priors" /\ run'[w].pc = "write_sources") =>
         \A f \in DOMAIN run[w].priors :
           run[w].priors[f].relation = "correction" =>
             factNodes'[f].valid_to = factNodes[f].valid_to]_vars

=============================================================================
