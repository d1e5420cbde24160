----------------------------- MODULE Retrieval -----------------------------
(***************************************************************************)
(* HybridRetrievalEngine.retrieve_and_answer, one question at a time, over *)
(* stores that the ingestion thread is writing meanwhile.                  *)
(*                                                                         *)
(* Every step of the question is one SQL statement, one HydraDB request or *)
(* one model call; what lies between two of them is local.  The writer is  *)
(* Ingestion reduced to what retrieval reads: a single executor thread     *)
(* (ingestion_executor_max_workers is 1) that may stop after any step.     *)
(***************************************************************************)
EXTENDS Integers, Sequences, FiniteSets

CONSTANTS
  Chunks,               \* ingested records
  Facts,                \* fact ids
  Entities,             \* entity keys
  Drafts,               \* the facts of each chunk, in the order of its candidates
  ObservedAt,           \* observed_at of each chunk's facts
  KeyOf,                \* (subject, predicate_key) of each fact
  EntityOf,             \* the entity each fact is ABOUT, or NoEntity
  ValidFrom,            \* valid_from of each fact, 0 for the open past
  ChatScoped,           \* facts with memory_scope "chat"
  Boundary,             \* cosine distance of two facts' embeddings, in 1/Unit
  NoEntity,
  Questions,            \* what may be asked: see IsQuestion
  PathResults,          \* what algo.MSpaths may return: sets of [from, to, hops]
  TopK, OverfetchMultiplier, OverfetchFloor, ChatTTL, RrfK, PathCap, SiblingLimit,
  MaxHops,
  Forever

\* Similarities and distances are counted in tenths.
Unit == 10

\* retrieval_abstention_semantic_threshold = 0.3,
\* retrieval_sibling_continuity_penalty = 0.1, retrieval_sibling_relevance_ratio = 0.8
Threshold == 3
ContinuityPenalty == 1
RelevanceRatio == 8

\* The search terms: the question's own words, or its rewritten forms as well.
Terms == {"plain", "rewritten"}

\* A question with its date, the range its temporal resolution would give, the
\* distance of each fact's embedding from it and, for either form of its terms,
\* the entities they mention and the text rank, in tenths, of the facts they match.
IsQuestion(q) ==
  /\ q.date \in 0..Forever /\ q.from \in Nat /\ q.to \in Nat
  /\ q.distance \in [Facts -> 0..(2 * Unit)]
  /\ q.mentions \in [Terms -> SUBSET Entities]
  /\ \A t \in Terms : /\ DOMAIN q.matches[t] \subseteq Facts
                      /\ \A f \in DOMAIN q.matches[t] : q.matches[t][f] \in Nat

\* The facts of a chunk.
FactsOf(c) == {Drafts[c][i] : i \in DOMAIN Drafts[c]}

ASSUME RetrievalAssumption ==
  /\ Drafts \in [Chunks -> Seq(Facts)]
  /\ ObservedAt \in [Chunks -> Nat] /\ ValidFrom \in [Facts -> Nat]
  /\ EntityOf \in [Facts -> Entities \cup {NoEntity}] /\ NoEntity \notin Entities
  /\ ChatScoped \subseteq Facts
  /\ Boundary \in [Facts \X Facts -> Nat]
  /\ {TopK, OverfetchMultiplier, OverfetchFloor, PathCap, MaxHops} \subseteq Nat \ {0}
  /\ {ChatTTL, RrfK, SiblingLimit, Forever} \subseteq Nat
  /\ \A f \in Facts : \E c \in Chunks : f \in FactsOf(c)
  /\ \A c, d \in Chunks : c # d => FactsOf(c) \cap FactsOf(d) = {}
  /\ IsFiniteSet(Facts)
  /\ \A q \in Questions : IsQuestion(q)

VARIABLES
  \* what ingestion writes
  registered,   \* graph_id_registry: facts with a graph id
  nodes,        \* Fact nodes of HydraDB: fact -> the properties that change
  about,        \* facts with an ABOUT edge
  embeddings,   \* memory_embeddings: facts with an active vector
  searchIndex,  \* fact_search_index: facts with an active text row
  closedBy,     \* history: pairs <<new, old>> of the closures written
  writer,       \* the executor thread
  ingested,     \* the chunks it has begun
  \* what a question reads
  pc, question,
  bounds,       \* the DateRange of phase 0, or NoRange while it is pending
  terms,        \* which search terms phase 0 gave, or "pending"
  seeds,        \* the candidates: fact -> its rank in each search, 0 for none
  found,        \* history: the facts that seeding returned
  graphIds,     \* the candidates whose graph id is known
  rows,         \* what HydraDB returned for them
  paths,        \* what algo.MSpaths returned
  top,          \* the reader's facts
  siblings,     \* the facts added from the same turns
  missed        \* history: a read failed and was passed over

stores == <<registered, nodes, about, embeddings, searchIndex, closedBy>>
ingest == <<stores, writer, ingested>>
local  == <<question, bounds, terms, seeds, found, graphIds, rows, paths, top, siblings, missed>>
vars   == <<ingest, pc, local>>

-----------------------------------------------------------------------------
(* Data *)

ChunkOf(f) == CHOOSE c \in Chunks : f \in FactsOf(c)

Observed(f) == ObservedAt[ChunkOf(f)]

\* valid_from or observed_at
Effective(f) == IF ValidFrom[f] # 0 THEN ValidFrom[f] ELSE Observed(f)

Node == [is_current : BOOLEAN, superseded_at : Nat, valid_to : Nat]

\* A row of the node query: the properties and the entity the fact is ABOUT.
Row == [node : Node, entity : Entities \cup {NoEntity}]

NoRow == [missing |-> TRUE]
NoRange == [pending |-> TRUE]
AllTime == [from |-> 0, to |-> Forever]

Writer ==
  [pc : {"facts", "priors", "about", "embed", "index"}, closes : SUBSET (Facts \X Facts),
   chunk : Chunks, i : Nat]

Idle == [pc |-> "idle", closes |-> {}, chunk |-> "none", i |-> 0]

Smaller(a, b) == IF a < b THEN a ELSE b

\* The candidates limited to S.
Only(S) == [f \in S |-> seeds[f]]

\* The results of `SELECT ... ORDER BY cost LIMIT limit` over S: the position of
\* each fact returned; the order among equals is the server's.
Rankings(S, cost, limit) ==
  LET n == Smaller(Cardinality(S), limit) IN
  {r \in UNION {[T -> 1..n] : T \in {U \in SUBSET S : Cardinality(U) = n}} :
     \A f \in DOMAIN r : \A g \in S :
       \/ g = f
       \/ g \in DOMAIN r /\ r[g] # r[f] /\ (r[f] < r[g] => cost[f] <= cost[g])
       \/ g \notin DOMAIN r /\ cost[f] <= cost[g]}

-----------------------------------------------------------------------------
(* The ingestion thread *)

Init ==
  /\ registered = {} /\ nodes = [f \in {} |-> 0] /\ about = {}
  /\ embeddings = {} /\ searchIndex = {} /\ closedBy = {}
  /\ writer = Idle /\ ingested = {}
  /\ pc = "idle" /\ question = "none" /\ bounds = NoRange /\ terms = "pending"
  /\ seeds = [f \in {} |-> 0] /\ found = {} /\ graphIds = {} /\ rows = [f \in {} |-> 0]
  /\ paths = {} /\ top = {} /\ siblings = {} /\ missed = FALSE

\* The plan of a chunk: graph ids for its facts and, for each of them, the
\* current facts of its key that the classifier lets it supersede.
Plan(c) ==
  LET older(f) == {g \in DOMAIN nodes : /\ nodes[g].is_current /\ KeyOf[g] = KeyOf[f]
                                        /\ Observed(g) < Observed(f)}
  IN
  /\ writer.pc = "idle" /\ c \notin ingested
  /\ \E closes \in SUBSET {p \in FactsOf(c) \X DOMAIN nodes : p[2] \in older(p[1])} :
       writer' = [pc |-> "facts", closes |-> closes, chunk |-> c, i |-> 1]
  /\ ingested' = ingested \cup {c}
  /\ registered' = registered \cup FactsOf(c)
  /\ UNCHANGED <<nodes, about, embeddings, searchIndex, closedBy, pc, local>>

\* The chunk's Fact nodes.
WriteFacts ==
  LET new == FactsOf(writer.chunk) IN
  /\ writer.pc = "facts"
  /\ nodes' = [f \in DOMAIN nodes \cup new |->
                 IF f \in new THEN [is_current |-> TRUE, superseded_at |-> Forever, valid_to |-> Forever]
                 ELSE nodes[f]]
  /\ writer' = [writer EXCEPT !.pc = "priors"]
  /\ UNCHANGED <<registered, about, embeddings, searchIndex, closedBy, ingested, pc, local>>

\* Mutant: the superseded facts are left open in the graph.
WritePriorsLate ==
  /\ writer.pc = "priors"
  /\ writer' = [writer EXCEPT !.pc = "about"]
  /\ closedBy' = closedBy \cup writer.closes
  /\ UNCHANGED <<registered, nodes, about, embeddings, searchIndex, ingested, pc, local>>

\* The superseded facts are closed at the new fact's time; a change of state
\* also ends their validity.
WritePriors ==
  LET old == {p[2] : p \in writer.closes} IN
  /\ writer.pc = "priors"
  /\ \E by \in [old -> FactsOf(writer.chunk)], changed \in SUBSET old :
       /\ \A g \in old : <<by[g], g>> \in writer.closes
       /\ nodes' = [g \in DOMAIN nodes |->
            IF g \in old
            THEN [is_current |-> FALSE, superseded_at |-> Observed(by[g]),
                  valid_to |-> IF g \in changed THEN Effective(by[g]) ELSE Forever]
            ELSE nodes[g]]
  /\ closedBy' = closedBy \cup writer.closes
  /\ writer' = [writer EXCEPT !.pc = "about"]
  /\ UNCHANGED <<registered, about, embeddings, searchIndex, ingested, pc, local>>

\* The ABOUT edges, for the facts with a subject.
WriteAbout ==
  /\ writer.pc = "about"
  /\ about' = about \cup {f \in FactsOf(writer.chunk) : EntityOf[f] # NoEntity}
  /\ writer' = IF Drafts[writer.chunk] = <<>> THEN Idle ELSE [writer EXCEPT !.pc = "embed"]
  /\ UNCHANGED <<registered, nodes, embeddings, searchIndex, closedBy, ingested, pc, local>>

\* One candidate's vector, then its text row, candidate by candidate.
PutEmbedding ==
  /\ writer.pc = "embed"
  /\ embeddings' = embeddings \cup {Drafts[writer.chunk][writer.i]}
  /\ writer' = [writer EXCEPT !.pc = "index"]
  /\ UNCHANGED <<registered, nodes, about, searchIndex, closedBy, ingested, pc, local>>

PutSearchIndex ==
  /\ writer.pc = "index"
  /\ searchIndex' = searchIndex \cup {Drafts[writer.chunk][writer.i]}
  /\ writer' = IF writer.i = Len(Drafts[writer.chunk]) THEN Idle
               ELSE [writer EXCEPT !.pc = "embed", !.i = @ + 1]
  /\ UNCHANGED <<registered, nodes, about, embeddings, closedBy, ingested, pc, local>>

\* An exception leaves the chunk where it is; the thread takes the next batch.
Abandon ==
  /\ writer.pc # "idle"
  /\ writer' = Idle
  /\ UNCHANGED <<stores, ingested, pc, local>>

-----------------------------------------------------------------------------
(* Phase 0 and phase 1 *)

Ask(q) ==
  /\ pc = "idle"
  /\ question' = q
  /\ pc' = "resolve"
  /\ UNCHANGED <<ingest, bounds, terms, seeds, found, graphIds, rows, paths, top, siblings, missed>>

\* The temporal resolver and the query rewriter run side by side, and a failed
\* call falls back to all of time or to the question's own words.
Resolve ==
  /\ pc = "resolve" /\ bounds = NoRange
  /\ bounds' \in {[from |-> question.from, to |-> question.to], AllTime}
  /\ pc' = IF terms = "pending" THEN "resolve" ELSE "semantic"
  /\ UNCHANGED <<ingest, question, terms, seeds, found, graphIds, rows, paths, top, siblings, missed>>

Rewrite ==
  /\ pc = "resolve" /\ terms = "pending"
  /\ terms' \in Terms
  /\ pc' = IF bounds = NoRange THEN "resolve" ELSE "semantic"
  /\ UNCHANGED <<ingest, question, bounds, seeds, found, graphIds, rows, paths, top, siblings, missed>>

SeedLimit == IF TopK * OverfetchMultiplier < OverfetchFloor
             THEN OverfetchFloor ELSE TopK * OverfetchMultiplier

\* The nearest vectors.
SearchSemantic ==
  /\ pc = "semantic"
  /\ \E r \in Rankings(embeddings, question.distance, SeedLimit) :
       seeds' = [f \in DOMAIN r |-> [semantic |-> r[f], keyword |-> 0]]
  /\ found' = DOMAIN seeds'
  /\ pc' = "keyword"
  /\ UNCHANGED <<ingest, question, bounds, terms, graphIds, rows, paths, top, siblings, missed>>

\* The text ranks of the facts that match the search terms.
Matches == question.matches[terms]

\* The best text matches, those of rank zero passed over; with no candidate at
\* all there is nothing to expand.
SearchKeyword ==
  LET matches == Matches
      cost == [f \in DOMAIN matches |-> 0 - matches[f]]
  IN
  /\ pc = "keyword"
  /\ \E r \in Rankings(searchIndex \cap DOMAIN matches, cost, SeedLimit) :
       LET hits == {f \in DOMAIN r : matches[f] > 0} IN
       seeds' = [f \in DOMAIN seeds \cup hits |->
                   [semantic |-> IF f \in DOMAIN seeds THEN seeds[f].semantic ELSE 0,
                    keyword |-> IF f \in hits THEN r[f] ELSE 0]]
  /\ found' = DOMAIN seeds'
  /\ pc' = IF found' = {} THEN "score" ELSE "ids"
  /\ UNCHANGED <<ingest, question, bounds, terms, graphIds, rows, paths, top, siblings, missed>>

\* The statements of phase 1 are not guarded: an exception ends the question.
SearchFails ==
  /\ pc \in {"semantic", "keyword"}
  /\ pc' = "error"
  /\ UNCHANGED <<ingest, local>>

-----------------------------------------------------------------------------
(* Phase 2: graph expansion and temporal filtering *)

\* Graph ids come from the registry; if it cannot be read, there are none.
LookUpIds ==
  /\ pc = "ids"
  /\ \/ graphIds' = DOMAIN seeds \cap registered /\ missed' = missed
     \/ graphIds' = {} /\ missed' = TRUE
  /\ pc' = "fetch"
  /\ UNCHANGED <<ingest, question, bounds, terms, seeds, found, rows, paths, top, siblings>>

\* One node at a time, in any order, each with the state of the graph when its
\* own request is served; a failed request leaves the fact without a row.
FetchNode(f) ==
  LET row == [node |-> nodes[f], entity |-> IF f \in about THEN EntityOf[f] ELSE NoEntity]
      put(v) == rows' = [g \in DOMAIN rows \cup {f} |-> IF g = f THEN v ELSE rows[g]]
  IN
  /\ pc = "fetch" /\ f \in graphIds \ DOMAIN rows
  /\ \/ put(IF f \in DOMAIN nodes THEN row ELSE NoRow) /\ missed' = missed
     \/ put(NoRow) /\ missed' = TRUE
  /\ UNCHANGED <<ingest, pc, question, bounds, terms, seeds, found, graphIds, paths, top, siblings>>

\* World validity, knowledge time and the time to live of chat-scoped facts.
Holds(f, node) ==
  /\ ValidFrom[f] <= question.date /\ question.date <= node.valid_to
  /\ Observed(f) <= question.date /\ question.date <= node.superseded_at
  /\ f \in ChatScoped => Observed(f) >= question.date - ChatTTL

\* Mutant: the last second of a fact's time is left out.
FilterStrict ==
  LET kept == {f \in graphIds : /\ rows[f] # NoRow /\ Holds(f, rows[f].node)
                                /\ question.date < rows[f].node.superseded_at} IN
  /\ pc = "fetch" /\ DOMAIN rows = graphIds
  /\ seeds' = Only(kept)
  /\ pc' = IF \E f \in kept : rows[f].entity # NoEntity THEN "paths" ELSE "score"
  /\ UNCHANGED <<ingest, question, bounds, terms, found, graphIds, rows, paths, top, siblings, missed>>

\* The candidates without a row, or whose row does not hold, are pruned.
Filter ==
  LET kept == {f \in graphIds : rows[f] # NoRow /\ Holds(f, rows[f].node)} IN
  /\ pc = "fetch" /\ DOMAIN rows = graphIds
  /\ seeds' = Only(kept)
  /\ pc' = IF \E f \in kept : rows[f].entity # NoEntity THEN "paths" ELSE "score"
  /\ UNCHANGED <<ingest, question, bounds, terms, found, graphIds, rows, paths, top, siblings, missed>>

\* Paths between the entities of the candidates; none if the call fails.
FindPaths ==
  /\ pc = "paths"
  /\ paths' \in PathResults \cup {{}}
  /\ pc' = "score"
  /\ UNCHANGED <<ingest, question, bounds, terms, seeds, found, graphIds, rows, top, siblings, missed>>

-----------------------------------------------------------------------------
(* Phase 3: scoring and synthesis *)

\* The order of the candidates' dictionary: the vector results, then the texts
\* that only the keyword search found.
Before(f, g) ==
  \/ seeds[f].semantic # 0 /\ (seeds[g].semantic = 0 \/ seeds[f].semantic < seeds[g].semantic)
  \/ seeds[f].semantic = 0 /\ seeds[g].semantic = 0 /\ seeds[f].keyword < seeds[g].keyword

\* The position of f in a stable sort of S by score, descending.
Position(f, S, score) ==
  1 + Cardinality({g \in S : score[g] > score[f] \/ (score[g] = score[f] /\ Before(g, f))})

\* The candidates about an entity.
FactsAbout(e) == {f \in DOMAIN seeds : rows[f].entity = e}

\* A path counts once for each of its ends.
PathCount(e) == Cardinality({p \in paths : p.from = e}) + Cardinality({p \in paths : p.to = e})

HopCount(e) == CHOOSE h \in 1..MaxHops :
  /\ \E p \in paths : e \in {p.from, p.to} /\ p.hops = h
  /\ \A p \in paths : e \in {p.from, p.to} => h <= p.hops

\* A common multiple of 1..n, so that the fractions of the scores are whole.
Multiple[n \in Nat] == IF n = 0 THEN 1 ELSE n * Multiple[n - 1]

\* (1 / hops) * min(paths, cap), in units of 1 / Multiple[MaxHops]
Structural(f) ==
  LET e == rows[f].entity IN
  IF e = NoEntity \/ PathCount(e) = 0 THEN 0
  ELSE (Multiple[MaxHops] \div HopCount(e)) * Smaller(PathCount(e), PathCap)

\* The cap shared among the facts of an entity, if the question mentions it.
EntityBoost(f) ==
  LET e == rows[f].entity IN
  IF e \in question.mentions[terms] THEN Multiple[Cardinality(Facts)] \div Cardinality(FactsAbout(e)) ELSE 0

\* The product of RrfK + 1 .. RrfK + n.
Fractions[n \in Nat] == IF n = 0 THEN 1 ELSE (RrfK + n) * Fractions[n - 1]

\* Mutant: absence taken for rank zero.
RrfTermAbsentFirst(rank) == Fractions[Cardinality(Facts)] \div (RrfK + rank)

\* 1 / (k + rank), and nothing from a channel the fact is absent from.
RrfTerm(rank) == IF rank = 0 THEN 0 ELSE Fractions[Cardinality(Facts)] \div (RrfK + rank)

\* The rank in a channel that is not a search: by score, absent if zero.
DerivedRank(f, score) ==
  IF score[f] = 0 THEN 0 ELSE Position(f, {g \in DOMAIN seeds : score[g] > 0}, score)

\* The four ranks of each candidate.
Ranks ==
  LET structural == [f \in DOMAIN seeds |-> Structural(f)]
      boost == [f \in DOMAIN seeds |-> EntityBoost(f)]
  IN [f \in DOMAIN seeds |->
        <<seeds[f].semantic, seeds[f].keyword, DerivedRank(f, structural), DerivedRank(f, boost)>>]

\* Reciprocal rank fusion.
Composite ==
  LET ranks == Ranks IN
  [f \in DOMAIN seeds |-> RrfTerm(ranks[f][1]) + RrfTerm(ranks[f][2])
                          + RrfTerm(ranks[f][3]) + RrfTerm(ranks[f][4])]

\* 1 / (1 + distance) < threshold, for a fact of the vector search
SemanticWeak(f) == seeds[f].semantic = 0 \/ Unit * Unit < Threshold * (Unit + question.distance[f])

\* rank / (1 + rank) < threshold, for a fact of the text search
KeywordWeak(f) == seeds[f].keyword = 0 \/ Unit * Matches[f] < Threshold * (Unit + Matches[f])

Weak(f) == SemanticWeak(f) /\ KeywordWeak(f) /\ Structural(f) = 0

\* The reader's window is the first TopK of the ranking; it is not opened when
\* the first fact is weak.
Score ==
  LET composite == Composite
      place == [f \in DOMAIN seeds |-> Position(f, DOMAIN seeds, composite)]
  IN
  /\ pc = "score"
  /\ \/ /\ \A f \in DOMAIN seeds : place[f] = 1 => Weak(f)
        /\ pc' = "abstained" /\ top' = {}
     \/ /\ \E f \in DOMAIN seeds : place[f] = 1 /\ ~Weak(f)
        /\ pc' = IF SiblingLimit = 0 THEN "read" ELSE "siblings"
        /\ top' = {f \in DOMAIN seeds : place[f] <= TopK}
  /\ UNCHANGED <<ingest, question, bounds, terms, seeds, found, graphIds, rows, paths, siblings, missed>>

\* Semantic continuity: how well fact n of the same turn goes with anchor a, in
\* hundredths, and whether that clears the bar the anchor's own relevance sets.
Continuity(a, n) == Unit * (Unit - question.distance[n]) - ContinuityPenalty * Boundary[<<a, n>>]

Follows(a, n) == Continuity(a, n) > RelevanceRatio * (Unit - question.distance[a])

\* Up to SiblingLimit facts of the turns of the reader's facts, each at its best
\* anchor; none if the statement fails.
AddSiblings ==
  LET anchors(n) == {a \in top \cap embeddings : ChunkOf(a) = ChunkOf(n) /\ Follows(a, n)}
      near == {n \in (embeddings \cap searchIndex) \ top : anchors(n) # {}}
      atLeast(n, m) == \E a \in anchors(n) : \A b \in anchors(m) : Continuity(a, n) >= Continuity(b, m)
  IN
  /\ pc = "siblings"
  /\ \/ /\ siblings' \in SUBSET near
        /\ Cardinality(siblings') = Smaller(Cardinality(near), SiblingLimit)
        /\ \A n \in siblings', m \in near \ siblings' : atLeast(n, m)
     \/ siblings' = {}
  /\ pc' = "read"
  /\ UNCHANGED <<ingest, question, bounds, terms, seeds, found, graphIds, rows, paths, top, missed>>

\* The reader model's answer, or its exception.
Answer ==
  /\ pc = "read"
  /\ pc' \in {"answered", "error"}
  /\ UNCHANGED <<ingest, local>>

-----------------------------------------------------------------------------
(* Specification *)

Ingest ==
  \/ \E c \in Chunks : Plan(c)
  \/ WriteFacts \/ WritePriors \/ WriteAbout \/ PutEmbedding \/ PutSearchIndex \/ Abandon

Retrieve ==
  \/ \E q \in Questions : Ask(q)
  \/ Resolve \/ Rewrite
  \/ SearchSemantic \/ SearchKeyword \/ SearchFails
  \/ LookUpIds
  \/ \E f \in Facts : FetchNode(f)
  \/ Filter \/ FindPaths \/ Score \/ AddSiblings \/ Answer

Next == Ingest \/ Retrieve

Spec == Init /\ [][Next]_vars

-----------------------------------------------------------------------------
(* Properties *)

Stages == {"idle", "resolve", "semantic", "keyword", "ids", "fetch", "paths", "score",
           "siblings", "read", "answered", "abstained", "error"}

\* The stores, the writer and the question have the shape the code gives them;
\* the reader's facts are candidates, and candidates were found.
TypeOK ==
  /\ registered \subseteq Facts /\ about \subseteq Facts
  /\ embeddings \subseteq Facts /\ searchIndex \subseteq Facts
  /\ DOMAIN nodes \subseteq Facts /\ \A f \in DOMAIN nodes : nodes[f] \in Node
  /\ closedBy \subseteq Facts \X Facts
  /\ ingested \subseteq Chunks
  /\ writer \in Writer \cup {Idle}
  /\ writer.pc \in {"embed", "index"} => writer.i \in DOMAIN Drafts[writer.chunk]
  /\ pc \in Stages
  /\ pc # "idle" => question \in Questions
  /\ terms \in Terms \cup {"pending"}
  /\ found \subseteq Facts /\ DOMAIN seeds \subseteq found
  /\ \A f \in DOMAIN seeds : seeds[f] \in [semantic : Nat, keyword : Nat]
  /\ graphIds \subseteq found /\ DOMAIN rows \subseteq graphIds
  /\ \A f \in DOMAIN rows : rows[f] \in Row \cup {NoRow}
  /\ top \subseteq DOMAIN seeds /\ siblings \subseteq Facts \ top
  /\ missed \in BOOLEAN

\* The reader is never shown, as ranked evidence, a fact together with the fact
\* that superseded it before the question's date, though the two are searched
\* and fetched at different times while ingestion writes: a fact can be found
\* only after what it supersedes is closed, and nodes are fetched only after
\* the facts are found.
NoStaleBesideSuccessor ==
  \A g, f \in top : <<g, f>> \in closedBy => Observed(g) >= question.date

\* A fact that a search returned is dropped only if it does not hold at the
\* question's date, or if a read failed: nothing searchable is lost because the
\* registry or the graph is behind the indexes.
FoundIsKept ==
  pc \in {"paths", "score", "siblings", "read", "answered", "abstained"} /\ ~missed =>
    \A f \in found \ DOMAIN seeds : f \in DOMAIN nodes /\ ~Holds(f, nodes[f])

\* Rank a is as good as rank b, absence being the worst.
AsGood(a, b) == b = 0 \/ (a # 0 /\ a <= b)

\* The window of the fused ranking respects the channels: a fact that is as good
\* as one the reader sees in every channel, and better in one, is seen too.
WindowRespectsChannels ==
  LET ranks == Ranks IN
  \A g \in top, f \in DOMAIN seeds :
    /\ \A i \in 1..4 : AsGood(ranks[f][i], ranks[g][i])
    /\ \E i \in 1..4 : ~AsGood(ranks[g][i], ranks[f][i])
    => f \in top

-----------------------------------------------------------------------------
(* What the documents say and the code does not do *)

\* Every fact given to the reader passed the temporal filters: what they pruned
\* does not come back.
PrunedStaysOut == ~missed => siblings \cap (found \ DOMAIN seeds) = {}

\* The answer is withheld if no candidate is similar enough, matches a term or
\* lies on a path.
UnrelatedIsNotAnswered ==
  pc \in {"siblings", "read", "answered"} =>
    \E f \in DOMAIN seeds : \/ seeds[f].semantic # 0 /\ Unit - question.distance[f] >= Threshold
                            \/ ~KeywordWeak(f) \/ Structural(f) # 0
=============================================================================
