-------------------------- MODULE RetrievalProofs --------------------------
(***************************************************************************)
(* Retrieval beside ingestion, for any chunks, facts, questions and limits:*)
(* what a question reads at different times still fits together.           *)
(***************************************************************************)
EXTENDS Retrieval, FiniteSetTheorems, SequenceTheorems, TLAPS

-----------------------------------------------------------------------------
(* The inductive invariants *)

Seeding == {"idle", "resolve", "semantic", "keyword"}
Ranked == {"paths", "score", "siblings", "read", "answered", "abstained"}

\* The order of the phases: what a phase has yet to set is still empty.
InOrder ==
  /\ pc \in {"idle", "resolve", "semantic"} => found = {}
  /\ pc \in Seeding \cup {"ids"} => graphIds = {}
  /\ pc \in Seeding \cup {"ids", "fetch"} => DOMAIN seeds = found
  /\ pc \in Seeding \cup {"ids", "fetch", "paths", "score"} => top = {} /\ siblings = {}
  /\ writer.pc \in {"facts", "priors", "about"} => writer.i = 1

TypeInv == TypeOK /\ InOrder

\* A node that no plan has closed.
Fresh == [is_current |-> TRUE, superseded_at |-> Forever, valid_to |-> Forever]

\* What the writer has done for its chunk, stage by stage: graph ids, nodes and
\* closures all come before the first index entry.
WriterInOrder ==
  writer # Idle =>
    /\ writer.chunk \in ingested /\ FactsOf(writer.chunk) \subseteq registered
    /\ writer.pc = "facts" => FactsOf(writer.chunk) \cap DOMAIN nodes = {}
    /\ writer.pc # "facts" => FactsOf(writer.chunk) \subseteq DOMAIN nodes
    /\ writer.pc \in {"facts", "priors"} =>
         /\ FactsOf(writer.chunk) \cap (embeddings \cup searchIndex) = {}
         /\ \A p \in writer.closes : /\ p[1] \in FactsOf(writer.chunk)
                                     /\ p[2] \in DOMAIN nodes \ FactsOf(writer.chunk)
                                     /\ nodes[p[2]] = Fresh

\* The stores agree: the graph is ahead of the indexes, and a closure written is
\* seen in the node it closed.
StoresAgree ==
  /\ embeddings \cup searchIndex \subseteq registered \cap DOMAIN nodes
  /\ \A f \in DOMAIN nodes : ChunkOf(f) \in ingested
  /\ \A f \in DOMAIN nodes : nodes[f].is_current => nodes[f] = Fresh
  /\ \A p \in closedBy : /\ p[2] \in DOMAIN nodes /\ ~nodes[p[2]].is_current
                         /\ nodes[p[2]].superseded_at = Observed(p[1])

\* The row of f is there and says that f holds.
RowHolds(f) == f \in DOMAIN rows /\ rows[f] # NoRow /\ Holds(f, rows[f].node)

\* The row of f is there and says that f does not hold.
RowFails(f) == f \in DOMAIN rows /\ rows[f] # NoRow /\ ~Holds(f, rows[f].node)

\* A row may be older than the graph, but not older than the facts that were
\* found: it shows the closures they brought.
RowsAgree ==
  \A f \in DOMAIN rows : rows[f] # NoRow =>
    /\ f \in DOMAIN nodes
    /\ rows[f].node \in {nodes[f], Fresh}
    /\ \A g \in found : <<g, f>> \in closedBy => rows[f].node.superseded_at = Observed(g)

\* Unless a read failed, every fact found gets its row, and is pruned by it only.
PrunedFail ==
  ~missed => /\ pc = "fetch" => graphIds = found
             /\ \A f \in DOMAIN rows : rows[f] # NoRow
             /\ pc \in Ranked => \A f \in found \ DOMAIN seeds : RowFails(f)

\* What the filter let pass, and what the reader sees, holds by its row.
KeptHold ==
  /\ pc \in Ranked => \A f \in DOMAIN seeds : RowHolds(f)
  /\ \A f \in top : RowHolds(f)

\* What the question has read, against what the stores hold by now.
ReadsAgree ==
  found \subseteq embeddings \cup searchIndex /\ RowsAgree /\ PrunedFail /\ KeptHold

SafeInv == TypeInv /\ WriterInOrder /\ StoresAgree /\ ReadsAgree

-----------------------------------------------------------------------------
(* Facts and their chunks *)

\* The facts of a chunk are facts, and the chunk is theirs.
LEMMA FactsOfChunk ==
  ASSUME NEW c \in Chunks
  PROVE  FactsOf(c) \subseteq Facts /\ \A f \in FactsOf(c) : ChunkOf(f) = c
  <1>1. FactsOf(c) \subseteq Facts
    BY RetrievalAssumption DEF FactsOf
  <1>2. ASSUME NEW f \in FactsOf(c) PROVE ChunkOf(f) = c
    <2>1. ChunkOf(f) \in Chunks /\ f \in FactsOf(ChunkOf(f))
      BY <1>2 DEF ChunkOf
    <2> QED
      BY <1>2, <2>1, RetrievalAssumption
  <1> QED
    BY <1>1, <1>2

\* Every fact was observed at some time, and took effect at some time.
LEMMA ObservedNat ==
  ASSUME NEW f \in Facts
  PROVE  ChunkOf(f) \in Chunks /\ Observed(f) \in Nat /\ Effective(f) \in Nat
  <1>1. ChunkOf(f) \in Chunks
    BY RetrievalAssumption DEF ChunkOf
  <1>2. Observed(f) \in Nat
    BY <1>1, RetrievalAssumption DEF Observed
  <1> QED
    BY <1>1, <1>2, RetrievalAssumption DEF Effective

\* The candidate at a position of a chunk is one of its facts.
LEMMA DraftIsFact ==
  ASSUME NEW c \in Chunks, NEW i \in DOMAIN Drafts[c]
  PROVE  Drafts[c][i] \in FactsOf(c)
  BY DEF FactsOf

\* The candidate loop stays inside the chunk.
LEMMA NextDraft ==
  ASSUME NEW c \in Chunks
  PROVE  /\ Drafts[c] # <<>> => 1 \in DOMAIN Drafts[c]
         /\ \A i \in DOMAIN Drafts[c] :
              i \in Nat /\ (i # Len(Drafts[c]) => i + 1 \in DOMAIN Drafts[c])
  <1>1. Drafts[c] \in Seq(Facts)
    BY RetrievalAssumption
  <1>2. Len(Drafts[c]) \in Nat /\ DOMAIN Drafts[c] = 1..Len(Drafts[c])
    BY <1>1
  <1>3. Drafts[c] # <<>> => Len(Drafts[c]) # 0
    BY <1>1, EmptySeq
  <1> QED
    BY <1>2, <1>3

\* A search returns some of what it searches, each with a position.
LEMMA RankingsReturn ==
  ASSUME NEW S, S \subseteq Facts, NEW cost, NEW r \in Rankings(S, cost, SeedLimit)
  PROVE  DOMAIN r \subseteq S /\ \A f \in DOMAIN r : r[f] \in Nat
  <1> DEFINE n == Smaller(Cardinality(S), SeedLimit)
  <1>1. Cardinality(S) \in Nat
    BY FS_Subset, FS_CardinalityType, RetrievalAssumption
  <1>2. SeedLimit \in Nat
    BY RetrievalAssumption DEF SeedLimit
  <1>3. n \in Nat
    BY <1>1, <1>2 DEF Smaller
  <1> HIDE DEF n
  <1>4. PICK T \in SUBSET S : r \in [T -> 1..n]
    BY Zenon DEF Rankings, n
  <1> QED
    BY <1>3, <1>4

-----------------------------------------------------------------------------
(* Type correctness *)

\* The first state is typed.
LEMMA TypeInit == Init => TypeInv
  <1> SUFFICES ASSUME Init PROVE TypeInv
    OBVIOUS
  <1>1. DOMAIN nodes = {} /\ DOMAIN seeds = {} /\ DOMAIN rows = {}
    BY DEF Init
  <1>2. writer \in Writer \cup {Idle} /\ writer.pc = "idle"
    BY DEF Init, Idle
  <1>3. TypeOK
    BY <1>1, <1>2, Zenon DEF Init, TypeOK, Stages
  <1>4. InOrder
    BY <1>1, <1>2 DEF Init, InOrder
  <1> QED
    BY <1>3, <1>4 DEF TypeInv

\* A step of the ingestion thread leaves the stores typed and the question alone.
LEMMA TypeIngest == TypeInv /\ Ingest => TypeInv'
  <1> SUFFICES ASSUME TypeInv, Ingest PROVE TypeInv'
    OBVIOUS
  <1> USE DEF TypeInv, TypeOK, InOrder, ingest, stores, local
  <1>1. ASSUME NEW c \in Chunks, Plan(c) PROVE TypeInv'
    <2>1. FactsOf(c) \subseteq Facts
      BY FactsOfChunk
    <2>2. writer' \in Writer /\ writer'.pc = "facts" /\ writer'.i = 1
      BY <1>1, <2>1 DEF Plan, Writer
    <2> QED
      BY <1>1, <2>1, <2>2 DEF Plan
  <1>2. CASE WriteFacts
    <2>1. writer \in Writer
      BY <1>2 DEF WriteFacts, Idle
    <2>2. FactsOf(writer.chunk) \subseteq Facts
      BY <2>1, FactsOfChunk DEF Writer
    <2>3. writer' \in Writer /\ writer'.pc = "priors" /\ writer'.i = writer.i
      BY <1>2, <2>1 DEF WriteFacts, Writer
    <2>4. [is_current |-> TRUE, superseded_at |-> Forever, valid_to |-> Forever] \in Node
      BY RetrievalAssumption DEF Node
    <2>5. DOMAIN nodes' \subseteq Facts /\ \A f \in DOMAIN nodes' : nodes'[f] \in Node
      BY <1>2, <2>2, <2>4 DEF WriteFacts
    <2> QED
      BY <1>2, <2>3, <2>5, Zenon DEF WriteFacts
  <1>3. CASE WritePriors
    <2>1. writer \in Writer
      BY <1>3 DEF WritePriors, Idle
    <2>2. FactsOf(writer.chunk) \subseteq Facts
      BY <2>1, FactsOfChunk DEF Writer
    <2>3. writer' \in Writer /\ writer'.pc = "about" /\ writer'.i = writer.i
      BY <1>3, <2>1 DEF WritePriors, Writer
    <2>4. DOMAIN nodes' = DOMAIN nodes /\ \A f \in DOMAIN nodes' : nodes'[f] \in Node
      <3> DEFINE old == {p[2] : p \in writer.closes}
      <3>1. PICK by \in [old -> FactsOf(writer.chunk)], changed \in SUBSET old :
              nodes' = [g \in DOMAIN nodes |->
                IF g \in old
                THEN [is_current |-> FALSE, superseded_at |-> Observed(by[g]),
                      valid_to |-> IF g \in changed THEN Effective(by[g]) ELSE Forever]
                ELSE nodes[g]]
        BY <1>3, Zenon DEF WritePriors
      <3>2. \A g \in old : Observed(by[g]) \in Nat /\ Effective(by[g]) \in Nat
        BY <2>2, ObservedNat
      <3> HIDE DEF old
      <3>3. Forever \in Nat
        BY RetrievalAssumption
      <3> QED
        BY <3>1, <3>2, <3>3 DEF Node
    <2>5. closedBy' \subseteq Facts \X Facts
      BY <1>3, <2>1 DEF WritePriors, Writer
    <2> QED
      BY <1>3, <2>3, <2>4, <2>5 DEF WritePriors
  <1>4. CASE WriteAbout
    <2>1. writer \in Writer
      BY <1>4 DEF WriteAbout, Idle
    <2>2. FactsOf(writer.chunk) \subseteq Facts
      BY <2>1, FactsOfChunk DEF Writer
    <2>3. writer' = Idle \/ (writer' \in Writer /\ writer'.pc = "embed"
                             /\ writer'.i \in DOMAIN Drafts[writer'.chunk])
      BY <1>4, <2>1, NextDraft DEF WriteAbout, Writer
    <2> QED
      BY <1>4, <2>2, <2>3 DEF WriteAbout, Idle
  <1>5. CASE PutEmbedding
    <2>1. writer \in Writer
      BY <1>5 DEF PutEmbedding, Idle
    <2>2. Drafts[writer.chunk][writer.i] \in Facts
      BY <1>5, <2>1, DraftIsFact, FactsOfChunk, Zenon DEF PutEmbedding, Writer
    <2>3. writer' \in Writer /\ writer'.pc = "index" /\ writer'.i \in DOMAIN Drafts[writer'.chunk]
      BY <1>5, <2>1, Zenon DEF PutEmbedding, Writer
    <2> QED
      BY <1>5, <2>2, <2>3 DEF PutEmbedding
  <1>6. CASE PutSearchIndex
    <2>1. writer \in Writer
      BY <1>6 DEF PutSearchIndex, Idle
    <2>2. Drafts[writer.chunk][writer.i] \in Facts
      BY <1>6, <2>1, DraftIsFact, FactsOfChunk DEF PutSearchIndex, Writer
    <2>3. writer' = Idle \/ (writer' \in Writer /\ writer'.pc = "embed"
                             /\ writer'.i \in DOMAIN Drafts[writer'.chunk])
      BY <1>6, <2>1, NextDraft, Zenon DEF PutSearchIndex, Writer
    <2> QED
      BY <1>6, <2>2, <2>3 DEF PutSearchIndex, Idle
  <1>7. CASE Abandon
    BY <1>7 DEF Abandon, Idle
  <1> QED
    BY <1>1, <1>2, <1>3, <1>4, <1>5, <1>6, <1>7, Zenon DEF Ingest

\* A step of the question leaves it typed and the stores alone.
LEMMA TypeRetrieve == TypeInv /\ Retrieve => TypeInv'
  <1> SUFFICES ASSUME TypeInv, Retrieve PROVE TypeInv'
    OBVIOUS
  <1> USE DEF TypeInv, TypeOK, InOrder, Seeding, Stages, ingest, stores, local
  <1>1. ASSUME NEW q \in Questions, Ask(q) PROVE TypeInv'
    BY <1>1 DEF Ask
  <1>2. CASE Resolve
    BY <1>2 DEF Resolve
  <1>3. CASE Rewrite
    BY <1>3, Zenon DEF Rewrite
  <1>4. CASE SearchSemantic
    <2>1. PICK r \in Rankings(embeddings, question.distance, SeedLimit) :
            seeds' = [f \in DOMAIN r |-> [semantic |-> r[f], keyword |-> 0]]
      BY <1>4 DEF SearchSemantic
    <2>2. DOMAIN r \subseteq embeddings /\ \A f \in DOMAIN r : r[f] \in Nat
      BY RankingsReturn, Zenon
    <2>3. DOMAIN seeds' \subseteq Facts
      BY <2>1, <2>2
    <2>4. \A f \in DOMAIN seeds' : seeds'[f] \in [semantic : Nat, keyword : Nat]
      BY <2>1, <2>2, Zenon
    <2> QED
      BY <1>4, <2>3, <2>4, Zenon DEF SearchSemantic
  <1>5. CASE SearchKeyword
    <2> DEFINE S == searchIndex \cap DOMAIN Matches
               cost == [f \in DOMAIN Matches |-> 0 - Matches[f]]
    <2>1. PICK r \in Rankings(S, cost, SeedLimit) :
            LET hits == {f \in DOMAIN r : Matches[f] > 0} IN
            seeds' = [f \in DOMAIN seeds \cup hits |->
                        [semantic |-> IF f \in DOMAIN seeds THEN seeds[f].semantic ELSE 0,
                         keyword |-> IF f \in hits THEN r[f] ELSE 0]]
      BY <1>5, Zenon DEF SearchKeyword
    <2>2. DOMAIN r \subseteq S /\ \A f \in DOMAIN r : r[f] \in Nat
      BY RankingsReturn, Zenon
    <2>3. DOMAIN seeds' \subseteq Facts
      BY <2>1, <2>2
    <2>4. \A f \in DOMAIN seeds' : seeds'[f] \in [semantic : Nat, keyword : Nat]
      BY <2>1, <2>2
    <2> QED
      BY <1>5, <2>3, <2>4 DEF SearchKeyword
  <1>6. CASE SearchFails
    BY <1>6 DEF SearchFails
  <1>7. CASE LookUpIds
    BY <1>7, Zenon DEF LookUpIds
  <1>8. ASSUME NEW f \in Facts, FetchNode(f) PROVE TypeInv'
    <2>1. f \in DOMAIN nodes =>
            [node |-> nodes[f], entity |-> IF f \in about THEN EntityOf[f] ELSE NoEntity] \in Row
      BY RetrievalAssumption DEF Row
    <2>2. DOMAIN rows' = DOMAIN rows \cup {f}
      BY <1>8, Zenon DEF FetchNode
    <2>3. \A g \in DOMAIN rows' : rows'[g] \in Row \cup {NoRow}
      BY <1>8, <2>1 DEF FetchNode
    <2> QED
      BY <1>8, <2>2, <2>3, Zenon DEF FetchNode
  <1>9. CASE Filter
    BY <1>9, Zenon DEF Filter, Only
  <1>10. CASE FindPaths
    BY <1>10, Zenon DEF FindPaths
  <1>11. CASE Score
    <2>1. top' \subseteq DOMAIN seeds /\ pc' \in {"abstained", "read", "siblings"}
      BY <1>11, Zenon DEF Score
    <2> QED
      BY <1>11, <2>1 DEF Score
  <1>12. CASE AddSiblings
    <2>1. siblings' \subseteq Facts \ top
      BY <1>12, Zenon DEF AddSiblings
    <2> QED
      BY <1>12, <2>1 DEF AddSiblings
  <1>13. CASE Answer
    BY <1>13 DEF Answer
  <1> QED
    BY <1>1, <1>2, <1>3, <1>4, <1>5, <1>6, <1>7, <1>8, <1>9, <1>10, <1>11, <1>12, <1>13, Zenon
       DEF Retrieve

\* Every step leaves the state typed.
LEMMA TypeNext == TypeInv /\ [Next]_vars => TypeInv'
  <1>1. TypeInv /\ UNCHANGED vars => TypeInv'
    BY DEF TypeInv, TypeOK, InOrder, vars, ingest, stores, local
  <1> QED
    BY <1>1, TypeIngest, TypeRetrieve, Zenon DEF Next

\* Stores, writer and question keep the shape the code gives them, and the
\* candidate loop of the ingestion thread never leaves its chunk's facts.
THEOREM RetrievalTyped == Spec => []TypeOK
  <1>1. Spec => []TypeInv
    BY TypeInit, TypeNext, PTL DEF Spec
  <1>2. TypeInv => TypeOK
    BY DEF TypeInv
  <1> QED
    BY <1>1, <1>2, PTL

-----------------------------------------------------------------------------
(* The stores *)

\* The first state satisfies the invariant.
LEMMA SafeInit == Init => SafeInv
  <1> SUFFICES ASSUME Init PROVE SafeInv
    OBVIOUS
  <1>1. DOMAIN nodes = {} /\ DOMAIN seeds = {} /\ DOMAIN rows = {}
    BY DEF Init
  <1>2. WriterInOrder /\ StoresAgree
    BY <1>1 DEF Init, WriterInOrder, StoresAgree
  <1>3. ReadsAgree
    BY <1>1, Zenon DEF Init, ReadsAgree, RowsAgree, PrunedFail, KeptHold, Ranked
  <1> QED
    BY <1>2, <1>3, TypeInit, Zenon DEF SafeInv

\* A plan starts with facts that no store knows, to close facts that are open.
LEMMA PlanSafe ==
  ASSUME SafeInv, NEW c \in Chunks, Plan(c)
  PROVE  WriterInOrder' /\ StoresAgree'
  <1> USE DEF SafeInv, TypeInv, TypeOK, StoresAgree
  <1>1. FactsOf(c) \cap DOMAIN nodes = {}
    BY FactsOfChunk DEF Plan
  <1>2. /\ writer'.pc = "facts" /\ writer'.chunk = c
        /\ \A p \in writer'.closes : /\ p[1] \in FactsOf(c) /\ p[2] \in DOMAIN nodes
                                     /\ nodes[p[2]].is_current
    BY DEF Plan
  <1>3. WriterInOrder'
    BY <1>1, <1>2, Zenon DEF Plan, WriterInOrder
  <1>4. StoresAgree'
    BY Zenon DEF Plan
  <1> QED
    BY <1>3, <1>4, Zenon

\* The new nodes are open and those of other chunks stay as they are.
LEMMA WriteFactsSafe ==
  ASSUME SafeInv, WriteFacts
  PROVE  /\ WriterInOrder' /\ StoresAgree'
         /\ \A f \in DOMAIN nodes : f \in DOMAIN nodes' /\ nodes'[f] = nodes[f]
  <1> USE DEF SafeInv, TypeInv, TypeOK
  <1>1. writer \in Writer /\ writer # Idle
    BY DEF WriteFacts, Idle
  <1>2. /\ writer' = [writer EXCEPT !.pc = "priors"] /\ writer'.pc = "priors"
        /\ writer'.chunk = writer.chunk /\ writer'.closes = writer.closes
    BY <1>1 DEF WriteFacts, Writer
  <1>3. /\ DOMAIN nodes' = DOMAIN nodes \cup FactsOf(writer.chunk)
        /\ \A f \in FactsOf(writer.chunk) : nodes'[f] = Fresh
        /\ \A f \in DOMAIN nodes : nodes'[f] = nodes[f]
    BY <1>1 DEF WriteFacts, WriterInOrder, Fresh
  <1>4. WriterInOrder'
    BY <1>1, <1>2, <1>3, Zenon DEF WriteFacts, WriterInOrder
  <1>5. \A f \in FactsOf(writer.chunk) : ChunkOf(f) \in ingested
    BY <1>1, FactsOfChunk DEF Writer, WriterInOrder
  <1>6. StoresAgree'
    BY <1>3, <1>5, Zenon DEF WriteFacts, StoresAgree
  <1> QED
    BY <1>3, <1>4, <1>6

\* The nodes of the closed facts, and no other, change; they were open, and are
\* closed at the time of the fact that closes them.
LEMMA WritePriorsSafe ==
  ASSUME SafeInv, WritePriors
  PROVE  /\ WriterInOrder' /\ StoresAgree'
         /\ \A f \in DOMAIN nodes : f \in DOMAIN nodes' /\ nodes[f] \in {nodes'[f], Fresh}
         /\ \A p \in closedBy' \ closedBy : p[1] \notin embeddings \cup searchIndex
  <1> USE DEF SafeInv, TypeInv, TypeOK
  <1> DEFINE old == {p[2] : p \in writer.closes}
  <1>1. writer \in Writer /\ writer # Idle
    BY DEF WritePriors, Idle
  <1>2. writer'.pc = "about" /\ writer'.chunk = writer.chunk
    BY <1>1 DEF WritePriors, Writer
  <1>3. \A p \in writer.closes : /\ p[1] \in FactsOf(writer.chunk) /\ p[2] \in DOMAIN nodes
                                 /\ nodes[p[2]] = Fresh
    BY <1>1 DEF WritePriors, WriterInOrder
  <1>4. PICK by \in [old -> FactsOf(writer.chunk)], changed \in SUBSET old :
          nodes' = [g \in DOMAIN nodes |->
            IF g \in old
            THEN [is_current |-> FALSE, superseded_at |-> Observed(by[g]),
                  valid_to |-> IF g \in changed THEN Effective(by[g]) ELSE Forever]
            ELSE nodes[g]]
    BY Zenon DEF WritePriors
  <1>5. \A f \in FactsOf(writer.chunk) : Observed(f) = ObservedAt[writer.chunk]
    BY <1>1, FactsOfChunk, Zenon DEF Writer, Observed
  <1>6. DOMAIN nodes' = DOMAIN nodes
    BY <1>4, Zenon
  <1>7. \A f \in DOMAIN nodes \ old : nodes'[f] = nodes[f]
    BY <1>4, Zenon
  <1>8. \A p \in writer.closes : /\ ~nodes'[p[2]].is_current
                                 /\ nodes'[p[2]].superseded_at = Observed(p[1])
    <2> TAKE p \in writer.closes
    <2>1. p[2] \in old /\ p[2] \in DOMAIN nodes /\ p[1] \in FactsOf(writer.chunk)
      BY <1>3, Zenon
    <2>2. by[p[2]] \in FactsOf(writer.chunk)
      BY <2>1, Zenon
    <2> HIDE DEF old
    <2>3. /\ nodes'[p[2]].is_current = FALSE
          /\ nodes'[p[2]].superseded_at = Observed(by[p[2]])
      BY <1>4, <2>1, Zenon
    <2> QED
      BY <1>5, <2>1, <2>2, <2>3, Zenon
  <1>9. \A f \in old : nodes[f] = Fresh /\ ~nodes'[f].is_current
    BY <1>3, <1>8
  <1>10. WriterInOrder'
    BY <1>1, <1>2, <1>6 DEF WritePriors, WriterInOrder
  <1>11. StoresAgree'
    <2>1. \A f \in DOMAIN nodes' : nodes'[f].is_current => nodes'[f] = Fresh
      BY <1>6, <1>7, <1>9, Zenon DEF StoresAgree
    <2>2. ASSUME NEW p \in closedBy
          PROVE  /\ p[2] \in DOMAIN nodes' /\ ~nodes'[p[2]].is_current
                 /\ nodes'[p[2]].superseded_at = Observed(p[1])
      <3>1. p[2] \in DOMAIN nodes /\ p[2] \notin old
        BY <1>9 DEF StoresAgree, Fresh
      <3> QED
        BY <1>6, <1>7, <3>1, Zenon DEF StoresAgree
    <2>3. closedBy' = closedBy \cup writer.closes
      BY Zenon DEF WritePriors
    <2>4. \A p \in closedBy' : /\ p[2] \in DOMAIN nodes' /\ ~nodes'[p[2]].is_current
                               /\ nodes'[p[2]].superseded_at = Observed(p[1])
      BY <1>3, <1>6, <1>8, <2>2, <2>3, Zenon
    <2> QED
      BY <1>6, <2>1, <2>4, Zenon DEF WritePriors, StoresAgree
  <1>12. \A f \in DOMAIN nodes : f \in DOMAIN nodes' /\ nodes[f] \in {nodes'[f], Fresh}
    BY <1>6, <1>7, <1>9
  <1>13. \A p \in closedBy' \ closedBy : p[1] \notin embeddings \cup searchIndex
    BY <1>1, <1>3, Zenon DEF WritePriors, WriterInOrder
  <1> QED
    BY <1>10, <1>11, <1>12, <1>13, Zenon

\* The steps that close nothing: ABOUT edges, index entries of facts whose nodes
\* are written, and giving up.
LEMMA IndexSafe ==
  ASSUME SafeInv, WriteAbout \/ PutEmbedding \/ PutSearchIndex \/ Abandon
  PROVE  /\ WriterInOrder' /\ StoresAgree'
         /\ nodes' = nodes /\ closedBy' = closedBy
         /\ embeddings \subseteq embeddings' /\ searchIndex \subseteq searchIndex'
  <1> USE DEF SafeInv, TypeInv, TypeOK
  <1>1. CASE Abandon
    BY <1>1, Zenon DEF Abandon, stores, WriterInOrder, StoresAgree
  <1>2. CASE WriteAbout
    <2>1. writer \in Writer /\ writer # Idle
      BY <1>2 DEF WriteAbout, Idle
    <2>2. writer' = Idle \/ (writer'.pc = "embed" /\ writer'.chunk = writer.chunk)
      BY <1>2, <2>1 DEF WriteAbout, Writer
    <2>3. WriterInOrder'
      BY <1>2, <2>1, <2>2 DEF WriteAbout, WriterInOrder
    <2> QED
      BY <1>2, <2>3 DEF WriteAbout, StoresAgree
  <1>3. CASE PutEmbedding
    <2>1. writer \in Writer /\ writer # Idle
      BY <1>3 DEF PutEmbedding, Idle
    <2>2. writer'.pc = "index" /\ writer'.chunk = writer.chunk
      BY <1>3, <2>1 DEF PutEmbedding, Writer
    <2>3. Drafts[writer.chunk][writer.i] \in registered \cap DOMAIN nodes
      BY <1>3, <2>1, DraftIsFact DEF PutEmbedding, Writer, WriterInOrder
    <2>4. WriterInOrder'
      BY <1>3, <2>1, <2>2 DEF PutEmbedding, WriterInOrder
    <2> QED
      BY <1>3, <2>3, <2>4 DEF PutEmbedding, StoresAgree
  <1>4. CASE PutSearchIndex
    <2>1. writer \in Writer /\ writer # Idle
      BY <1>4 DEF PutSearchIndex, Idle
    <2>2. writer' = Idle \/ (writer'.pc = "embed" /\ writer'.chunk = writer.chunk)
      BY <1>4, <2>1 DEF PutSearchIndex, Writer
    <2>3. Drafts[writer.chunk][writer.i] \in registered \cap DOMAIN nodes
      BY <1>4, <2>1, DraftIsFact DEF PutSearchIndex, Writer, WriterInOrder
    <2>4. WriterInOrder'
      BY <1>4, <2>1, <2>2 DEF PutSearchIndex, WriterInOrder
    <2> QED
      BY <1>4, <2>3, <2>4 DEF PutSearchIndex, StoresAgree
  <1> QED
    BY <1>1, <1>2, <1>3, <1>4, Zenon

\* What was read stays in agreement while nodes are only added or closed, and
\* only by facts that cannot have been found.
LEMMA ReadsStay ==
  ASSUME SafeInv, UNCHANGED <<pc, local>>,
         embeddings \subseteq embeddings', searchIndex \subseteq searchIndex',
         \A f \in DOMAIN nodes : f \in DOMAIN nodes' /\ nodes[f] \in {nodes'[f], Fresh},
         \A p \in closedBy' \ closedBy : p[1] \notin embeddings \cup searchIndex
  PROVE  ReadsAgree'
  <1>1. ReadsAgree
    BY Zenon DEF SafeInv
  <1>2. UNCHANGED <<pc, question, seeds, found, graphIds, rows, top, missed>>
    BY Zenon DEF local
  <1>3. (found \subseteq embeddings \cup searchIndex)'
    BY <1>1, <1>2 DEF ReadsAgree
  <1>4. RowsAgree'
    <2> SUFFICES ASSUME NEW f \in DOMAIN rows, rows[f] # NoRow
        PROVE  /\ f \in DOMAIN nodes' /\ rows[f].node \in {nodes'[f], Fresh}
               /\ \A g \in found : <<g, f>> \in closedBy' => rows[f].node.superseded_at = Observed(g)
      BY <1>2, Zenon DEF RowsAgree, Fresh, Observed, ChunkOf, FactsOf
    <2>1. /\ f \in DOMAIN nodes /\ rows[f].node \in {nodes[f], Fresh}
          /\ \A g \in found : <<g, f>> \in closedBy => rows[f].node.superseded_at = Observed(g)
      BY <1>1, Zenon DEF ReadsAgree, RowsAgree
    <2>2. ASSUME NEW g \in found, <<g, f>> \in closedBy' PROVE <<g, f>> \in closedBy
      BY <1>1, <2>2 DEF ReadsAgree
    <2>3. f \in DOMAIN nodes' /\ rows[f].node \in {nodes'[f], Fresh}
      BY <2>1, Zenon
    <2> QED
      BY <2>1, <2>2, <2>3, Zenon
  <1>5. PrunedFail' /\ KeptHold'
    BY <1>1, <1>2, Zenon DEF ReadsAgree, PrunedFail, KeptHold, RowHolds, RowFails, Holds
  <1> QED
    BY <1>3, <1>4, <1>5, Zenon DEF ReadsAgree

\* A step of the ingestion thread keeps the invariant.
LEMMA SafeIngest == SafeInv /\ Ingest => SafeInv'
  <1> SUFFICES ASSUME SafeInv, Ingest PROVE SafeInv'
    OBVIOUS
  <1>1. TypeInv'
    BY TypeIngest DEF SafeInv
  <1>2. ASSUME NEW c \in Chunks, Plan(c) PROVE SafeInv'
    <2>1. ReadsAgree'
      BY <1>2, ReadsStay DEF Plan
    <2> QED
      BY <1>1, <1>2, <2>1, PlanSafe, Zenon DEF SafeInv
  <1>3. CASE WriteFacts
    <2>1. ReadsAgree'
      BY <1>3, ReadsStay, WriteFactsSafe, Zenon DEF WriteFacts
    <2> QED
      BY <1>1, <1>3, <2>1, WriteFactsSafe DEF SafeInv
  <1>4. CASE WritePriors
    <2>1. ReadsAgree'
      BY <1>4, ReadsStay, WritePriorsSafe, Zenon DEF WritePriors
    <2> QED
      BY <1>1, <1>4, <2>1, WritePriorsSafe DEF SafeInv
  <1>5. CASE WriteAbout \/ PutEmbedding \/ PutSearchIndex \/ Abandon
    <2>1. UNCHANGED <<pc, local>>
      BY <1>5 DEF WriteAbout, PutEmbedding, PutSearchIndex, Abandon
    <2>2. ReadsAgree'
      BY <1>5, <2>1, ReadsStay, IndexSafe
    <2> QED
      BY <1>1, <1>5, <2>2, IndexSafe DEF SafeInv
  <1> QED
    BY <1>2, <1>3, <1>4, <1>5 DEF Ingest

-----------------------------------------------------------------------------
(* The question *)

\* A row that was returned is told apart from a missing one.
LEMMA RowIsNotMissing ==
  ASSUME NEW n, NEW e
  PROVE  [node |-> n, entity |-> e] # NoRow
  <1>1. "node" \in DOMAIN [node |-> n, entity |-> e] /\ "node" \notin DOMAIN NoRow
    BY DEF NoRow
  <1> QED
    BY <1>1

\* The step of a search, by what it finds: facts of the indexes, with no row yet.
LEMMA SearchReads ==
  ASSUME SafeInv, pc \in {"semantic", "keyword"}, UNCHANGED <<ingest, rows, top, missed, question>>,
         DOMAIN seeds' = found', found' \subseteq embeddings \cup searchIndex,
         pc' \in {"keyword", "ids"} \/ (pc' = "score" /\ found' = {})
  PROVE  ReadsAgree'
  <1>1. DOMAIN rows' = {} /\ top' = {}
    BY Zenon DEF SafeInv, TypeInv, TypeOK, InOrder, Seeding
  <1>2. (found \subseteq embeddings \cup searchIndex)'
    BY DEF ingest, stores
  <1>3. pc' \in Ranked => DOMAIN seeds' = {} /\ found' = {}
    BY DEF Ranked
  <1>4. pc' # "fetch"
    OBVIOUS
  <1> QED
    BY <1>1, <1>2, <1>3, <1>4, Zenon DEF ReadsAgree, RowsAgree, PrunedFail, KeptHold

\* The steps that read no graph, by what they leave alone.
LEMMA OtherReads ==
  ASSUME SafeInv, UNCHANGED ingest, UNCHANGED <<question, seeds, found, graphIds, rows, missed>>,
         pc' # "fetch", pc' \in Ranked => pc \in Ranked,
         top' = top \/ (pc \in Ranked /\ top' \subseteq DOMAIN seeds)
  PROVE  ReadsAgree'
  <1>1. ReadsAgree
    BY DEF SafeInv
  <1>2. UNCHANGED <<nodes, embeddings, searchIndex, closedBy>>
    BY DEF ingest, stores
  <1>3. (found \subseteq embeddings \cup searchIndex)' /\ RowsAgree'
    BY <1>1, <1>2, Zenon DEF ReadsAgree, RowsAgree, Fresh, Observed, ChunkOf, FactsOf
  <1>4. \A f : RowHolds(f)' = RowHolds(f) /\ RowFails(f)' = RowFails(f)
    BY Zenon DEF RowHolds, RowFails, Holds
  <1>5. PrunedFail' /\ KeptHold'
    BY <1>1, <1>4, Zenon DEF ReadsAgree, PrunedFail, KeptHold
  <1> QED
    BY <1>3, <1>5, Zenon DEF ReadsAgree

\* A row read now agrees with the graph, and with all that was found before.
LEMMA FetchReads ==
  ASSUME SafeInv, NEW f \in Facts, FetchNode(f)
  PROVE  ReadsAgree'
  <1>1. ReadsAgree /\ StoresAgree
    BY DEF SafeInv
  <1>2. /\ UNCHANGED <<registered, nodes, embeddings, searchIndex, closedBy>>
        /\ UNCHANGED <<question, seeds, found, graphIds, top>>
        /\ pc = "fetch" /\ pc' = "fetch" /\ f \in graphIds /\ f \notin DOMAIN rows
    BY Zenon DEF FetchNode, ingest, stores
  <1>3. f \in found /\ top = {}
    BY <1>2, Zenon DEF SafeInv, TypeInv, TypeOK, InOrder
  <1>4. f \in DOMAIN nodes
    BY <1>1, <1>3, Zenon DEF ReadsAgree, StoresAgree
  <1>5. /\ DOMAIN rows' = DOMAIN rows \cup {f}
        /\ \A g \in DOMAIN rows : rows'[g] = rows[g]
        /\ rows'[f] # NoRow => rows'[f].node = nodes[f]
        /\ ~missed' => ~missed /\ rows'[f] # NoRow
    <2> DEFINE row == [node |-> nodes[f], entity |-> IF f \in about THEN EntityOf[f] ELSE NoEntity]
    <2>1. row # NoRow /\ row.node = nodes[f]
      BY RowIsNotMissing, Zenon
    <2>2. \/ rows' = [g \in DOMAIN rows \cup {f} |-> IF g = f THEN row ELSE rows[g]] /\ missed' = missed
          \/ rows' = [g \in DOMAIN rows \cup {f} |-> IF g = f THEN NoRow ELSE rows[g]] /\ missed' = TRUE
      BY <1>4, Zenon DEF FetchNode
    <2> HIDE DEF row
    <2> QED
      BY <1>2, <2>1, <2>2
  <1>6. \A g \in found : <<g, f>> \in closedBy => nodes[f].superseded_at = Observed(g)
    BY <1>1, Zenon DEF StoresAgree
  <1>7. RowsAgree'
    <2> SUFFICES ASSUME NEW h \in DOMAIN rows', rows'[h] # NoRow
        PROVE  /\ h \in DOMAIN nodes /\ rows'[h].node \in {nodes[h], Fresh}
               /\ \A g \in found : <<g, h>> \in closedBy => rows'[h].node.superseded_at = Observed(g)
      BY <1>2, Zenon DEF RowsAgree, Fresh, Observed, ChunkOf, FactsOf
    <2>1. CASE h = f
      BY <1>4, <1>5, <1>6, <2>1, Zenon
    <2>2. CASE h \in DOMAIN rows
      BY <1>1, <1>5, <2>2, Zenon DEF ReadsAgree, RowsAgree
    <2> QED
      BY <1>5, <2>1, <2>2
  <1>8. PrunedFail'
    BY <1>1, <1>2, <1>5 DEF ReadsAgree, PrunedFail, Ranked
  <1>9. KeptHold'
    BY <1>2, <1>3 DEF KeptHold, Ranked
  <1> QED
    BY <1>1, <1>2, <1>7, <1>8, <1>9 DEF ReadsAgree

\* The filter keeps the facts that hold by their rows, and no others.
LEMMA FilterReads ==
  ASSUME SafeInv, Filter
  PROVE  ReadsAgree'
  <1>1. ReadsAgree
    BY Zenon DEF SafeInv
  <1>2. /\ UNCHANGED <<nodes, embeddings, searchIndex, closedBy>>
        /\ UNCHANGED <<question, found, graphIds, rows, top, missed>>
        /\ pc = "fetch" /\ pc' # "fetch" /\ DOMAIN rows = graphIds
        /\ DOMAIN seeds' = {f \in graphIds : rows[f] # NoRow /\ Holds(f, rows[f].node)}
    BY Zenon DEF Filter, Only, ingest, stores
  <1>3. top' = {}
    BY <1>2, Zenon DEF SafeInv, TypeInv, InOrder
  <1>4. (found \subseteq embeddings \cup searchIndex)' /\ RowsAgree'
    BY <1>1, <1>2, Zenon DEF ReadsAgree, RowsAgree, Fresh, Observed, ChunkOf, FactsOf
  <1>5. \A f : RowHolds(f)' = RowHolds(f) /\ RowFails(f)' = RowFails(f)
    BY <1>2, Zenon DEF RowHolds, RowFails, Holds
  <1>6. \A f \in DOMAIN seeds' : RowHolds(f)
    BY <1>2, Zenon DEF RowHolds
  <1>7. ~missed => /\ \A f \in DOMAIN rows : rows[f] # NoRow
                   /\ \A f \in found \ DOMAIN seeds' : RowFails(f)
    BY <1>1, <1>2, Zenon DEF RowFails, ReadsAgree, PrunedFail
  <1>8. PrunedFail'
    BY <1>2, <1>5, <1>7, Zenon DEF PrunedFail
  <1>9. KeptHold'
    BY <1>3, <1>5, <1>6, Zenon DEF KeptHold
  <1> QED
    BY <1>4, <1>8, <1>9, Zenon DEF ReadsAgree

\* A step of the question keeps what it read in agreement with the stores.
LEMMA SafeRetrieve == SafeInv /\ Retrieve => SafeInv'
  <1> SUFFICES ASSUME SafeInv, Retrieve PROVE SafeInv'
    OBVIOUS
  <1>1. TypeInv'
    BY TypeRetrieve DEF SafeInv
  <1>2. UNCHANGED ingest
    BY Zenon DEF Retrieve, Ask, Resolve, Rewrite, SearchSemantic, SearchKeyword, SearchFails,
           LookUpIds, FetchNode, Filter, FindPaths, Score, AddSiblings, Answer
  <1>3. WriterInOrder' /\ StoresAgree'
    BY <1>2 DEF SafeInv, WriterInOrder, StoresAgree, ingest, stores
  <1> SUFFICES ReadsAgree'
    BY <1>1, <1>3, Zenon DEF SafeInv
  <1>4. /\ ReadsAgree /\ StoresAgree /\ InOrder /\ embeddings \subseteq Facts /\ searchIndex \subseteq Facts
        /\ DOMAIN rows \subseteq graphIds /\ top \subseteq DOMAIN seeds
    BY Zenon DEF SafeInv, TypeInv, TypeOK
  <1>5. ASSUME NEW q \in Questions, Ask(q) PROVE ReadsAgree'
    <2>1. /\ UNCHANGED <<nodes, embeddings, searchIndex, closedBy, seeds, found, rows, top, missed>>
          /\ pc = "idle" /\ pc' = "resolve"
      BY <1>5, Zenon DEF Ask, ingest, stores
    <2>2. DOMAIN rows = {} /\ top = {}
      BY <1>4, <2>1, Zenon DEF InOrder, Seeding
    <2>3. RowsAgree' /\ PrunedFail' /\ KeptHold'
      BY <2>1, <2>2 DEF RowsAgree, PrunedFail, KeptHold, Ranked
    <2> QED
      BY <1>4, <2>1, <2>3, Zenon DEF ReadsAgree
  <1>6. CASE Resolve \/ Rewrite
    <2>1. /\ UNCHANGED <<question, seeds, found, graphIds, rows, top, missed>>
          /\ pc' \in {"resolve", "semantic"}
      BY <1>6 DEF Resolve, Rewrite
    <2> QED
      BY <1>2, <2>1, OtherReads DEF Ranked
  <1>7. CASE SearchSemantic
    <2>1. PICK r \in Rankings(embeddings, question.distance, SeedLimit) :
            seeds' = [f \in DOMAIN r |-> [semantic |-> r[f], keyword |-> 0]]
      BY <1>7, Zenon DEF SearchSemantic
    <2>2. DOMAIN r \subseteq embeddings
      BY <1>4, RankingsReturn, Zenon
    <2>3. DOMAIN seeds' = DOMAIN r
      BY <2>1, Zenon
    <2>4. found' = DOMAIN seeds' /\ pc = "semantic" /\ pc' = "keyword"
          /\ UNCHANGED <<ingest, rows, top, missed, question>>
      BY <1>7, Zenon DEF SearchSemantic
    <2> QED
      BY <2>2, <2>3, <2>4, SearchReads
  <1>8. CASE SearchKeyword
    <2> DEFINE S == searchIndex \cap DOMAIN Matches
               cost == [f \in DOMAIN Matches |-> 0 - Matches[f]]
    <2>1. PICK r \in Rankings(S, cost, SeedLimit) :
            DOMAIN seeds' = DOMAIN seeds \cup {f \in DOMAIN r : Matches[f] > 0}
      BY <1>8, Zenon DEF SearchKeyword
    <2>2. S \subseteq Facts
      BY <1>4, Zenon
    <2>3. DOMAIN r \subseteq S
      BY <2>2, RankingsReturn, Zenon
    <2>4. DOMAIN seeds = found
      BY <1>4, <1>8 DEF InOrder, Seeding, SearchKeyword
    <2>5. found' \subseteq embeddings \cup searchIndex
      BY <1>4, <1>8, <2>1, <2>3, <2>4, Zenon DEF SearchKeyword, ReadsAgree
    <2>6. found' = DOMAIN seeds' /\ pc = "keyword" /\ (pc' = "ids" \/ (pc' = "score" /\ found' = {}))
          /\ UNCHANGED <<ingest, rows, top, missed, question>>
      BY <1>8, Zenon DEF SearchKeyword
    <2> QED
      BY <2>5, <2>6, SearchReads
  <1>9. CASE SearchFails
    <2>1. UNCHANGED <<question, seeds, found, graphIds, rows, top, missed>> /\ pc' = "error"
      BY <1>9, Zenon DEF SearchFails, local
    <2> QED
      BY <1>2, <2>1, OtherReads DEF Ranked
  <1>10. CASE LookUpIds
    <2>1. /\ UNCHANGED <<nodes, embeddings, searchIndex, closedBy, seeds, found, rows, top>>
          /\ pc = "ids" /\ pc' = "fetch"
          /\ ~missed' => graphIds' = DOMAIN seeds \cap registered
      BY <1>10, Zenon DEF LookUpIds, ingest, stores
    <2>2. DOMAIN rows = {} /\ top = {} /\ DOMAIN seeds = found
      BY <1>4, <2>1, Zenon DEF InOrder, Seeding
    <2>3. found \subseteq registered
      BY <1>4 DEF ReadsAgree, StoresAgree
    <2>4. RowsAgree' /\ PrunedFail' /\ KeptHold'
      BY <2>1, <2>2, <2>3, Zenon DEF RowsAgree, PrunedFail, KeptHold, Ranked
    <2> QED
      BY <1>4, <2>1, <2>4, Zenon DEF ReadsAgree
  <1>11. CASE FindPaths \/ Score \/ AddSiblings \/ Answer
    <2>1. /\ UNCHANGED <<question, seeds, found, graphIds, rows, missed>>
          /\ pc \in Ranked /\ pc' # "fetch"
      BY <1>11, Zenon DEF FindPaths, Score, AddSiblings, Answer, local, Ranked
    <2>2. top' = top \/ top' \subseteq DOMAIN seeds
      BY <1>11, Zenon DEF FindPaths, Score, AddSiblings, Answer, local
    <2> QED
      BY <1>2, <2>1, <2>2, OtherReads, Zenon
  <1> QED
    BY <1>5, <1>6, <1>7, <1>8, <1>9, <1>10, <1>11, FetchReads, FilterReads, Zenon DEF Retrieve

\* Every step keeps the invariant.
LEMMA SafeNext == SafeInv /\ [Next]_vars => SafeInv'
  <1>1. ASSUME SafeInv, UNCHANGED vars PROVE SafeInv'
    <2>1. UNCHANGED <<pc, local>> /\ UNCHANGED ingest
      BY <1>1 DEF vars
    <2>2. TypeInv'
      BY <1>1, TypeNext, Zenon DEF SafeInv
    <2>3. WriterInOrder' /\ StoresAgree'
      BY <1>1, <2>1, Zenon DEF SafeInv, WriterInOrder, StoresAgree, ingest, stores
    <2>4. ReadsAgree'
      BY <1>1, <2>1, ReadsStay DEF ingest, stores
    <2> QED
      BY <2>2, <2>3, <2>4 DEF SafeInv
  <1> QED
    BY <1>1, SafeIngest, SafeRetrieve DEF Next

\* The invariant holds throughout.
LEMMA Safe == Spec => []SafeInv
  BY SafeInit, SafeNext, PTL DEF Spec

-----------------------------------------------------------------------------
(* The theorems *)

\* Of two facts the reader is given as evidence, neither superseded the other
\* before the question's date, though searches, node fetches and ingestion
\* interleave in any way.
THEOREM NoStaleTheorem == Spec => []NoStaleBesideSuccessor
  <1>1. SafeInv => NoStaleBesideSuccessor
    <2> SUFFICES ASSUME SafeInv, NEW g \in top, NEW f \in top, <<g, f>> \in closedBy
                 PROVE  Observed(g) >= question.date
      BY Zenon DEF NoStaleBesideSuccessor
    <2>1. g \in found /\ f \in found /\ g \in Facts
      BY DEF SafeInv, TypeInv, TypeOK
    <2>2. f \in DOMAIN rows /\ rows[f] # NoRow /\ Holds(f, rows[f].node)
      BY Zenon DEF SafeInv, ReadsAgree, KeptHold, RowHolds
    <2>3. rows[f].node.superseded_at = Observed(g)
      BY <2>1, <2>2, Zenon DEF SafeInv, ReadsAgree, RowsAgree
    <2>4. question.date <= Observed(g)
      BY <2>2, <2>3, Zenon DEF Holds
    <2> QED
      BY <2>4
  <1> QED
    BY <1>1, Safe, PTL

\* A fact that a search returned is pruned only if it does not hold by the graph
\* as it is now, not merely by the row that was read, or if a read failed.
THEOREM FoundTheorem == Spec => []FoundIsKept
  <1>1. SafeInv => FoundIsKept
    <2> SUFFICES ASSUME SafeInv, pc \in Ranked, ~missed, NEW f \in found \ DOMAIN seeds
                 PROVE  f \in DOMAIN nodes /\ ~Holds(f, nodes[f])
      BY DEF FoundIsKept, Ranked
    <2>1. f \in DOMAIN rows /\ rows[f] # NoRow /\ ~Holds(f, rows[f].node)
      BY Zenon DEF SafeInv, ReadsAgree, PrunedFail, RowFails
    <2>2. f \in DOMAIN nodes /\ rows[f].node \in {nodes[f], Fresh}
      BY <2>1, Zenon DEF SafeInv, ReadsAgree, RowsAgree
    <2>3. question.date \in 0..Forever /\ Forever \in Nat
      BY RetrievalAssumption, Zenon DEF SafeInv, TypeInv, TypeOK, Ranked, IsQuestion
    <2>4. ~Holds(f, Fresh) => ~Holds(f, nodes[f])
      <3>1. question.date <= Fresh.valid_to /\ question.date <= Fresh.superseded_at
        BY <2>3 DEF Fresh
      <3> HIDE DEF Fresh
      <3> QED
        BY <3>1 DEF Holds
    <2> QED
      BY <2>1, <2>2, <2>4
  <1> QED
    BY <1>1, Safe, PTL

=============================================================================
