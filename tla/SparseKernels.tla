---------------------------- MODULE SparseKernels ----------------------------
(***************************************************************************)
(* Variable-length traversal in HydraDB: the canonical adjacency and its   *)
(* compressed column form, the three kernels that walk it (adjacency sets, *)
(* compact columns, SuiteSparse vectors), the walk over a compiled base    *)
(* with the changes of the WAL tail laid over it, and the walk that reads  *)
(* storage hop by hop.  A traversal returns [vertices, visits].            *)
(*                                                                         *)
(* An adjacency is a set of pairs.  In the compressed form the rows of     *)
(* `indices` are positions in the dictionary `vertices` (from 1), and row  *)
(* o is indices[pointers[o] + 1 .. pointers[o + 1]].                       *)
(***************************************************************************)
EXTENDS QueryReads

Successors(E, S) == {d \in Vertices : \E s \in S : <<s, d>> \in E}

DegreeIn(E, s) == Cardinality({p \in E : p[1] = s})

\* The edges leaving a set of vertices.
Visits(E, S) == FoldSet(LAMBDA s, n : n + DegreeIn(E, s), 0, S)

----------------------------------------------------------------------------
(* The compressed form.                                                    *)

Dictionary(E) == Asc({p[1] : p \in E} \cup {p[2] : p \in E})

PositionOf(vertices, v) ==
    IF \E i \in 1..Len(vertices) : vertices[i] = v
    THEN CHOOSE i \in 1..Len(vertices) : vertices[i] = v ELSE 0

\* Counting, prefix sums, then one offset per source to fill the rows.
CscFromAdjacency(E) ==
    LET vertices == Dictionary(E)
        n == Len(vertices)
        pointers == [i \in 1..(n + 1) |-> Cardinality({p \in E : PositionOf(vertices, p[1]) < i})]
        Row(i) == LET dsts == Asc(Successors(E, {vertices[i]}))
                  IN  [j \in 1..Len(dsts) |-> PositionOf(vertices, dsts[j])]
    IN  [vertices |-> vertices, pointers |-> pointers, indices |-> FlattenSeq([i \in 1..n |-> Row(i)])]

NeighborRange(csc, o) == (csc.pointers[o] + 1)..csc.pointers[o + 1]

ValidCsc(csc) ==
    LET n == Len(csc.vertices)
    IN  /\ Len(csc.pointers) = n + 1
        /\ csc.pointers[1] = 0
        /\ \A i \in 1..n : csc.pointers[i] <= csc.pointers[i + 1]
        /\ csc.pointers[n + 1] = Len(csc.indices)
        /\ \A i \in 1..Len(csc.indices) : csc.indices[i] \in 1..n
        /\ \A i \in 1..(n - 1) : csc.vertices[i] < csc.vertices[i + 1]

ToAdjacency(csc) ==
    UNION {{<<csc.vertices[o], csc.vertices[csc.indices[i]]>> : i \in NeighborRange(csc, o)} :
              o \in 1..Len(csc.vertices)}

RowOf(csc, o) == {csc.indices[i] : i \in NeighborRange(csc, o)}

Degree(csc, o) == Cardinality(NeighborRange(csc, o))

ContainsEdge(csc, s, d) ==
    LET so == PositionOf(csc.vertices, s)
        do == PositionOf(csc.vertices, d)
    IN  so # 0 /\ do # 0 /\ do \in RowOf(csc, so)

NeighborsOf(csc, v) ==
    LET o == PositionOf(csc.vertices, v)
    IN  IF o = 0 THEN {} ELSE {csc.vertices[i] : i \in RowOf(csc, o)}

NeighborsIntersecting(csc, v, allowed) == NeighborsOf(csc, v) \cap allowed

\* The reverse orientation over the same dictionary.
Transpose(csc) ==
    LET n == Len(csc.vertices)
        Sources(o) == SelectSeq([i \in 1..n |-> i], LAMBDA s : o \in RowOf(csc, s))
    IN  [vertices |-> csc.vertices,
         pointers |-> [i \in 1..(n + 1) |->
                          Cardinality({k \in 1..Len(csc.indices) : csc.indices[k] < i})],
         indices |-> FlattenSeq([o \in 1..n |-> Sources(o)])]

StartOrdinals(csc, starts) == {PositionOf(csc.vertices, s) : s \in starts} \ {0}

VerticesAt(csc, ordinals) == {csc.vertices[o] : o \in ordinals}

RowsVisited(csc, ordinals) == FoldSet(LAMBDA o, n : n + Degree(csc, o), 0, ordinals)

----------------------------------------------------------------------------
(* Reachability without a lower bound: the starts are not in the answer.   *)

Nothing == [vertices |-> {}, visits |-> 0]

\* Kernel 1: adjacency sets.
ExpandRust(E, starts, hops) ==
    LET Step(a, hop) ==
            LET next == Successors(E, a.frontier) \ a.seen
            IN  IF a.frontier = {} THEN a
                ELSE [frontier |-> next, seen |-> a.seen \cup next, visits |-> a.visits + Visits(E, a.frontier)]
        end == FoldLeft(Step, [frontier |-> starts, seen |-> starts, visits |-> 0], Hops(hops))
    IN  [vertices |-> end.seen \ starts, visits |-> end.visits]

\* Kernel 2: compact columns; a vertex enters a hop's frontier once.
CompactExpand(csc, starts, hops) ==
    LET first == StartOrdinals(csc, starts)
        Step(a, hop) ==
            LET next == UNION {RowOf(csc, o) : o \in a.frontier} \ a.seen
            IN  IF a.frontier = {} THEN a
                ELSE [frontier |-> next, seen |-> a.seen \cup next,
                      visits |-> a.visits + RowsVisited(csc, a.frontier)]
        end == FoldLeft(Step, [frontier |-> first, seen |-> first, visits |-> 0], Hops(hops))
    IN  IF first = {} THEN Nothing
        ELSE [vertices |-> VerticesAt(csc, end.seen \ first), visits |-> end.visits]

\* A matrix-vector product over the boolean semiring.
Multiply(csc, vector) == UNION {RowOf(csc, o) : o \in vector}

\* Kernel 3: products masked by what was seen.
SuiteSparseExpand(csc, starts, hops) ==
    LET first == StartOrdinals(csc, starts)
        Step(a, hop) ==
            LET next == Multiply(csc, a.frontier) \ a.seen
            IN  IF a.done THEN a
                ELSE [frontier |-> IF next = {} THEN a.frontier ELSE next, seen |-> a.seen \cup next,
                      visits |-> a.visits + RowsVisited(csc, a.frontier), done |-> next = {}]
        end == FoldLeft(Step, [frontier |-> first, seen |-> first, visits |-> 0, done |-> first = {}], Hops(hops))
    IN  [vertices |-> VerticesAt(csc, end.seen \ first), visits |-> end.visits]

----------------------------------------------------------------------------
(* Reachability in a range of hops: every walk counts, cycles included.    *)

\* Mutant: a vertex that was seen is not visited again.
CompactRangeVisited(csc, starts, min, max) == CompactExpand(csc, starts, max)

CompactRange(csc, starts, min, max) ==
    LET first == StartOrdinals(csc, starts)
        Step(a, depth) ==
            LET next == UNION {RowOf(csc, o) : o \in a.frontier}
            IN  [frontier |-> next, result |-> IF depth >= min THEN a.result \cup next ELSE a.result,
                 visits |-> a.visits + RowsVisited(csc, a.frontier)]
        end == FoldLeft(Step, [frontier |-> first, result |-> IF min = 0 THEN first ELSE {}, visits |-> 0], Hops(max))
    IN  IF first = {} \/ min > max THEN Nothing
        ELSE [vertices |-> VerticesAt(csc, end.result), visits |-> end.visits]

SuiteSparseRange(csc, starts, min, max) ==
    LET first == StartOrdinals(csc, starts)
        Step(a, depth) ==
            LET next == Multiply(csc, a.frontier)
            IN  IF a.frontier = {} THEN a
                ELSE [frontier |-> next, result |-> IF depth >= min THEN a.result \cup next ELSE a.result,
                      visits |-> a.visits + RowsVisited(csc, a.frontier)]
        end == FoldLeft(Step, [frontier |-> first, result |-> IF min = 0 THEN first ELSE {}, visits |-> 0], Hops(max))
    IN  IF first = {} \/ min > max THEN Nothing
        ELSE [vertices |-> VerticesAt(csc, end.result), visits |-> end.visits]

RangeFound(end) == [vertices |-> end.result, visits |-> end.visits]

\* The walk that reads storage: it starts counting at the first hop, so a
\* lower bound of zero adds nothing.
StorageFrontier(E, s, min, max) ==
    LET Step(a, hop) ==
            LET next == Successors(E, a.frontier)
            IN  IF a.frontier = {} THEN a
                ELSE [frontier |-> next, result |-> IF hop >= min THEN a.result \cup next ELSE a.result,
                      visits |-> a.visits + Visits(E, a.frontier)]
    IN  RangeFound(FoldLeft(Step, [frontier |-> {s}, result |-> {}, visits |-> 0], Hops(max)))

\* A count of the vertices exactly `hops` away, in the scratch vectors that
\* the compiled matrix keeps: the count and the scratch it leaves.
ExactHopCount(csc, scratch, starts, hops) ==
    LET first == StartOrdinals(csc, starts)
        reset == [frontier |-> first, next |-> {}]
        Step(a, hop) ==
            LET next == Multiply(csc, a.scratch.frontier)
            IN  IF a.done THEN a
                ELSE [scratch |-> [frontier |-> next, next |-> a.scratch.frontier],
                      visits |-> a.visits + RowsVisited(csc, a.scratch.frontier),
                      done |-> next = {}]
        end == FoldLeft(Step, [scratch |-> reset, visits |-> 0, done |-> FALSE], Hops(hops))
    IN  IF first = {} THEN [count |-> 0, visits |-> 0, scratch |-> scratch]
        ELSE [count |-> Cardinality(end.scratch.frontier), visits |-> end.visits, scratch |-> end.scratch]

----------------------------------------------------------------------------
(* A compiled base with an overlay: edge -> whether it exists now.         *)

OverlayState(csc, overlay, s, d) ==
    IF <<s, d>> \in DOMAIN overlay THEN overlay[<<s, d>>] ELSE ContainsEdge(csc, s, d)

\* One hop: the base neighbours, the added edges, and without the deleted
\* ones that no other vertex of the frontier still has.
OverlayStep(csc, overlay, frontier) ==
    LET base == CompactExpand(csc, frontier, 1)
        changed == {e \in DOMAIN overlay : e[1] \in frontier}
        added == {e[2] : e \in {x \in changed : overlay[x]}}
        dropped == {e[2] : e \in {x \in changed : ~overlay[x]}}
        Supported(d) == \E s \in frontier : OverlayState(csc, overlay, s, d)
    IN  [vertices |-> {d \in base.vertices \cup added : d \in dropped => Supported(d)},
         visits |-> base.visits + Cardinality(changed)]

OverlayRange(csc, overlay, starts, min, max) ==
    LET Onward(a, hop, next) ==
            [frontier |-> next.vertices,
             result |-> IF hop >= min THEN a.result \cup next.vertices ELSE a.result,
             visits |-> a.visits + next.visits]
        Step(a, hop) == IF a.frontier = {} THEN a ELSE Onward(a, hop, OverlayStep(csc, overlay, a.frontier))
    IN  RangeFound(FoldLeft(Step, [frontier |-> starts, result |-> {}, visits |-> 0], Hops(max)))

----------------------------------------------------------------------------
(* What a query asks.  kernel is the shard's policy; image is "none" when  *)
(* no artifact exists, "gone" when it cannot serve the snapshot any more,  *)
(* and "ready" when it can, with `overlay` the tail laid over it.          *)

NoOverlay == Empty

Compiled(kernel, image) == kernel # "adjacency" /\ image = "ready"

ReachableInRange(E, csc, image, overlay, kernel, s, min, max) ==
    IF ~Compiled(kernel, image) THEN StorageFrontier(E, s, min, max)
    ELSE IF overlay # NoOverlay THEN OverlayRange(csc, overlay, {s}, min, max)
    ELSE IF kernel = "compact" THEN CompactRange(csc, {s}, min, max)
    ELSE SuiteSparseRange(csc, {s}, min, max)

Numbered(found, scratch) == [count |-> Cardinality(found.vertices), visits |-> found.visits, scratch |-> scratch]

CountInRange(E, csc, image, overlay, kernel, scratch, s, min, max) ==
    IF kernel = "suitesparse" /\ Compiled(kernel, image) /\ overlay = NoOverlay /\ min = max
    THEN ExactHopCount(csc, scratch, {s}, max)
    ELSE Numbered(ReachableInRange(E, csc, image, overlay, kernel, s, min, max), scratch)

\* Without a compiled form the adjacency is read and walked by the kernel.
ExpandSparse(E, kernel, starts, hops) ==
    IF kernel = "adjacency" THEN ExpandRust(E, starts, hops)
    ELSE IF kernel = "compact" THEN CompactExpand(CscFromAdjacency(E), starts, hops)
    ELSE SuiteSparseExpand(CscFromAdjacency(E), starts, hops)

\* Reachability from several starts, as the traversal API serves it.
MatrixReachable(E, csc, image, overlay, kernel, starts, hops) ==
    IF kernel = "adjacency" \/ image = "none" THEN ExpandSparse(E, kernel, starts, hops)
    ELSE IF image = "gone"
         THEN IF Cardinality(starts) = 1 THEN StorageFrontier(E, CHOOSE s \in starts : TRUE, 1, hops)
              ELSE ExpandSparse(E, kernel, starts, hops)
    ELSE IF overlay # NoOverlay THEN OverlayRange(csc, overlay, starts, 1, hops)
    ELSE IF kernel = "compact" THEN CompactExpand(csc, starts, hops)
    ELSE SuiteSparseExpand(csc, starts, hops)
=============================================================================
