---------------------------- MODULE PathProcedure ----------------------------
(***************************************************************************)
(* HydraDB's native path procedures (single pair, single source, many      *)
(* sources): resolving the selectors, the adjacency around them from a     *)
(* compiled base, its overlay or storage, the enumeration of simple paths, *)
(* parallel relationships, scores, and the selection.                      *)
(*                                                                         *)
(* A procedure P is [source, target, types, dir, maxLen, count, weight,    *)
(* cost, maxCost, pairwise, fair, limit].  A selector is [ids] or [label,  *)
(* prop, words]; count = 0 asks for every minimal path; weight, cost = ""  *)
(* and maxCost < 0 are absent.  The types are written in name order, which *)
(* is the order edges sort by.  topo[t] is where the edges of a type come  *)
(* from: [from |-> "storage" or "compiled", csc, overlay].  A path is      *)
(* [nodes, edges, w, c]; an edge is <<type, src, dst, id>>, id = 0 before  *)
(* its relationships are known.                                            *)
(***************************************************************************)
EXTENDS SparseKernels, TLC

NoTarget == [kind |-> "none", ids |-> {}, label |-> "", prop |-> "", words |-> {}]

\* The vertices of a selector: index candidates whose metadata agrees.
SelectorVertices(g, sel) ==
    IF sel.kind # "match" THEN Asc(sel.ids)
    ELSE Asc({v \in UNION {VertexKeyScan(g, sel.prop, EncodeKey(w)) : w \in sel.words} :
                 /\ sel.label \in VertexMetadata(g, v).labels
                 /\ \E w \in sel.words : VertexMetadata(g, v).props[sel.prop] = w})

FarEndpoint(v, e) == IF e[2] = v THEN e[3] ELSE e[2]

----------------------------------------------------------------------------
(* The adjacency around the sources.                                       *)

Reversed(dir) == CASE dir = "out" -> "in" [] dir = "in" -> "out" [] dir = "both" -> "both"

\* The overlay's changes to the neighbours of v.
ApplyOut(overlay, v, S) ==
    (S \cup {d \in Vertices : <<v, d>> \in DOMAIN overlay /\ overlay[<<v, d>>]})
    \ {d \in Vertices : <<v, d>> \in DOMAIN overlay /\ ~overlay[<<v, d>>]}

ApplyIn(overlay, v, S) ==
    (S \cup {s \in Vertices : <<s, v>> \in DOMAIN overlay /\ overlay[<<s, v>>]})
    \ {s \in Vertices : <<s, v>> \in DOMAIN overlay /\ ~overlay[<<s, v>>]}

\* Storage answers with every neighbour, a compiled base with the allowed.
OutOf(g, topo, t, v, allowed) ==
    IF topo[t].from = "storage" THEN OutNeighbors(g, t, v, g.seq)
    ELSE ApplyOut(topo[t].overlay, v, NeighborsIntersecting(topo[t].csc, v, allowed)) \cap allowed

Into(g, topo, t, v, allowed) ==
    IF topo[t].from = "storage" THEN ReverseNeighbors(g, t, v)
    ELSE ApplyIn(topo[t].overlay, v, NeighborsIntersecting(Transpose(topo[t].csc), v, allowed)) \cap allowed

\* The edges at v in a direction, in edge order.
PathSuccessors(g, topo, P, v, dir, allowed) ==
    LET Pairs(t) == (IF dir # "in" THEN {<<v, d>> : d \in OutOf(g, topo, t, v, allowed)} ELSE {})
                    \cup (IF dir # "out" THEN {<<s, v>> : s \in Into(g, topo, t, v, allowed)} ELSE {})
    IN  FlattenSeq([i \in 1..Len(P.types) |->
            MapSeq(BySource(Pairs(P.types[i])), LAMBDA p : <<P.types[i], p[1], p[2], 0>>)])

\* One more hop of a walk.
Grown(a, found) == [seen |-> a.seen \cup found, frontier |-> found]

\* The vertices from which a target is within reach: a walk back from them.
TargetRelevant(g, topo, P, targets) ==
    LET Near(v) == {FarEndpoint(v, e) : e \in Range(PathSuccessors(g, topo, P, v, Reversed(P.dir), Vertices))}
        Step(a, depth) == Grown(a, UNION {Near(v) : v \in a.frontier} \ a.seen)
    IN  FoldLeft(Step, [seen |-> targets, frontier |-> targets], Hops(P.maxLen)).seen

\* The edges of every vertex fewer than maxLen hops from a source, kept
\* when they lead to a relevant vertex.
PathAdjacencyWithin(g, topo, P, first, relevant) ==
    LET Edges(v) == SelectSeq(PathSuccessors(g, topo, P, v, P.dir, relevant),
                              LAMBDA e : FarEndpoint(v, e) \in relevant)
        Beyond(adj, a) == UNION {{FarEndpoint(v, e) : e \in Range(adj[v])} : v \in a.frontier} \ a.seen
        Onward(adj, a) == Grown(a, Beyond(adj, a)) @@ [adj |-> adj]
        Step(a, depth) == Onward(FoldSet(LAMBDA v, f : f @@ (v :> Edges(v)), a.adj, a.frontier), a)
    IN  FoldLeft(Step, [seen |-> first, frontier |-> first, adj |-> Empty], Hops(P.maxLen)).adj

PathAdjacency(g, topo, P, sources, targets) ==
    LET Around(relevant) == PathAdjacencyWithin(g, topo, P, sources \cap relevant, relevant)
    IN  Around(IF P.target.kind = "none" THEN Vertices ELSE TargetRelevant(g, topo, P, targets))

----------------------------------------------------------------------------
(* Enumerating simple paths.  `most` bounds the paths held at once: over   *)
(* is set when it is exceeded and the call fails.                          *)

EdgesFrom(adj, v) == IF v \in DOMAIN adj THEN adj[v] ELSE <<>>

PathStart(s) == [nodes |-> <<s>>, edges |-> <<>>, w |-> 0, c |-> 0]

Longer(path, e) ==
    [path EXCEPT !.nodes = Append(@, FarEndpoint(Last(path.nodes), e)), !.edges = Append(@, e)]

Unweighted(P) == P.weight = "" /\ P.cost = "" /\ P.maxCost < 0

\* Breadth first towards one target (0: every vertex is one).
RECURSIVE Breadth(_, _, _, _, _)
Breadth(adj, P, target, most, st) ==
    LET path == Head(st.queue)
        popped == [st EXCEPT !.queue = Tail(@)]
        Visit(a, e) ==
            LET next == FarEndpoint(Last(path.nodes), e)
                hit == target \in {0, next}
                found == IF hit THEN Append(a.found, Longer(path, e)) ELSE a.found
                queue == IF next = target THEN a.queue ELSE Append(a.queue, Longer(path, e))
            IN  IF a.done \/ a.over \/ next \in Range(path.nodes) THEN a
                ELSE IF hit /\ Len(a.found) >= most THEN [a EXCEPT !.over = TRUE]
                ELSE IF hit /\ P.count > 0 /\ Len(found) >= P.count
                     THEN [a EXCEPT !.found = found, !.done = TRUE]
                ELSE [a EXCEPT !.found = found, !.queue = queue,
                               !.min = IF hit /\ P.count = 0 /\ @ = 0 THEN Len(path.edges) + 1 ELSE @,
                               !.over = next # target /\ Len(queue) + Len(found) > most]
        deep == \/ st.min # 0 /\ Len(path.edges) >= st.min
                \/ Len(path.edges) >= P.maxLen
    IN  IF st.queue = <<>> \/ st.done \/ st.over THEN st
        ELSE Breadth(adj, P, target, most,
                     IF deep THEN popped ELSE FoldLeft(Visit, popped, EdgesFrom(adj, Last(path.nodes))))

\* Depth first, for weighted procedures: every simple path.
RECURSIVE Depth(_, _, _, _, _)
Depth(adj, P, target, most, a) ==
    LET Visit(b, e) ==
            LET next == FarEndpoint(Last(a.path.nodes), e)
                longer == Longer(a.path, e)
                hit == target \in {0, next}
                found == IF hit THEN Append(b.found, longer) ELSE b.found
                deeper == Depth(adj, P, target, most, [b EXCEPT !.path = longer, !.found = found])
            IN  IF b.over \/ next \in Range(a.path.nodes) THEN b
                ELSE IF hit /\ Len(b.found) >= most THEN [b EXCEPT !.over = TRUE]
                ELSE IF next = target THEN [b EXCEPT !.found = found]
                ELSE [deeper EXCEPT !.path = a.path]
    IN  IF Len(a.path.edges) >= P.maxLen THEN a
        ELSE FoldLeft(Visit, a, EdgesFrom(adj, Last(a.path.nodes)))

EnumeratePaths(adj, P, s, target, most) ==
    LET Found(st) == [found |-> st.found, over |-> st.over]
    IN  IF P.maxLen = 0 THEN [found |-> <<>>, over |-> FALSE]
        ELSE IF Unweighted(P)
        THEN Found(Breadth(adj, P, target, most,
                 [queue |-> <<PathStart(s)>>, found |-> <<>>, min |-> 0, done |-> FALSE, over |-> FALSE]))
        ELSE Found(Depth(adj, P, target, most, [path |-> PathStart(s), found |-> <<>>, over |-> FALSE]))

\* Breadth first towards several targets at once; found and mins are per
\* target, and paths go on through a target.
RECURSIVE BreadthToMany(_, _, _, _, _)
BreadthToMany(adj, P, targets, most, st) ==
    LET path == Head(st.queue)
        popped == [st EXCEPT !.queue = Tail(@)]
        Held(a) == FoldSet(LAMBDA t, n : n + Len(a.found[t]), 0, targets)
        Visit(a, e) ==
            LET next == FarEndpoint(Last(path.nodes), e)
                depth == Len(path.edges) + 1
                hit == next \in targets
                mins == IF hit /\ P.count = 0 /\ a.mins[next] = 0 THEN [a.mins EXCEPT ![next] = depth] ELSE a.mins
                record == hit /\ IF P.count = 0 THEN mins[next] = depth ELSE Len(a.found[next]) < P.count
                found == IF record THEN [a.found EXCEPT ![next] = Append(@, Longer(path, e))] ELSE a.found
                noted == [a EXCEPT !.found = found, !.mins = mins]
                full == hit /\ P.count > 0 /\ \A t \in targets : Len(found[t]) >= P.count
                queued == [noted EXCEPT !.queue = Append(@, Longer(path, e))]
            IN  IF a.done \/ a.over \/ next \in Range(path.nodes) THEN a
                ELSE IF record /\ Held(a) >= most THEN [a EXCEPT !.over = TRUE]
                ELSE IF full THEN [noted EXCEPT !.done = TRUE]
                ELSE [queued EXCEPT !.over = Len(queued.queue) + Held(queued) > most]
        settled == /\ P.count = 0 /\ \A t \in targets : st.mins[t] # 0
                   /\ \A t \in targets : Len(path.edges) >= st.mins[t]
    IN  IF st.queue = <<>> \/ st.done \/ st.over \/ settled THEN st
        ELSE BreadthToMany(adj, P, targets, most,
                 IF Len(path.edges) >= P.maxLen THEN popped
                 ELSE FoldLeft(Visit, popped, EdgesFrom(adj, Last(path.nodes))))

\* The targets a source is paired with.
Eligible(P, s, targets) == {t \in targets : t # s /\ (P.pairwise => s < t)}

\* The candidate paths of a source, one group per target.
CandidateGroups(adj, P, s, targets, most) ==
    LET wanted == Eligible(P, s, targets)
        many == BreadthToMany(adj, P, wanted, most,
                    [queue |-> <<PathStart(s)>>, found |-> [t \in wanted |-> <<>>],
                     mins |-> [t \in wanted |-> 0], done |-> FALSE, over |-> FALSE])
        each == IF P.target.kind = "none" THEN <<0>> ELSE Asc(wanted)
        OneByOne(paths) ==
            MapSeq(paths, LAMBDA x : [found |-> x.found, over |-> \E i \in 1..Len(paths) : paths[i].over])
        Together(st) == MapSeq(each, LAMBDA t : [found |-> st.found[t], over |-> st.over])
    IN  IF P.target.kind = "none" \/ ~Unweighted(P)
        THEN OneByOne(MapSeq(each, LAMBDA t : EnumeratePaths(adj, P, s, t, most)))
        ELSE IF P.maxLen = 0 \/ wanted = {} THEN <<>>
        ELSE Together(many)

----------------------------------------------------------------------------
(* Relationships, scores and the selection.                                *)

\* The choices of an edge, as path edges.
RelationshipChoices(g, e) ==
    MapSeq(PathRelationships(g, <<e[1], e[2], e[3]>>, g.seq), LAMBDA x : x.rel)

\* The properties a path edge was read with.
ChoiceProps(g, r) ==
    (CHOOSE x \in Range(PathRelationships(g, <<r[1], r[2], r[3]>>, g.seq)) : x.rel = r).props

\* Every path over the parallel relationships of one structural path, at
\* most `most` of them.
Variants(g, path, most) ==
    LET Step(acc, e) ==
            FirstOf(FlattenSeq(MapSeq(acc, LAMBDA a : MapSeq(RelationshipChoices(g, e), LAMBDA r : Append(a, r)))), most)
    IN  MapSeq(FoldLeft(Step, <<<<>>>>, path.edges), LAMBDA x : [path EXCEPT !.edges = x])

\* The variants of all candidates; over when there are more than `most`.
ExpandRelationships(g, paths, most) ==
    LET Counted(all) == [found |-> all, over |-> Len(all) > most]
    IN  Counted(FlattenSeq(MapSeq(paths, LAMBDA x : Variants(g, x, most + 1))))

\* A number in halves; a property that is not a number counts as `other`.
NumericProperty(props, p, other) ==
    IF ~Prop(props, p) THEN other
    ELSE IF props[p].t \in {"int", "sint"} THEN 2 * props[p].n
    ELSE IF props[p].t = "float" THEN props[p].n ELSE other

\* Weights default to one per edge and costs to nothing.
Score(g, P, path) ==
    LET Weight(e) == IF P.weight = "" THEN 2 ELSE NumericProperty(ChoiceProps(g, e), P.weight, 2)
        Cost(e) == IF P.cost = "" THEN 0 ELSE NumericProperty(ChoiceProps(g, e), P.cost, 0)
    IN  [path EXCEPT !.w = FoldLeft(LAMBDA n, e : n + Weight(e), 0, path.edges),
                     !.c = FoldLeft(LAMBDA n, e : n + Cost(e), 0, path.edges)]

EdgeOrder(P, d, e) ==
    LET Place(t) == CHOOSE i \in 1..Len(P.types) : P.types[i] = t
        At(i) == IF i = 1 THEN Cmp(Place(d[1]), Place(e[1])) ELSE Cmp(d[i], e[i])
    IN  FirstDifference(4, At)

\* Weight, cost, length, vertices, edges.
PathOrder(P, x, y) ==
    LET n == IF Len(x.nodes) <= Len(y.nodes) THEN Len(x.nodes) ELSE Len(y.nodes)
        At(i) == CASE i = 1 -> Cmp(x.w, y.w) [] i = 2 -> Cmp(x.c, y.c)
                   [] i = 3 -> Cmp(Len(x.edges), Len(y.edges))
                   [] i = 4 -> FirstDifference(n, LAMBDA k : Cmp(x.nodes[k], y.nodes[k]))
                   [] i = 5 -> FirstDifference(n - 1, LAMBDA k : EdgeOrder(P, x.edges[k], y.edges[k]))
    IN  FirstDifference(5, At)

\* Of paths in order, all of the least weight, or the first few.
Lightest(P, sorted) ==
    IF P.fair \/ sorted = <<>> THEN sorted
    ELSE IF P.count = 0 THEN SelectSeq(sorted, LAMBDA x : x.w = sorted[1].w)
    ELSE FirstOf(sorted, P.count)

Affordable(P, paths) == SelectSeq(paths, LAMBDA x : P.maxCost < 0 \/ x.c <= P.maxCost)

\* Mutant: the lightest paths are picked before the costs are cut.
SelectBeforeCost(P, paths) ==
    Affordable(P, Lightest(P, SortSeq(paths, LAMBDA x, y : PathOrder(P, x, y) < 0)))

\* The affordable paths in order, cut.
SelectPaths(P, paths) ==
    Lightest(P, SortSeq(Affordable(P, paths), LAMBDA x, y : PathOrder(P, x, y) < 0))

\* One path of every group in turn, `most` in all.
RECURSIVE FairMerge(_, _, _)
FairMerge(groups, taken, most) ==
    LET open == SelectSeq(groups, LAMBDA x : x # <<>>)
        round == FirstOf([i \in 1..Len(open) |-> open[i][1]], most - Len(taken))
    IN  IF open = <<>> \/ Len(taken) >= most THEN taken
        ELSE FairMerge([i \in 1..Len(open) |-> Tail(open[i])], taken \o round, most)

----------------------------------------------------------------------------
(* A call.                                                                 *)

\* Each structural path gets an equal share of the limit, the first ones
\* the remainder.
FairRows(g, P, structures, limit) ==
    LET n == Len(structures)
        Quota(i) == (limit \div n) + (IF i <= limit % n THEN 1 ELSE 0)
        Group(i) == SelectPaths(P, MapSeq(Variants(g, structures[i], Quota(i)), LAMBDA x : Score(g, P, x)))
    IN  IF n = 0 THEN <<>> ELSE FairMerge([i \in 1..n |-> Group(i)], <<>>, limit)

\* The paths of one group over its relationships; a fair call selects later.
GroupPaths(g, P, group, most) ==
    LET Chosen(vs) == [over |-> group.over \/ vs.over,
                       found |-> SelectPaths(P, MapSeq(vs.found, LAMBDA x : Score(g, P, x)))]
    IN  IF P.fair THEN group ELSE Chosen(ExpandRelationships(g, group.found, most))

\* The groups' paths one after the other until there are enough; ok is FALSE
\* when a limit rejected one.
CollectPaths(g, P, groups, most, limit) ==
    LET Add(acc, next) == IF next.over THEN [ok |-> FALSE, rows |-> <<>>]
                          ELSE [ok |-> TRUE, rows |-> FirstOf(acc.rows \o next.found, limit)]
        Step(acc, group) == IF ~acc.ok \/ Len(acc.rows) >= limit THEN acc
                            ELSE Add(acc, GroupPaths(g, P, group, most))
        Shared(all) == IF P.fair /\ all.ok THEN [all EXCEPT !.rows = FairRows(g, P, @, limit)] ELSE all
    IN  Shared(FoldLeft(Step, [ok |-> TRUE, rows |-> <<>>], groups))

\* The rows of a call, in order.
PathRows(g, topo, P, most, cap) ==
    LET sources == SelectorVertices(g, P.source)
        targets == Range(SelectorVertices(g, P.target))
        Groups(adj) == FlattenSeq(MapSeq(sources, LAMBDA s : CandidateGroups(adj, P, s, targets, most)))
    IN  IF P.count > cap \/ P.limit > cap THEN [ok |-> FALSE, rows |-> <<>>]
        ELSE CollectPaths(g, P, Groups(PathAdjacency(g, topo, P, Range(sources), targets)), most,
                          IF P.limit = 0 THEN cap ELSE P.limit)
=============================================================================
