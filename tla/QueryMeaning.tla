---------------------------- MODULE QueryMeaning ----------------------------
(***************************************************************************)
(* What a query means, said without access paths, joins, kernels or        *)
(* windows: the reference the query engine is checked against.  A match is *)
(* one choice of a vertex or relationship per pattern that agrees on every *)
(* shared name; a traversal asks for a walk; a path procedure asks for the *)
(* lightest simple paths.                                                  *)
(***************************************************************************)
EXTENDS QueryResults, PathProcedure

\* An edge is live when it has its own key, or when a segment that no later
\* tombstone covers lists it.
Live(g, t, s, d) ==
    \/ <<t, s, d>> \in g.direct
    \/ \E x \in Range(g.segs) :
           /\ x.t = t /\ x.s = s /\ d \in x.dsts
           /\ ~(<<t, s, d>> \in DOMAIN g.tombs /\ g.tombs[<<t, s, d>>] >= x.seq)

LiveEdges(g, t) == {p \in Vertices \X Vertices : Live(g, t, p[1], p[2])}

\* The relationships of a type: the records, and the structural one of an
\* edge without records or with properties of its own.
Relationships(g, t) ==
    {r \in DOMAIN g.recs : r[1] = t}
    \cup {<<t, p[1], p[2], 0>> : p \in {x \in LiveEdges(g, t) :
             \/ <<t, x[1], x[2]>> \in DOMAIN g.emeta
             \/ \A r \in DOMAIN g.recs : <<r[1], r[2], r[3]>> # <<t, x[1], x[2]>>}}

\* The ends of the walks from s of min to max edges.
WalkEnds(E, s, min, max) ==
    LET n == max
        after[k \in 0..n] == IF k = 0 THEN {s} ELSE {d \in Vertices : \E v \in after[k - 1] : <<v, d>> \in E}
    IN  UNION {after[k] : k \in min..max}

NodeFits(g, n, v) == n.id \in {0, v} /\ MetadataMatches(VertexMetadata(g, v), n)

\* Is x, a vertex or a relationship <<type, source, destination, id>>, a
\* match of the pattern?  A traversal's relationship is only its two ends.
Fits(g, p, x) ==
    IF p.kind = "node" THEN NodeFits(g, p.src, x[2])
    ELSE /\ NodeFits(g, p.src, x[2]) /\ NodeFits(g, p.dst, x[3])
         /\ PropertiesMatch(RelationshipMetadata(g, x), p.props)
         /\ p.src.b # "" /\ p.src.b = p.dst.b => x[2] = x[3]

Matches(g, p) ==
    LET all == IF p.kind = "node" THEN {<<"", v, v, 0>> : v \in Vertices}
               ELSE IF p.hops = <<>> THEN Relationships(g, p.t)
               ELSE {<<p.t, e[1], e[2], 0>> : e \in {x \in Vertices \X Vertices :
                        x[2] \in WalkEnds(LiveEdges(g, p.t), x[1], p.hops[1], p.hops[2])}}
    IN  {x \in all : Fits(g, p, x)}

\* The names a match gives: <<name, vertex or relationship>> pairs.
Nodes(p, x) == {<<b, IF b = p.src.b THEN x[2] ELSE x[3]>> : b \in NodeNames(p)}
Rels(p, x) == {<<b, x>> : b \in Named(p.b)}

IsFunction(S) == \A a, b \in S : a[1] = b[1] => a[2] = b[2]
AsFunction(S) == [b \in {a[1] : a \in S} |-> (CHOOSE a \in S : a[1] = b)[2]]

\* The row of a set of named vertices, named relationships and nulls.
RowOfNames(g, nodes, rels, nulls, nullRels) ==
    [vals |-> AsFunction(nodes), nulls |-> nulls,
     meta |-> [b \in {a[1] : a \in nodes} |-> VertexMetadata(g, AsFunction(nodes)[b])],
     rels |-> AsFunction(rels), nullRels |-> nullRels,
     relMeta |-> [r \in {a[2] : a \in rels} |-> RelationshipMetadata(g, r)]]

\* The ways to extend a row by a group, one per choice of matches.
Extensions(g, group, m) ==
    LET n == Len(group.patterns)
        step[k \in 0..n] ==
            IF k = 0 THEN {[nodes |-> m.nodes, rels |-> m.rels, nulls |-> m.nulls, nullRels |-> m.nullRels, via |-> m.via]}
            ELSE LET p == group.patterns[k]
                 IN  {y \in {[c EXCEPT !.nodes = @ \cup Nodes(p, x), !.rels = @ \cup Rels(p, x), !.via = Append(@, x)] :
                                c \in step[k - 1], x \in Matches(g, p)} :
                         /\ IsFunction(y.nodes) /\ IsFunction(y.rels)
                         /\ NodeNames(p) \cap m.nulls = {} /\ p.b \notin m.nullRels}
        Row(y) == RowOfNames(g, y.nodes, y.rels, y.nulls, y.nullRels)
    IN  {y \in step[n] : group.where.op = "none" \/ Truth(Row(y), group.where) = "true"}

Unmatched(group, m) ==
    [m EXCEPT !.nulls = @ \cup (UNION {NodeNames(p) : p \in Range(group.patterns)} \ {a[1] : a \in m.nodes}),
              !.nullRels = @ \cup (UNION {Named(p.b) : p \in Range(group.patterns)} \ {a[1] : a \in m.rels}),
              !.via = Append(@, <<"", 0, 0, 0>>)]

\* Every match of the groups, in the order they are written.
Meaning(g, groups) ==
    LET none == [nodes |-> {}, rels |-> {}, nulls |-> {}, nullRels |-> {}, via |-> <<>>]
        Kept(group, m, found) == IF found = {} /\ group.optional THEN {Unmatched(group, m)} ELSE found
        after[k \in 0..Len(groups)] ==
            IF k = 0 THEN {none}
            ELSE UNION {Kept(groups[k], m, Extensions(g, groups[k], m)) : m \in after[k - 1]}
    IN  {RowOfNames(g, m.nodes, m.rels, m.nulls, m.nullRels) @@ [via |-> m.via] : m \in after[Len(groups)]}

----------------------------------------------------------------------------
(* Results as bags.                                                        *)

BagOf(rows) == [x \in Range(rows) |-> Cardinality({i \in 1..Len(rows) : rows[i] = x})]

Within(small, large) == \A x \in DOMAIN small : x \in DOMAIN large /\ small[x] <= large[x]

\* The rows of one arm before its window: one per match, or one per group.
MeantFrom(rows, q) ==
    LET Plain(r) == GroupKey(r, q.proj)
        keys == {Plain(r) : r \in Range(rows)} \cup
                (IF \A i \in 1..Len(q.proj) : IsAggregate(q.proj[i]) THEN {<<>>} ELSE {})
        Members(k) == SelectSeq(rows, LAMBDA r : Plain(r) = k)
        PlaceOf(i) == Cardinality({j \in 1..i : ~IsAggregate(q.proj[j])})
        Group(k) == [i \in 1..Len(q.proj) |->
                        IF IsAggregate(q.proj[i]) THEN Aggregate(q.proj[i], Members(k)) ELSE k[PlaceOf(i)]]
    IN  IF HasAggregates(q) THEN Listing({Group(k) : k \in keys})
        ELSE MapSeq(rows, LAMBDA r : ProjectBindingRow(r, q.proj))

OnceIf(distinct, rows) == IF distinct THEN Listing(Range(rows)) ELSE rows

MeantRows(g, q) == OnceIf(q.distinct, MeantFrom(Listing(Meaning(g, q.groups)), q))

\* The column a sort is about: every ordered query here returns it.
SortColumn(q, sort) ==
    IF sort.s = "column" THEN sort.col
    ELSE CHOOSE k \in 1..Len(q.proj) :
            IF sort.s = "countall" THEN q.proj[k].f = "countall" ELSE q.proj[k].f = "value" /\ q.proj[k].x = sort.x

\* Does row x sort before row y?
SortsBefore(q, x, y) ==
    LET n == Len(q.order)
        Col(k) == SortColumn(q, q.order[k])
        Differ(k) == ValueOrder(x[Col(k)], y[Col(k)])
    IN  \E k \in 1..n : /\ \A j \in 1..(k - 1) : Differ(j) = 0
                        /\ IF q.order[k].asc THEN Differ(k) < 0 ELSE Differ(k) > 0

\* rows are places skip + 1, skip + 2, ... of the meant rows in some order
\* that respects ORDER BY, and there are as many as the limit leaves.
IsWindowOf(rows, q, all, skip, limit) ==
    LET left == IF Len(all) > skip THEN Len(all) - skip ELSE 0
    IN  /\ Len(rows) = IF limit < 0 \/ left < limit THEN left ELSE limit
        /\ Within(BagOf(rows), BagOf(all))
        /\ \A i \in 1..Len(rows) :
              /\ Cardinality({j \in 1..Len(all) : SortsBefore(q, all[j], rows[i])}) < skip + i
              /\ Cardinality({j \in 1..Len(all) : ~SortsBefore(q, rows[i], all[j])}) >= skip + i

----------------------------------------------------------------------------
(* Paths.                                                                  *)

\* The relationships a step of a path may take from v, with its next vertex.
PathSteps(g, P, v) ==
    LET out == {<<r, r[3]>> : r \in {x \in UNION {Relationships(g, t) : t \in Range(P.types)} : x[2] = v}}
        in == {<<r, r[2]>> : r \in {x \in UNION {Relationships(g, t) : t \in Range(P.types)} : x[3] = v}}
        all == (IF P.dir # "in" THEN out ELSE {}) \cup (IF P.dir # "out" THEN in ELSE {})
        \* a structural relationship beside records only lends its properties
        Own(r) == r[4] # 0 \/ \A x \in DOMAIN g.recs : <<x[1], x[2], x[3]>> # <<r[1], r[2], r[3]>>
    IN  {x \in all : Own(x[1])}

\* The simple paths of at most maxLen relationships between two vertices.
SimplePaths(g, P, s, t) ==
    LET grown[k \in 0..P.maxLen] ==
            IF k = 0 THEN {[nodes |-> <<s>>, edges |-> <<>>]}
            ELSE UNION {{[nodes |-> Append(path.nodes, x[2]), edges |-> Append(path.edges, x[1])] :
                            x \in {y \in PathSteps(g, P, Last(path.nodes)) : y[2] \notin Range(path.nodes)}} :
                           path \in grown[k - 1]}
    IN  {path \in UNION {grown[k] : k \in 1..P.maxLen} : Last(path.nodes) = t}

\* Their total of a property in halves; `other` where it is not a number.
PathTotal(g, path, p, other) ==
    LET Props(r) == RelationshipMetadata(g, r) @@ EdgeMetadata(g, <<r[1], r[2], r[3]>>)
        Of(r) == IF p = "" THEN other ELSE NumericProperty(Props(r), p, other)
    IN  FoldLeft(LAMBDA n, r : n + Of(r), 0, path.edges)

\* The affordable paths from s to t as [nodes, edges, w, c].
MeantPaths(g, P, s, t) ==
    {x \in {[nodes |-> path.nodes, edges |-> path.edges, w |-> PathTotal(g, path, P.weight, 2),
             c |-> PathTotal(g, path, P.cost, 0)] : path \in SimplePaths(g, P, s, t)} :
        P.maxCost < 0 \/ x.c <= P.maxCost}

\* Is `rows` the answer for one pair: the lightest path's equals, or the
\* `count` lightest?
IsLightest(rows, P, all) ==
    LET weights == {x.w : x \in all}
        least == CHOOSE w \in weights : \A v \in weights : w <= v
    IN  /\ Range(rows) \subseteq all /\ IsInjective(rows)
        /\ IF P.count = 0 THEN Range(rows) = {x \in all : x.w = least}
           ELSE /\ Len(rows) = IF Cardinality(all) < P.count THEN Cardinality(all) ELSE P.count
                /\ \A x \in Range(rows), y \in all \ Range(rows) : x.w <= y.w
=============================================================================
