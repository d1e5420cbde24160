------------------------------ MODULE RowMatch ------------------------------
(***************************************************************************)
(* MATCH ... WHERE in HydraDB's query engine: binding rows, the patterns   *)
(* that extend them, the access paths and join methods an optimizer may    *)
(* pick, index seeds and optional groups.                                  *)
(*                                                                         *)
(* A node pattern is [b, id, labels, props]; b = "" is anonymous and id =  *)
(* 0 is no fixed id.  A pattern is [kind, b, t, src, dst, props, hops]; a  *)
(* node pattern sits in src, and hops = <<>> is a single edge.  A binding  *)
(* row is [vals, nulls, meta, rels, nullRels, relMeta].  A result that may *)
(* be absent is a sequence of at most one element.                         *)
(***************************************************************************)
EXTENDS QueryReads, TLC

AnyNode == [b |-> "", id |-> 0, labels |-> {}, props |-> Empty]

NodePattern(n) ==
    [kind |-> "node", b |-> "", t |-> "", src |-> n, dst |-> AnyNode, props |-> Empty, hops |-> <<>>]

EmptyRow ==
    [vals |-> Empty, nulls |-> {}, meta |-> Empty, rels |-> Empty, nullRels |-> {}, relMeta |-> Empty]

Named(b) == IF b = "" THEN {} ELSE {b}

NodeNames(p) == IF p.kind = "node" THEN Named(p.src.b) ELSE Named(p.src.b) \cup Named(p.dst.b)

PatternBindings(p) == NodeNames(p) \cup Named(p.b)

GroupBindings(group) == UNION {PatternBindings(p) : p \in Range(group.patterns)}

RowNames(row) == DOMAIN row.vals \cup DOMAIN row.rels

----------------------------------------------------------------------------
(* Binding rows.                                                           *)

\* A row for a vertex, with the vertex's metadata.
FromNode(g, n, v) ==
    [EmptyRow EXCEPT !.vals = [b \in Named(n.b) |-> v],
                     !.meta = [b \in Named(n.b) |-> VertexMetadata(g, v)]]

\* A row for a relationship, with the metadata of its endpoints.  A pattern
\* whose endpoints share a name only matches a loop.
FromRelationship(g, p, x) ==
    LET s == x.rel[2]
        d == x.rel[3]
        vals == [b \in Named(p.src.b) \cup Named(p.dst.b) |-> IF b = p.src.b THEN s ELSE d]
    IN  IF p.src.b # "" /\ p.src.b = p.dst.b /\ s # d THEN <<>>
        ELSE <<[EmptyRow EXCEPT !.vals = vals,
                                !.meta = [b \in DOMAIN vals |-> VertexMetadata(g, vals[b])],
                                !.rels = [b \in Named(p.b) |-> x.rel],
                                !.relMeta = (x.rel :> x.props)]>>

\* The relationship a pattern's properties are about: the named one, the
\* structural edge between named endpoints, or the row's only one.
RelationshipIdentity(row, p) ==
    IF p.b # "" THEN row.rels[p.b]
    ELSE IF p.src.b # "" /\ p.dst.b # ""
         THEN <<p.t, row.vals[p.src.b], row.vals[p.dst.b], 0>>
         ELSE CHOOSE r \in DOMAIN row.relMeta : r[1] = p.t

HydrateRelationship(g, row, p) ==
    IF p.b = "" /\ p.props = Empty THEN row
    ELSE LET r == RelationshipIdentity(row, p)
         IN  IF r \in DOMAIN row.relMeta THEN row
             ELSE [row EXCEPT !.relMeta = @ @@ (r :> RelationshipMetadata(g, r))]

\* Two rows join when everything both bind agrees; properties that were
\* read for a relationship replace an empty placeholder.
Join(l, r) ==
    LET clash ==
            \/ \E b \in DOMAIN r.vals :
                   b \in l.nulls \/ (b \in DOMAIN l.vals /\ l.vals[b] # r.vals[b])
            \/ r.nulls \cap DOMAIN l.vals # {}
            \/ \E b \in DOMAIN r.meta \cap DOMAIN l.meta : l.meta[b] # r.meta[b]
            \/ \E b \in DOMAIN r.rels \cap DOMAIN l.rels : l.rels[b] # r.rels[b]
            \/ r.nullRels \cap DOMAIN l.rels # {}
            \/ \E x \in DOMAIN r.relMeta \cap DOMAIN l.relMeta :
                   l.relMeta[x] # Empty /\ r.relMeta[x] # Empty /\ l.relMeta[x] # r.relMeta[x]
        relMeta ==
            [x \in DOMAIN l.relMeta \cup DOMAIN r.relMeta |->
                IF x \in DOMAIN l.relMeta /\ (l.relMeta[x] # Empty \/ x \notin DOMAIN r.relMeta)
                THEN l.relMeta[x] ELSE r.relMeta[x]]
    IN  IF clash THEN <<>>
        ELSE <<[vals |-> l.vals @@ r.vals, nulls |-> l.nulls \cup r.nulls,
                meta |-> l.meta @@ r.meta, rels |-> l.rels @@ r.rels,
                nullRels |-> l.nullRels \cup r.nullRels, relMeta |-> relMeta]>>

JoinAll(row, matches) == FlatMap(matches, LAMBDA m : Join(row, m))

\* What an unmatched optional group leaves: its new names are null.
MarkNulls(row, group) ==
    [row EXCEPT !.nulls = @ \cup (UNION {NodeNames(p) : p \in Range(group.patterns)} \ DOMAIN row.vals),
                !.nullRels = @ \cup (UNION {Named(p.b) : p \in Range(group.patterns)} \ DOMAIN row.rels)]

----------------------------------------------------------------------------
(* Patterns against rows.                                                  *)

MetadataMatches(meta, n) ==
    /\ n.labels \subseteq meta.labels
    /\ \A p \in DOMAIN n.props : Prop(meta.props, p) /\ ValuesEqual(meta.props[p], n.props[p])

PropertiesMatch(props, wanted) ==
    \A p \in DOMAIN wanted : Prop(props, p) /\ ValuesEqual(props[p], wanted[p])

RowMatchesNode(row, n) ==
    \/ n.b = ""
    \/ /\ n.b \notin row.nulls
       /\ n.id \in {0, row.vals[n.b]}
       /\ MetadataMatches(row.meta[n.b], n)

RowMatchesEdge(row, p) ==
    /\ RowMatchesNode(row, p.src)
    /\ RowMatchesNode(row, p.dst)
    /\ p.props = Empty \/ PropertiesMatch(row.relMeta[RelationshipIdentity(row, p)], p.props)

\* Fix a node pattern's id to the row's vertex; <<>> when they cannot agree.
ConstrainNode(n, row) ==
    IF n.b = "" THEN <<n>>
    ELSE IF n.b \in row.nulls THEN <<>>
    ELSE IF n.b \notin DOMAIN row.vals THEN <<n>>
    ELSE IF n.id \notin {0, row.vals[n.b]} THEN <<>>
    ELSE IF n.b \in DOMAIN row.meta /\ ~MetadataMatches(row.meta[n.b], n) THEN <<>>
    ELSE <<[n EXCEPT !.id = row.vals[n.b]]>>

Constrain(p, row) ==
    LET src == ConstrainNode(p.src, row)
        dst == ConstrainNode(p.dst, row)
    IN  IF p.b \in row.nullRels \/ src = <<>> \/ dst = <<>> THEN <<>>
        ELSE <<[p EXCEPT !.src = src[1], !.dst = dst[1]]>>
----------------------------------------------------------------------------
(* Access paths.  What the statistics decide, the cost of one index scan   *)
(* against another, is a free choice: pref = [edge, node] is the kind that *)
(* came out cheapest.                                                      *)

Seekable(n, bound) == n.id # 0 \/ n.b \in bound

Indexed(n, bound) == Seekable(n, bound) \/ n.labels # {} \/ n.props # Empty

NodeAccess(n, pref) ==
    CASE n.id # 0 -> "seek"
      [] n.id = 0 /\ n.labels = {} /\ n.props = Empty -> "all"
      [] n.id = 0 /\ n.labels # {} /\ n.props = Empty -> "label"
      [] n.id = 0 /\ n.labels = {} /\ n.props # Empty -> "property"
      [] n.id = 0 /\ n.labels # {} /\ n.props # Empty -> pref.node

EdgeAccesses(p, bound, latest, reverse) ==
    LET cheap == (IF Indexed(p.src, bound) THEN {"out"} ELSE {})
                 \cup (IF reverse /\ Indexed(p.dst, bound) THEN {"in"} ELSE {})
                 \cup (IF latest /\ p.props # Empty THEN {"index"} ELSE {})
    IN  CASE p.hops # <<>> -> {"hops"}
          [] p.hops = <<>> /\ Seekable(p.src, bound) /\ Seekable(p.dst, bound) -> {"into"}
          [] p.hops = <<>> /\ ~(Seekable(p.src, bound) /\ Seekable(p.dst, bound)) ->
                IF cheap = {} THEN {"scan"} ELSE cheap

Preferred(open, edge) == IF edge \in open THEN edge ELSE CHOOSE a \in open : TRUE

EdgeAccess(p, pref, latest, reverse) == Preferred(EdgeAccesses(p, {}, latest, reverse), pref.edge)

FirstProp(props) == CHOOSE p \in DOMAIN props : TRUE

VerticesBy(g, n, access) ==
    CASE access = "seek" -> {n.id}
      [] access = "property" -> VerticesByProperty(g, FirstProp(n.props), n.props[FirstProp(n.props)])
      [] access = "label" -> VerticesByLabel(g, CHOOSE l \in n.labels : TRUE)

CandidateVertices(g, n, pref) == VerticesBy(g, n, NodeAccess(n, pref))

\* Pairs of vertices in the order of their destination.
ByDestination(S) ==
    MapSeq(BySource({<<p[2], p[1]>> : p \in S}), LAMBDA p : <<p[2], p[1]>>)

\* The relationships of an edge that an equality may select.
FoundRelationships(g, p, e) ==
    IF p.props = Empty THEN RelationshipsOfEdge(g, e, g.seq)
    ELSE RelationshipsOfEdgeProperty(g, e, FirstProp(p.props), p.props[FirstProp(p.props)], g.seq)

\* The rows of relationships, with their properties, that match.
MatchingRows(g, p, found) ==
    LET rows == FlatMap(found, LAMBDA x : FromRelationship(g, p, x))
    IN  SelectSeq(MapSeq(rows, LAMBDA r : HydrateRelationship(g, r, p)), LAMBDA r : RowMatchesEdge(r, p))

\* The rows of one candidate edge.
EdgeRows(g, p, s, d) ==
    IF p.src.id \notin {0, s} \/ p.dst.id \notin {0, d} THEN <<>>
    ELSE MatchingRows(g, p, FoundRelationships(g, p, <<p.t, s, d>>))

RowsOfPairs(g, p, pairs) == FlatMap(pairs, LAMBDA e : EdgeRows(g, p, e[1], e[2]))

\* The edges an access path offers, in the order it reads them.
ExpandInto(g, p, pref) ==
    BySource({x \in CandidateVertices(g, p.src, pref) \X CandidateVertices(g, p.dst, pref) :
                 EdgeExists(g, <<p.t, x[1], x[2]>>, g.seq)})

\* Mutant: the property index is read with the literal's own key only.
FromPropertyIndexExact(g, p) ==
    LET q == FirstProp(p.props)
        key == EncodeKey(p.props[q])
    IN  BySource(EdgeKeyScan(g, p.t, q, key) \cup RelationshipKeyScan(g, p.t, q, key))

FromPropertyIndex(g, p) ==
    BySource(EdgesByProperty(g, p.t, FirstProp(p.props), p.props[FirstProp(p.props)]))

FromSources(g, p, pref) ==
    BySource(UNION {{<<s, d>> : d \in OutNeighbors(g, p.t, s, g.seq)} : s \in CandidateVertices(g, p.src, pref)})

FromDestinations(g, p, pref) ==
    ByDestination(UNION {{<<s, d>> : s \in InNeighbors(g, p.t, d)} : d \in CandidateVertices(g, p.dst, pref)})

FullScan(g, p) == BySource(EdgesAt(g, p.t, g.seq))

EdgesBy(g, p, pref, access) ==
    CASE access = "into" -> ExpandInto(g, p, pref)
      [] access = "out" -> FromSources(g, p, pref)
      [] access = "in" -> FromDestinations(g, p, pref)
      [] access = "index" -> FromPropertyIndex(g, p)
      [] access = "scan" -> FullScan(g, p)

\* The rows of a variable-length pattern from the vertices that reach[src]
\* holds: the relationship is not one edge, so it has no properties.
ReachableRows(g, p, reach) ==
    MatchingRows(g, p, MapSeq(Asc({d \in reach[p.src.id] : p.dst.id \in {0, d}}),
                              LAMBDA d : [rel |-> <<p.t, p.src.id, d, 0>>, props |-> Empty]))

\* A pattern no access path serves: a bare node, or a variable-length
\* pattern without a source.
Unanchored(p) ==
    \/ p.kind = "node" /\ ~Indexed(p.src, {})
    \/ p.kind = "edge" /\ p.hops # <<>> /\ p.src.id = 0

NodeRows(g, n, pref) ==
    SelectSeq(MapSeq(Asc(CandidateVertices(g, n, pref)), LAMBDA v : FromNode(g, n, v)),
              LAMBDA r : RowMatchesNode(r, n))

RowsBy(g, p, pref, access, reach) ==
    CASE access = "node" -> NodeRows(g, p.src, pref)
      [] access = "hops" -> ReachableRows(g, p, reach)
      [] access \notin {"node", "hops"} -> RowsOfPairs(g, p, EdgesBy(g, p, pref, access))

MatchPattern(g, p, pref, latest, reach) ==
    RowsBy(g, p, pref, IF p.kind = "node" THEN "node" ELSE EdgeAccess(p, pref, latest, g.reverse), reach)

----------------------------------------------------------------------------
(* Extending rows by a pattern: both ends known, a hash or cross join, or  *)
(* one lookup per row.                                                     *)

\* The pattern as each row that it can still fit constrains it.
Constrained(p, rows) == FlatMap(rows, LAMBDA r : MapSeq(Constrain(p, r), LAMBDA c : [row |-> r, p |-> c]))

CanExpandInto(p, rows) ==
    /\ p.kind = "edge" /\ p.hops = <<>> /\ rows # <<>>
    /\ \A x \in Range(Constrained(p, rows)) : x.p.src.id # 0 /\ x.p.dst.id # 0

ExpandIntoRows(g, p, rows) ==
    FlatMap(Constrained(p, rows), LAMBDA x : JoinAll(x.row, EdgeRows(g, x.p, x.p.src.id, x.p.dst.id)))

\* The names a join can be keyed by.
JoinNames(p, rows) == UNION {RowNames(r) : r \in Range(rows)} \cap NodeNames(p)

HashJoinable(p) ==
    IF p.kind = "node" THEN p.src.id = 0 /\ (p.src.labels # {} \/ p.src.props # Empty)
    ELSE p.hops = <<>> /\ p.props # Empty

CanHashJoin(p, rows) == Len(rows) > 1 /\ (JoinNames(p, rows) = {} \/ HashJoinable(p))

\* The pattern is matched once, unconstrained; a row joins the matches that
\* agree on every shared name.
HashJoin(rows, matches, names) ==
    LET Keyed(r) == names \subseteq DOMAIN r.vals
        Fits(r, m) == Keyed(r) /\ Keyed(m) /\ \A b \in names : m.vals[b] = r.vals[b]
    IN  FlatMap(rows, LAMBDA r : JoinAll(r, SelectSeq(matches, LAMBDA m : Fits(r, m))))

LookupJoin(g, p, rows, pref, latest, reach) ==
    FlatMap(Constrained(p, rows), LAMBDA x : JoinAll(x.row, MatchPattern(g, x.p, pref, latest, reach)))

ExtendFails(p, rows) ==
    /\ ~CanExpandInto(p, rows)
    /\ IF CanHashJoin(p, rows) THEN Unanchored(p)
       ELSE \E x \in Range(Constrained(p, rows)) : Unanchored(x.p)

ExtendRows(g, p, rows, pref, latest, reach) ==
    IF CanExpandInto(p, rows) THEN ExpandIntoRows(g, p, rows)
    ELSE IF CanHashJoin(p, rows) THEN HashJoin(rows, MatchPattern(g, p, pref, latest, reach), JoinNames(p, rows))
    ELSE LookupJoin(g, p, rows, pref, latest, reach)

----------------------------------------------------------------------------
(* Predicates: [op, l, c, r] for a comparison, [op, e, w] for STARTS WITH, *)
(* [op, args] for AND, OR and NOT.  An expression is [e, b, p, v].         *)

Missing == Val("missing", 0)

BindingProperty(row, b, p) ==
    CASE b \in row.nulls \cup row.nullRels -> Missing
      [] b \in DOMAIN row.vals /\ p = "id" -> Val("int", row.vals[b])
      [] b \in DOMAIN row.rels /\ p = "id" -> Val("error", 0)
      [] b \in DOMAIN row.rels /\ p # "id" ->
            LET props == row.relMeta[row.rels[b]] IN IF Prop(props, p) THEN props[p] ELSE Missing
      [] b \in DOMAIN row.vals /\ p # "id" ->
            LET props == row.meta[b].props IN IF Prop(props, p) THEN props[p] ELSE Missing

EvalExpression(row, x) ==
    CASE x.e = "id" -> IF x.b \in row.nulls THEN Missing ELSE Val("int", row.vals[x.b])
      [] x.e = "property" -> BindingProperty(row, x.b, x.p)
      [] x.e = "literal" -> x.v

CompareRowValues(l, op, r) ==
    IF "error" \in {l.t, r.t} THEN "error"
    ELSE IF "missing" \in {l.t, r.t} THEN "false" ELSE CompareValues(l, op, r)

RECURSIVE Truth(_, _)
Truth(row, w) ==
    CASE w.op = "compare" -> CompareRowValues(EvalExpression(row, w.l), w.c, EvalExpression(row, w.r))
      [] w.op = "starts" -> LET v == EvalExpression(row, w.e)
                            IN  IF v.t = "error" THEN "error" ELSE AsTruth(StartsWith(v, w.w))
      [] w.op = "and" -> LET l == Truth(row, w.args[1]) IN IF l = "true" THEN Truth(row, w.args[2]) ELSE l
      [] w.op = "or" -> LET l == Truth(row, w.args[1]) IN IF l = "false" THEN Truth(row, w.args[2]) ELSE l
      [] w.op = "not" -> LET l == Truth(row, w.args[1])
                         IN  CASE l = "true" -> "false" [] l = "false" -> "true" [] l = "error" -> "error"

NoConstraint == [b |-> "", p |-> "", vals |-> {}]

LiteralEquality(x, y) ==
    IF x.e = "property" /\ y.e = "literal" THEN [b |-> x.b, p |-> x.p, vals |-> {y.v}] ELSE NoConstraint

\* Both sides of an OR must constrain the same property.
OrConstraint(l, r) ==
    IF l.b = "" \/ r.b = "" \/ l.b # r.b \/ l.p # r.p THEN NoConstraint
    ELSE [l EXCEPT !.vals = @ \cup r.vals]

\* The values a property must equal for the predicate to hold.
RECURSIVE PropertyConstraint(_)
PropertyConstraint(w) ==
    CASE w.op = "compare" /\ w.c = "=" ->
            IF LiteralEquality(w.l, w.r).b # "" THEN LiteralEquality(w.l, w.r)
            ELSE LiteralEquality(w.r, w.l)
      [] w.op = "and" -> LET l == PropertyConstraint(w.args[1])
                         IN  IF l.b # "" THEN l ELSE PropertyConstraint(w.args[2])
      [] w.op = "or" -> OrConstraint(PropertyConstraint(w.args[1]), PropertyConstraint(w.args[2]))
      [] OTHER -> NoConstraint

\* Does the predicate imply that the property is a string?
RECURSIVE GuaranteesString(_, _, _)
GuaranteesString(w, b, p) ==
    CASE w.op = "starts" -> w.e.e = "property" /\ w.e.b = b /\ w.e.p = p
      [] w.op = "and" -> \E i \in 1..2 : GuaranteesString(w.args[i], b, p)
      [] w.op = "or" -> \A i \in 1..2 : GuaranteesString(w.args[i], b, p)
      [] OTHER -> FALSE

----------------------------------------------------------------------------
(* Match groups: [patterns, where, optional]; where = NoPredicate when the *)
(* group has none.                                                         *)

NoPredicate == [op |-> "none"]

\* Rows that start from the relationships an equality on a relationship
\* property names; <<>> when the group offers no such start.
RelationshipSeeds(g, group, row, latest) ==
    LET c == PropertyConstraint(group.where)
        fits == SelectSeq(group.patterns, LAMBDA p : p.kind = "edge" /\ p.b = c.b /\ p.hops = <<>> /\ p.props = Empty)
        pairs == UNION {EdgesByProperty(g, fits[1].t, c.p, v) : v \in c.vals}
    IN  IF c.b = "" \/ c.b \in DOMAIN row.rels \/ ~latest \/ fits = <<>> THEN <<>>
        ELSE <<JoinAll(row, RowsOfPairs(g, fits[1], BySource(pairs)))>>

\* Rows that start from the vertices whose string property has the prefix.
PrefixSeeds(g, group, row, latest) ==
    LET w == group.where
        names == UNION {NodeNames(p) : p \in Range(group.patterns)}
        found == Asc({v \in DOMAIN g.verts : Prop(g.verts[v].props, w.e.p) /\ StartsWith(g.verts[v].props[w.e.p], w.w)})
    IN  IF \/ w.op # "starts" \/ ~latest
           \/ w.e.e # "property" \/ w.e.b \in DOMAIN row.vals \/ w.e.b \notin names
        THEN <<>>
        ELSE <<FlattenSeq([i \in 1..Len(found) |->
                  IF w.e.b \in row.nulls THEN <<>>
                  ELSE <<[row EXCEPT !.vals = @ @@ (w.e.b :> found[i])]>>])>>

InitialRows(g, group, row, latest) ==
    IF group.where.op = "none" THEN <<row>>
    ELSE Head(RelationshipSeeds(g, group, row, latest) \o PrefixSeeds(g, group, row, latest) \o <<<<row>>>>)

\* The priorities the accesses open to a pattern can give it.
Priorities(p, bound, latest, reverse) ==
    IF p.kind = "node"
    THEN IF Seekable(p.src, bound) THEN {1}
         ELSE IF ~Indexed(p.src, bound) THEN {9}
         ELSE (IF p.src.props # Empty THEN {3} ELSE {}) \cup (IF p.src.labels # {} THEN {4} ELSE {})
    ELSE {CASE a = "into" -> 0 [] a \in {"out", "in"} -> 2 [] a = "index" -> 3
            [] a = "hops" -> 5 [] a = "scan" -> 9 : a \in EdgeAccesses(p, bound, latest, reverse)}

\* Whether the optimizer may take pattern i next: connected patterns first,
\* then the better access; the estimates decide the rest.
MayBeNext(patterns, i, left, bound, first, latest, reverse) ==
    LET Apart(j) == ~first /\ (bound = {} \/ PatternBindings(patterns[j]) \cap bound = {})
        Best(j) == Priorities(patterns[j], bound, latest, reverse)
    IN  /\ i \in left
        /\ \A j \in left : Apart(i) => Apart(j)
        /\ \E best \in Best(i) : \A j \in left :
              (Apart(i) = Apart(j)) => \E other \in Best(j) : best <= other

\* The orders in which a group's patterns may be matched.
PatternOrders(patterns, names, latest, reverse) ==
    LET n == Len(patterns)
        BoundBefore(f, k) == names \cup UNION {PatternBindings(patterns[f[j]]) : j \in 1..(k - 1)}
    IN  {f \in Permutations(1..n) :
            \A k \in 1..n : MayBeNext(patterns, f[k], {f[j] : j \in k..n}, BoundBefore(f, k), k = 1, latest, reverse)}

\* A row without a match survives an optional group with nulls.
GroupResult(group, row, matches) ==
    IF matches = <<>> /\ group.optional THEN <<MarkNulls(row, group)>> ELSE matches

\* The rows one input row contributes to a group; ok is FALSE when a
\* pattern has no access path or the predicate cannot be evaluated.
GroupRows(g, group, row, order, pref, latest, reach) ==
    LET Step(acc, i) ==
            LET p == group.patterns[i]
            IN  IF acc.rows = <<>> \/ ~acc.ok THEN acc
                ELSE IF ExtendFails(p, acc.rows) THEN [ok |-> FALSE, rows |-> <<>>]
                ELSE [ok |-> TRUE, rows |-> ExtendRows(g, p, acc.rows, pref, latest, reach)]
        T(r) == IF group.where.op = "none" THEN "true" ELSE Truth(r, group.where)
        Filtered(matched) ==
            IF ~matched.ok \/ \E r \in Range(matched.rows) : T(r) = "error"
            THEN [ok |-> FALSE, rows |-> <<>>]
            ELSE [ok |-> TRUE,
                  rows |-> GroupResult(group, row, SelectSeq(matched.rows, LAMBDA r : T(r) = "true"))]
    IN  Filtered(FoldLeft(Step, [ok |-> TRUE, rows |-> InitialRows(g, group, row, latest)], order))

\* Whether group i may run next.  Only required groups without a predicate
\* change places, and only between two groups that must keep theirs.
Movable(group) == ~group.optional /\ group.where.op = "none"

GroupMayBeNext(groups, i, left, bound) ==
    LET Apart(j) == bound # {} /\ GroupBindings(groups[j]) \cap bound = {}
        first == CHOOSE k \in left : \A j \in left : k <= j
        segment == {j \in left : \A k \in left : k <= j => Movable(groups[k])}
    IN  IF ~Movable(groups[first]) THEN i = first
        ELSE i \in segment /\ \A j \in segment : Apart(i) => Apart(j)
=============================================================================
