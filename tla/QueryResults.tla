---------------------------- MODULE QueryResults ----------------------------
(***************************************************************************)
(* RETURN in HydraDB's query engine: projection, aggregates, DISTINCT,     *)
(* ORDER BY, SKIP and LIMIT, UNION, the fast paths that answer some        *)
(* queries without binding rows, and pages.                                *)
(*                                                                         *)
(* A query is [groups, proj, order, distinct, window, arms, all].  A       *)
(* projection is [f, x]: f = "value" or an aggregate of the expression x.  *)
(* A sort is [s, x, col, asc], s one of "value", "column", "countall".  A  *)
(* window is [skip, limit], limit = -1 when there is none.  A row of a     *)
(* result is a sequence of values; cap is max_query_result_vertices.       *)
(***************************************************************************)
EXTENDS RowMatch

NoWindow == [skip |-> 0, limit |-> -1]

Rejected == [ok |-> FALSE, rows |-> <<>>]

----------------------------------------------------------------------------
(* Projection.                                                             *)

ExpressionValue(row, x) ==
    CASE x.e = "id" -> IF x.b \in row.nulls THEN Null ELSE IdValue(row.vals[x.b])
      [] x.e = "property" -> LET v == BindingProperty(row, x.b, x.p)
                             IN  IF v.t = "missing" THEN Null ELSE PropValue(v)
      [] x.e = "literal" -> PropValue(x.v)

ExpressionFails(row, x) == x.e = "property" /\ BindingProperty(row, x.b, x.p).t = "error"

ProjectBindingRow(row, proj) == [i \in 1..Len(proj) |-> ExpressionValue(row, proj[i].x)]

SortKeysForRow(row, vals, order) ==
    [i \in 1..Len(order) |->
        IF order[i].s = "column" THEN vals[order[i].col] ELSE ExpressionValue(row, order[i].x)]

ProjectRows(rows, q) ==
    LET Vals(r) == ProjectBindingRow(r, q.proj)
    IN  IF \/ \E r \in Range(rows), i \in 1..Len(q.proj) : ExpressionFails(r, q.proj[i].x)
           \/ rows # <<>> /\ \E i \in 1..Len(q.order) : q.order[i].s = "countall"
        THEN Rejected
        ELSE [ok |-> TRUE,
              rows |-> [i \in 1..Len(rows) |->
                           [vals |-> Vals(rows[i]), keys |-> SortKeysForRow(rows[i], Vals(rows[i]), q.order)]]]

----------------------------------------------------------------------------
(* Aggregates.                                                             *)

IsAggregate(pr) == pr.f # "value"

HasAggregates(q) == \E i \in 1..Len(q.proj) : IsAggregate(q.proj[i])

GroupKey(row, proj) ==
    LET plain == SelectSeq(proj, LAMBDA pr : ~IsAggregate(pr))
    IN  ProjectBindingRow(row, plain)

\* The derived order of group keys: kind first, then the number.
GroupKeyOrder(k, l) ==
    LET Kind(v) == CASE v.k = "null" -> 0 [] v.k = "id" -> 1
                     [] v.k = "prop" -> 2 + (CHOOSE i \in 1..5 : <<"int", "sint", "bool", "float", "str">>[i] = v.v[1].t)
        At(i) == IF Kind(k[i]) # Kind(l[i]) THEN Cmp(Kind(k[i]), Kind(l[i]))
                 ELSE IF k[i].k = "null" THEN 0 ELSE Cmp(k[i].v[1].n, l[i].v[1].n)
    IN  FirstDifference(Len(k), At)

SumOf(ns) == FoldLeft(LAMBDA a, v : a + v.n, 0, ns)

\* The value of an aggregate over the rows of a group; a missing value is
\* left out.  An average is kept in twelfths.
Aggregate(pr, rows) ==
    LET Of(ns) == CASE pr.f = "countall" -> CountValue(Len(rows))
                    [] pr.f = "count" -> CountValue(Len(ns))
                    [] pr.f = "sum" -> PropValue(Val("int", SumOf(ns)))
                    [] pr.f = "avg" -> IF ns = <<>> THEN Null ELSE FloatValue((12 * SumOf(ns)) \div Len(ns))
                    [] pr.f = "collect" -> ListValue(ns)
        found == SelectSeq(MapSeq(rows, LAMBDA r : ExpressionValue(r, pr.x)), LAMBDA v : v # Null)
    IN  Of(MapSeq(found, LAMBDA v : v.v[1]))

\* Sums and averages take unsigned integers, and a sum must fit one.
AggregateFails(pr, rows) ==
    LET found == SelectSeq([i \in 1..Len(rows) |-> EvalExpression(rows[i], pr.x)], LAMBDA v : v.t # "missing")
    IN  /\ pr.f \in {"sum", "avg"}
        /\ \/ \E v \in Range(found) : v.t # "int"
           \/ pr.f = "sum" /\ SumOf(found) > MaxInt

SortKeysForProjectedOnly(vals, order) ==
    [i \in 1..Len(order) |->
        IF order[i].s = "column" THEN vals[order[i].col]
        ELSE vals[CHOOSE k \in 1..Len(vals) : vals[k].k = "count" /\ \A j \in 1..(k - 1) : vals[j].k # "count"]]

\* One row per group; without a group key there is always one group.
AggregateRows(rows, q) ==
    LET plain == SelectSeq(q.proj, LAMBDA pr : ~IsAggregate(pr))
        keys == {GroupKey(r, q.proj) : r \in Range(rows)} \cup (IF plain = <<>> THEN {<<>>} ELSE {})
        Members(k) == SelectSeq(rows, LAMBDA r : GroupKey(r, q.proj) = k)
        Before(i) == Cardinality({j \in 1..i : ~IsAggregate(q.proj[j])})
        Vals(k) == [i \in 1..Len(q.proj) |->
                       IF IsAggregate(q.proj[i]) THEN Aggregate(q.proj[i], Members(k)) ELSE k[Before(i)]]
        Row(vals) == [vals |-> vals, keys |-> SortKeysForProjectedOnly(vals, q.order)]
    IN  IF \/ \E k \in keys, i \in 1..Len(q.proj) : IsAggregate(q.proj[i]) /\ AggregateFails(q.proj[i], Members(k))
           \/ keys # {} /\ \E i \in 1..Len(q.order) : q.order[i].s = "value"
        THEN Rejected
        ELSE [ok |-> TRUE,
              rows |-> MapSeq(SortSeq(Listing(keys), LAMBDA k, l : GroupKeyOrder(k, l) < 0), LAMBDA k : Row(Vals(k)))]

----------------------------------------------------------------------------
(* DISTINCT, ORDER BY, SKIP, LIMIT.                                        *)

\* The first of equal rows is kept.
Distinct(rows) ==
    LET First(i) == \A j \in 1..(i - 1) : rows[j].vals # rows[i].vals
        kept == SelectSeq(Hops(Len(rows)), First)
    IN  [i \in 1..Len(kept) |-> rows[kept[i]]]

\* A stable sort by the rows' keys.
SortRows(rows, order) ==
    LET asc == [i \in 1..Len(order) |-> order[i].asc]
        Stably(c, i, j) == c < 0 \/ (c = 0 /\ i < j)
        Before(i, j) == Stably(CompareKeys(rows[i].keys, rows[j].keys, asc), i, j)
        places == SortSeq(Hops(Len(rows)), Before)
    IN  IF order = <<>> THEN rows ELSE [i \in 1..Len(rows) |-> rows[places[i]]]

\* What SKIP and LIMIT leave; a limit, or an unlimited result, past the cap
\* is rejected.
ApplyWindow(rows, window, cap) ==
    LET rest == SubSeq(rows, window.skip + 1, Len(rows))
    IN  IF window.limit >= 0
        THEN IF window.limit > cap THEN Rejected ELSE [ok |-> TRUE, rows |-> FirstOf(rest, window.limit)]
        ELSE IF Len(rest) > cap THEN Rejected ELSE [ok |-> TRUE, rows |-> rest]

RowValues(rows) == [i \in 1..Len(rows) |-> rows[i].vals]

FinishProjectedRows(rows, order, distinct, window, cap) ==
    LET once == IF distinct THEN Distinct(rows) ELSE rows
    IN  ApplyWindow(RowValues(SortRows(once, order)), window, cap)

\* The rows of a query from its bindings.
GenericRows(rows, q, window, cap) ==
    LET Finish(made) == IF ~made.ok THEN Rejected ELSE FinishProjectedRows(made.rows, q.order, q.distinct, window, cap)
    IN  Finish(IF HasAggregates(q) THEN AggregateRows(rows, q) ELSE ProjectRows(rows, q))

\* The arms of a UNION, each under its own window, then the outer one.
UnionRows(arms, all, window, cap) ==
    LET rows == FlattenSeq([i \in 1..Len(arms) |-> arms[i].rows])
        boxed == [i \in 1..Len(rows) |-> [vals |-> rows[i], keys |-> <<>>]]
    IN  IF \E i \in 1..Len(arms) : ~arms[i].ok THEN Rejected
        ELSE FinishProjectedRows(boxed, <<>>, ~all, window, cap)

----------------------------------------------------------------------------
(* The fast paths.  LoneEdge is the only pattern of a query, when that is  *)
(* an edge under no predicate.                                             *)

LoneEdge(q) ==
    IF /\ q.arms = <<>> /\ Len(q.groups) = 1
       /\ ~q.groups[1].optional /\ q.groups[1].where.op = "none"
       /\ Len(q.groups[1].patterns) = 1 /\ q.groups[1].patterns[1].kind = "edge"
    THEN <<q.groups[1].patterns[1]>> ELSE <<>>

PlainNode(n) == n.labels = {} /\ n.props = Empty

PlainEnds(p) == PlainNode(p.src) /\ PlainNode(p.dst)

\* A projection, or a sort, that is the id of one of the named vertices.
IsIdOf(pr, names) == pr.f = "value" /\ pr.x.e = "id" /\ pr.x.b \in names

SortsByIdOf(q, sort, names) ==
    \/ sort.s = "value" /\ sort.x.e = "id" /\ sort.x.b \in names
    \/ sort.s = "column" /\ IsIdOf(q.proj[sort.col], names)

EndNames(p) == Named(p.src.b) \cup Named(p.dst.b)

CountsOnly(q) == Len(q.proj) = 1 /\ q.proj[1].f = "countall"

\* A traversal that returns its end vertices or their number.
KernelOrder(q, p) ==
    \/ q.order = <<>>
    \/ /\ Len(q.order) = 1
       /\ IF CountsOnly(q) THEN q.order[1].s \in {"countall", "column"}
          ELSE SortsByIdOf(q, q.order[1], Named(p.dst.b))

IsKernelQuery(q) ==
    LoneEdge(q) # <<>> /\
    LET p == LoneEdge(q)[1]
    IN  /\ p.hops # <<>> /\ p.src.id # 0 /\ p.b = "" /\ p.props = Empty /\ PlainEnds(p)
        /\ Len(q.proj) = 1 /\ (CountsOnly(q) \/ IsIdOf(q.proj[1], Named(p.dst.b)))
        /\ KernelOrder(q, p)

\* The ids around a source's relationships.
IsSourceQuery(q) ==
    LoneEdge(q) # <<>> /\
    LET p == LoneEdge(q)[1]
    IN  /\ p.hops = <<>> /\ p.src.id # 0 /\ p.dst.id = 0 /\ p.b = "" /\ p.props = Empty /\ PlainEnds(p)
        /\ \A i \in 1..Len(q.proj) : IsIdOf(q.proj[i], EndNames(p))
        /\ \A i \in 1..Len(q.order) : SortsByIdOf(q, q.order[i], EndNames(p))

\* The number of relationships between two vertices.
IsCountQuery(q) ==
    LoneEdge(q) # <<>> /\
    LET p == LoneEdge(q)[1]
    IN  /\ q.order = <<>> /\ CountsOnly(q)
        /\ p.hops = <<>> /\ p.src.id # 0 /\ p.dst.id # 0 /\ p.props = Empty /\ PlainEnds(p)

\* The named relationship between two vertices and its properties.
IsRelationshipQuery(q) ==
    LoneEdge(q) # <<>> /\
    LET p == LoneEdge(q)[1]
        Own(x) == x.e = "property" /\ x.b = p.b /\ x.p # "id"
        Fits(pr) == IsIdOf(pr, EndNames(p)) \/ (pr.f = "value" /\ Own(pr.x))
    IN  /\ p.hops = <<>> /\ p.src.id # 0 /\ p.dst.id # 0 /\ p.b # "" /\ PlainEnds(p)
        /\ \A i \in 1..Len(q.proj) : Fits(q.proj[i])
        /\ \A i \in 1..Len(q.order) :
              \/ SortsByIdOf(q, q.order[i], EndNames(p))
              \/ q.order[i].s = "value" /\ Own(q.order[i].x)
              \/ q.order[i].s = "column" /\ Fits(q.proj[q.order[i].col])

\* Vertices in the order of a string property that the predicate requires.
IsOrderedStringQuery(q, window) ==
    /\ q.arms = <<>> /\ Len(q.groups) = 1 /\ ~q.groups[1].optional
    /\ Len(q.groups[1].patterns) = 1 /\ q.groups[1].patterns[1].kind = "node"
    /\ q.order # <<>> /\ window.limit >= 0 /\ ~q.distinct /\ ~HasAggregates(q)
    /\ LET n == q.groups[1].patterns[1].src
           sort == q.order[1]
       IN  /\ n.b # "" /\ sort.s = "value" /\ sort.x.e = "property" /\ sort.x.b = n.b
           /\ GuaranteesString(q.groups[1].where, n.b, sort.x.p)

\* The path that answers a query.
AccessOf(q, window) ==
    IF IsKernelQuery(q) THEN "kernel"
    ELSE IF IsSourceQuery(q) THEN "source"
    ELSE IF IsCountQuery(q) THEN "count"
    ELSE IF IsRelationshipQuery(q) THEN "relationships"
    ELSE IF IsOrderedStringQuery(q, window) THEN "ordered"
    ELSE "generic"

Ordered(S, asc) == IF asc THEN Asc(S) ELSE Reverse(Asc(S))

IdRows(vertices) == [i \in 1..Len(vertices) |-> <<IdValue(vertices[i])>>]

KernelAscending(q) == q.order = <<>> \/ CountsOnly(q) \/ q.order[1].asc

WindowSorted(sorted, window, asc) ==
    LET seq == IF asc THEN sorted ELSE Reverse(sorted)
        rest == SubSeq(seq, window.skip + 1, Len(seq))
    IN  IF window.limit < 0 THEN rest ELSE FirstOf(rest, window.limit)

\* A traversal's answer from what it found, the number it counted and the
\* ascending vertices a window is cut from.
KernelRows(q, found, count, sorted, window, cap) ==
    LET p == LoneEdge(q)[1]
        kept == Ordered({d \in found : p.dst.id \in {0, d}}, KernelAscending(q))
        rows == IF CountsOnly(q) THEN <<<<CountValue(Len(kept))>>>> ELSE IdRows(kept)
    IN  IF CountsOnly(q) /\ p.dst.id = 0 THEN ApplyWindow(<<<<CountValue(count)>>>>, window, cap)
        ELSE IF p.dst.id = 0 /\ window # NoWindow /\ ~q.distinct
             THEN IF window.limit > cap THEN Rejected
                  ELSE [ok |-> TRUE, rows |-> IdRows(WindowSorted(sorted, window, KernelAscending(q)))]
        ELSE FinishProjectedRows([i \in 1..Len(rows) |-> [vals |-> rows[i], keys |-> <<>>]],
                                 <<>>, q.distinct, window, cap)

\* A binding row for each destination of the source.
EndRow(p, d) == [EmptyRow EXCEPT !.vals = [b \in EndNames(p) |-> IF b = p.src.b THEN p.src.id ELSE d]]

SourceBindings(p, dsts) ==
    LET kept == SelectSeq(dsts, LAMBDA d : p.src.b = "" \/ p.src.b # p.dst.b \/ d = p.src.id)
    IN  [i \in 1..Len(kept) |-> EndRow(p, kept[i])]

SourceRows(q, dsts, window, cap) ==
    LET made == ProjectRows(SourceBindings(LoneEdge(q)[1], dsts), q)
    IN  FinishProjectedRows(made.rows, q.order, q.distinct, window, cap)

CountRows(g, q, window, cap) ==
    LET p == LoneEdge(q)[1]
    IN  ApplyWindow(<<<<CountValue(RelationshipCount(g, <<p.t, p.src.id, p.dst.id>>, g.seq))>>>>, window, cap)

RelationshipRows(g, q, window, cap) ==
    LET Row(p, x) == [EmptyRow EXCEPT !.vals = [b \in EndNames(p) |-> IF b = p.src.b THEN x.rel[2] ELSE x.rel[3]],
                                      !.rels = (p.b :> x.rel), !.relMeta = (x.rel :> x.props)]
        Rows(p) == MapSeq(SelectSeq(FoundRelationships(g, p, <<p.t, p.src.id, p.dst.id>>),
                                    LAMBDA x : PropertiesMatch(x.props, p.props)),
                          LAMBDA x : Row(p, x))
    IN  FinishProjectedRows(ProjectRows(Rows(LoneEdge(q)[1]), q).rows, q.order, q.distinct, window, cap)

\* The string entries of the property index, in key order.
StringEntries(g, p, asc) ==
    LET entries == {<<g.verts[v].props[p].n, v>> : v \in {u \in DOMAIN g.verts :
                        Prop(g.verts[u].props, p) /\ g.verts[u].props[p].t = "str"}}
        up == SortSeq(Listing(entries), LAMBDA x, y : x[1] < y[1] \/ (x[1] = y[1] /\ x[2] < y[2]))
    IN  IF asc THEN up ELSE Reverse(up)

\* The scan goes on through the word it became full at: the rest of the
\* ORDER BY decides between the vertices that share it.
OrderedStringDone(len, required, boundary, word) == len >= required /\ boundary # word

OrderedStringRows(g, q, window, cap) ==
    LET n == q.groups[1].patterns[1].src
        required == window.skip + window.limit
        Step(a, entry) ==
            LET row == FromNode(g, n, entry[2])
                fits == n.id \in {0, entry[2]} /\ RowMatchesNode(row, n) /\ Truth(row, q.groups[1].where) = "true"
            IN  IF a.done \/ OrderedStringDone(Len(a.rows), required, a.boundary, entry[1])
                THEN [a EXCEPT !.done = TRUE]
                ELSE IF ~fits THEN a
                ELSE [a EXCEPT !.rows = Append(@, row),
                               !.boundary = IF Len(a.rows) + 1 = required THEN entry[1] ELSE @]
        scan == FoldLeft(Step, [rows |-> <<>>, boundary |-> -1, done |-> FALSE],
                         StringEntries(g, q.order[1].x.p, q.order[1].asc))
    IN  IF window.limit = 0 THEN [ok |-> TRUE, rows |-> <<>>]
        ELSE FinishProjectedRows(ProjectRows(scan.rows, q).rows, q.order, FALSE, window, cap)

----------------------------------------------------------------------------
(* Pages: one row more than the page is asked for, to see whether another  *)
(* page follows.  next = -1 ends the pages.                                *)

\* Mutant: a page asks for no row beyond its own.
PageWindowExact(window, offset, size, cap) ==
    IF size = 0 \/ size > cap - 1 THEN [ok |-> FALSE, window |-> window]
    ELSE [ok |-> TRUE, window |-> [skip |-> window.skip + offset, limit |-> size]]

PageWindow(window, offset, size, cap) ==
    LET left == IF offset >= window.limit THEN 0 ELSE window.limit - offset
        limit == IF window.limit < 0 \/ left > size + 1 THEN size + 1 ELSE left
    IN  IF size = 0 \/ size > cap - 1 THEN [ok |-> FALSE, window |-> window]
        ELSE [ok |-> TRUE, window |-> [skip |-> window.skip + offset, limit |-> limit]]

PageOf(rows, offset, size) ==
    [rows |-> FirstOf(rows, size), next |-> IF Len(rows) > size THEN offset + size ELSE -1]

\* The ids of a source's neighbours, straight from the out-edges.
IsStreamQuery(q) ==
    LoneEdge(q) # <<>> /\
    LET p == LoneEdge(q)[1]
    IN  /\ p.hops = <<>> /\ p.props = Empty /\ p.src.id # 0 /\ p.dst.id = 0 /\ PlainEnds(p)
        /\ \A i \in 1..Len(q.proj) : IsIdOf(q.proj[i], EndNames(p))
        /\ \/ q.order = <<>>
           \/ Len(q.order) = 1 /\ q.order[1].asc /\ SortsByIdOf(q, q.order[1], Named(p.dst.b))

PageAccessOf(q) ==
    IF /\ IsSourceQuery(q) /\ ~q.distinct /\ Len(q.order) = 1
       /\ SortsByIdOf(q, q.order[1], Named(LoneEdge(q)[1].dst.b)) THEN "source"
    ELSE IF IsKernelQuery(q) THEN "kernel"
    ELSE IF IsStreamQuery(q) THEN "stream"
    ELSE "generic"

SourcePageRows(q, dsts, window) ==
    LET up == SortSeq(dsts, LAMBDA d, e : d < e)
        cut == WindowSorted(up, window, q.order[1].asc)
    IN  RowValues(ProjectRows(SourceBindings(LoneEdge(q)[1], cut), q).rows)

KernelPageRows(q, found, count, sorted, window, cap) ==
    LET p == LoneEdge(q)[1]
        kept == Ordered({d \in found : p.dst.id \in {0, d}}, KernelAscending(q))
    IN  IF CountsOnly(q)
        THEN ApplyWindow(<<<<CountValue(IF p.dst.id = 0 THEN count ELSE Len(kept))>>>>, window, cap)
        ELSE IF p.dst.id = 0
             THEN [ok |-> TRUE, rows |-> IdRows(WindowSorted(sorted, window, KernelAscending(q)))]
        ELSE ApplyWindow(IdRows(kept), window, cap)

StreamPageRows(g, q, window, cap) ==
    LET p == LoneEdge(q)[1]
        cut == ApplyWindow(Asc(OutNeighbors(g, p.t, p.src.id, g.seq)), window, cap)
    IN  [cut EXCEPT !.rows = [i \in 1..Len(@) |-> ProjectBindingRow(EndRow(p, @[i]), q.proj)]]
=============================================================================
