----------------------------- MODULE QueryReads -----------------------------
(***************************************************************************)
(* How a query reads a cell.  A snapshot g holds                           *)
(*   seq      the storage sequence it is pinned at                         *)
(*   verts    vertex -> [labels, props]   (a vertex without metadata has   *)
(*            no entry)                                                    *)
(*   direct   the edges <<type, src, dst>> of the out-edge key family      *)
(*   segs     the appended out segments [seq, t, s, dsts], in key order    *)
(*   tombs    edge -> sequence of its segment tombstone                    *)
(*   rev      the reverse index, and reverse: does the policy write it     *)
(*   recs     <<type, src, dst, id>> -> properties of a relationship record*)
(*   emeta    edge -> properties of the structural edge                    *)
(*   outDeg, inDeg, relCount   the counters.                               *)
(* The property indexes hold exactly the values of verts, recs and emeta   *)
(* (GraphCell's IndexesAgree), so an index scan is a comprehension over    *)
(* them.  Relationship id 0 is the structural relationship of an edge.     *)
(***************************************************************************)
EXTENDS QueryValues

CONSTANT MaxVertex       \* the vertices are 1..MaxVertex

Empty == [x \in {} |-> 0]

Vertices == 1..MaxVertex

\* A set of vertices in key order.
Asc(S) == SelectSeq([i \in Vertices |-> i], LAMBDA v : v \in S)

\* A set in any order.
Listing(S) == FoldSet(LAMBDA x, seq : Append(seq, x), <<>>, S)

MapSeq(seq, F(_)) == [i \in 1..Len(seq) |-> F(seq[i])]

FlatMap(seq, F(_)) == FlattenSeq(MapSeq(seq, F))

Hops(n) == [i \in 1..n |-> i]

FirstOf(seq, n) == SubSeq(seq, 1, IF Len(seq) <= n THEN Len(seq) ELSE n)

\* Pairs of vertices in the order of their source.
BySource(S) ==
    FlattenSeq([s \in Vertices |-> [i \in 1..Len(Asc({p[2] : p \in {x \in S : x[1] = s}})) |->
        <<s, Asc({p[2] : p \in {x \in S : x[1] = s}})[i]>>]])

Prop(props, p) == p \in DOMAIN props

----------------------------------------------------------------------------
(* Topology at a sequence.                                                 *)

SegmentEdgeVisible(seq, tombstone) == seq > tombstone

\* The tombstone of an edge as of `at`, 0 when there is none.
TombstoneAt(g, e, at) ==
    IF e \in DOMAIN g.tombs /\ g.tombs[e] <= at THEN g.tombs[e] ELSE 0

\* The segments of a source up to `at`.
SegmentsOf(g, t, s, at) ==
    SelectSeq(g.segs, LAMBDA x : x.t = t /\ x.s = s /\ x.seq <= at)

InSegments(g, e, at) ==
    \E x \in Range(SegmentsOf(g, e[1], e[2], at)) :
        e[3] \in x.dsts /\ SegmentEdgeVisible(x.seq, TombstoneAt(g, e, at))

EdgeExists(g, e, at) == e \in g.direct \/ InSegments(g, e, at)

OutNeighbors(g, t, s, at) ==
    {d \in Vertices : <<t, s, d>> \in g.direct}
    \cup {d \in Vertices : InSegments(g, <<t, s, d>>, at)}

\* The pairs of an edge type that segments alone show.
SegmentEdgePairs(g, t, at) ==
    {p \in Vertices \X Vertices : InSegments(g, <<t, p[1], p[2]>>, at)}

\* The canonical adjacency: every live edge of a type.
EdgesAt(g, t, at) ==
    {p \in Vertices \X Vertices : EdgeExists(g, <<t, p[1], p[2]>>, at)}

ReverseNeighbors(g, t, d) == {s \in Vertices : <<t, s, d>> \in g.rev}

\* Without a reverse index the canonical adjacency is scanned.
InNeighbors(g, t, d) ==
    IF g.reverse THEN ReverseNeighbors(g, t, d)
    ELSE {s \in Vertices : <<s, d>> \in EdgesAt(g, t, g.seq)}

OutDegree(g, t, s) == IF <<t, s>> \in DOMAIN g.outDeg THEN g.outDeg[<<t, s>>] ELSE 0

\* The batch reads answer every request in its place; repeated requests are
\* read once.
OutNeighborsBatch(g, t, sources) ==
    LET bySource == [s \in Range(sources) |-> OutNeighbors(g, t, s, g.seq)]
    IN  [i \in 1..Len(sources) |-> bySource[sources[i]]]

InNeighborsBatch(g, t, dests) ==
    LET byDest ==
            IF g.reverse
            THEN [d \in Range(dests) |-> ReverseNeighbors(g, t, d)]
            ELSE [d \in Range(dests) |-> {e[1] : e \in {p \in EdgesAt(g, t, g.seq) : p[2] = d}}]
    IN  [i \in 1..Len(dests) |-> byDest[dests[i]]]

EdgeExistsBatch(g, t, pairs) ==
    LET live == {p \in Range(pairs) : EdgeExists(g, <<t, p[1], p[2]>>, g.seq)}
    IN  [i \in 1..Len(pairs) |-> pairs[i] \in live]

\* The degree counters that disagree with the live edges.
DegreeMismatches(g, t) ==
    LET edges == EdgesAt(g, t, g.seq)
        Out(v) == Cardinality({p \in edges : p[1] = v})
        In(v) == Cardinality({p \in edges : p[2] = v})
    IN  {<<"out", v>> : v \in {u \in Vertices : Out(u) > 0 /\ OutDegree(g, t, u) # Out(u)}}
        \cup (IF g.reverse
              THEN {<<"in", v>> : v \in {u \in Vertices : In(u) > 0 /\ g.inDeg[<<t, u>>] # In(u)}}
              ELSE {<<"in", v>> : v \in {u \in Vertices : <<t, u>> \in DOMAIN g.inDeg}})

----------------------------------------------------------------------------
(* Metadata.                                                               *)

NoMetadata == [labels |-> {}, props |-> Empty]

VertexMetadata(g, v) == IF v \in DOMAIN g.verts THEN g.verts[v] ELSE NoMetadata

EdgeMetadata(g, e) == IF e \in DOMAIN g.emeta THEN g.emeta[e] ELSE Empty

\* A relationship's properties; the structural one has the edge's.
RelationshipMetadata(g, r) ==
    IF r[4] = 0 THEN EdgeMetadata(g, <<r[1], r[2], r[3]>>)
    ELSE IF r \in DOMAIN g.recs THEN g.recs[r] ELSE Empty

----------------------------------------------------------------------------
(* Relationships of an edge, in key order: the records by id, then the     *)
(* structural relationship when no record exists or the edge itself has    *)
(* properties.                                                             *)

RecordIds(g, e) == {r[4] : r \in {x \in DOMAIN g.recs : <<x[1], x[2], x[3]>> = e}}

AscIds(S) == LET top == IF S = {} THEN 0 ELSE CHOOSE n \in S : \A m \in S : m <= n
             IN  SelectSeq([i \in 1..top |-> i], LAMBDA n : n \in S)

RelationshipOf(e, id) == <<e[1], e[2], e[3], id>>

RelationshipsOfEdge(g, e, at) ==
    IF ~EdgeExists(g, e, at) THEN <<>>
    ELSE LET ids == RecordIds(g, e)
             records == [i \in 1..Len(AscIds(ids)) |->
                            [rel |-> RelationshipOf(e, AscIds(ids)[i]),
                             props |-> g.recs[RelationshipOf(e, AscIds(ids)[i])]]]
             structural == [rel |-> RelationshipOf(e, 0), props |-> EdgeMetadata(g, e)]
         IN  IF ids = {} \/ DOMAIN structural.props # {}
             THEN Append(records, structural) ELSE records

\* The relationships of an edge whose property p equals v, found through
\* the relationship property index.
EncodedRelationships(g, e, p, key) ==
    {id \in RecordIds(g, e) :
        LET props == g.recs[RelationshipOf(e, id)]
        IN  Prop(props, p) /\ EncodeKey(props[p]) = key}

RelationshipsOfEdgeProperty(g, e, p, v, at) ==
    IF ~EdgeExists(g, e, at) THEN <<>>
    ELSE LET ids == AscIds(UNION {EncodedRelationships(g, e, p, key) : key \in EquivalentKeys(v)})
             records == [i \in 1..Len(ids) |->
                            [rel |-> RelationshipOf(e, ids[i]),
                             props |-> g.recs[RelationshipOf(e, ids[i])]]]
             meta == EdgeMetadata(g, e)
         IN  IF Prop(meta, p) /\ ValuesEqual(meta[p], v)
             THEN Append(records, [rel |-> RelationshipOf(e, 0), props |-> meta])
             ELSE records

RecordCount(g, e) == Cardinality(RecordIds(g, e))

\* The number of relationships of an edge: the counter, the records, or one
\* for a bare structural edge.
RelationshipCount(g, e, at) ==
    LET counter == IF e \in DOMAIN g.relCount THEN g.relCount[e] ELSE 0
    IN  IF counter > 0 THEN counter
        ELSE IF RecordCount(g, e) > 0 THEN RecordCount(g, e)
        ELSE IF EdgeExists(g, e, at) THEN 1 ELSE 0

\* The destinations of a source, one per record and one per edge without.
SourceDestinations(g, t, s, at) ==
    LET perDst == [d \in Vertices |-> [i \in 1..RecordCount(g, <<t, s, d>>) |-> d]]
        records == FlattenSeq([d \in Vertices |-> perDst[d]])
        bare == {d \in OutNeighbors(g, t, s, at) : RecordCount(g, <<t, s, d>>) = 0}
    IN  records \o Asc(bare)

\* For a path, the records carry the structural properties too.
PathRelationships(g, e, at) ==
    LET rows == RelationshipsOfEdge(g, e, at)
        records == SelectSeq(rows, LAMBDA x : x.rel[4] # 0)
        base == IF \E x \in Range(rows) : x.rel[4] = 0 THEN EdgeMetadata(g, e) ELSE Empty
    IN  IF records = <<>> THEN rows
        ELSE [i \in 1..Len(records) |->
                 [rel |-> records[i].rel, props |-> records[i].props @@ base]]

----------------------------------------------------------------------------
(* Index scans.                                                            *)

VertexKeyScan(g, p, key) ==
    {v \in DOMAIN g.verts : Prop(g.verts[v].props, p) /\ EncodeKey(g.verts[v].props[p]) = key}

VerticesByProperty(g, p, v) == UNION {VertexKeyScan(g, p, key) : key \in EquivalentKeys(v)}

VerticesByLabel(g, label) == {v \in DOMAIN g.verts : label \in g.verts[v].labels}

EdgeKeyScan(g, t, p, key) ==
    {<<e[2], e[3]>> : e \in {x \in DOMAIN g.emeta :
        x[1] = t /\ Prop(g.emeta[x], p) /\ EncodeKey(g.emeta[x][p]) = key}}

RelationshipKeyScan(g, t, p, key) ==
    {<<r[2], r[3]>> : r \in {x \in DOMAIN g.recs :
        x[1] = t /\ Prop(g.recs[x], p) /\ EncodeKey(g.recs[x][p]) = key}}

EdgesByProperty(g, t, p, v) ==
    UNION {EdgeKeyScan(g, t, p, key) \cup RelationshipKeyScan(g, t, p, key) :
              key \in EquivalentKeys(v)}

----------------------------------------------------------------------------
(* What the statistics jobs count.                                         *)

EdgeTypeCardinality(g, t) ==
    LET sources == {k \in DOMAIN g.outDeg : k[1] = t}
    IN  FoldSet(LAMBDA k, n : n + g.outDeg[k], 0, sources)

VertexHistogram(g, p) ==
    LET keys == {EncodeKey(g.verts[v].props[p]) :
                    v \in {u \in DOMAIN g.verts : Prop(g.verts[u].props, p)}}
    IN  [key \in keys |-> Cardinality(VertexKeyScan(g, p, key))]

\* Only the structural properties of edges that exist are bucketed.
EdgeHistogram(g, t, p) ==
    LET live == {e \in DOMAIN g.emeta : e[1] = t /\ Prop(g.emeta[e], p) /\ EdgeExists(g, e, g.seq)}
    IN  [key \in {EncodeKey(g.emeta[e][p]) : e \in live} |->
            Cardinality({e \in live : EncodeKey(g.emeta[e][p]) = key})]
=============================================================================
