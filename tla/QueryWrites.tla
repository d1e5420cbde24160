---------------------------- MODULE QueryWrites ----------------------------
(***************************************************************************)
(* Writing through HydraDB's query engine, next to QueryEngine's reading:  *)
(* MATCH ... SET / REMOVE / DELETE, the batched delete by a relationship   *)
(* property, standalone CREATE and MERGE, and the statistics the optimizer *)
(* costs its plans with.                                                   *)
(*                                                                         *)
(* A mutation is not one transaction.  It matches its patterns one after   *)
(* the other, computes what it wants to write, then commits vertex by      *)
(* vertex and relationship by relationship; another client may commit in   *)
(* between, and a deadline or a cancellation may stop it at every step.    *)
(* The commits are GraphCell's: here each is one new snapshot.             *)
(*                                                                         *)
(* job.update is [kind, patterns, where, actions, t, p, vals, clauses], kind *)
(* one of "match", "byprop", "create".  An action is [a, b, p, v, labels]; *)
(* a is "set", "remove", "label", "unlabel", "delete" or "detach".  A      *)
(* clause is [c, e, src, dst, props], c = "create" or "merge".  job.others   *)
(* are the vertices another client writes, with what it writes; job.specs    *)
(* are the statistics to refresh.                                          *)
(***************************************************************************)
EXTENDS QueryEngine

VARIABLES
    mut,        \* the mutation in progress
    refresh,    \* the statistics jobs, one per job.specs
    stats       \* the published statistics: key -> [count, at, distinct, most, point]

allVars == <<vars, mut, refresh, stats>>

NoMut ==
    [pc |-> "idle", at |-> 0, left |-> {}, rows |-> <<>>, n |-> 1, verts |-> Empty, before |-> Empty,
     rels |-> Empty, beforeRels |-> Empty, todo |-> <<>>]

NoRefresh == [pc |-> "idle", at |-> 0, count |-> 0, buckets |-> Empty, stale |-> {}]

Now == past[cell]

\* A commit: the content becomes the cell's next snapshot.
Install(g) ==
    /\ past' = Append(past, [g EXCEPT !.seq = Now.seq + 1])
    /\ cell' = cell + 1

----------------------------------------------------------------------------
(* What the commits do to a snapshot (GraphCell has their transactions).   *)

EdgeOf(r) == <<r[1], r[2], r[3]>>

Without(f, S) == [x \in DOMAIN f \ S |-> f[x]]

\* The counters of the snapshot that a commit of these edges and records makes.
Recounted(g) ==
    LET live == UNION {{<<t, p[1], p[2]>> : p \in EdgesAt(g, t, g.seq + 1)} :
                          t \in {e[1] : e \in g.direct} \cup {x.t : x \in Range(g.segs)}}
        pairs == {EdgeOf(r) : r \in DOMAIN g.recs}
    IN  [g EXCEPT !.outDeg = [k \in {<<e[1], e[2]>> : e \in live} |->
                                Cardinality({e \in live : e[1] = k[1] /\ e[2] = k[2]})],
                  !.inDeg = IF g.reverse
                            THEN [k \in {<<e[1], e[3]>> : e \in live} |->
                                    Cardinality({e \in live : e[1] = k[1] /\ e[3] = k[2]})]
                            ELSE Empty,
                  !.relCount = [e \in pairs |-> Cardinality(RecordIds(g, e))]]

\* Edges go with all that hangs on them.
DropEdges(g, S) ==
    LET gone == {e \in S : EdgeExists(g, e, g.seq)}
    IN  Recounted([g EXCEPT !.direct = @ \ gone, !.rev = @ \ gone,
                            !.tombs = [e \in gone \ g.direct |-> g.seq + 1] @@ @,
                            !.emeta = Without(@, gone),
                            !.recs = Without(@, {r \in DOMAIN @ : EdgeOf(r) \in gone})])

\* A record goes; the last one takes a direct edge along.
DropRecord(g, r) ==
    LET less == [g EXCEPT !.recs = Without(@, {r})]
        last == r \in DOMAIN g.recs /\ RecordIds(less, EdgeOf(r)) = {} /\ EdgeOf(r) \in g.direct
    IN  Recounted(IF last
                  THEN [less EXCEPT !.direct = @ \ {EdgeOf(r)}, !.rev = @ \ {EdgeOf(r)},
                                    !.emeta = Without(@, {EdgeOf(r)})]
                  ELSE less)

SetVertex(g, v, meta) ==
    [g EXCEPT !.verts = IF meta = NoMetadata THEN Without(@, {v}) ELSE (v :> meta) @@ @]

SetRelationship(g, r, props) ==
    IF r[4] # 0 THEN [g EXCEPT !.recs = (r :> props) @@ @]
    ELSE [g EXCEPT !.emeta = IF props = Empty THEN Without(@, {EdgeOf(r)}) ELSE (EdgeOf(r) :> props) @@ @]

Incident(g, v) ==
    {e \in g.direct \cup {EdgeOf(r) : r \in DOMAIN g.recs}
           \cup UNION {{<<x.t, x.s, d>> : d \in {y \in x.dsts : InSegments(g, <<x.t, x.s, y>>, g.seq)}} : x \in Range(g.segs)} :
        v \in {e[2], e[3]}}

\* The deletion of a vertex holds the writer lane from its first transaction
\* to its last.
DropVertex(g, v) == SetVertex(DropEdges(g, Incident(g, v)), v, NoMetadata)

----------------------------------------------------------------------------
(* MATCH ... SET / REMOVE / DELETE.                                        *)

MutateRest == UNCHANGED <<job, read, memo, out, walk, cursors, answers, calls, refresh, stats>>

Fail == mut' = [mut EXCEPT !.pc = "failed"]

MutateBegin ==
    /\ job.kind = "mutate" /\ mut.pc = "idle" /\ job.update.kind = "match"
    /\ mut' = [mut EXCEPT !.pc = "match", !.at = Now.seq, !.left = 1..Len(job.update.patterns), !.rows = <<EmptyRow>>]
    /\ UNCHANGED <<past, cell>> /\ MutateRest

\* The next pattern, read from the cell as it is now.  The edges cannot be
\* read any more once the sequence has moved on.
MutateMatch(i) ==
    LET patterns == job.update.patterns
        p == patterns[i]
        bound == UNION {PatternBindings(patterns[j]) : j \in DOMAIN patterns \ mut.left}
        reach == Reach(Now, [patterns |-> <<p>>])
    IN  /\ mut.pc = "match"
        /\ MayBeNext(patterns, i, mut.left, bound, mut.left = DOMAIN patterns, Now.seq = mut.at, Now.reverse)
        /\ \E edge \in {"out", "in", "index"}, node \in {"label", "property"} :
              IF \/ mut.rows # <<>> /\ ExtendFails(p, mut.rows)
                 \/ mut.rows # <<>> /\ p.kind = "edge" /\ Now.seq # mut.at
              THEN Fail
              ELSE mut' = [mut EXCEPT !.left = @ \ {i},
                                      !.rows = IF @ = <<>> THEN @
                                               ELSE ExtendRows(Now, p, @, [edge |-> edge, node |-> node], Now.seq = mut.at, reach)]
        /\ UNCHANGED <<past, cell>> /\ MutateRest

MutateFilter ==
    LET T(r) == IF job.update.where.op = "none" THEN "true" ELSE Truth(r, job.update.where)
    IN  /\ mut.pc = "match" /\ mut.left = {}
        /\ IF \E r \in Range(mut.rows) : T(r) = "error" THEN Fail
           ELSE mut' = [mut EXCEPT !.pc = "act", !.rows = SelectSeq(@, LAMBDA r : T(r) = "true")]
        /\ UNCHANGED <<past, cell>> /\ MutateRest

EditProps(props, action) ==
    CASE action.a = "set" -> (action.p :> action.v) @@ props
      [] action.a = "remove" -> Without(props, {action.p})
      [] action.a \in {"label", "unlabel"} -> props

EditVertex(meta, action) ==
    [labels |-> CASE action.a = "label" -> meta.labels \cup action.labels
                  [] action.a = "unlabel" -> meta.labels \ action.labels
                  [] action.a \in {"set", "remove"} -> meta.labels,
     props |-> EditProps(meta.props, action)]

\* Mutant: an action starts from what the row matched, not from what the
\* actions before it made of it.
TouchAfresh(m, row, action) ==
    LET b == action.b
        v == row.vals[b]
        r == row.rels[b]
    IN  IF b \in DOMAIN row.rels
        THEN [m EXCEPT !.rels = (r :> EditProps(row.relMeta[r], action)) @@ @,
                       !.beforeRels = @ @@ (r :> row.relMeta[r])]
        ELSE [m EXCEPT !.verts = (v :> EditVertex(row.meta[b], action)) @@ @,
                       !.before = @ @@ (v :> row.meta[b])]

\* One action on one row: the whole metadata to write later, from the copy
\* the first row that binds the vertex or relationship carries.
Touch(m, row, action) ==
    LET b == action.b
        v == row.vals[b]
        r == row.rels[b]
        meta == IF b \in DOMAIN row.meta THEN row.meta[b] ELSE VertexMetadata(Now, v)
        props == IF r \in DOMAIN row.relMeta THEN row.relMeta[r] ELSE EdgeMetadata(Now, EdgeOf(r))
    IN  IF b \in DOMAIN row.rels
        THEN [m EXCEPT !.rels = (r :> EditProps(IF r \in DOMAIN @ THEN @[r] ELSE props, action)) @@ @,
                       !.beforeRels = @ @@ (r :> props)]
        ELSE [m EXCEPT !.verts = (v :> EditVertex(IF v \in DOMAIN @ THEN @[v] ELSE meta, action)) @@ @,
                       !.before = @ @@ (v :> meta)]

Work(k, edges, rel, v) == [k |-> k, edges |-> edges, rel |-> rel, v |-> v]

NoRel == <<"", 0, 0, 0>>

\* The deletions of bound relationships: the structural ones in one batch,
\* then the records one by one.
RelationshipWork(rels) ==
    LET structural == {EdgeOf(r) : r \in {x \in rels : x[4] = 0}}
        records == Listing({r \in rels : r[4] # 0})
    IN  (IF structural = {} THEN <<>> ELSE <<Work("edges", structural, NoRel, 0)>>)
        \o [i \in 1..Len(records) |-> Work("record", {}, records[i], 0)]

DeleteWork(rows, action) ==
    LET rels == {r.rels[action.b] : r \in {x \in Range(rows) : action.b \in DOMAIN x.rels}}
        verts == Asc({r.vals[action.b] : r \in {x \in Range(rows) : action.b \notin DOMAIN x.rels}})
    IN  RelationshipWork(rels) \o [i \in 1..Len(verts) |-> Work(action.a, {}, NoRel, verts[i])]

MutateAct ==
    LET action == job.update.actions[mut.n]
        edits == action.a \notin {"delete", "detach"}
    IN  /\ mut.pc = "act" /\ mut.n <= Len(job.update.actions)
        /\ IF edits /\ action.a \in {"label", "unlabel"} /\ \E r \in Range(mut.rows) : action.b \in DOMAIN r.rels
           THEN Fail
           ELSE IF edits
           THEN mut' = [FoldLeft(LAMBDA m, r : Touch(m, r, action), mut, mut.rows) EXCEPT !.n = @ + 1]
           ELSE mut' = [mut EXCEPT !.n = @ + 1, !.pc = "work", !.todo = DeleteWork(mut.rows, action)]
        /\ UNCHANGED <<past, cell>> /\ MutateRest

\* The next deletion.
MutateWork ==
    LET w == Head(mut.todo)
    IN  /\ mut.pc = "work" /\ mut.todo # <<>>
        /\ IF w.k = "delete" /\ Incident(Now, w.v) # {}
           THEN Fail /\ UNCHANGED <<past, cell>>
           ELSE /\ mut' = [mut EXCEPT !.todo = Tail(@)]
                /\ Install(CASE w.k = "edges" -> DropEdges(Now, w.edges)
                             [] w.k = "record" -> DropRecord(Now, w.rel)
                             [] w.k \in {"delete", "detach"} -> DropVertex(Now, w.v))
        /\ MutateRest

MutateWorkDone ==
    /\ mut.pc = "work" /\ mut.todo = <<>>
    /\ mut' = [mut EXCEPT !.pc = IF job.update.kind = "match" THEN "act" ELSE "done"]
    /\ UNCHANGED <<past, cell>> /\ MutateRest

\* What was computed is written: the vertices by id, then the relationships.
\* Nothing is committed for what did not change.
MutateWriteVertex ==
    LET v == Asc(DOMAIN mut.verts)[1]
    IN  /\ mut.pc = "act" /\ mut.n > Len(job.update.actions) /\ DOMAIN mut.verts # {}
        /\ mut' = [mut EXCEPT !.verts = Without(@, {v})]
        /\ IF mut.verts[v] \in {mut.before[v], VertexMetadata(Now, v)} THEN UNCHANGED <<past, cell>>
           ELSE Install(SetVertex(Now, v, mut.verts[v]))
        /\ MutateRest

MutateWriteRelationship ==
    LET r == CHOOSE x \in DOMAIN mut.rels : TRUE
        missing == IF r[4] # 0 THEN r \notin DOMAIN Now.recs ELSE ~EdgeExists(Now, EdgeOf(r), Now.seq)
        same == mut.rels[r] = mut.beforeRels[r]
    IN  /\ mut.pc = "act" /\ mut.n > Len(job.update.actions) /\ DOMAIN mut.verts = {} /\ DOMAIN mut.rels # {}
        /\ IF ~same /\ missing THEN Fail ELSE mut' = [mut EXCEPT !.rels = Without(@, {r})]
        /\ IF same \/ missing \/ RelationshipMetadata(Now, r) = mut.rels[r] THEN UNCHANGED <<past, cell>>
           ELSE Install(SetRelationship(Now, r, mut.rels[r]))
        /\ MutateRest

MutateDone ==
    /\ mut.pc = "act" /\ mut.n > Len(job.update.actions) /\ DOMAIN mut.verts = {} /\ DOMAIN mut.rels = {}
    /\ mut' = [mut EXCEPT !.pc = "done"]
    /\ UNCHANGED <<past, cell>> /\ MutateRest

\* The budget is checked before every step: a deadline or a cancellation.
MutateStop ==
    /\ mut.pc \in {"match", "act", "work"} /\ Fail
    /\ UNCHANGED <<past, cell>> /\ MutateRest

----------------------------------------------------------------------------
(* Deleting relationships by property values, CREATE and MERGE.            *)

\* Records are found in the index and checked; a structural edge would have
\* to have no relationship at all, which a live one never has.
MutateByProperty ==
    LET t == job.update.t
        p == job.update.p
        Has(props) == \E v \in job.update.vals : Prop(props, p) /\ ValuesEqual(props[p], v)
        keys == UNION {EquivalentKeys(v) : v \in job.update.vals}
        records == {r \in DOMAIN Now.recs : /\ <<r[2], r[3]>> \in UNION {RelationshipKeyScan(Now, t, p, k) : k \in keys}
                                            /\ r[1] = t /\ Has(Now.recs[r])}
        bare == {e \in DOMAIN Now.emeta : /\ <<e[2], e[3]>> \in UNION {EdgeKeyScan(Now, t, p, k) : k \in keys}
                                          /\ e[1] = t /\ RelationshipCount(Now, e, Now.seq) = 0 /\ Has(Now.emeta[e])}
    IN  /\ job.kind = "mutate" /\ mut.pc = "idle" /\ job.update.kind = "byprop"
        /\ mut' = [mut EXCEPT !.pc = "work", !.todo = RelationshipWork(records \cup {RelationshipOf(e, 0) : e \in bare})]
        /\ UNCHANGED <<past, cell>> /\ MutateRest

MergeMeta(old, new) == [labels |-> old.labels \cup new.labels, props |-> new.props @@ old.props]

WithEnds(g, clause) ==
    LET e == clause.e
        one == IF clause.src = NoMetadata THEN g ELSE SetVertex(g, e[2], MergeMeta(VertexMetadata(g, e[2]), clause.src))
    IN  IF clause.dst = NoMetadata THEN one ELSE SetVertex(one, e[3], MergeMeta(VertexMetadata(one, e[3]), clause.dst))

WithEdge(g, e) ==
    IF EdgeExists(g, e, g.seq) THEN g
    ELSE Recounted([g EXCEPT !.direct = @ \cup {e}, !.rev = IF g.reverse THEN @ \cup {e} ELSE @])

NextRecordId(g) == 1 + FoldSet(LAMBDA r, n : IF r[4] > n THEN r[4] ELSE n, 0, DOMAIN g.recs)

\* A lone CREATE makes a record; several at once make bare edges, and only
\* without metadata; MERGE makes what is missing, one commit per clause.
MutateCreate ==
    LET clauses == job.update.clauses
        c == clauses[mut.n]
        creates == {i \in 1..Len(clauses) : clauses[i].c = "create"}
        plain == \A i \in creates : clauses[i].src = NoMetadata /\ clauses[i].dst = NoMetadata /\ clauses[i].props = Empty
        made == WithEdge(WithEnds(Now, c), c.e)
        merged == IF c.props = Empty THEN made
                  ELSE SetRelationship(made, RelationshipOf(c.e, 0), c.props @@ EdgeMetadata(made, c.e))
    IN  /\ job.kind = "mutate" /\ mut.pc = "idle" /\ job.update.kind = "create" /\ mut.n <= Len(clauses)
        /\ IF creates # {} /\ (creates # 1..Len(clauses) \/ (Len(clauses) > 1 /\ ~plain))
           THEN Fail /\ UNCHANGED <<past, cell>>
           ELSE IF creates # {} /\ Len(clauses) > 1
           THEN /\ Install(FoldLeft(LAMBDA g, x : WithEdge(g, x.e), Now, clauses))
                /\ mut' = [mut EXCEPT !.n = Len(clauses) + 1, !.pc = "done"]
           ELSE /\ Install(IF c.c = "merge" THEN merged
                           ELSE Recounted(SetRelationship(made, RelationshipOf(c.e, NextRecordId(Now)), c.props)))
                /\ mut' = [mut EXCEPT !.n = @ + 1, !.pc = IF mut.n = Len(clauses) THEN "done" ELSE "idle"]
        /\ MutateRest

\* Another client's write.
OtherWrite(v) ==
    /\ job.kind \in {"mutate", "stats"} /\ v \in DOMAIN job.others /\ VertexMetadata(Now, v) # job.others[v]
    /\ Len(past) < 4
    /\ Install(SetVertex(Now, v, job.others[v]))
    /\ UNCHANGED <<job, read, memo, out, walk, cursors, answers, calls, mut, refresh, stats>>

----------------------------------------------------------------------------
(* Statistics.  A spec is [k, t, p, v]: k is "type", "label", "vprop",     *)
(* "eprop", "vhist" or "ehist".  A record's key has the encoded v.         *)

StatsRest == UNCHANGED <<job, read, memo, out, walk, cursors, answers, calls, mut>>

\* The histogram a spec is about, empty for a plain count.
Buckets(g, s) ==
    IF s.k \in {"vprop", "vhist"} THEN VertexHistogram(g, s.p)
    ELSE IF s.k \in {"eprop", "ehist"} THEN EdgeHistogram(g, s.t, s.p) ELSE Empty

Total(buckets) == FoldSet(LAMBDA k, n : n + buckets[k], 0, DOMAIN buckets)

Most(buckets) == FoldSet(LAMBDA k, n : IF buckets[k] > n THEN buckets[k] ELSE n, 0, DOMAIN buckets)

PointCount(g, s) ==
    CASE s.k = "type" -> EdgeTypeCardinality(g, s.t)
      [] s.k = "label" -> Cardinality(VerticesByLabel(g, s.p))
      [] s.k = "vprop" -> Cardinality(VerticesByProperty(g, s.p, s.v))
      [] s.k = "eprop" -> Cardinality(EdgesByProperty(g, s.t, s.p, s.v))
      [] s.k \in {"vhist", "ehist"} -> Total(Buckets(g, s))

IsHistogram(s) == s.k \in {"vhist", "ehist"}

BucketKey(s, key) == [s EXCEPT !.k = IF @ = "vhist" THEN "vprop" ELSE "eprop", !.v = key]

RefreshStart(i) ==
    /\ job.kind = "stats" /\ refresh[i].pc = "idle"
    /\ refresh' = [refresh EXCEPT ![i].pc = "count", ![i].at = Now.seq]
    /\ UNCHANGED <<past, cell, stats>> /\ StatsRest

\* The counts are read from the cell as it is now.
RefreshCount(i) ==
    LET s == job.specs[i]
    IN  /\ job.kind = "stats" /\ refresh[i].pc = "count"
        /\ refresh' = [refresh EXCEPT ![i].pc = IF IsHistogram(s) THEN "stale" ELSE "publish",
                                      ![i].count = PointCount(Now, s), ![i].buckets = Buckets(Now, s)]
        /\ UNCHANGED <<past, cell, stats>> /\ StatsRest

\* The buckets of an older histogram that have no count any more.
RefreshStale(i) ==
    LET s == job.specs[i]
    IN  /\ job.kind = "stats" /\ refresh[i].pc = "stale"
        /\ refresh' = [refresh EXCEPT ![i].pc = "publish",
                           ![i].stale = {x \in DOMAIN stats : BucketKey(s, x.v) = x /\ x.v \notin DOMAIN refresh[i].buckets}]
        /\ UNCHANGED <<past, cell, stats>> /\ StatsRest

\* Mutant: the statistics are published whatever was committed meanwhile.
StillCurrentAlways(i) == TRUE

StillCurrent(i) == Now.seq = refresh[i].at

RefreshPublish(i) ==
    LET s == job.specs[i]
        r == refresh[i]
        Record(n, point) == [count |-> n, at |-> r.at, distinct |-> Cardinality(DOMAIN r.buckets), most |-> Most(r.buckets), point |-> point]
        own == ([s EXCEPT !.v = EncodeKey(@)] :> Record(r.count, TRUE))
        buckets == [x \in {BucketKey(s, key) : key \in DOMAIN r.buckets} |-> Record(r.buckets[x.v], FALSE)]
    IN  /\ job.kind = "stats" /\ r.pc = "publish"
        /\ IF StillCurrent(i)
           THEN /\ Install(Now)
                /\ stats' = IF IsHistogram(s) THEN own @@ buckets @@ Without(stats, r.stale) ELSE own @@ stats
           ELSE UNCHANGED <<past, cell, stats>>
        /\ refresh' = [refresh EXCEPT ![i] = [NoRefresh EXCEPT !.pc = IF Len(past) < 5 THEN "idle" ELSE "over"]]
        /\ StatsRest

----------------------------------------------------------------------------
(* The engine.                                                             *)

Init ==
    /\ EngineInit
    /\ mut = NoMut /\ stats = Empty
    /\ refresh = [i \in 1..Len(job.specs) |-> NoRefresh]

MutateStep ==
    \/ MutateBegin \/ (\E i \in mut.left : MutateMatch(i)) \/ MutateFilter \/ MutateAct
    \/ MutateWork \/ MutateWorkDone \/ MutateWriteVertex \/ MutateWriteRelationship \/ MutateDone
    \/ MutateByProperty \/ MutateCreate \/ MutateStop
    \/ \E v \in Vertices : OtherWrite(v)

RefreshStep == \E i \in DOMAIN refresh : RefreshStart(i) \/ RefreshCount(i) \/ RefreshStale(i) \/ RefreshPublish(i)

Next == (EngineStep /\ UNCHANGED <<mut, refresh, stats>>) \/ MutateStep \/ RefreshStep

Spec == Init /\ [][Next]_allVars

----------------------------------------------------------------------------
(* Properties.                                                             *)

\* The rows of an answer are values, a page never holds more rows than
\* asked, and no cursor, mutation or statistics job is in a state the code
\* has no name for.
TypeOK ==
    /\ cell \in 1..Len(past) /\ read.at \in 1..Len(past)
    /\ read.pc \in {"idle", "arm", "match", "return"}
    /\ read.left \subseteq 1..3 /\ read.offset \in Nat
    /\ IsPaged => Len(out.page) <= job.size
    /\ \A i \in 1..Len(past) - 1 : past[i].seq < past[i + 1].seq
    /\ \A k \in DOMAIN calls : calls[k].pc \in {"new", "open", "done", "failed", "expired"}
    /\ \A id \in DOMAIN cursors.open : id < cursors.next /\ cursors.open[id].rows # <<>> /\ cursors.open[id].age <= CursorTtl
    /\ mut.pc \in {"idle", "match", "act", "work", "done", "failed"}
    /\ DOMAIN mut.verts \subseteq DOMAIN mut.before /\ DOMAIN mut.rels \subseteq DOMAIN mut.beforeRels
    /\ \A i \in DOMAIN refresh : refresh[i].pc \in {"idle", "count", "stale", "publish", "over"}

\* What a mutation means on a snapshot: the rows it binds, and from them
\* every vertex's metadata, every relationship's properties and the
\* relationships that remain.
MeantMutation(g, rows) ==
    LET u == job.update
        Hits(a, v) == \E r \in rows : a.b \in DOMAIN r.vals /\ r.vals[a.b] = v
        HitsRel(a, x) == \E r \in rows : a.b \in DOMAIN r.rels /\ r.rels[a.b] = x
        Vertex(v) == FoldLeft(LAMBDA m, a : IF ~Hits(a, v) THEN m ELSE IF a.a = "detach" THEN NoMetadata ELSE EditVertex(m, a),
                              VertexMetadata(g, v), SelectSeq(u.actions, LAMBDA a : a.a # "delete"))
        Props(x) == FoldLeft(LAMBDA m, a : IF HitsRel(a, x) THEN EditProps(m, a) ELSE m, RelationshipMetadata(g, x),
                             SelectSeq(u.actions, LAMBDA a : a.a \notin {"delete", "detach"}))
        Gone(x) == \E a \in Range(u.actions) :
                      \/ a.a \in {"delete", "detach"} /\ HitsRel(a, x)
                      \/ a.a = "detach" /\ (Hits(a, x[2]) \/ Hits(a, x[3]))
    IN  [verts |-> [v \in Vertices |-> Vertex(v)],
         rels |-> [x \in {y \in UNION {Relationships(g, t) : t \in {"R", "S"}} : ~Gone(y)} |-> Props(x)]]

MeantByProperty(g) ==
    LET u == job.update
        Hit(x) == /\ x[1] = u.t /\ x[4] # 0 /\ Prop(g.recs[x], u.p)
                  /\ \E v \in u.vals : ValuesEqual(g.recs[x][u.p], v)
    IN  [verts |-> [v \in Vertices |-> VertexMetadata(g, v)],
         rels |-> [x \in {y \in UNION {Relationships(g, t) : t \in {"R", "S"}} : ~Hit(y)} |-> RelationshipMetadata(g, x)]]

MeantCreate ==
    LET clauses == Range(job.update.clauses)
        Covers(meta, part) == part.labels \subseteq meta.labels /\ \A p \in DOMAIN part.props : Prop(meta.props, p)
    IN  \A c \in clauses :
            /\ Live(Now, c.e[1], c.e[2], c.e[3])
            /\ Covers(VertexMetadata(Now, c.e[2]), c.src) /\ Covers(VertexMetadata(Now, c.e[3]), c.dst)
            /\ \E x \in Relationships(Now, c.e[1]) : EdgeOf(x) = c.e /\ DOMAIN c.props \subseteq DOMAIN RelationshipMetadata(Now, x)

\* A mutation never half-writes anything: at every moment each vertex and
\* each relationship is as the mutation found it, as the whole mutation
\* leaves it (all its SET and REMOVE actions on every row that binds it), or
\* as another client wrote it, before the mutation or after; and one that reports success has done all of
\* it (execute_parsed_opencypher_mutation, apply_vertex_mutation_action).
UpdatesAreWhole ==
    LET Group == [patterns |-> job.update.patterns, where |-> job.update.where, optional |-> FALSE]
        Meant(g) == IF job.update.kind = "byprop" THEN MeantByProperty(g) ELSE MeantMutation(g, Meaning(g, <<Group>>))
        Whole(meant, others, before, after) ==
            /\ \A v \in Vertices : VertexMetadata(Now, v) \in
                  {VertexMetadata(past[1], v), meant.verts[v]}
                  \cup (IF v \in DOMAIN job.others THEN {job.others[v], others.verts[v]} ELSE {})
            /\ DOMAIN meant.rels \subseteq after /\ after \subseteq before
            /\ \A x \in after : RelationshipMetadata(Now, x) \in
                   {RelationshipMetadata(past[1], x)} \cup {meant.rels[y] : y \in DOMAIN meant.rels \cap {x}}
            /\ mut.pc = "done" /\ DOMAIN job.others = {} =>
                   /\ \A v \in Vertices : VertexMetadata(Now, v) = meant.verts[v]
                   /\ after = DOMAIN meant.rels
                   /\ \A x \in after : RelationshipMetadata(Now, x) = meant.rels[x]
    IN  IF job.kind # "mutate" THEN TRUE
        ELSE IF job.update.kind = "create" THEN mut.pc = "done" => MeantCreate
        ELSE Whole(Meant(past[1]), Meant([past[1] EXCEPT !.verts = job.others @@ @]),
                   UNION {Relationships(past[1], t) : t \in {"R", "S"}},
                   UNION {Relationships(Now, t) : t \in {"R", "S"}})

\* Every published number is the true one of the snapshot it names, however
\* the refreshes and other writes interleave: a point count counts the
\* vertices or edges that equal the value, a bucket those with exactly its
\* key, and once a histogram is published none of its buckets is older
\* (publish_query_stats_record_after_snapshot,
\* publish_query_stats_histogram_after_snapshot).
StatsTruthful ==
    LET At(n) == past[CHOOSE i \in 1..Len(past) : past[i].seq = n]
        Number(key) == IF key.kind = "float" THEN (key.bits + 1) \div 2 ELSE 2 * key.bits
        Equal(x, key, point) ==
            IF point /\ x.t \in Numeric /\ key.kind \in Numeric THEN Number(EncodeKey(x)) = Number(key) ELSE EncodeKey(x) = key
        TrueCount(g, s, point) ==
            CASE s.k = "type" -> Cardinality(LiveEdges(g, s.t))
              [] s.k = "label" -> Cardinality({v \in DOMAIN g.verts : s.p \in g.verts[v].labels})
              [] s.k = "vprop" -> Cardinality({v \in DOMAIN g.verts : Prop(g.verts[v].props, s.p) /\ Equal(g.verts[v].props[s.p], s.v, point)})
              [] s.k = "vhist" -> Cardinality({v \in DOMAIN g.verts : Prop(g.verts[v].props, s.p)})
              [] s.k = "eprop" -> Cardinality({e \in LiveEdges(g, s.t) : \E x \in Relationships(g, s.t) :
                                      /\ EdgeOf(x) = <<s.t, e[1], e[2]>> /\ Prop(RelationshipMetadata(g, x), s.p)
                                      /\ Equal(RelationshipMetadata(g, x)[s.p], s.v, point)})
              [] s.k = "ehist" -> Cardinality({e \in DOMAIN g.emeta : e[1] = s.t /\ Prop(g.emeta[e], s.p)})
    IN  \A s \in DOMAIN stats :
            /\ stats[s].count = TrueCount(At(stats[s].at), s, stats[s].point)
            /\ IsHistogram(s) => \A x \in DOMAIN stats : x = BucketKey(s, x.v) => stats[x].at >= stats[s].at

\* Every way to read agrees: traversal kernels, batched reads and index keys give
\* what the edges and values themselves give.
EveryWayAgrees == TraversalsAgree /\ ReadsAgree /\ ValueOrderIsExact

\* Pages, of rows or of paths, add up to one answer.
PagesAreOneAnswer == PagesAddUp /\ PathPagesAreOneAnswer

\* What is kept between requests (plans, cursors, statistics) is true of the
\* sequence it names, and within its limits.
KeptIsTruthful == TypeOK /\ PlansAnswerTheirSequence /\ CursorsCharged /\ StatsTruthful
=============================================================================
