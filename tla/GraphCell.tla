------------------------------ MODULE GraphCell ------------------------------
(***************************************************************************)
(* The write path of one cell of HydraDB (src/hydradb/src/shard/write.rs,  *)
(* with the segment compaction of maintenance.rs and the changelog floor   *)
(* of xlog.rs), for one edge type.                                         *)
(*                                                                         *)
(* `db' is the committed content of the cell's keys: one field for each    *)
(* key family of keys.rs.  Every public write takes the cell's writer lane *)
(* and local write guard and commits ONE serializable transaction whose    *)
(* sequence number is pinned, so it is one step here; a vertex deletion    *)
(* with DETACH and the dropping of a cell run several transactions and are *)
(* several steps, between which the process may stop.                      *)
(*                                                                         *)
(* A metadata record is a number: 0 is the empty (absent) record and the   *)
(* numbers above it are versions of its guard property.  A relationship    *)
(* carries its caller-supplied `id' property in `ext' (0: none) and the    *)
(* rest of its metadata in `val'.                                          *)
(***************************************************************************)
EXTENDS Naturals, Sequences, FiniteSets, FiniteSetsExt

CONSTANTS Vertices,   \* vertex ids
          Pairs,      \* the (src, dst) pairs the clients write
          Legacy,     \* the pairs stored by a release without the changelog
          Workloads,  \* sets of requests: clients send those of one, repeatedly
          GcCap,      \* XLOG_GC_MAX_DELETES
          MaxSeq,     \* bound on the storage sequence
          MaxStops    \* bound on the interruptions of the writer process

ASSUME CellAssumption ==
    /\ Pairs \subseteq Vertices \X Vertices
    /\ Legacy \subseteq Pairs
    /\ GcCap \in Nat \ {0} /\ MaxSeq \in Nat /\ MaxStops \in Nat

VARIABLES workload,   \* the requests the clients of this cell send
          reverse,    \* the index policy also keeps inbound edges
          seq,        \* storage sequence of the last commit
          db,         \* the cell's committed keys
          floorSeen,  \* xlog_floor_ensured: the floor was seen in storage
          artifact,   \* base sequence of the latest matrix artifact (0: none)
          published,  \* base sequence of the published graph index (0: none)
          task,       \* the operation of several transactions in progress
          stops,      \* interruptions so far
          torn,       \* keys of the detach deletions that were interrupted
          history     \* history[s]: the topology after commit s

vars == <<workload, reverse, seq, db, floorSeen, artifact, published, task, stops, torn, history>>

Epochs == 0 .. MaxSeq

Metas == 0 .. 2

NoTask == [kind |-> "none"]

\* The content of a cell in which nothing was ever written.
EmptyCell ==
    [out |-> {}, in |-> {}, segs |-> {}, tomb |-> [p \in Pairs |-> 0],
     degOut |-> [v \in Vertices |-> 0], degIn |-> [v \in Vertices |-> 0],
     rels |-> {}, ptr |-> {}, count |-> [p \in Pairs |-> 0], lastId |-> 0,
     relIdx |-> {}, emeta |-> [p \in Pairs |-> 0], edgeIdx |-> {},
     vmeta |-> [v \in Vertices |-> 0], vertexIdx |-> {},
     generation |-> 0, xlog |-> {}, low |-> 0, idem |-> {},
     pending |-> FALSE, dropped |-> FALSE, dropIdem |-> {}]

-----------------------------------------------------------------------------
(* Reading the keys.                                                       *)

\* segment_edge_visible: a segment newer than the tombstone shows its edges.
SegmentShows(d, p) ==
    \E s \in d.segs : s.src = p[1] /\ p[2] \in s.dsts /\ s.epoch > d.tomb[p]

Visible(d) == {p \in Pairs : p \in d.out \/ SegmentShows(d, p)}

RelsOf(d, p) == {r \in d.rels : r.pair = p}

\* Every pair the deletion of vertex v has to remove.
Incident(d, v) ==
    {p \in Visible(d) \cup {r.pair : r \in d.rels} : v \in {p[1], p[2]}}

\* The idempotency keys made from a request's key: its own, and one for each
\* pair or relationship that is written under a key of its own.
Key(k) == [key |-> k, pair |-> <<0, 0>>, id |-> 0]

PairKey(k, p) == [key |-> k, pair |-> p, id |-> 0]

RelKey(k, id) == [key |-> k, pair |-> <<0, 0>>, id |-> id]

\* The operation has an idempotency record under the key: the call returns what
\* is recorded (or is refused, when it was made for something else).
Recorded(d, op, key) == <<op, key>> \in d.idem

Remember(d, op, keys) == [d EXCEPT !.idem = @ \cup {<<op, key>> : key \in keys}]

-----------------------------------------------------------------------------
(* Changing the keys inside a transaction that will commit at epoch e.     *)

\* mark_topology_change_txn: the adjacency generation and one changelog entry
\* per changed edge, holding its existence after the commit; the first logged
\* change sets the coverage floor, unless the floor is known to be there.
MarkTopologyChange(d, e, S, exists) ==
    [d EXCEPT !.generation = e,
              !.low = IF S # {} /\ ~floorSeen /\ @ = 0 THEN e ELSE @,
              !.xlog = @ \cup {[seq |-> e, pair |-> p, exists |-> exists] : p \in S}]

Starting(S, v) == Cardinality({p \in S : p[1] = v})

Ending(S, v) == Cardinality({p \in S : p[2] = v})

Saturating(a, b) == IF a < b THEN 0 ELSE a - b

\* The direct edges S (none of them present) with their degrees.
InsertDirect(d, e, S) ==
    LET m == IF S = {} THEN d ELSE MarkTopologyChange(d, e, S, TRUE)
    IN [m EXCEPT
          !.out = @ \cup S,
          !.in = IF reverse THEN @ \cup S ELSE @,
          !.degOut = [v \in Vertices |-> @[v] + Starting(S, v)],
          !.degIn = IF reverse THEN [v \in Vertices |-> @[v] + Ending(S, v)] ELSE @]

\* The property index entries of a relationship record.
RelIndexEntries(r) ==
    {<<r.pair, prop, r[prop], r.id>> : prop \in {q \in {"ext", "val"} : r[q] # 0}}

\* A record, its id pointer, its index entries; the pair's relationship count.
InsertRels(d, R) ==
    [d EXCEPT !.rels = @ \cup R,
              !.ptr = @ \cup {<<r.id, r.pair>> : r \in R},
              !.count = [p \in Pairs |-> @[p] + Cardinality({r \in R : r.pair = p})],
              !.relIdx = @ \cup UNION {RelIndexEntries(r) : r \in R}]

RemoveRels(d, R) ==
    [d EXCEPT !.rels = @ \ R,
              !.ptr = @ \ {<<r.id, r.pair>> : r \in R},
              !.count = [p \in Pairs |->
                            Saturating(@[p], Cardinality({r \in R : r.pair = p}))],
              !.relIdx = @ \ UNION {RelIndexEntries(r) : r \in R}]

\* Mutant: an update leaves the old index entries.
UpdateRelKeepsIndex(d, old, new) ==
    [d EXCEPT !.rels = (@ \ {old}) \cup {new},
              !.relIdx = @ \cup RelIndexEntries(new)]

\* A record rewritten with new metadata: the old entries go, the new are put.
UpdateRel(d, old, new) ==
    [d EXCEPT !.rels = (@ \ {old}) \cup {new},
              !.relIdx = (@ \ RelIndexEntries(old)) \cup RelIndexEntries(new)]

\* apply_edge_metadata_update_txn and apply_vertex_metadata_update_txn: the
\* empty record deletes the key; the index follows the record.
SetEdgeMeta(d, p, m) ==
    [d EXCEPT !.emeta[p] = m,
              !.edgeIdx = (@ \ {<<p, d.emeta[p]>>}) \cup {<<p, x>> : x \in {m} \ {0}}]

SetVertexMeta(d, v, m) ==
    [d EXCEPT !.vmeta[v] = m,
              !.vertexIdx = (@ \ {<<v, d.vmeta[v]>>}) \cup {<<v, x>> : x \in {m} \ {0}}]

\* merge_vertex_metadata and merge_edge_metadata: the request's properties win.
MergeMeta(previous, requested) == IF requested = 0 THEN previous ELSE requested

\* guarded_metadata_patch: an existing record takes a patch only when it has no
\* guard value yet or a smaller one.
PatchAccepted(previous, requested) == previous = 0 \/ previous < requested

\* The direct edges S go, with their reverse entries and degrees.
RemoveDirect(d, e, S) ==
    [d EXCEPT !.out = @ \ S,
              !.in = @ \ S,
              !.degOut = [v \in Vertices |-> Saturating(@[v], Starting(S, v))],
              !.degIn = IF reverse
                        THEN [v \in Vertices |-> Saturating(@[v], Ending(S, v))]
                        ELSE @]

\* The metadata of the pairs S is cleared.
ClearEdgeMeta(d, S) ==
    [d EXCEPT !.emeta = [p \in Pairs |-> IF p \in S THEN 0 ELSE @[p]],
              !.edgeIdx = {x \in @ : x[1] \notin S}]

\* Deleting the visible pairs S with everything that hangs on them: a direct
\* edge loses its keys, a segment's edge gets a tombstone.
DeleteEdges(d, e, S) ==
    LET marked == IF S = {} THEN d ELSE MarkTopologyChange(d, e, S, FALSE)
        bare == ClearEdgeMeta(RemoveRels(marked, {r \in d.rels : r.pair \in S}), S)
        segment == S \ d.out
        direct == RemoveDirect(bare, e, S \cap d.out)
    IN [direct EXCEPT
          !.tomb = [p \in Pairs |-> IF p \in segment THEN e ELSE @[p]],
          !.degOut = [v \in Vertices |-> Saturating(@[v], Starting(segment, v))]]

\* delete_structural_edge_txn: only a direct edge is removed.
DeleteStructural(d, e, p) ==
    IF p \notin d.out THEN d
    ELSE RemoveDirect(ClearEdgeMeta(MarkTopologyChange(d, e, {p}, FALSE), {p}), e, {p})

\* delete_relationship_txn_locked, for a record that exists.
DeleteRel(d, e, r) ==
    LET gone == RemoveRels(d, {r})
    IN IF RelsOf(gone, r.pair) = {} THEN DeleteStructural(gone, e, r.pair) ELSE gone

-----------------------------------------------------------------------------
(* Transactions.                                                           *)

\* Mutant: the fence ignores a drop that is under way.
WriteFenceIgnoresPending == ~db.dropped

\* validate_write_fence_txn: a dropped or half-dropped cell takes no writes.
WriteFence == ~db.pending /\ ~db.dropped

\* A request whose transaction may run: the lane is free, the fence passes.
Admitted == task = NoTask /\ WriteFence /\ seq < MaxSeq

\* commit_txn_strict: the content d becomes durable at the next sequence.
Commit(d) ==
    /\ seq < MaxSeq
    /\ seq' = seq + 1
    /\ db' = d
    /\ floorSeen' = (floorSeen \/ (db.low # 0 /\ d.xlog # db.xlog))
    /\ history' = [s \in 0 .. seq + 1 |-> IF s > seq THEN Visible(d) ELSE history[s]]

Rest == UNCHANGED <<workload, reverse, artifact, published, task, stops, torn>>

\* A new cell, or one to which a release without the changelog wrote the pairs
\* of Legacy at sequence 2, after an index was published at sequence 1.
Init ==
    /\ workload \in Workloads
    /\ reverse \in BOOLEAN
    /\ seq = IF Legacy = {} THEN 0 ELSE 2
    /\ db = [EmptyCell EXCEPT
               !.out = Legacy, !.in = IF reverse THEN Legacy ELSE {},
               !.degOut = [v \in Vertices |-> Starting(Legacy, v)],
               !.degIn = [v \in Vertices |-> IF reverse THEN Ending(Legacy, v) ELSE 0],
               !.generation = seq]
    /\ floorSeen = FALSE
    /\ artifact = 0
    /\ published = IF Legacy = {} THEN 0 ELSE 1
    /\ task = NoTask
    /\ stops = 0
    /\ torn = {}
    /\ history = [s \in 0 .. seq |-> IF s < 2 THEN {} ELSE Legacy]

\* write_edge with metadata for the source vertex and the edge.
WriteEdge(r) ==
    /\ r.op = "write" /\ Admitted
    /\ ~Recorded(db, "create", Key(r.key))
    /\ LET v == r.pair[1]
           d1 == SetVertexMeta(db, v, MergeMeta(db.vmeta[v], r.vmeta))
           d2 == SetEdgeMeta(d1, r.pair, MergeMeta(db.emeta[r.pair], r.emeta))
           d3 == InsertDirect(d2, seq + 1, {r.pair} \ Visible(db))
       IN Commit(Remember(d3, "create", {Key(r.key)}))
    /\ Rest

\* write_edge_mutations_batch: each mutation has its own key; those already
\* recorded are skipped, and with endpoint labels every other one needs both
\* its vertices.
WriteBatch(r) ==
    /\ r.op = "writeBatch" /\ Admitted
    /\ LET fresh == {p \in r.pairs : ~Recorded(db, "create", PairKey(r.key, p))}
           d == InsertDirect(db, seq + 1, fresh \ Visible(db))
       IN /\ r.labels => \A p \in fresh : db.vmeta[p[1]] # 0 /\ db.vmeta[p[2]] # 0
          /\ Commit(Remember(d, "create", {PairKey(r.key, p) : p \in fresh}))
    /\ Rest

\* The edges a delete finds: direct ones, and a segment's when no inbound index
\* is kept.
Deletable(d, S) == {p \in S : p \in d.out \/ (~reverse /\ SegmentShows(d, p))}

DeleteEdge(r) ==
    /\ r.op = "delete" /\ Admitted
    /\ ~Recorded(db, "delete", Key(r.key))
    /\ Commit(Remember(DeleteEdges(db, seq + 1, Deletable(db, {r.pair})),
                       "delete", {Key(r.key)}))
    /\ Rest

\* delete_edge_mutations_batch: each mutation has its own key.
DeleteBatch(r) ==
    /\ r.op = "deleteBatch" /\ Admitted
    /\ LET fresh == {p \in r.pairs : ~Recorded(db, "delete", PairKey(r.key, p))}
       IN Commit(Remember(DeleteEdges(db, seq + 1, Deletable(db, fresh)),
                          "delete", {PairKey(r.key, p) : p \in fresh}))
    /\ Rest

\* reserve_edge_delete_noops_batch: the keys of deletions that found nothing.
ReserveDeletes(r) ==
    /\ r.op = "reserve" /\ Admitted
    /\ Commit(Remember(db, "delete", {PairKey(r.key, p) : p \in r.pairs}))
    /\ Rest

\* bulk_import_edges: with the policy that trusts the caller to send no edge
\* that exists, nothing is looked up (the caller keeps that promise here).
BulkInsert(d, e, S, trusted) ==
    InsertDirect(d, e, IF trusted THEN S ELSE S \ Visible(d))

BulkImport(r) ==
    /\ r.op = "bulk" /\ Admitted
    /\ ~Recorded(db, "bulk-import", Key(r.key))
    /\ r.trusted => r.pairs \cap Visible(db) = {}
    /\ Commit(Remember(BulkInsert(db, seq + 1, r.pairs, r.trusted),
                       "bulk-import", {Key(r.key)}))
    /\ Rest

\* A chunked call makes one call per chunk, in order, under a key made from the
\* request's; other writers come between, and a call that is sent again passes
\* over the chunks whose keys are recorded.
ChunkKey(k, i) == [key |-> k, pair |-> <<0, 0>>, id |-> i]

NextChunk(op, keys) ==
    {i \in DOMAIN keys :
        /\ \E k \in keys[i] : ~Recorded(db, op, k)
        /\ \A j \in 1 .. i - 1 : \A k \in keys[j] : Recorded(db, op, k)}

\* bulk_import_edges_chunked_with_options.
ImportChunk(r) ==
    /\ r.op = "bulkChunks" /\ Admitted
    /\ \E i \in NextChunk("bulk-import", [j \in DOMAIN r.chunks |-> {ChunkKey(r.key, j)}]) :
          Commit(Remember(BulkInsert(db, seq + 1, r.chunks[i], FALSE),
                          "bulk-import", {ChunkKey(r.key, i)}))
    /\ Rest

\* delete_edges_batch_chunked: a chunk is a batch, whose edges have their keys.
DeleteChunk(r) ==
    /\ r.op = "deleteChunks" /\ Admitted
    /\ LET keys == [i \in DOMAIN r.chunks |->
                     {PairKey(ChunkKey(r.key, i), p) : p \in r.chunks[i]}]
       IN \E i \in NextChunk("delete", keys) :
             LET fresh == {p \in r.chunks[i] :
                              ~Recorded(db, "delete", PairKey(ChunkKey(r.key, i), p))}
             IN Commit(Remember(DeleteEdges(db, seq + 1, Deletable(db, fresh)),
                                "delete", keys[i]))
    /\ Rest

\* ingest_edge_mutations: batches of mutations that bring their own keys.
IngestChunk(r) ==
    /\ r.op = "ingest" /\ Admitted
    /\ LET keys == [i \in DOMAIN r.chunks |-> {PairKey(r.key, p) : p \in r.chunks[i]}]
       IN \E i \in NextChunk("create", keys) :
             LET fresh == {p \in r.chunks[i] : ~Recorded(db, "create", PairKey(r.key, p))}
             IN Commit(Remember(InsertDirect(db, seq + 1, fresh \ Visible(db)),
                                "create", keys[i]))
    /\ Rest

\* bulk_append_out_adjacency_segment_trusted: only without the inbound index;
\* the tombstones of the edges it brings back are removed.
AppendSegment(r) ==
    /\ r.op = "segment" /\ Admitted /\ ~reverse
    /\ ~Recorded(db, "segment-import", Key(r.key))
    /\ LET inserted == {p \in Pairs \ Visible(db) : p[1] = r.src /\ p[2] \in r.dsts}
           d == IF inserted = {} THEN db
                ELSE [MarkTopologyChange(db, seq + 1, inserted, TRUE) EXCEPT
                        !.tomb = [p \in Pairs |-> IF p \in inserted THEN 0 ELSE @[p]],
                        !.segs = @ \cup {[src |-> r.src, epoch |-> seq + 1,
                                          dsts |-> {p[2] : p \in inserted}]},
                        !.degOut[r.src] = @ + Cardinality(inserted)]
       IN Commit(Remember(d, "segment-import", {Key(r.key)}))
    /\ Rest

-----------------------------------------------------------------------------
(* Relationships.                                                          *)

\* next_available_relationship_ids_txn: the i-th unused id above the counter.
AvailableId(d, i) ==
    CHOOSE n \in d.lastId + 1 .. d.lastId + i + Cardinality(d.ptr) :
        LET free == {m \in d.lastId + 1 .. n : \A x \in d.ptr : x[1] # m}
        IN n \in free /\ Cardinality(free) = i

CreateRelationship(r) ==
    /\ r.op = "relate" /\ Admitted
    /\ ~Recorded(db, "relationship-create", Key(r.key))
    /\ LET id == AvailableId(db, 1)
           v == r.pair[1]
           d1 == SetVertexMeta(db, v, MergeMeta(db.vmeta[v], r.vmeta))
           d2 == InsertDirect(d1, seq + 1, {r.pair} \ Visible(db))
           d3 == InsertRels(d2, {[id |-> id, pair |-> r.pair, ext |-> 0, val |-> r.val]})
       IN Commit(Remember([d3 EXCEPT !.lastId = id],
                          "relationship-create", {Key(r.key)}))
    /\ Rest

\* The stored relationships a row of an import is about: by the id property in
\* the pair's index for a merge, by the id pointer for a plain import.
Matches(d, mode, row) ==
    CASE mode = "merge" ->
           {x \in d.rels : <<row.pair, "ext", row.ext, x.id>> \in d.relIdx /\ x.pair = row.pair}
      [] mode = "import" -> {x \in d.rels : x.id = row.id /\ <<x.id, x.pair>> \in d.ptr}
      [] mode = "create" -> {}

\* The rows of an import that no stored relationship answers to.
Unmatched(d, r) == {i \in DOMAIN r.rows : Matches(d, r.mode, r.rows[i]) = {}}

\* MATCH endpoints: every vertex a row touches carries its label.
EndpointsLabelled(d, r) ==
    r.labels => \A i \in DOMAIN r.rows :
                   \A v \in {r.rows[i].pair[1], r.rows[i].pair[2]} : d.vmeta[v] # 0

\* The relationships an import creates.  A plain import keeps the ids of its
\* rows; CREATE and MERGE take the next free ones, in the order of the rows.
Created(d, r) ==
    LET fresh == Unmatched(d, r)
        Id(i) == IF r.mode = "import" THEN r.rows[i].id
                 ELSE AvailableId(d, Cardinality({j \in fresh : j <= i}))
    IN {[r.rows[i] EXCEPT !.id = Id(i)] : i \in fresh}

\* coalesce_relationship_imports and the comparison with what is stored: the same
\* id twice with different contents, or a stored record of other contents that
\* the mode may not update, refuses the whole batch.
ImportAgrees(d, r) ==
    r.mode = "import" =>
        /\ \A i, j \in DOMAIN r.rows : r.rows[i].id = r.rows[j].id => r.rows[i] = r.rows[j]
        /\ \A i \in DOMAIN r.rows : \A x \in Matches(d, r.mode, r.rows[i]) : x = r.rows[i]

\* A stored record with the metadata a row of a MERGE leaves it with.
Patched(x, row, guarded) ==
    IF guarded /\ ~PatchAccepted(x.val, row.val) THEN x
    ELSE [x EXCEPT !.val = MergeMeta(@, row.val)]

\* The pairs that need a structural edge before their relationships exist.
MissingEdges(d, R) == {x.pair : x \in R} \ Visible(d)

\* import_relationships_batch_txn_locked.  The endpoint labels are validated
\* before the idempotency record is looked up.
ImportRelationships(r) ==
    LET created == Created(db, r)
        updated == UNION {{<<x, Patched(x, r.rows[i], r.guarded)>> :
                              x \in Matches(db, r.mode, r.rows[i])} : i \in DOMAIN r.rows}
        used == {x.id : x \in created} \cup {u[1].id : u \in updated}
        d1 == InsertRels(InsertDirect(db, seq + 1, MissingEdges(db, created)), created)
        d2 == FoldSet(LAMBDA u, d : UpdateRel(d, u[1], u[2]), d1, updated)
    IN /\ r.op = "import" /\ Admitted
       /\ EndpointsLabelled(db, r)
       /\ ~Recorded(db, "relationship-import", Key(r.key))
       /\ ImportAgrees(db, r)
       /\ Commit(Remember([d2 EXCEPT !.lastId = Max({@} \cup used)],
                          "relationship-import", {Key(r.key)}))
       /\ Rest

\* set_relationship_metadata: refused for a missing record, no commit when equal.
SetRelationshipMetadata(r) ==
    /\ r.op = "relMeta" /\ Admitted
    /\ \E x \in RelsOf(db, r.pair) :
          x.id = r.id /\ x.val # r.val /\ Commit(UpdateRel(db, x, [x EXCEPT !.val = r.val]))
    /\ Rest

DeleteRelationship(r) ==
    /\ r.op = "unrelate" /\ Admitted
    /\ ~Recorded(db, "relationship-delete", Key(r.key))
    /\ LET found == {x \in RelsOf(db, r.pair) : x.id = r.id}
           d == IF found = {} THEN db
                ELSE DeleteRel(db, seq + 1, CHOOSE x \in found : TRUE)
       IN Commit(Remember(d, "relationship-delete", {Key(r.key)}))
    /\ Rest

-----------------------------------------------------------------------------
(* Metadata of vertices and edges.                                         *)

\* coalesce_vertex_metadata_updates and coalesce_edge_metadata_updates: two
\* different values for one target in a batch refuse the batch.
Coalesces(updates) == \A t, u \in updates : t[1] = u[1] => t[2] = u[2]

SetVertices(d, updates) == FoldSet(LAMBDA u, c : SetVertexMeta(c, u[1], u[2]), d, updates)

\* set_vertex_metadata and its batch: nothing is committed when nothing changes.
SetVertexMetadata(r) ==
    /\ r.op = "vertexSet" /\ Admitted /\ Coalesces(r.updates)
    /\ LET changed == {u \in r.updates : db.vmeta[u[1]] # u[2]}
       IN changed # {} /\ Commit(SetVertices(db, changed))
    /\ Rest

\* merge_vertex_metadata_batch: a guarded patch older than the record is skipped.
MergeVertexMetadata(r) ==
    /\ r.op = "vertexMerge" /\ Admitted /\ Coalesces(r.updates)
    /\ LET accepted == {u \in r.updates : r.guarded => PatchAccepted(db.vmeta[u[1]], u[2])}
           merged == {<<u[1], MergeMeta(db.vmeta[u[1]], u[2])>> : u \in accepted}
           changed == {u \in merged : db.vmeta[u[1]] # u[2]}
       IN changed # {} /\ Commit(SetVertices(db, changed))
    /\ Rest

\* import_vertex_metadata_batch: other metadata than the imported is refused.
ImportVertexMetadata(r) ==
    /\ r.op = "vertexImport" /\ Admitted /\ Coalesces(r.updates)
    /\ \A u \in r.updates : db.vmeta[u[1]] \in {0, u[2]}
    /\ LET changed == {u \in r.updates : db.vmeta[u[1]] # u[2]}
       IN changed # {} /\ Commit(SetVertices(db, changed))
    /\ Rest

\* set_edge_metadata and its batch: one missing edge refuses the batch.
EdgeMetadata(r) ==
    /\ r.op = "edgeMeta" /\ Admitted /\ Coalesces(r.updates)
    /\ \A u \in r.updates : u[1] \in Visible(db)
    /\ LET changed == {u \in r.updates : db.emeta[u[1]] # u[2]}
       IN /\ changed # {}
          /\ Commit(FoldSet(LAMBDA u, d : SetEdgeMeta(d, u[1], u[2]), db, changed))
    /\ Rest

-----------------------------------------------------------------------------
(* Deleting a vertex: one transaction per incident edge or relationship,   *)
(* then one for the vertex and the idempotency record.                     *)

StartVertexDelete(r) ==
    /\ r.op = "vertexDelete" /\ Admitted
    /\ ~Recorded(db, "vertex-delete", Key(r.key))
    /\ r.detach \/ Incident(db, r.vertex) = {}
    /\ task' = [kind |-> "detach", key |-> r.key, vertex |-> r.vertex,
                todo |-> Incident(db, r.vertex), rels |-> {}]
    /\ UNCHANGED <<workload, reverse, seq, db, floorSeen, artifact, published, stops, torn, history>>

\* The next incident pair has no relationship: delete_edge under a key made from
\* the request's.  It is a replay, and changes nothing, when that key is used.
DetachEdge ==
    /\ task.kind = "detach" /\ task.rels = {} /\ WriteFence
    /\ \E p \in task.todo :
          /\ RelsOf(db, p) = {}
          /\ task' = [task EXCEPT !.todo = @ \ {p}]
          /\ LET key == PairKey(task.key, p)
             IN IF Recorded(db, "delete", key)
                THEN UNCHANGED <<seq, db, floorSeen, history>>
                ELSE Commit(Remember(DeleteEdges(db, seq + 1, Deletable(db, {p})),
                                     "delete", {key}))
    /\ UNCHANGED <<workload, reverse, artifact, published, stops, torn>>

\* It has relationships: they are read once and deleted one by one.
DetachReadRelationships ==
    /\ task.kind = "detach" /\ task.rels = {} /\ WriteFence
    /\ \E p \in task.todo :
          /\ RelsOf(db, p) # {}
          /\ task' = [task EXCEPT !.todo = @ \ {p}, !.rels = RelsOf(db, p)]
    /\ UNCHANGED <<workload, reverse, seq, db, floorSeen, artifact, published, stops, torn, history>>

DetachRelationship ==
    /\ task.kind = "detach" /\ WriteFence
    /\ \E x \in task.rels :
          /\ task' = [task EXCEPT !.rels = @ \ {x}]
          /\ LET key == RelKey(task.key, x.id)
             IN IF Recorded(db, "relationship-delete", key)
                THEN UNCHANGED <<seq, db, floorSeen, history>>
                ELSE Commit(Remember(DeleteRel(db, seq + 1, x),
                                     "relationship-delete", {key}))
    /\ UNCHANGED <<workload, reverse, artifact, published, stops, torn>>

FinishVertexDelete ==
    /\ task.kind = "detach" /\ task.todo = {} /\ task.rels = {} /\ WriteFence
    /\ Commit(Remember(SetVertexMeta(db, task.vertex, 0),
                       "vertex-delete", {Key(task.key)}))
    /\ task' = NoTask
    /\ UNCHANGED <<workload, reverse, artifact, published, stops, torn>>

-----------------------------------------------------------------------------
(* Dropping the cell.                                                      *)

\* The key families of the cell in scan order, and the families removed.
Families == <<"cnt", "e", "emeta", "idem", "meta", "rel", "seg", "vertex", "xlog">>

Wiped(d, F) ==
    [f \in DOMAIN d |->
        IF \/ f \in {"degOut", "degIn"} /\ "cnt" \in F
           \/ f \in {"out", "in"} /\ "e" \in F
           \/ f \in {"emeta", "edgeIdx"} /\ "emeta" \in F
           \/ f = "idem" /\ "idem" \in F
           \/ f \in {"generation", "low", "lastId"} /\ "meta" \in F
           \/ f \in {"rels", "ptr", "count", "relIdx"} /\ "rel" \in F
           \/ f \in {"segs", "tomb"} /\ "seg" \in F
           \/ f \in {"vmeta", "vertexIdx"} /\ "vertex" \in F
           \/ f = "xlog" /\ "xlog" \in F
        THEN EmptyCell[f] ELSE d[f]]

\* drop_cell_locked: a completed drop is only recorded under the new key; else
\* the pending marker closes the cell, and an interrupted drop is resumed.
StartDrop(r) ==
    /\ r.op = "drop" /\ task = NoTask
    /\ r.key \notin db.dropIdem
    /\ IF db.dropped
       THEN /\ Commit([db EXCEPT !.dropIdem = @ \cup {r.key}])
            /\ task' = task
       ELSE /\ Commit([db EXCEPT !.pending = TRUE])
            /\ task' = [kind |-> "drop", key |-> r.key, next |-> 1]
    /\ UNCHANGED <<workload, reverse, artifact, published, stops, torn>>

\* flush_drop_cell_batch: the next keys of the scan.
FlushDrop ==
    /\ task.kind = "drop"
    /\ \E n \in task.next .. Len(Families) :
          /\ Commit(Wiped(db, {Families[i] : i \in task.next .. n}))
          /\ task' = [task EXCEPT !.next = n + 1]
    /\ UNCHANGED <<workload, reverse, artifact, published, stops, torn>>

\* Mutant: the drop is declared done after the first batch.
FinishDropEarly ==
    /\ task.kind = "drop" /\ task.next > 1
    /\ Commit([db EXCEPT !.dropped = TRUE, !.pending = FALSE,
                         !.dropIdem = @ \cup {task.key}])
    /\ task' = NoTask
    /\ UNCHANGED <<workload, reverse, artifact, published, stops, torn>>

FinishDrop ==
    /\ task.kind = "drop" /\ task.next > Len(Families)
    /\ Commit([db EXCEPT !.dropped = TRUE, !.pending = FALSE,
                         !.dropIdem = @ \cup {task.key}])
    /\ task' = NoTask
    /\ UNCHANGED <<workload, reverse, artifact, published, stops, torn>>

-----------------------------------------------------------------------------
(* Maintenance.                                                            *)

\* A matrix artifact of the current sequence is built (its keys are modelled in
\* MatrixArtifacts): here only that commits pass and its base is known.
BuildArtifact(r) ==
    /\ r.op = "artifact" /\ Admitted /\ db.generation > artifact
    /\ artifact' = seq
    /\ Commit(db)
    /\ UNCHANGED <<workload, reverse, published, task, stops, torn>>

\* The indexer finds the dirty marker and publishes an index of the current
\* sequence.
PublishIndex(r) ==
    /\ r.op = "publish" /\ db.generation > published
    /\ published' = seq
    /\ UNCHANGED <<workload, reverse, seq, db, floorSeen, artifact, task, stops, torn, history>>

\* compact_out_adjacency_segments through the latest artifact's base: the
\* source's segments up to it become one segment of what they showed then, and
\* the tombstones up to it go.
CompactSegments(r) ==
    /\ r.op = "compact" /\ Admitted /\ artifact # 0
    /\ ~Recorded(db, "compact", Key(r.key))
    /\ LET source == {s \in db.segs : s.src = r.src /\ s.epoch <= artifact}
           Old(p) == p[1] = r.src /\ db.tomb[p] <= artifact
           live == {p \in Pairs : p[1] = r.src /\ \E s \in source :
                        p[2] \in s.dsts /\ (Old(p) => s.epoch > db.tomb[p])}
           compacted == {[src |-> r.src, epoch |-> artifact, dsts |-> {p[2] : p \in live}]}
       IN Commit(Remember(
              [db EXCEPT !.segs = (@ \ source) \cup (IF live = {} THEN {} ELSE compacted),
                         !.tomb = [p \in Pairs |-> IF Old(p) THEN 0 ELSE @[p]],
                         !.degOut[r.src] = Starting(Visible(db), r.src)],
              "compact", {Key(r.key)}))
    /\ Rest

\* gc_topology_changelog_to: an absent floor is repaired at the current
\* sequence; otherwise entries up to the published base go, oldest first and
\* at most GcCap of them, and the floor rises.
GcChangelog(r) ==
    /\ r.op = "gc" /\ Admitted /\ published # 0
    /\ IF db.low = 0
       THEN Commit([db EXCEPT !.low = seq])
       ELSE LET dead == {x \in db.xlog : x.seq \in db.low .. published}
                capped == Cardinality(dead) >= GcCap
            IN /\ dead # {}
               /\ \E D \in SUBSET dead :
                     /\ Cardinality(D) = IF capped THEN GcCap ELSE Cardinality(dead)
                     /\ \A x \in D, y \in dead \ D : x.seq <= y.seq
                     /\ Commit([db EXCEPT
                           !.xlog = @ \ D,
                           !.low = Max({@, IF capped THEN Max({x.seq : x \in D})
                                           ELSE published + 1})])
    /\ Rest

\* The writer process stops between two transactions of a task; what it holds
\* in memory is gone, and a client may send its request again.
Stop ==
    /\ stops < MaxStops /\ (task # NoTask \/ floorSeen)
    /\ stops' = stops + 1
    /\ torn' = torn \cup (IF task.kind = "detach" THEN {task.key} ELSE {})
    /\ task' = NoTask
    /\ floorSeen' = FALSE
    /\ UNCHANGED <<workload, reverse, seq, db, artifact, published, history>>

Next ==
    \/ \E r \in workload :
          \/ WriteEdge(r) \/ WriteBatch(r) \/ DeleteEdge(r) \/ DeleteBatch(r)
          \/ ReserveDeletes(r) \/ BulkImport(r) \/ AppendSegment(r) \/ CompactSegments(r)
          \/ ImportChunk(r) \/ DeleteChunk(r) \/ IngestChunk(r)
          \/ CreateRelationship(r) \/ ImportRelationships(r)
          \/ SetRelationshipMetadata(r) \/ DeleteRelationship(r)
          \/ SetVertexMetadata(r) \/ MergeVertexMetadata(r) \/ ImportVertexMetadata(r)
          \/ EdgeMetadata(r)
          \/ StartVertexDelete(r) \/ StartDrop(r)
          \/ BuildArtifact(r) \/ PublishIndex(r) \/ GcChangelog(r)
    \/ DetachEdge \/ DetachReadRelationships \/ DetachRelationship \/ FinishVertexDelete
    \/ FlushDrop \/ FinishDrop
    \/ Stop

Spec == Init /\ [][Next]_vars

-----------------------------------------------------------------------------
(* Properties.                                                             *)

\* The keys have their types.
TypeOK ==
    /\ reverse \in BOOLEAN /\ floorSeen \in BOOLEAN
    /\ seq \in Epochs /\ artifact \in Epochs /\ published \in Epochs
    /\ stops \in 0 .. MaxStops
    /\ DOMAIN db = DOMAIN EmptyCell
    /\ db.out \subseteq Pairs /\ db.in \subseteq Pairs
    /\ \A s \in db.segs : s.src \in Vertices /\ s.epoch \in 1 .. seq /\ s.dsts \subseteq Vertices
    /\ \A p \in Pairs : db.tomb[p] \in 0 .. seq /\ db.count[p] \in Nat /\ db.emeta[p] \in Metas
    /\ \A v \in Vertices : db.degOut[v] \in Nat /\ db.degIn[v] \in Nat /\ db.vmeta[v] \in Metas
    /\ \A r \in db.rels : r.id \in Nat \ {0} /\ r.pair \in Pairs
    /\ \A x \in db.xlog : x.seq \in 1 .. seq /\ x.pair \in Pairs /\ x.exists \in BOOLEAN
    /\ db.low \in 0 .. seq /\ db.generation \in 0 .. seq
    /\ history \in [0 .. seq -> SUBSET Pairs]

\* No drop of the cell has begun to remove keys.
Whole == ~db.pending /\ ~db.dropped

\* The degree counters, which every insertion and deletion adjusts on its own,
\* are the numbers of edges that can be seen.
DegreesCountEdges ==
    Whole => \A v \in Vertices :
        /\ db.degOut[v] = Starting(Visible(db), v)
        /\ reverse => db.degIn[v] = Ending(Visible(db), v)

\* Where the inbound index is kept it mirrors the outbound one, and no edge
\* lives in a segment, which the inbound index would miss.
ReverseMirrorsForward == reverse => db.in = db.out /\ db.segs = {}

\* The entries of the changelog after sequence b, the last one of a pair winning.
Replayed(topology, b) ==
    {p \in Pairs :
        LET later == {x \in db.xlog : x.pair = p /\ x.seq > b}
        IN IF later = {} THEN p \in topology
           ELSE (CHOOSE x \in later : \A y \in later : y.seq <= x.seq).exists}

\* What an incremental index build relies on: from any base the changelog claims
\* to cover that is not older than the published index, the logged changes
\* turn the topology of that base into the present one.  A write that changes
\* an edge without logging it, or a compaction that changes one at all,
\* breaks this.
ChangelogReplays ==
    Whole /\ db.low # 0 =>
        \A b \in 0 .. seq :
            b + 1 >= db.low /\ b >= published => Replayed(history[b], b) = Visible(db)

\* Pointers, counts and property indexes, each written beside the records by
\* every operation, say what the records say.
IndexesAgree ==
    Whole =>
        /\ db.ptr = {<<r.id, r.pair>> : r \in db.rels}
        /\ \A p \in Pairs : db.count[p] = Cardinality(RelsOf(db, p))
        /\ db.relIdx = UNION {RelIndexEntries(r) : r \in db.rels}
        /\ db.edgeIdx = {<<p, db.emeta[p]>> : p \in {q \in Pairs : db.emeta[q] # 0}}
        /\ db.vertexIdx = {<<v, db.vmeta[v]>> : v \in {w \in Vertices : db.vmeta[w] # 0}}

\* A relationship or edge metadata is never left behind by its edge, and one id
\* names one relationship.
AttributesHaveEdge ==
    Whole =>
        /\ \A r \in db.rels : r.pair \in Visible(db) /\ r.id <= db.lastId
        /\ \A r, x \in db.rels : r.id = x.id => r = x
        /\ \A p \in Pairs : db.emeta[p] # 0 => p \in Visible(db)

\* Once a drop has begun nothing is written to the cell any more, whatever stops
\* and whoever resumes it; once it is done only its markers are left.
DropIsFinal ==
    /\ db.dropped => [db EXCEPT !.dropped = FALSE, !.dropIdem = {}] = EmptyCell
    /\ db.pending => task.kind \in {"none", "drop"}

\* While a drop is under way, and after it, keys only go.
DropOnlyRemoves ==
    [][~Whole => \A f \in {"out", "in", "segs", "rels", "ptr", "relIdx", "edgeIdx",
                           "vertexIdx", "xlog", "idem"} : db'[f] \subseteq db[f]]_vars

\* The step in which a vertex deletion of v under key k is recorded.
VertexDeleted(k, v) ==
    task.kind = "detach" /\ task.key = k /\ task.vertex = v /\ task' = NoTask /\ seq' # seq

Isolated(d, v) == \A p \in Visible(d) : v \notin {p[1], p[2]}

\* A vertex deletion leaves no edge at the vertex.
DetachIsolates ==
    [][\A r \in workload : r.op = "vertexDelete" =>
          (VertexDeleted(r.key, r.vertex) => Isolated(db', r.vertex))]_vars

\* The same, for a deletion that was not interrupted, in a cell without segments.
UntornDetachIsolates ==
    [][\A r \in workload : r.op = "vertexDelete" =>
          (reverse /\ r.key \notin torn /\ VertexDeleted(r.key, r.vertex)
              => Isolated(db', r.vertex))]_vars

\* Whatever operations, retries and stops have happened, everything that is kept
\* beside the edges (degrees, inbound index, relationship records, pointers,
\* counts, property indexes, changelog) says what the edges say.
StructuresAgree ==
    /\ TypeOK
    /\ DegreesCountEdges /\ ReverseMirrorsForward
    /\ IndexesAgree /\ AttributesHaveEdge
    /\ ChangelogReplays

\* Neither a drop nor an uninterrupted vertex deletion can be undone or outrun by
\* a write that was admitted beside it.
DeletesComplete == DropOnlyRemoves /\ UntornDetachIsolates
=============================================================================
