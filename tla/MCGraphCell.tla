---------------------------- MODULE MCGraphCell ----------------------------
(* Model-checking instance of GraphCell: three vertices, three pairs, and  *)
(* workloads in which the operations that touch the same keys meet.         *)
EXTENDS GraphCell

MCVertices == {1, 2, 3}

MCPairs == {<<1, 2>>, <<1, 3>>, <<2, 1>>}

Row(id, p, ext, val) == [id |-> id, pair |-> p, ext |-> ext, val |-> val]

Write(k, p, v, e) == [op |-> "write", key |-> k, pair |-> p, vmeta |-> v, emeta |-> e]

Batch(k, S, l) == [op |-> "writeBatch", key |-> k, pairs |-> S, labels |-> l]

Delete(k, p) == [op |-> "delete", key |-> k, pair |-> p]

DeleteAll(k, S) == [op |-> "deleteBatch", key |-> k, pairs |-> S]

Bulk(k, S, t) == [op |-> "bulk", key |-> k, pairs |-> S, trusted |-> t]

Segment(k, S) == [op |-> "segment", key |-> k, src |-> 1, dsts |-> S]

Compact(k) == [op |-> "compact", key |-> k, src |-> 1]

Relate(k, p) == [op |-> "relate", key |-> k, pair |-> p, vmeta |-> 1, val |-> 1]

Import(k, m, l, rows) ==
    [op |-> "import", key |-> k, mode |-> m, labels |-> l, guarded |-> l, rows |-> rows]

VertexBatch(o, U) == [op |-> o, guarded |-> TRUE, updates |-> U]

Chunks(o, k, s) == [op |-> o, key |-> k, chunks |-> s]

VertexDelete(k, v, d) == [op |-> "vertexDelete", key |-> k, vertex |-> v, detach |-> d]

\* Edges in all their forms, compaction and the changelog.
Topology ==
    { Write("w", <<1, 2>>, 0, 2), Batch("wb", {<<1, 2>>, <<2, 1>>}, FALSE),
      Delete("d", <<1, 2>>), DeleteAll("da", {<<1, 2>>, <<1, 3>>}),
      Bulk("b", {<<1, 2>>, <<1, 3>>}, FALSE), Bulk("bt", {<<1, 3>>}, TRUE),
      Segment("s", {2, 3}), Segment("t", {2}),
      Compact("c"), [op |-> "artifact"], [op |-> "publish"], [op |-> "gc"] }

\* Calls in chunks, with other writers between the chunks.
InChunks ==
    { Chunks("bulkChunks", "bc", <<{<<1, 2>>}, {<<1, 3>>, <<2, 1>>}>>),
      Chunks("deleteChunks", "dc", <<{<<1, 2>>, <<2, 1>>}, {<<1, 3>>}>>),
      Chunks("ingest", "ic", <<{<<2, 1>>}, {<<1, 2>>}>>),
      Relate("r", <<1, 2>>), Delete("d", <<1, 3>>), Segment("s", {2, 3}),
      [op |-> "publish"], [op |-> "gc"] }

\* Relationships in all their forms.
Relations ==
    { Write("w", <<1, 2>>, 1, 1), Delete("d", <<1, 2>>),
      [op |-> "reserve", key |-> "dr", pairs |-> {<<1, 2>>}], Relate("r", <<1, 2>>),
      Import("i", "import", FALSE, <<Row(1, <<1, 2>>, 0, 1), Row(3, <<2, 1>>, 0, 0)>>),
      Import("c", "create", FALSE, <<Row(0, <<1, 2>>, 0, 0), Row(0, <<1, 2>>, 1, 1)>>),
      Import("m", "merge", FALSE, <<Row(0, <<1, 2>>, 1, 2)>>),
      [op |-> "relMeta", pair |-> <<1, 2>>, id |-> 1, val |-> 2],
      [op |-> "unrelate", key |-> "u", pair |-> <<1, 2>>, id |-> 1] }

\* The metadata of vertices and edges, and the writes that depend on it.
Metadata ==
    { Write("w", <<1, 2>>, 1, 1), Batch("wl", {<<1, 2>>}, TRUE), Delete("d", <<1, 2>>),
      Import("m", "merge", TRUE, <<Row(0, <<1, 2>>, 1, 2)>>),
      [op |-> "edgeMeta", updates |-> {<< <<1, 2>>, 2>>}],
      VertexBatch("vertexSet", {<<2, 1>>}), VertexBatch("vertexMerge", {<<1, 2>>, <<2, 2>>}),
      VertexBatch("vertexImport", {<<1, 1>>}) }

\* Deleting vertices and the cell.
Removal ==
    { Write("w", <<1, 2>>, 1, 0), Batch("wb", {<<1, 2>>, <<2, 1>>}, FALSE),
      Segment("s", {2, 3}), Relate("r", <<1, 2>>), Relate("q", <<1, 2>>),
      VertexDelete("v1", 1, TRUE), VertexDelete("v2", 2, FALSE),
      [op |-> "drop", key |-> "x1"], [op |-> "drop", key |-> "x2"] }

MCLegacy == {<<1, 2>>}

MCWorkloads == {Topology, InChunks, Relations, Metadata, Removal}

=============================================================================
