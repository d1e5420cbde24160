-------------------------- MODULE MatrixArtifacts --------------------------
(***************************************************************************)
(* Adjacency images kept in the cell's own database: chunks are flushed in *)
(* batches, a manifest published last makes the image readable, and a      *)
(* build that fails cleans up what it flushed under a marker that keeps a  *)
(* manifest from being published meanwhile.  One build runs at a time      *)
(* (max_concurrent_artifact_builds is 1); the collector takes neither the  *)
(* artifact guard nor the marker.                                          *)
(***************************************************************************)
EXTENDS IndexBuild

CONSTANTS
    Direct,     \* the edges stored as direct rows; the others are in segments
    Chunks      \* the chunk batches of an image

VARIABLES
    job,        \* the artifact build, its cleanup included
    purge,      \* delete_graph_artifacts_before
    swept       \* images a purge has taken keys of (history)

artVars == <<job, purge, swept>>

IdleJob == [pc |-> "idle", base |-> 0, streaming |-> FALSE, rows |-> {}, sent |-> {}, wait |-> 0]
IdlePurge == [pc |-> "idle", keep |-> 0, manifests |-> {}, chunks |-> {}]

ArtifactInit == job = IdleJob /\ purge = IdlePurge /\ swept = {}

\* A strict write returns once its commit is durable.
JobAt(pc) == job.pc = pc /\ job.wait <= Durable
Next1(pc) == [job EXCEPT !.pc = pc]
Written(pc) == [job EXCEPT !.pc = pc, !.wait = Len(hist) + 1]
Claimed(base) == base \in Visible.marker

rest == <<wal, walLow, view, indexVars>>

\* build_matrix_tiles: at the current sequence the rows are streamed from the
\* live database; below it they come from a pinned snapshot, if the topology
\* has not changed since the base.
StartArtifact ==
    /\ job.pc = "idle"
    /\ Request("artifact")
    /\ \E base \in 1..Durable :
         job' = CASE base = Durable ->
                       [IdleJob EXCEPT !.pc = "direct", !.base = base, !.streaming = TRUE]
                  [] base < Durable /\ At(Durable).generation > base -> IdleJob
                  [] base < Durable /\ At(Durable).generation <= base ->
                       [IdleJob EXCEPT !.pc = "prepare", !.base = base, !.rows = At(Durable).topo]
    /\ UNCHANGED <<hist, rest, cacheVars, purge, swept>>

\* current_matrix_rows: two scans that no snapshot ties together.
ScanDirect ==
    /\ JobAt("direct")
    /\ job' = [job EXCEPT !.pc = "segments", !.rows = At(Durable).topo \cap Direct]
    /\ UNCHANGED <<hist, todo, rest, cacheVars, purge, swept>>

ScanSegments ==
    /\ JobAt("segments")
    /\ job' = [job EXCEPT !.pc = "prepare", !.rows = @ \cup (At(Durable).topo \ Direct)]
    /\ UNCHANGED <<hist, todo, rest, cacheVars, purge, swept>>

\* A marker left by a cleanup that died is removed first.
PrepareArtifact ==
    /\ JobAt("prepare")
    /\ IF Claimed(job.base)
       THEN Commit([Visible EXCEPT !.marker = @ \ {job.base}]) /\ job' = Written("flush")
       ELSE UNCHANGED hist /\ job' = Next1("flush")
    /\ UNCHANGED <<todo, rest, cacheVars, purge, swept>>

FlushChunk ==
    /\ JobAt("flush")
    /\ \E c \in Chunks \ job.sent :
         /\ Commit([Visible EXCEPT !.art[job.base].chunks = @ \cup {c},
                                   !.art[job.base].edges = job.rows])
         /\ job' = [Written("flush") EXCEPT !.sent = @ \cup {c}]
    /\ UNCHANGED <<todo, rest, cacheVars, purge, swept>>

\* A topology change after the base: the streamed rows are not of the base.
Moved(base, streaming) == streaming /\ Visible.generation > base

\* Under the write guard: the manifests, if the marker is absent.
PublishArtifact ==
    /\ JobAt("flush") /\ job.sent = Chunks
    /\ IF Moved(job.base, job.streaming) \/ Claimed(job.base)
       THEN UNCHANGED hist /\ job' = Next1("abort")
       ELSE /\ Commit([Visible EXCEPT !.art[job.base].manifest = TRUE])
            /\ job' = Written("cache")
    /\ UNCHANGED <<todo, rest, cacheVars, purge, swept>>

\* The build's own node can use the image at once.
CacheArtifact ==
    /\ JobAt("cache")
    /\ arts' = [arts EXCEPT ![Writer] =
                  Put(@, [base |-> job.base, count |-> Cardinality(job.rows)])]
    /\ compiled' = [compiled EXCEPT ![Writer] =
                      Put(@, [base |-> job.base, edges |-> job.rows])]
    /\ job' = IdleJob
    /\ UNCHANGED <<hist, todo, rest, gens, purge, swept>>

\* A flush fails: the build gives up and cleans up.
FailArtifact ==
    /\ job.pc \in {"prepare", "flush"}
    /\ Request("abort")
    /\ job' = Next1("abort")
    /\ UNCHANGED <<storeVars, indexVars, cacheVars, purge, swept>>

Unpublished(base) == ~Visible.art[base].manifest

\* cleanup_unpublished_matrix_artifact_epoch: claim the marker unless the
\* manifest is there.
ClaimCleanup ==
    /\ JobAt("abort")
    /\ IF Unpublished(job.base)
       THEN Commit([Visible EXCEPT !.marker = @ \cup {job.base}]) /\ job' = Written("clean")
       ELSE UNCHANGED hist /\ job' = IdleJob
    /\ UNCHANGED <<todo, rest, cacheVars, purge, swept>>

Forget(n, bases) ==
    /\ arts' = [arts EXCEPT ![n] = {x \in @ : x.base \notin bases}]
    /\ compiled' = [compiled EXCEPT ![n] = {x \in @ : x.base \notin bases}]

\* The chunks go in batches guarded by the marker and the missing manifest.
CleanChunks ==
    /\ JobAt("clean")
    /\ IF Unpublished(job.base) /\ Claimed(job.base)
       THEN /\ IF Visible.art[job.base].chunks = {}
               THEN UNCHANGED hist
               ELSE Commit([Visible EXCEPT !.art[job.base] = NoArtifact])
            /\ Forget(Writer, {job.base})
       ELSE UNCHANGED <<hist, arts, compiled>>
    /\ job' = [job EXCEPT !.pc = "release", !.wait = Len(hist')]
    /\ UNCHANGED <<todo, rest, gens, purge, swept>>

ReleaseMarker ==
    /\ JobAt("release")
    /\ Commit([Visible EXCEPT !.marker = @ \ {job.base}])
    /\ job' = IdleJob
    /\ UNCHANGED <<todo, rest, cacheVars, purge, swept>>

\* delete_graph_artifacts_before: the prefixes are scanned one after the
\* other and what is older than `keep` is deleted in one batch.
StartPurge ==
    /\ purge.pc = "idle"
    /\ Request("purge")
    /\ \E keep \in 1..Durable :
         purge' = [pc |-> "chunks", keep |-> keep, chunks |-> {},
                   manifests |-> {b \in 0..keep-1 : At(Durable).art[b].manifest}]
    /\ UNCHANGED <<hist, rest, cacheVars, job, swept>>

ScanChunks ==
    /\ purge.pc = "chunks"
    /\ purge' = [purge EXCEPT !.pc = "flush",
                              !.chunks = {b \in 0..purge.keep-1 : At(Durable).art[b].chunks # {}}]
    /\ UNCHANGED <<hist, todo, rest, cacheVars, job, swept>>

FlushPurge ==
    /\ purge.pc = "flush"
    /\ LET doomed == purge.manifests \cup purge.chunks
       IN /\ IF doomed = {} THEN UNCHANGED hist
             ELSE Commit([Visible EXCEPT !.art = [b \in 0..MaxSeq |->
                    [chunks |-> IF b \in purge.chunks THEN {} ELSE @[b].chunks,
                     manifest |-> @[b].manifest /\ b \notin purge.manifests,
                     edges |-> IF b \in purge.chunks THEN {} ELSE @[b].edges]]])
          /\ swept' = swept \cup doomed
    /\ Forget(Writer, 0..purge.keep-1)
    /\ purge' = IdlePurge
    /\ UNCHANGED <<todo, rest, gens, job>>

ArtifactStep ==
    \/ StartArtifact \/ ScanDirect \/ ScanSegments \/ PrepareArtifact \/ FlushChunk
    \/ PublishArtifact \/ CacheArtifact \/ FailArtifact
    \/ ClaimCleanup \/ CleanChunks \/ ReleaseMarker
    \/ StartPurge \/ ScanChunks \/ FlushPurge
=============================================================================
