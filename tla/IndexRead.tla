----------------------------- MODULE IndexRead -----------------------------
(***************************************************************************)
(* A traversal reads through one pinned snapshot.  It takes the newest     *)
(* index it can find at or below its read sequence and repairs the gap     *)
(* with the WAL tail; whenever a piece is missing it falls back to the     *)
(* canonical rows of the snapshot.  The whole index machinery is composed  *)
(* here: writes, flushes, polls, builds, collections, images and reads.    *)
(***************************************************************************)
EXTENDS MatrixArtifacts

CONSTANT Readers    \* traversals that may run at once

VARIABLE query      \* [reader -> where it is]

vars == <<storeVars, todo, indexVars, cacheVars, artVars, query>>
allButQuery == <<storeVars, indexVars, artVars>>

NoResult == [kind |-> "none", edges |-> {}]
IdleQuery == [pc |-> "idle", snap |-> [seq |-> 0, wal |-> 0], base |-> -1,
              gen |-> NoGeneration, retry |-> FALSE, edges |-> {}, result |-> NoResult]

Init == StoreInit /\ IndexInit /\ ArtifactInit /\ query = [q \in Readers |-> IdleQuery]

Step(q, r) == query' = [query EXCEPT ![q] = r]
Answered(q, edges) == [query[q] EXCEPT !.pc = "done", !.result = [kind |-> "ok", edges |-> edges]]
Failed(q, kind) == [query[q] EXCEPT !.pc = "done", !.result = [kind |-> kind, edges |-> {}]]
\* The canonical rows, read through the snapshot.
Fallback(q) == Answered(q, At(query[q].snap.seq).topo)

StartQuery(q) ==
    /\ query[q].pc \in {"idle", "done"} /\ q \in todo.who
    /\ Request("query")
    /\ Step(q, [IdleQuery EXCEPT !.pc = "lookup", !.snap = Snapshot(NodeOf[q])])
    /\ UNCHANGED <<allButQuery, cacheVars>>

Newest(map) == CHOOSE x \in map : \A y \in map : y.base <= x.base
UpTo(map, seq) == {x \in map : x.base <= seq}

\* latest_matrix_artifact: the cache, then the published index, then the
\* images in the database.
LatestArtifact(q) ==
    LET n == NodeOf[q]
        seq == query[q].snap.seq
        cached == UpTo(arts[n], seq)
        images == {[base |-> b, count |-> Cardinality(At(seq).art[b].edges)] :
                     b \in {c \in 0..MaxSeq : At(seq).art[c].manifest}}
        found == UpTo(images, seq)
        chosen(base) == [query[q] EXCEPT !.pc = "generation", !.base = base]
    IN /\ query[q].pc = "lookup"
       /\ \/ /\ cached # {}
             /\ Step(q, chosen(Newest(cached).base))
             /\ UNCHANGED cacheVars
          \/ /\ cached = {}
             /\ manifest # NoGeneration /\ manifest.base <= seq
             /\ Step(q, chosen(manifest.base))
             /\ Remember(n)
             /\ UNCHANGED compiled
          \/ /\ cached = {}
             /\ manifest = NoGeneration \/ manifest.base > seq
             /\ Step(q, IF found = {} THEN Fallback(q) ELSE chosen(Newest(found).base))
             /\ gens' = [gens EXCEPT ![n] = IF manifest = NoGeneration THEN @ ELSE Put(@, manifest)]
             /\ arts' = [arts EXCEPT ![n] =
                  LET known == IF manifest = NoGeneration THEN @
                               ELSE Put(@, [base |-> manifest.base,
                                            count |-> Cardinality(manifest.edges)])
                  IN {x \in known : \A i \in images : i.base # x.base} \cup images]
             /\ UNCHANGED compiled
       /\ UNCHANGED <<allButQuery, todo>>

Known(n, base) == {g \in gens[n] : g.base = base}

\* graph_index_generation_at: the map, or the manifest if it has this base;
\* without one the image path is taken.
GenerationAt(q) ==
    LET n == NodeOf[q]
        base == query[q].base
    IN /\ query[q].pc = "generation"
       /\ \/ /\ Known(n, base) # {}
             /\ Step(q, [query[q] EXCEPT !.pc = "compile", !.gen = Newest(Known(n, base))])
             /\ UNCHANGED <<gens, arts>>
          \/ /\ Known(n, base) = {}
             /\ Step(q, IF manifest # NoGeneration /\ manifest.base = base
                        THEN [query[q] EXCEPT !.pc = "compile", !.gen = manifest]
                        ELSE [query[q] EXCEPT !.pc = "image"])
             /\ Remember(n)
       /\ UNCHANGED <<allButQuery, todo, compiled>>

Compiled(n, base) == {c \in compiled[n] : c.base = base}
Loaded(q, edges) == [query[q] EXCEPT !.pc = "tail", !.edges = edges]

\* The matrix of the generation: cached, or compiled from its payload.
CompileCached(q) ==
    /\ query[q].pc = "compile"
    /\ Compiled(NodeOf[q], query[q].gen.base) # {}
    /\ Step(q, Loaded(q, Newest(Compiled(NodeOf[q], query[q].gen.base)).edges))
    /\ UNCHANGED <<allButQuery, todo, cacheVars>>

CompilePayload(q) ==
    LET n == NodeOf[q] IN
    /\ query[q].pc = "compile"
    /\ Compiled(n, query[q].gen.base) = {}
    /\ query[q].gen \in payloads
    /\ compiled' = [compiled EXCEPT ![n] =
                      Put(@, [base |-> query[q].gen.base, edges |-> query[q].gen.edges])]
    /\ Step(q, Loaded(q, query[q].gen.edges))
    /\ UNCHANGED <<allButQuery, todo, gens, arts>>

Usable(q, generation) ==
    /\ generation # NoGeneration
    /\ generation.base > query[q].gen.base
    /\ generation.base <= query[q].snap.seq

\* The payload was collected: forget the generation, and try once more with
\* the published one if it is newer and not ahead of the snapshot.
PayloadMissing(q) ==
    LET n == NodeOf[q] IN
    /\ query[q].pc = "compile"
    /\ Compiled(n, query[q].gen.base) = {}
    /\ query[q].gen \notin payloads
    /\ LET kept == {g \in gens[n] : g.base # query[q].gen.base}
       IN IF query[q].retry \/ manifest = NoGeneration
          THEN /\ gens' = [gens EXCEPT ![n] = kept]
               /\ UNCHANGED arts
          ELSE /\ gens' = [gens EXCEPT ![n] = Put(kept, manifest)]
               /\ arts' = [arts EXCEPT ![n] = Put(@, [base |-> manifest.base,
                                                      count |-> Cardinality(manifest.edges)])]
    /\ Step(q, IF ~query[q].retry /\ Usable(q, manifest)
               THEN [query[q] EXCEPT !.gen = manifest, !.retry = TRUE]
               ELSE Fallback(q))
    /\ UNCHANGED <<allButQuery, todo, compiled>>

\* The commits of a WAL file, and the edges they changed.
FileCommits(k) == SeqOf(k - 1)+1..SeqOf(k)
ChangedBy(s) == {e \in Edges : (e \in At(s).topo) # (e \in At(s - 1).topo)}

\* Mutant: the upper bound of the window excludes the read sequence.
AffectedBefore(files, base, seq) ==
    UNION {ChangedBy(s) : s \in UNION {FileCommits(k) : k \in files} \cap base+1..seq-1}

\* Edges touched in these files by commits after the base and not after the
\* read sequence.
Affected(files, base, seq) ==
    UNION {ChangedBy(s) : s \in UNION {FileCommits(k) : k \in files} \cap base+1..seq}

\* topology_tail_since and what follows from it: no gap, no newer file, too
\* many files, a collected file, too many edges, or the overlay.
TailOverlay(q) ==
    LET n == NodeOf[q]
        gen == query[q].gen
        seq == query[q].snap.seq
        last == LastDurableWal(query[q].snap)
        files == gen.wal+1..last
        affected == Affected(files, gen.base, seq)
        gap == gen.base < seq /\ gen.wal < last
        walk == gap /\ last - gen.wal <= MaxTail /\ \A k \in files : k > walLow
    IN /\ query[q].pc = "tail"
       /\ \/ /\ ~gap
             /\ Step(q, Answered(q, query[q].edges))
             /\ UNCHANGED <<gens, arts>>
          \/ /\ gap /\ ~walk
             /\ Step(q, Fallback(q))
             /\ UNCHANGED <<gens, arts>>
          \/ /\ walk /\ Cardinality(affected) <= MaxAffected
             /\ Step(q, Answered(q, (query[q].edges \ affected) \cup (affected \cap At(seq).topo)))
             /\ UNCHANGED <<gens, arts>>
          \/ /\ walk /\ Cardinality(affected) > MaxAffected
             /\ IF query[q].retry
                THEN Step(q, Failed(q, "rejected")) /\ UNCHANGED <<gens, arts>>
                ELSE /\ Step(q, IF Usable(q, manifest)
                                THEN [query[q] EXCEPT !.pc = "compile", !.gen = manifest,
                                                      !.retry = TRUE]
                                ELSE Failed(q, "rejected"))
                     /\ Remember(n)
       /\ UNCHANGED <<allButQuery, todo, compiled>>

\* The image still shows the topology of the snapshot.
ImageCurrent(q) ==
    LET seq == query[q].snap.seq
    IN query[q].base < seq => At(seq).generation \in 1..query[q].base

\* An image: compiled, or from the chunks its manifest names, read through
\* the snapshot.  A cache entry without a manifest behind it has no tiles and
\* the wrong number of edges, unless that number is zero.
ReadImage(q) ==
    LET n == NodeOf[q]
        base == query[q].base
        image == At(query[q].snap.seq).art[base]
        entry == {x \in arts[n] : x.base = base}
    IN /\ query[q].pc = "image"
       /\ \/ /\ ~ImageCurrent(q)
             /\ Step(q, Fallback(q))
             /\ UNCHANGED compiled
          \/ /\ ImageCurrent(q) /\ Compiled(n, base) # {}
             /\ Step(q, Answered(q, Newest(Compiled(n, base)).edges))
             /\ UNCHANGED compiled
          \/ /\ ImageCurrent(q) /\ Compiled(n, base) = {} /\ image.manifest
             /\ IF image.chunks = Chunks
                THEN /\ Step(q, Answered(q, image.edges))
                     /\ compiled' = [compiled EXCEPT ![n] =
                                       Put(@, [base |-> base, edges |-> image.edges])]
                ELSE Step(q, Failed(q, "corrupt")) /\ UNCHANGED compiled
          \/ /\ ImageCurrent(q) /\ Compiled(n, base) = {} /\ ~image.manifest
             /\ IF \E x \in entry : x.count = 0
                THEN /\ Step(q, Answered(q, {}))
                     /\ compiled' = [compiled EXCEPT ![n] = Put(@, [base |-> base, edges |-> {}])]
                ELSE Step(q, Failed(q, "corrupt")) /\ UNCHANGED compiled
       /\ UNCHANGED <<allButQuery, todo, gens, arts>>

\* A cache is bounded: any compiled matrix may be evicted.
EvictCompiled(n) ==
    /\ Request("evict")
    /\ \E c \in compiled[n] : compiled' = [compiled EXCEPT ![n] = @ \ {c}]
    /\ UNCHANGED <<storeVars, indexVars, gens, arts, artVars, query>>

\* The writer's process dies: commits that are not durable are gone and their
\* sequence numbers are used again; its tasks and caches are gone.
RestartWriter ==
    LET mine == {b \in Builders \cup Readers : NodeOf[b] = Writer} IN
    /\ Request("restart")
    /\ hist' = SubSeq(hist, 1, Durable)
    /\ build' = [b \in Builders |-> IF b \in mine THEN IdleBuild ELSE build[b]]
    /\ query' = [q \in Readers |-> IF q \in mine THEN IdleQuery ELSE query[q]]
    /\ job' = IdleJob
    /\ purge' = IdlePurge
    /\ gens' = [gens EXCEPT ![Writer] = {}]
    /\ arts' = [arts EXCEPT ![Writer] = {}]
    /\ compiled' = [compiled EXCEPT ![Writer] = {}]
    /\ UNCHANGED <<wal, walLow, view, payloads, manifest, swept>>

StoreStep == Write \/ WriteOther \/ Flush \/ CollectWal \/ \E n \in Nodes : Poll(n)

QueryStep ==
    \E q \in Readers :
        \/ StartQuery(q) \/ LatestArtifact(q) \/ GenerationAt(q)
        \/ CompileCached(q) \/ CompilePayload(q) \/ PayloadMissing(q)
        \/ TailOverlay(q) \/ ReadImage(q)

Next ==
    \/ StoreStep /\ UNCHANGED <<indexVars, cacheVars, artVars, query>>
    \/ IndexStep /\ UNCHANGED <<artVars, query>>
    \/ ArtifactStep /\ UNCHANGED query
    \/ QueryStep
    \/ \E n \in Nodes : EvictCompiled(n)
    \/ RestartWriter

Spec == Init /\ [][Next]_vars

-----------------------------------------------------------------------------
\* The store, the builds and the reads keep to their types.
TypeOK ==
    /\ HistoryTypeOK
    /\ IndexTypeOK
    /\ job.base \in 0..MaxSeq /\ job.rows \subseteq Edges
    /\ \A q \in Readers : query[q].result.edges \subseteq Edges

\* A traversal that answers, by whatever path (compiled generation, WAL-tail
\* overlay, image, canonical rows), answers for exactly the topology of the
\* snapshot it pinned (compiled_graphblas_query_snapshot).
ReadsItsSnapshot ==
    \A q \in Readers :
        query[q].result.kind = "ok" => query[q].result.edges = At(query[q].snap.seq).topo

\* Every generation object holds the topology at its base, whether it was
\* built in full or patched from an older one with the changelog.
PatchedIsFull == \A p \in payloads : p.edges = At(p.base).topo

\* No commit after a generation's base is in a WAL file at or below the
\* position it records, so the tail after that position misses nothing.
TailReachesBase == \A p \in payloads : SeqOf(p.wal) <= p.base

\* The published manifest's payload is in the store: the collector never
\* takes what a reader is being sent to.
PublishedIsStored == manifest # NoGeneration => manifest \in payloads

\* A manifest of an image that no purge has touched has all its chunks, and
\* they hold the topology at its base.
ManifestComplete ==
    \A b \in 0..MaxSeq \ swept :
        LET image == Visible.art[b]
        IN image.manifest => image.chunks = Chunks /\ image.edges = At(b).topo

\* "CAS prevents an older generation from replacing a newer one."
PublishedAdvances == [][AtLeastAsNew(manifest', manifest)]_manifest

\* "A query combines an immutable index base with the visible WAL tail or
\* falls back": a missing piece is not an error of the query.
MissingFallsBack == \A q \in Readers : query[q].result.kind # "corrupt"

\* Whatever is published can be read and means what it says: generations and
\* images are the topology at their base, with all their parts, and no commit
\* falls between a base and the tail after it.
PublishedIsWhole ==
    TypeOK /\ PatchedIsFull /\ TailReachesBase /\ PublishedIsStored /\ ManifestComplete
=============================================================================
