----------------------------- MODULE IndexBuild -----------------------------
(***************************************************************************)
(* Index generations: a build pins a snapshot, computes the adjacency at   *)
(* its base sequence (from the canonical rows or by patching the previous  *)
(* generation with the changelog), puts an immutable payload and publishes *)
(* it by compare-and-swap on one manifest.  The indexer then collects old  *)
(* payloads and dead changelog entries, while other builds and reads go    *)
(* on.                                                                     *)
(***************************************************************************)
EXTENDS CellHistory

CONSTANTS
    Builders,   \* indexers that may run at once, in different processes
    NodeOf,     \* [builder or reader -> its node]
    MinEdges    \* incremental_min_edges: a smaller index is rebuilt in full

VARIABLES
    payloads,   \* generation objects in the object store
    manifest,   \* the published generation, or NoGeneration
    build,      \* [builder -> where its cycle is]
    gens,       \* [node -> graph_index_generations]
    arts,       \* [node -> matrix_artifact_cache]
    compiled    \* [node -> graphblas_cache]

cacheVars == <<gens, arts, compiled>>
indexVars == <<payloads, manifest, build>>

\* A generation is named by the hash of its content, so its identity is its
\* base, its WAL position and its edges.
NoGeneration == [base |-> -1, wal |-> -1, edges |-> {}]
IdleBuild == [pc |-> "idle", incremental |-> FALSE, dirty |-> 0, cap |-> 0,
              gen |-> NoGeneration, seen |-> NoGeneration, delta |-> {}, left |-> 0,
              victims |-> {}]

IndexInit ==
    /\ payloads = {}
    /\ manifest = NoGeneration
    /\ build = [b \in Builders |-> IdleBuild]
    /\ gens = [n \in Nodes |-> {}]
    /\ arts = [n \in Nodes |-> {}]
    /\ compiled = [n \in Nodes |-> {}]

\* A map keyed by base sequence: the new entry replaces one with its base.
Put(map, entry) == {x \in map : x.base # entry.base} \cup {entry}

\* What discover_graph_index leaves behind for a published generation.
Remember(n) ==
    IF manifest = NoGeneration
    THEN UNCHANGED <<gens, arts>>
    ELSE /\ gens' = [gens EXCEPT ![n] = Put(@, manifest)]
         /\ arts' = [arts EXCEPT ![n] = Put(@, [base |-> manifest.base,
                                                count |-> Cardinality(manifest.edges)])]

Keep(b, generation) ==
    gens' = [gens EXCEPT ![NodeOf[b]] = Put(@, generation)]

Goto(b, pc) == build' = [build EXCEPT ![b].pc = pc]

\* The reader is refreshed and the durable WAL position captured BEFORE the
\* snapshot is pinned.
Capture(b, incremental) ==
    /\ view' = Refreshed(NodeOf[b])
    /\ build' = [build EXCEPT ![b] =
                   [IdleBuild EXCEPT !.pc = "pin", !.incremental = incremental,
                                     !.cap = Len(wal)]]

\* run_index_cycle, for the one edge type: refresh, read the dirty marker.
StartCycle(b) ==
    /\ build[b].pc = "idle" /\ b \in todo.who
    /\ Request("build")
    /\ view' = Refreshed(NodeOf[b])
    /\ LET dirty == At(IF NodeOf[b] = Writer THEN Durable ELSE SeqOf(Len(wal))).generation
       IN build' = [build EXCEPT ![b] = IF dirty = 0 THEN IdleBuild
                                        ELSE [IdleBuild EXCEPT !.pc = "current", !.dirty = dirty]]
    /\ UNCHANGED <<hist, wal, walLow, payloads, manifest, cacheVars>>

Indexed(b) == manifest # NoGeneration /\ manifest.base >= build[b].dirty

\* The published index is read next: one that covers the marker ends the
\* cycle, and only one that is large enough is patched.
SkipIndexed(b) ==
    /\ build[b].pc = "current"
    /\ Indexed(b)
    /\ build' = [build EXCEPT ![b] = IdleBuild]
    /\ UNCHANGED <<storeVars, todo, payloads, manifest, cacheVars>>

StartBuild(b) ==
    /\ build[b].pc = "current"
    /\ ~Indexed(b)
    /\ Capture(b, manifest # NoGeneration /\ Cardinality(manifest.edges) >= MinEdges)
    /\ UNCHANGED <<hist, wal, walLow, todo, payloads, manifest, cacheVars>>

\* build_graph_index_auto: the incremental build declined.
StartFullBuild(b) ==
    /\ build[b].pc = "full"
    /\ Capture(b, FALSE)
    /\ UNCHANGED <<hist, wal, walLow, todo, payloads, manifest, cacheVars>>

\* The snapshot's sequence is the base; a full build reads the canonical rows
\* through it.
Pin(b) ==
    /\ build[b].pc = "pin"
    /\ LET snapshot == Snapshot(NodeOf[b])
       IN build' = [build EXCEPT
            ![b].gen = [base |-> snapshot.seq,
                        wal |-> IF snapshot.wal = -1 THEN build[b].cap ELSE snapshot.wal,
                        edges |-> IF build[b].incremental THEN {} ELSE At(snapshot.seq).topo],
            ![b].pc = IF build[b].incremental THEN "previous" ELSE "put",
            ![b].left = Attempts]
    /\ UNCHANGED <<storeVars, todo, payloads, manifest, cacheVars>>

\* The changelog read through a snapshot holds every change from `from` on.
Covered(content, from) == content.low # 0 /\ from >= content.low

\* Last entry wins for each changed edge in (base, upto].
XlogDelta(content, base, upto) ==
    {entry \in content.xlog :
        /\ entry.seq \in base+1..upto
        /\ \A later \in content.xlog :
              later.edge = entry.edge /\ later.seq \in base+1..upto => later.seq <= entry.seq}

\* The published generation is read after the pin: none, or a changelog that
\* does not reach back to it, means a full build; one at least as new ends
\* the build.
ReadPrevious(b) ==
    /\ build[b].pc = "previous"
    /\ LET base == build[b].gen.base
           content == At(base)
       IN build' = [build EXCEPT ![b] =
            CASE manifest = NoGeneration -> [@ EXCEPT !.pc = "full"]
              [] manifest # NoGeneration /\ manifest.base >= base -> [@ EXCEPT !.pc = "sweep"]
              [] /\ manifest # NoGeneration /\ manifest.base < base
                 /\ ~Covered(content, manifest.base + 1) -> [@ EXCEPT !.pc = "full"]
              [] /\ manifest # NoGeneration /\ manifest.base < base
                 /\ Covered(content, manifest.base + 1) ->
                    [@ EXCEPT !.pc = "patch", !.seen = manifest,
                              !.delta = XlogDelta(content, manifest.base, base)]]
    /\ UNCHANGED <<storeVars, todo, payloads, manifest, cacheVars>>

\* Mutant: removals in the delta are ignored.
PatchedAddsOnly(edges, delta) ==
    edges \cup {entry.edge : entry \in {x \in delta : x.exists}}

Patched(edges, delta) ==
    (edges \ {entry.edge : entry \in delta})
        \cup {entry.edge : entry \in {x \in delta : x.exists}}

\* The previous payload is fetched and patched; if it is gone the build
\* starts over in full.
Patch(b) ==
    /\ build[b].pc = "patch"
    /\ IF build[b].seen \in payloads
       THEN build' = [build EXCEPT
              ![b].gen.edges = Patched(build[b].seen.edges, build[b].delta),
              ![b].pc = "put"]
       ELSE Goto(b, "full")
    /\ UNCHANGED <<storeVars, todo, payloads, manifest, cacheVars>>

\* PutMode::Create; an object of that name is the same object.
PutPayload(b) ==
    /\ build[b].pc = "put"
    /\ payloads' = payloads \cup {build[b].gen}
    /\ Goto(b, "read")
    /\ UNCHANGED <<storeVars, todo, manifest, cacheVars>>

AtLeastAsNew(published, proposed) ==
    \/ published.base > proposed.base
    \/ published.base = proposed.base /\ published.wal >= proposed.wal

ReadManifest(b) ==
    /\ build[b].pc = "read"
    /\ IF AtLeastAsNew(manifest, build[b].gen)
       THEN Goto(b, "sweep") /\ Keep(b, manifest)
       ELSE build' = [build EXCEPT ![b].pc = "cas", ![b].seen = manifest] /\ UNCHANGED gens
    /\ UNCHANGED <<storeVars, todo, payloads, manifest, arts, compiled>>

\* Mutant: the manifest is overwritten whatever it holds now.
CasBlind(b) ==
    /\ build[b].pc = "cas"
    /\ manifest' = build[b].gen
    /\ Keep(b, build[b].gen)
    /\ Goto(b, "sweep")
    /\ UNCHANGED <<storeVars, todo, payloads, arts, compiled>>

\* The conditional put: it lands if the manifest is still the version read,
\* and otherwise the loop reads again, at most Attempts times.
Cas(b) ==
    /\ build[b].pc = "cas"
    /\ IF manifest = build[b].seen
       THEN /\ manifest' = build[b].gen
            /\ Keep(b, build[b].gen)
            /\ Goto(b, "sweep")
       ELSE /\ build' = [build EXCEPT ![b] = IF @.left > 1
                                             THEN [@ EXCEPT !.pc = "read", !.left = @ - 1]
                                             ELSE IdleBuild]
            /\ UNCHANGED <<manifest, gens>>
    /\ UNCHANGED <<storeVars, todo, payloads, arts, compiled>>

\* A storage error or the death of the process ends a build where it is.
AbortBuild(b) ==
    /\ build[b].pc # "idle"
    /\ Request("abort")
    /\ build' = [build EXCEPT ![b] = IdleBuild]
    /\ UNCHANGED <<storeVars, payloads, manifest, cacheVars>>

\* gc_graph_index_generations: read the manifest, list, delete one by one.
StartSweep(b) ==
    /\ build[b].pc = "sweep"
    /\ build' = [build EXCEPT ![b] = [IdleBuild EXCEPT !.pc = "list", !.seen = manifest]]
    /\ UNCHANGED <<storeVars, todo, payloads, manifest, cacheVars>>

OlderThan(base) == {p \in payloads : p.base < base}

\* The Retain newest of the older payloads are kept, whichever of equals the
\* path order favours.
ListPayloads(b) ==
    /\ build[b].pc = "list"
    /\ LET older == OlderThan(build[b].seen.base)
           count == IF Retain < Cardinality(older) THEN Retain ELSE Cardinality(older)
       IN \E kept \in {K \in SUBSET older : Cardinality(K) = count} :
            /\ \A k \in kept, v \in older \ kept : k.base >= v.base
            /\ build' = [build EXCEPT ![b].pc = "delete", ![b].victims = older \ kept]
    /\ UNCHANGED <<storeVars, todo, payloads, manifest, cacheVars>>

DeletePayload(b) ==
    /\ build[b].pc = "delete"
    /\ \E v \in build[b].victims :
         /\ payloads' = payloads \ {v}
         /\ build' = [build EXCEPT ![b].victims = @ \ {v}]
    /\ UNCHANGED <<storeVars, todo, manifest, cacheVars>>

\* gc_topology_changelog: a shard without the writer leaves it alone.
StartTrim(b) ==
    /\ build[b].pc = "delete" /\ build[b].victims = {}
    /\ build' = [build EXCEPT ![b] = IF NodeOf[b] = Writer
                                     THEN [IdleBuild EXCEPT !.pc = "trim", !.seen = manifest]
                                     ELSE IdleBuild]
    /\ UNCHANGED <<storeVars, todo, payloads, manifest, cacheVars>>

\* Under the cell's writer lane: repair a floor that is absent, or delete the
\* entries up to the published base and move the floor past it.
TrimChangelog(b) ==
    /\ build[b].pc = "trim"
    /\ LET base == build[b].seen.base
           dead == {entry \in Visible.xlog : entry.seq <= base}
       IN CASE Visible.low = 0 -> Commit([Visible EXCEPT !.low = Durable])
            [] Visible.low # 0 /\ (Visible.low > base \/ dead = {}) -> UNCHANGED hist
            [] Visible.low # 0 /\ Visible.low <= base /\ dead # {} ->
                  Commit([Visible EXCEPT !.xlog = @ \ dead, !.low = base + 1])
    /\ build' = [build EXCEPT ![b] = IdleBuild]
    /\ UNCHANGED <<wal, walLow, view, todo, payloads, manifest, cacheVars>>

IndexStep ==
    \E b \in Builders :
        \/ StartCycle(b) \/ SkipIndexed(b) \/ StartBuild(b) \/ StartFullBuild(b)
        \/ Pin(b) \/ ReadPrevious(b) \/ Patch(b) \/ PutPayload(b) \/ ReadManifest(b)
        \/ Cas(b) \/ AbortBuild(b)
        \/ StartSweep(b) \/ ListPayloads(b) \/ DeletePayload(b)
        \/ StartTrim(b) \/ TrimChangelog(b)

IndexTypeOK ==
    /\ manifest = NoGeneration \/ manifest.base \in 0..Durable
    /\ \A b \in Builders : build[b].left \in 0..Attempts /\ build[b].cap \in 0..Len(wal)
    /\ \A p \in payloads : p.edges \subseteq Edges
=============================================================================
