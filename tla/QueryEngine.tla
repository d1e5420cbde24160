---------------------------- MODULE QueryEngine ----------------------------
(***************************************************************************)
(* HydraDB's query engine at work: a query pins the cell's snapshot, each  *)
(* arm is answered by a fast path or by matching its groups row by row in  *)
(* an order and by accesses that an optimizer picks, and the rows go back  *)
(* at once or in pages, while other clients commit.  Traversals and path   *)
(* procedures run on a matrix compiled at an earlier sequence with the     *)
(* changes since laid over it, or on storage.                              *)
(*                                                                         *)
(* A behaviour serves one job: [kind, query, size, histories, kernel,      *)
(* image, ...] (Jobs).  `past` is the cell's history, one snapshot per     *)
(* commit; the compiled base is its first.                                 *)
(***************************************************************************)
EXTENDS QueryMeaning

CONSTANTS
    Jobs,            \* a sequence of jobs
    Cap,             \* max_query_result_vertices
    MaxPaths,        \* max_query_frontier of a path enumeration
    MaxWalks,        \* traversals of one behaviour
    MaxCursors,      \* MAX_NATIVE_PATH_PAGE_CURSORS
    MaxCursorRows,   \* MAX_NATIVE_PATH_PAGE_CURSOR_BYTES, a row being one byte
    CursorTtl        \* NATIVE_PATH_PAGE_CURSOR_TTL

ASSUME EngineAssumption ==
    /\ Cap \in Nat /\ MaxPaths \in Nat /\ MaxWalks \in Nat
    /\ MaxCursors \in Nat \ {0} /\ MaxCursorRows \in Nat /\ CursorTtl \in Nat \ {0}

VARIABLES
    job,        \* what the behaviour serves
    past,       \* the snapshots of the cell, oldest first
    cell,       \* the index of the latest
    read,       \* the query in progress
    memo,       \* the shard's vertex-list caches, by key
    out,        \* what the client has received
    walk,       \* the last traversal and the compiled matrix's scratch vectors
    cursors,    \* the native path cursors: their rows, the bytes charged, the next id
    answers,    \* the native path result cache
    calls       \* the clients that called a path procedure

vars == <<job, past, cell, read, memo, out, walk, cursors, answers, calls>>

Snap == past[read.at]

NoRead ==
    [pc |-> "idle", at |-> 1, arm |-> 1, left |-> {}, group |-> 0, queue |-> <<>>, found |-> <<>>,
     parts |-> <<>>, offset |-> 0]

NoScratch == [frontier |-> {}, next |-> {}]

NoPlan ==
    [op |-> "edge", t |-> "", s |-> 0, d |-> 0, count |-> FALSE, hops |-> <<>>, window |-> NoWindow, at |-> 0]

NoOut ==
    [ok |-> TRUE, done |-> FALSE, rows |-> <<>>, page |-> <<>>, from |-> 0, pages |-> 0, ats |-> {}, plan |-> NoPlan]

NoCall == [pc |-> "new", id |-> 0, at |-> 1, rows |-> <<>>, whole |-> <<>>]

NoWalk ==
    [n |-> 0, at |-> 1, api |-> "range", starts |-> {}, min |-> 1, max |-> 1, found |-> {}, count |-> 0,
     scratch |-> NoScratch]

----------------------------------------------------------------------------
(* The compiled base and its tail.                                         *)

Csc(t) == CscFromAdjacency(EdgesAt(past[1], t, past[1].seq))

\* The edges whose state changed between the base and the snapshot.
TailOf(t, g) ==
    LET base == EdgesAt(past[1], t, past[1].seq)
        now == EdgesAt(g, t, g.seq)
    IN  [e \in (base \ now) \cup (now \ base) |-> e \in now]

Traversal(g, p, s) ==
    ReachableInRange(EdgesAt(g, p.t, g.seq), Csc(p.t), job.image, TailOf(p.t, g), job.kernel, s, p.hops[1], p.hops[2])

\* The number a count(*) returns, and the scratch it leaves.
Counted(g, p, s) ==
    CountInRange(EdgesAt(g, p.t, g.seq), Csc(p.t), job.image, TailOf(p.t, g), job.kernel, walk.scratch, s,
                 p.hops[1], p.hops[2])

\* What the variable-length pattern of a group reaches from each vertex.
Reach(g, group) ==
    LET long == SelectSeq(group.patterns, LAMBDA p : p.hops # <<>>)
    IN  [v \in Vertices |-> IF long = <<>> THEN {} ELSE Traversal(g, long[1], v).vertices]

\* Where a path procedure reads the edges of a type.
Topologies(g, P) ==
    LET Topology(t) ==
            IF Compiled(job.kernel, job.image) THEN [from |-> "compiled", csc |-> Csc(t), overlay |-> TailOf(t, g)]
            ELSE [from |-> "storage", csc |-> Csc(t), overlay |-> NoOverlay]
    IN  FoldSet(LAMBDA t, f : f @@ (t :> Topology(t)), Empty, Range(P.types))

----------------------------------------------------------------------------
(* Caches of vertex lists, keyed by what was asked and the read epoch.     *)

MemoKey(p, g) == [t |-> p.t, s |-> p.src.id, hops |-> p.hops, at |-> g.seq]

\* The list behind a lone edge: all it reaches, or a source's destinations.
Listed(p, g) ==
    IF MemoKey(p, g) \in DOMAIN memo THEN memo[MemoKey(p, g)]
    ELSE IF p.hops # <<>> THEN Asc(Traversal(g, p, p.src.id).vertices)
    ELSE SourceDestinations(g, p.t, p.src.id, g.seq)

Remember(p, g, list) == memo' = (MemoKey(p, g) :> list) @@ memo

----------------------------------------------------------------------------
(* Row queries.                                                            *)

ArmsOf(q) == <<[q EXCEPT !.arms = <<>>]>> \o q.arms

Arm == ArmsOf(job.query)[read.arm]

IsUnion == Len(ArmsOf(job.query)) > 1

IsPaged == job.kind = "page"

IsFastPage == IsPaged /\ ~IsUnion /\ PageAccessOf(job.query) # "generic"

\* The window around the whole query: a page's, or the query's own.
OuterWindow ==
    LET own == IF IsUnion THEN NoWindow ELSE job.query.window
    IN  IF IsPaged THEN PageWindow(own, read.offset, job.size, Cap) ELSE [ok |-> TRUE, window |-> own]

\* The arms of a union keep their windows, except the first one of a page.
ArmWindow ==
    IF ~IsUnion THEN OuterWindow.window
    ELSE IF IsPaged /\ read.arm = 1 THEN NoWindow ELSE Arm.window

Begin ==
    /\ job.kind \in {"rows", "page"} /\ read.pc = "idle" /\ ~out.done
    /\ read' = [NoRead EXCEPT !.offset = read.offset, !.pc = "arm", !.at = cell]
    /\ UNCHANGED <<job, past, cell, memo, out, walk, cursors, answers, calls>>

\* What goes back to the client: the rows, or the page they start with and
\* the offset of the next one.
Deliver(result) ==
    LET page == IF IsPaged THEN PageOf(result.rows, read.offset, job.size) ELSE [rows |-> result.rows, next |-> -1]
    IN  /\ out' = [out EXCEPT !.ok = result.ok, !.done = ~result.ok \/ page.next < 0,
                              !.rows = @ \o page.rows, !.page = page.rows, !.from = read.offset,
                              !.pages = @ + 1, !.ats = @ \cup {read.at}]
        /\ read' = [read EXCEPT !.pc = "idle", !.offset = IF page.next < 0 THEN @ ELSE page.next]

RejectPage ==
    /\ read.pc = "arm" /\ ~OuterWindow.ok
    /\ Deliver(Rejected)
    /\ UNCHANGED <<job, past, cell, memo, walk, cursors, answers, calls>>

\* A page that a fast path serves; an empty one needs no list.
PageBy(access, p, w, list) ==
    CASE w.limit = 0 -> [ok |-> TRUE, rows |-> <<>>]
      [] w.limit # 0 /\ access = "source" -> [ok |-> TRUE, rows |-> SourcePageRows(job.query, list, w)]
      [] w.limit # 0 /\ access = "kernel" ->
            KernelPageRows(job.query, Traversal(Snap, p, p.src.id).vertices, Counted(Snap, p, p.src.id).count, list, w, Cap)
      [] w.limit # 0 /\ access = "stream" -> StreamPageRows(Snap, job.query, w, Cap)

FastPage ==
    /\ read.pc = "arm" /\ IsFastPage /\ OuterWindow.ok
    /\ \E access \in {PageAccessOf(job.query)}, p \in {LoneEdge(job.query)[1]}, w \in {OuterWindow.window} :
          \E list \in {Listed(p, Snap)} :
             /\ Deliver(PageBy(access, p, w, list))
             /\ IF access = "stream" \/ w.limit = 0 THEN UNCHANGED memo ELSE Remember(p, Snap, list)
    /\ UNCHANGED <<job, past, cell, walk, cursors, answers, calls>>

ArmDone(result) ==
    read' = [read EXCEPT !.parts = Append(@, result), !.queue = <<>>, !.found = <<>>,
                         !.arm = IF @ < Len(ArmsOf(job.query)) THEN @ + 1 ELSE @,
                         !.pc = IF read.arm < Len(ArmsOf(job.query)) THEN "arm" ELSE "return"]

\* An arm that a fast path answers from a list of vertices, or directly.
ArmByList(access, q, p, w) ==
    \E list \in {Listed(p, Snap)} :
        /\ Remember(p, Snap, list)
        /\ ArmDone(IF access = "source" THEN SourceRows(q, list, w, Cap)
                   ELSE KernelRows(q, Traversal(Snap, p, p.src.id).vertices, Counted(Snap, p, p.src.id).count, list, w, Cap))

ArmBy(access, q, w) ==
    CASE access = "count" -> CountRows(Snap, q, w, Cap)
      [] access = "relationships" -> RelationshipRows(Snap, q, w, Cap)
      [] access = "ordered" -> OrderedStringRows(Snap, q, w, Cap)

FastArm ==
    /\ read.pc = "arm" /\ OuterWindow.ok /\ ~IsFastPage
    /\ \E access \in {AccessOf(Arm, ArmWindow)} \ {"generic"} :
          IF access \in {"kernel", "source"} THEN ArmByList(access, Arm, LoneEdge(Arm)[1], ArmWindow)
          ELSE ArmDone(ArmBy(access, Arm, ArmWindow)) /\ UNCHANGED memo
    /\ UNCHANGED <<job, past, cell, out, walk, cursors, answers, calls>>

\* An arm that is matched group by group.
MatchArm ==
    /\ read.pc = "arm" /\ OuterWindow.ok /\ ~IsFastPage /\ AccessOf(Arm, ArmWindow) = "generic"
    /\ read' = [read EXCEPT !.pc = "match", !.left = 1..Len(Arm.groups), !.found = <<EmptyRow>>, !.queue = <<>>]
    /\ UNCHANGED <<job, past, cell, memo, out, walk, cursors, answers, calls>>

\* The names the groups that have run can bind.
BoundNames == UNION {GroupBindings(Arm.groups[i]) : i \in (1..Len(Arm.groups)) \ read.left}

NextGroup(i) ==
    /\ read.pc = "match" /\ read.queue = <<>> /\ read.left # {}
    /\ GroupMayBeNext(Arm.groups, i, read.left, BoundNames)
    /\ read' = [read EXCEPT !.left = @ \ {i}, !.group = i, !.queue = read.found, !.found = <<>>]
    /\ UNCHANGED <<job, past, cell, memo, out, walk, cursors, answers, calls>>

\* The group's rows for the next input row, by a plan for that row.
MatchRow ==
    LET group == Arm.groups[read.group]
        row == Head(read.queue)
    IN  /\ read.pc = "match" /\ read.queue # <<>>
        /\ \E order \in PatternOrders(group.patterns, RowNames(row), TRUE, Snap.reverse),
              edge \in {"out", "in", "index"}, node \in {"label", "property"} :
              \E made \in {GroupRows(Snap, group, row, order, [edge |-> edge, node |-> node], TRUE, Reach(Snap, group))} :
                 IF made.ok
                 THEN /\ read' = [read EXCEPT !.queue = Tail(@), !.found = @ \o made.rows]
                      /\ UNCHANGED out
                 ELSE Deliver(Rejected)
        /\ UNCHANGED <<job, past, cell, memo, walk, cursors, answers, calls>>

FinishArm ==
    /\ read.pc = "match" /\ read.queue = <<>> /\ read.left = {}
    /\ ArmDone(GenericRows(read.found, Arm, ArmWindow, Cap))
    /\ UNCHANGED <<job, past, cell, memo, out, walk, cursors, answers, calls>>

Return ==
    /\ read.pc = "return"
    /\ Deliver(IF IsUnion THEN UnionRows(read.parts, job.query.all, OuterWindow.window, Cap) ELSE read.parts[1])
    /\ UNCHANGED <<job, past, cell, memo, walk, cursors, answers, calls>>

----------------------------------------------------------------------------
(* Traversals through the reading API.                                     *)

Walk(s, min, max) ==
    LET p == [t |-> job.type, hops |-> <<min, max>>]
    IN  /\ job.kind = "walk" /\ walk.n < MaxWalks
        /\ \E counted \in {Counted(past[cell], p, s)} :
              walk' = [n |-> walk.n + 1, at |-> cell, api |-> "range", starts |-> {s}, min |-> min, max |-> max,
                       found |-> Traversal(past[cell], p, s).vertices, count |-> counted.count,
                       scratch |-> counted.scratch]
        /\ UNCHANGED <<job, past, cell, read, memo, out, cursors, answers, calls>>

WalkFrom(starts, hops) ==
    LET g == past[cell]
    IN  /\ job.kind = "walk" /\ walk.n < MaxWalks
        /\ \E made \in {MatrixReachable(EdgesAt(g, job.type, g.seq), Csc(job.type), job.image, TailOf(job.type, g), job.kernel,
                                         starts, hops)} :
              walk' = [walk EXCEPT !.n = @ + 1, !.at = cell, !.api = "matrix", !.starts = starts, !.min = 1,
                                   !.max = hops, !.found = made.vertices, !.count = Cardinality(made.vertices)]
        /\ UNCHANGED <<job, past, cell, read, memo, out, cursors, answers, calls>>

----------------------------------------------------------------------------
(* Path procedures and their pages.                                        *)

\* Expired cursors are dropped before the store is used.
Purged ==
    LET kept == {id \in DOMAIN cursors.open : cursors.open[id].age < CursorTtl}
        gone == DOMAIN cursors.open \ kept
    IN  [cursors EXCEPT !.open = [id \in kept |-> cursors.open[id]],
                        !.bytes = @ - FoldSet(LAMBDA id, n : n + Len(cursors.open[id].rows), 0, gone)]

\* The procedure's rows at the latest snapshot, from the cache if they are
\* there.
Answer(k) ==
    LET q == job.calls[k]
        key == [q |-> q, at |-> past[cell].seq]
    IN  IF key \in DOMAIN answers THEN [ok |-> TRUE, rows |-> answers[key]]
        ELSE PathRows(past[cell], Topologies(past[cell], job.procs[q]), job.procs[q], MaxPaths, Cap)

Called(k, pc, id, rows, whole) ==
    calls' = [calls EXCEPT ![k] = [pc |-> pc, id |-> id, at |-> cell, rows |-> rows, whole |-> whole]]

\* The rows a page leaves for the next ones.
PageRest(rows) == SubSeq(rows, job.size + 1, Len(rows))

\* The first page; the rest waits under a cursor if the store has room.
CallPaths(k) ==
  \E made \in {Answer(k)} :
    LET rest == PageRest(made.rows)
        full == \/ Cardinality(DOMAIN Purged.open) >= MaxCursors
                \/ Purged.bytes + Len(rest) > MaxCursorRows
        first == FirstOf(made.rows, job.size)
    IN  /\ job.kind = "paths" /\ calls[k].pc = "new"
        /\ answers' = IF made.ok THEN ([q |-> job.calls[k], at |-> past[cell].seq] :> made.rows) @@ answers ELSE answers
        /\ IF ~made.ok \/ Len(rest) > MaxCursorRows
           THEN Called(k, "failed", 0, <<>>, <<>>) /\ UNCHANGED cursors
           ELSE IF rest = <<>>
           THEN Called(k, "done", 0, made.rows, made.rows) /\ UNCHANGED cursors
           ELSE IF full
           THEN Called(k, "failed", 0, <<>>, <<>>) /\ cursors' = Purged
           ELSE /\ Called(k, "open", cursors.next, first, made.rows)
                /\ cursors' = [open |-> (cursors.next :> [q |-> job.calls[k], rows |-> rest, age |-> 0]) @@ Purged.open,
                               bytes |-> Purged.bytes + Len(rest), next |-> cursors.next + 1]
        /\ UNCHANGED <<job, past, cell, read, memo, out, walk>>

\* The bytes charged once a page has been taken from a cursor.
Recharged(id) == Purged.bytes - Len(FirstOf(Purged.open[id].rows, job.size))

\* The next page of a cursor: it keeps its id while rows remain.
NextPathPage(k) ==
    LET id == calls[k].id
        rest == PageRest(Purged.open[id].rows)
        page == FirstOf(Purged.open[id].rows, job.size)
        others == [c \in DOMAIN Purged.open \ {id} |-> Purged.open[c]]
    IN  /\ job.kind = "paths" /\ calls[k].pc = "open"
        /\ IF id \notin DOMAIN Purged.open
           THEN /\ calls' = [calls EXCEPT ![k].pc = "expired"]
                /\ cursors' = Purged
           ELSE /\ calls' = [calls EXCEPT ![k].pc = IF rest = <<>> THEN "done" ELSE "open", ![k].rows = @ \o page]
                /\ cursors' = [Purged EXCEPT
                      !.bytes = Recharged(id),
                      !.open = IF rest = <<>> THEN others
                               ELSE (id :> [Purged.open[id] EXCEPT !.rows = rest, !.age = 0]) @@ others]
        /\ UNCHANGED <<job, past, cell, read, memo, out, walk, answers>>

CursorTime ==
    /\ \E id \in DOMAIN cursors.open : cursors.open[id].age < CursorTtl
    /\ cursors' = [cursors EXCEPT !.open = [id \in DOMAIN @ |->
                        [@[id] EXCEPT !.age = IF @ < CursorTtl THEN @ + 1 ELSE @]]]
    /\ UNCHANGED <<job, past, cell, read, memo, out, walk, answers, calls>>

----------------------------------------------------------------------------
(* The plans of the statement API.                                         *)

\* What a statement's physical plan returns: a number, vertices or a truth.
PlanOutput(g, plan) ==
    LET exists == EdgeExists(g, <<plan.t, plan.s, plan.d>>, g.seq)
        Ids(vertices) == LET cut == ApplyWindow(vertices, plan.window, Cap)
                         IN  [cut EXCEPT !.rows = IdRows(@)]
        Number(n) == [ok |-> TRUE, rows |-> <<<<CountValue(n)>>>>]
        Reached(vertices) == IF plan.count THEN Number(Len(vertices)) ELSE Ids(vertices)
    IN  CASE plan.op = "out" /\ plan.count -> Number(OutDegree(g, plan.t, plan.s))
          [] plan.op = "out" /\ ~plan.count -> Ids(Asc(OutNeighbors(g, plan.t, plan.s, g.seq)))
          [] plan.op \in {"filtered", "edge"} /\ plan.count -> Number(IF exists THEN 1 ELSE 0)
          [] plan.op = "filtered" /\ ~plan.count -> IF exists THEN Ids(<<plan.d>>) ELSE [ok |-> TRUE, rows |-> <<>>]
          [] plan.op = "edge" /\ ~plan.count -> [ok |-> TRUE, rows |-> <<<<PropValue(Val("bool", IF exists THEN 1 ELSE 0))>>>>]
          [] plan.op = "reach" -> Reached(Asc(Traversal(g, plan, plan.s).vertices))

\* Only a plan that returns vertices may be windowed.
ValidPlan(plan) == plan.window # NoWindow => plan.op \in {"out", "filtered", "reach"} /\ ~plan.count

\* A plan made for a sequence (0: none) runs only while it is the latest.
FreshPlan(plan, g) == plan.at \in {0, g.seq}

RunPlan(plan) ==
    LET g == past[cell]
    IN  /\ job.kind = "plan" /\ ~out.done
        /\ \E made \in {IF ValidPlan(plan) /\ FreshPlan(plan, g) THEN PlanOutput(g, plan) ELSE Rejected} :
              out' = [out EXCEPT !.ok = made.ok, !.done = TRUE, !.rows = made.rows, !.plan = plan]
        /\ read' = [read EXCEPT !.at = cell]
        /\ UNCHANGED <<job, past, cell, memo, walk, cursors, answers, calls>>

----------------------------------------------------------------------------
(* Other clients, eviction, and the engine.                                *)

Commit ==
    /\ cell < Len(past)
    /\ cell' = cell + 1
    /\ UNCHANGED <<job, past, read, memo, out, walk, cursors, answers, calls>>

EvictMemo(key) ==
    /\ read.pc = "idle" /\ ~out.done
    /\ memo' = [k \in DOMAIN memo \ {key} |-> memo[k]]
    /\ UNCHANGED <<job, past, cell, read, out, walk, cursors, answers, calls>>

EngineInit ==
    /\ \E i \in 1..Len(Jobs) : job = [Jobs[i] EXCEPT !.histories = {}] /\ past \in Jobs[i].histories
    /\ cell = 1 /\ read = NoRead /\ memo = Empty /\ out = NoOut /\ walk = NoWalk
    /\ cursors = [open |-> Empty, bytes |-> 0, next |-> 1]
    /\ answers = Empty
    /\ calls = [k \in 1..Len(job.calls) |-> NoCall]

EngineStep ==
    \/ Begin \/ RejectPage \/ FastPage \/ FastArm \/ MatchArm
    \/ \E i \in 1..3 : NextGroup(i)
    \/ MatchRow \/ FinishArm \/ Return
    \/ \E s \in job.starts, h \in job.hops : Walk(s, h[1], h[2])
    \/ \E S \in SUBSET job.starts \ {{}}, h \in job.hops : WalkFrom(S, h[2])
    \/ \E k \in DOMAIN calls : CallPaths(k) \/ NextPathPage(k)
    \/ CursorTime
    \/ \E plan \in job.plans : RunPlan(plan)
    \/ \E key \in DOMAIN memo : EvictMemo(key)
    \/ Commit

----------------------------------------------------------------------------
(* Properties of reading.                                                  *)

\* The client holds an answer, or a page of one, that is not being replaced.
Delivered == job.kind \in {"rows", "page"} /\ read.pc = "idle" /\ out.pages > 0

MeantAnswer(g) ==
    OnceIf(IsUnion /\ ~job.query.all, FlatMap(ArmsOf(job.query), LAMBDA arm : MeantRows(g, arm)))

\* The rows that are left for a page that starts at an offset.
PageLimit(window, offset) ==
    LET left == IF window.limit > offset THEN window.limit - offset ELSE 0
    IN  IF ~IsPaged THEN window.limit
        ELSE IF window.limit < 0 \/ left > job.size THEN job.size ELSE left

\* Whatever plan the optimizer picks (the order of groups and patterns, the
\* access path of each pattern, a join, a fast path, a cached list), a row
\* query answers with the rows it means on the snapshot it pinned, in the
\* order it asks for and cut where SKIP, LIMIT and the page cut; only a page
\* of no rows, or of more than a result may have, and a vertex that nothing
\* says anything about are refused (match_row_pattern_groups,
\* finish_projected_rows, the fast paths).
AnswersAreMeant ==
    Delivered =>
        IF \/ IsPaged /\ job.size \notin 1..(Cap - 1)
           \/ LET first == job.query.groups[1] IN Len(first.patterns) = 1 /\ Unanchored(first.patterns[1])
        THEN ~out.ok
        ELSE /\ out.ok
             /\ IsWindowOf(out.page, job.query, MeantAnswer(Snap), job.query.window.skip + out.from,
                           PageLimit(job.query.window, out.from))

\* While nothing is committed, the pages of a query are its answer: no row
\* is lost or repeated where one page ends and the next begins
\* (query_page_context, query_next_cursor).
PagesAddUp ==
    (Delivered /\ out.done /\ out.ok /\ Cardinality(out.ats) = 1) =>
        IsWindowOf(out.rows, job.query, MeantAnswer(Snap), job.query.window.skip, job.query.window.limit)

\* A traversal finds the vertices that a walk of the asked length reaches
\* in the current edges, whichever kernel runs it and whether it reads
\* storage, a compiled matrix, or one with the WAL tail laid over it, and
\* counts them right on reused scratch vectors.  The multi-source API may
\* or may not report its own starts.
TraversalsAgree ==
    LET E == LiveEdges(past[walk.at], job.type)
        meant == UNION {WalkEnds(E, s, walk.min, walk.max) : s \in walk.starts}
    IN  (job.kind = "walk" /\ walk.n > 0) =>
            IF walk.api = "range" THEN walk.found = meant /\ walk.count = Cardinality(meant)
            ELSE walk.found \ walk.starts = meant \ walk.starts

\* Every other way to read the topology tells the same edges: the batch
\* reads answer each request in its place, also repeated ones, whether or
\* not a reverse index is kept, the degree counters agree with the edges,
\* and the compressed form of the base is well formed and holds exactly the
\* base's edges (out_neighbors_batch_at, in_neighbors_batch_at,
\* edge_exists_batch_at, validate_cell_edge_type, csc_from_adjacency).
ReadsAgree ==
    LET g == past[cell]
        E == LiveEdges(g, job.type)
        twice == Asc(Vertices) \o Asc(Vertices)
        pairs == BySource(Vertices \X Vertices)
        outs == OutNeighborsBatch(g, job.type, twice)
        ins == InNeighborsBatch(g, job.type, twice)
        exist == EdgeExistsBatch(g, job.type, pairs \o pairs)
    IN  job.kind = "walk" =>
            /\ \A i \in 1..Len(twice) :
                  /\ outs[i] = {d \in Vertices : <<twice[i], d>> \in E}
                  /\ ins[i] = {s \in Vertices : <<s, twice[i]>> \in E}
            /\ \A i \in 1..Len(exist) : exist[i] = ((pairs \o pairs)[i] \in E)
            /\ SegmentEdgePairs(g, job.type, g.seq) \subseteq E
            /\ DegreeMismatches(g, job.type) = {}
            /\ ValidCsc(Csc(job.type))
            /\ ToAdjacency(Csc(job.type)) = LiveEdges(past[1], job.type)

\* Are these rows an answer of the procedure on a snapshot?
IsAnswer(g, P, whole) ==
    LET sources == Range(SelectorVertices(g, P.source))
        targets == IF P.target.kind = "none" THEN Vertices ELSE Range(SelectorVertices(g, P.target))
        Pair(s, t) == SelectSeq(whole, LAMBDA x : x.nodes[1] = s /\ Last(x.nodes) = t)
        From(s) == SelectSeq(whole, LAMBDA x : x.nodes[1] = s)
        All(s) == UNION {MeantPaths(g, P, s, t) : t \in Eligible(P, s, targets)}
    IN  IF P.fair \/ P.limit > 0
        THEN Range(whole) \subseteq UNION {All(s) : s \in sources} /\ IsInjective(whole)
        ELSE IF P.target.kind = "none" THEN \A s \in sources : IsLightest(From(s), P, All(s))
        ELSE /\ \A s \in sources, t \in targets :
                    t \in Eligible(P, s, targets) => IsLightest(Pair(s, t), P, MeantPaths(g, P, s, t))
             /\ Range(whole) \subseteq UNION {All(s) : s \in sources}

\* A path procedure returns, for each pair of vertices, the lightest simple
\* paths over the relationships of its types that it can afford: all of the
\* least weight, or as many as asked (select_native_paths); under a limit or
\* a fair share they are some of them, each once.
PathsAreLightest ==
    [][\A k \in DOMAIN calls :
          (calls[k].pc = "new" /\ calls'[k].pc \in {"open", "done"}) =>
              IsAnswer(past[calls'[k].at], job.procs[job.calls[k]], calls'[k].whole)]_vars

\* The pages of a path procedure are one answer, that of the snapshot its
\* first page was computed on: what was sent and what the cursor still
\* holds are together that answer, whatever is committed, whoever else
\* pages, and whichever cursors expire (continue_native_path_page).
PathPagesAreOneAnswer ==
    \A k \in DOMAIN calls :
        /\ calls[k].pc = "done" => calls[k].rows = calls[k].whole
        /\ (calls[k].pc = "open" /\ calls[k].id \in DOMAIN cursors.open) =>
              calls[k].rows \o cursors.open[calls[k].id].rows = calls[k].whole

\* The bytes charged for path cursors are those of the rows they hold, and
\* the store keeps to its limits (purge_native_path_page_cursors).
CursorsCharged ==
    /\ cursors.bytes = FoldSet(LAMBDA id, n : n + Len(cursors.open[id].rows), 0, DOMAIN cursors.open)
    /\ cursors.bytes <= MaxCursorRows
    /\ Cardinality(DOMAIN cursors.open) <= MaxCursors

\* A statement that names the sequence it was planned at is answered from
\* that sequence's snapshot or refused, and any answer is that of the edges
\* (validate_executable_query_plan, execute_query_plan).
PlansAnswerTheirSequence ==
    LET plan == out.plan
        asked == IF plan.at = 0 THEN past[read.at]
                 ELSE past[CHOOSE i \in 1..Len(past) : past[i].seq = plan.at]
        E == LiveEdges(asked, plan.t)
        ends == {d \in Vertices : <<plan.s, d>> \in E}
        meant == CASE plan.op = "out" -> ends
                   [] plan.op \in {"filtered", "edge"} -> ends \cap {plan.d}
                   [] plan.op = "reach" -> WalkEnds(E, plan.s, plan.hops[1], plan.hops[2])
        Id(row) == row[1].v[1].n
    IN  (job.kind = "plan" /\ out.done /\ out.ok) =>
            IF plan.count THEN out.rows = <<<<CountValue(Cardinality(meant))>>>>
            ELSE IF plan.op = "edge" THEN out.rows = <<<<PropValue(Val("bool", Cardinality(meant)))>>>>
            ELSE /\ Len(out.rows) = Len(FirstOf(SubSeq(Asc(meant), plan.window.skip + 1, Cardinality(meant)),
                                                IF plan.window.limit < 0 THEN Cardinality(meant) ELSE plan.window.limit))
                 /\ \A i \in 1..Len(out.rows) :
                       Id(out.rows[i]) \in meant /\ Cardinality({d \in meant : d <= Id(out.rows[i])}) = plan.window.skip + i

\* Numbers of different kinds compare as the rationals they are, also where
\* a float has no integer or an integer no float; the property-index keys
\* looked up for a value are exactly those of the values equal to it; and
\* the order of result values is a total preorder, so a sort is well defined
\* (numeric_property_order, equivalent_property_index_keys,
\* compare_query_values).
ValueOrderIsExact ==
    job.kind = "values" =>
        LET Exact(v) == IF v.t = "float" THEN v.n ELSE 2 * v.n
            Order(x, y) == ValueOrder(PropValue(x), PropValue(y))
        IN  \A x, y \in job.values :
                /\ BothNumeric(x, y) => NumericOrder(x, y) = Cmp(Exact(x), Exact(y))
                /\ ValuesEqual(x, y) = (EncodeKey(y) \in EquivalentKeys(x))
                /\ Order(x, y) = -Order(y, x)
                /\ \A z \in job.values : Order(x, y) <= 0 /\ Order(y, z) <= 0 => Order(x, z) <= 0
====
