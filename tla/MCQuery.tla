------------------------------ MODULE MCQuery ------------------------------
(***************************************************************************)
(* Graphs, queries and jobs for the query engine.                          *)
(***************************************************************************)
EXTENDS QueryWrites

MCFloats == {-8, -3, -2, -1, 0, 1, 2, 3, 4, 8, 16, 20}

Num(n) == Val("int", n)
Str(n) == Val("str", n)

\* Graphs.
Graph(seq, verts, direct, segs, tombs, reverse, recs, emeta) ==
    Recounted([seq |-> seq, verts |-> verts, direct |-> direct, segs |-> segs, tombs |-> tombs,
               rev |-> IF reverse THEN direct ELSE {}, reverse |-> reverse, recs |-> recs, emeta |-> emeta,
               outDeg |-> Empty, inDeg |-> Empty, relCount |-> Empty])

People ==
    <<[labels |-> {"P"}, props |-> ("n" :> Str(12) @@ "a" :> Num(1))],
      [labels |-> {"P"}, props |-> ("n" :> Str(11) @@ "a" :> Val("float", 2))],
      [labels |-> {"P", "Q"}, props |-> ("n" :> Str(12) @@ "a" :> Val("sint", -1))],
      [labels |-> {"Q"}, props |-> ("n" :> Str(20))]>>

\* Parallel relationships between 1 and 2, a triangle, a way back.
Dense ==
    Graph(5, People, {<<"R", 1, 2>>, <<"R", 2, 3>>, <<"R", 1, 3>>, <<"R", 3, 4>>, <<"S", 2, 1>>, <<"S", 3, 1>>}, <<>>, Empty, TRUE,
          (<<"R", 1, 2, 1>> :> ("k" :> Num(1))) @@ (<<"R", 1, 2, 2>> :> ("k" :> Val("float", 2))),
          (<<"R", 2, 3>> :> ("k" :> Num(2))) @@ (<<"S", 2, 1>> :> ("k" :> Num(1))))

\* The edge that closes the triangle is gone, and vertex 2 has changed.
Denser ==
    [DropEdges(SetVertex(Dense, 2, [labels |-> {"P", "Q"}, props |-> ("a" :> Num(2))]), {<<"R", 1, 3>>}) EXCEPT !.seq = 6]

\* Without a reverse index: bulk segments and a tombstone.
Sparse ==
    Graph(5, People, {<<"R", 1, 2>>, <<"R", 2, 3>>}, <<[seq |-> 2, t |-> "R", s |-> 3, dsts |-> {1, 4}], [seq |-> 4, t |-> "R", s |-> 1, dsts |-> {4}]>>,
          (<<"R", 3, 1>> :> 3), FALSE, (<<"R", 1, 2, 1>> :> ("k" :> Num(1))), (<<"R", 2, 3>> :> ("k" :> Num(2))))

Sparser == [DropEdges(WithEdge(Sparse, <<"R", 2, 4>>), {<<"R", 3, 4>>}) EXCEPT !.seq = 6]

\* Patterns and queries.
N(b) == [AnyNode EXCEPT !.b = b]
At(b, id) == [AnyNode EXCEPT !.b = b, !.id = id]
Of(b, label) == [AnyNode EXCEPT !.b = b, !.labels = {label}]
With(b, p, v) == [AnyNode EXCEPT !.b = b, !.props = (p :> v)]
Edge(b, t, src, dst) == [kind |-> "edge", b |-> b, t |-> t, src |-> src, dst |-> dst, props |-> Empty, hops |-> <<>>]
Where(group, w) == [group EXCEPT !.where = w]
Group(patterns) == [patterns |-> patterns, where |-> NoPredicate, optional |-> FALSE]
Optional(patterns) == [patterns |-> patterns, where |-> NoPredicate, optional |-> TRUE]

Expr(e, b, p, v) == [e |-> e, b |-> b, p |-> p, v |-> v]
Id(b) == Expr("id", b, "", Missing)
Property(b, p) == Expr("property", b, p, Missing)
Literal(v) == Expr("literal", "", "", v)
Compare(l, c, r) == [op |-> "compare", l |-> l, c |-> c, r |-> r]
Starts(e, w) == [op |-> "starts", e |-> e, w |-> w]
Both(l, r) == [op |-> "and", args |-> <<l, r>>]
Either(l, r) == [op |-> "or", args |-> <<l, r>>]
Not(l) == [op |-> "not", args |-> <<l>>]

Ret(x) == [f |-> "value", x |-> x]
Agg(f, x) == [f |-> f, x |-> x]
By(x, asc) == [s |-> "value", x |-> x, col |-> 1, asc |-> asc]
ByColumn(c, asc) == [s |-> "column", x |-> Literal(Missing), col |-> c, asc |-> asc]

Query(groups, proj) ==
    [groups |-> groups, proj |-> proj, order |-> <<>>, distinct |-> FALSE, window |-> NoWindow, arms |-> <<>>, all |-> FALSE]

Window(skip, limit) == [skip |-> skip, limit |-> limit]

\* A person, the people they know, ordered and cut.
KnownBy == [Query(<<Where(Group(<<Edge("r", "R", Of("x", "P"), N("y"))>>), Compare(Property("x", "a"), ">=", Literal(Num(1))))>>,
                  <<Ret(Id("x")), Ret(Id("y")), Ret(Property("r", "k"))>>)
            EXCEPT !.order = <<By(Id("y"), FALSE), By(Property("r", "k"), TRUE)>>, !.window = Window(1, 2)]

\* A property equality that crosses the number kinds.
IndexedProperty == Query(<<Group(<<[Edge("r", "R", N("x"), N("y")) EXCEPT !.props = ("k" :> Val("float", 2))]>>)>>,
                         <<Ret(Id("x")), Ret(Id("y")), Ret(Property("r", "k"))>>)

Triangle == Query(<<Group(<<Edge("", "R", N("x"), N("y")), Edge("", "R", N("y"), N("z")), Edge("", "S", N("z"), N("x"))>>)>>,
                  <<Ret(Id("x")), Ret(Id("y")), Ret(Id("z"))>>)

OptionalCount == [Query(<<Group(<<NodePattern(Of("x", "P"))>>), Optional(<<Edge("r", "R", N("x"), Of("y", "Q"))>>)>>,
                        <<Ret(Id("x")), Agg("count", Id("y"))>>) EXCEPT !.order = <<ByColumn(2, FALSE)>>]

\* Two optional groups, the second about what the first may have left null.
OptionalChain == Query(<<Group(<<NodePattern(Of("x", "Q"))>>), Optional(<<Edge("", "R", N("x"), N("y"))>>),
                         Optional(<<Edge("r", "S", N("y"), N("z"))>>)>>,
                       <<Ret(Id("x")), Ret(Id("y")), Ret(Id("z"))>>)

CrossOr == Query(<<Where(Group(<<NodePattern(Of("x", "Q")), Edge("r", "R", N("y"), N("z"))>>),
                         Either(Compare(Property("r", "k"), "=", Literal(Num(1))), Compare(Property("x", "n"), "=", Literal(Str(20)))))>>,
                 <<Ret(Id("x")), Ret(Id("y")), Ret(Id("z"))>>)

SeededOr == Query(<<Where(Group(<<Edge("r", "R", N("y"), N("z")), NodePattern(Of("z", "Q"))>>),
                          Either(Compare(Property("r", "k"), "=", Literal(Num(1))), Compare(Literal(Val("float", 4)), "=", Property("r", "k"))))>>,
                  <<Ret(Id("y")), Ret(Id("z"))>>)

Prefixed == Query(<<Where(Group(<<NodePattern(N("x")), Edge("", "R", N("x"), N("y"))>>), Starts(Property("x", "n"), Str(10)))>>,
                  <<Ret(Property("x", "n")), Ret(Id("y"))>>)

\* One relationship under one name in two patterns.
SameTwice == Query(<<Group(<<Edge("r", "R", N("x"), N("y")), Edge("r", "R", At("u", 1), N("v"))>>)>>,
                   <<Ret(Id("x")), Ret(Property("r", "k")), Ret(Id("v"))>>)

TwoGroups == Query(<<Group(<<Edge("r", "R", N("x"), N("y"))>>), Group(<<NodePattern(With("y", "a", Num(1)))>>),
                     Where(Group(<<NodePattern(Of("y", "P"))>>), Not(Compare(Property("y", "a"), "<", Literal(Num(0)))))>>,
                   <<Ret(Id("x")), Ret(Id("y"))>>)

Reaching == Query(<<Group(<<[Edge("", "R", At("x", 1), N("y")) EXCEPT !.hops = <<1, 2>>], NodePattern(Of("y", "Q"))>>)>>, <<Ret(Id("y"))>>)

Kernel == [Query(<<Group(<<[Edge("", "R", At("x", 1), N("y")) EXCEPT !.hops = <<1, 2>>]>>)>>, <<Ret(Id("y"))>>)
           EXCEPT !.order = <<By(Id("y"), FALSE)>>]
KernelWindow == [Kernel EXCEPT !.window = Window(1, 1)]
KernelDistinct == [Kernel EXCEPT !.distinct = TRUE, !.order = <<>>]
KernelCount == [Kernel EXCEPT !.proj = <<Agg("countall", Id("y"))>>, !.order = <<>>]
KernelTo == [Query(<<Group(<<[Edge("", "R", At("x", 1), At("y", 4)) EXCEPT !.hops = <<1, 3>>]>>)>>, <<Ret(Id("y"))>>) EXCEPT !.distinct = FALSE]

Source == [Query(<<Group(<<Edge("", "R", At("x", 1), N("y"))>>)>>, <<Ret(Id("x")), Ret(Id("y"))>>)
           EXCEPT !.order = <<ByColumn(2, FALSE)>>]
SourceDistinct == [Source EXCEPT !.distinct = TRUE, !.order = <<>>]
Stream == [Query(<<Group(<<Edge("", "R", At("x", 3), N("y"))>>)>>, <<Ret(Id("y"))>>) EXCEPT !.order = <<>>]
CountPair == Query(<<Group(<<Edge("", "R", At("x", 1), At("y", 2))>>)>>, <<Agg("countall", Id("x"))>>)
PairRelationships == [Query(<<Group(<<Edge("r", "R", At("x", 1), At("y", 2))>>)>>, <<Ret(Property("r", "k")), Ret(Id("y"))>>)
                      EXCEPT !.order = <<By(Property("r", "k"), FALSE)>>]
PairOne == [PairRelationships EXCEPT !.groups = <<Group(<<[Edge("r", "R", At("x", 1), At("y", 2)) EXCEPT !.props = ("k" :> Num(1))]>>)>>]

OrderedStrings == [Query(<<Where(Group(<<NodePattern(Of("x", "P"))>>), Starts(Property("x", "n"), Str(10)))>>,
                         <<Ret(Property("x", "n")), Ret(Id("x"))>>)
                   EXCEPT !.order = <<By(Property("x", "n"), FALSE), By(Id("x"), FALSE)>>, !.window = Window(0, 1)]

Ages == Query(<<Group(<<NodePattern(Of("x", "P")), Edge("r", "R", N("x"), N("y"))>>)>>,
              <<Agg("countall", Id("x")), Agg("collect", Property("x", "a")), Ret(Id("x"))>>)
Sums == Query(<<Where(Group(<<Edge("r", "R", N("x"), N("y"))>>), Compare(Property("r", "k"), "=", Literal(Num(2))))>>,
              <<Agg("sum", Property("r", "k")), Agg("avg", Property("r", "k"))>>)
NoSums == Query(<<Group(<<NodePattern(With("x", "a", Num(7)))>>)>>, <<Agg("countall", Id("x")), Agg("sum", Property("x", "a")), Agg("avg", Property("x", "a"))>>)

Unioned == [[SourceDistinct EXCEPT !.proj = <<Ret(Id("y"))>>, !.distinct = FALSE]
            EXCEPT !.arms = <<Query(<<Group(<<NodePattern(Of("y", "Q"))>>)>>, <<Ret(Id("y"))>>)>>]

PagedPeople == [Query(<<Group(<<NodePattern(Of("x", "P")), Edge("r", "R", N("x"), N("y"))>>)>>,
                      <<Ret(Id("x")), Ret(Id("y")), Ret(Property("r", "k"))>>)
                EXCEPT !.order = <<By(Id("x"), TRUE), By(Id("y"), TRUE), By(Property("r", "k"), TRUE)>>, !.window = Window(1, 3)]

Everything == Query(<<Group(<<NodePattern(N("x"))>>)>>, <<Ret(Id("x"))>>)

\* Jobs.
NoUpdate == [kind |-> "match", patterns |-> <<>>, where |-> NoPredicate, actions |-> <<>>, t |-> "R", p |-> "k", vals |-> {}, clauses |-> <<>>]

Job(kind, histories) ==
    [kind |-> kind, query |-> Source, size |-> 2, histories |-> histories, kernel |-> "compact", image |-> "ready", type |-> "R",
     starts |-> {}, hops |-> {}, calls |-> <<>>, procs |-> <<>>, plans |-> {}, values |-> {}, update |-> NoUpdate,
     others |-> Empty, specs |-> <<>>]

Rows(q) == [Job("rows", {<<Dense, Denser>>, <<Sparse>>}) EXCEPT !.query = q]
Paged(q, size) == [Job("page", {<<Dense, Denser>>, <<Sparse>>}) EXCEPT !.query = q, !.size = size]
Run(j, kernel, image) == [j EXCEPT !.kernel = kernel, !.image = image]

RowJobs == <<Rows(KnownBy), Rows(IndexedProperty), Rows(Triangle), Rows(OptionalCount), Rows(OptionalChain), Rows(CrossOr),
             Rows(SeededOr), Rows(Prefixed), Rows(SameTwice), Rows(TwoGroups), Rows(Reaching), Rows(Kernel), Rows(KernelWindow),
             Rows(KernelDistinct), Rows(KernelCount), Rows(KernelTo), Rows(Source), Rows(SourceDistinct), Rows(CountPair),
             Rows(PairRelationships), Rows(PairOne), Rows(OrderedStrings), Rows(Ages), Rows(Sums), Rows(NoSums), Rows(Unioned), Rows(Everything),
             Run(Rows(KernelCount), "suitesparse", "ready"), Run(Rows(Kernel), "adjacency", "none")>>

PageJobs == <<Paged(PagedPeople, 1), Paged(PagedPeople, 2), Paged(Source, 1), Paged(Kernel, 1), Paged(KernelWindow, 1),
              Paged(Stream, 1), Paged(KernelCount, 1), Paged(KernelTo, 1), Paged(Unioned, 2), Paged(OrderedStrings, 1),
              Paged(Source, 0)>>

\* Jobs without a step of the others' kind.
Walks(kernel, image, histories, hops) ==
    [Run(Job("walk", histories), kernel, image) EXCEPT !.starts = {1, 2, 3}, !.hops = hops]

Loopy == Graph(5, People, {<<"R", 1, 2>>, <<"R", 2, 3>>, <<"R", 1, 3>>, <<"R", 3, 1>>, <<"R", 3, 4>>, <<"R", 4, 4>>}, <<>>, Empty, TRUE, Empty, Empty)
Rewired == [DropEdges(WithEdge(Dense, <<"R", 4, 1>>), {<<"R", 2, 3>>}) EXCEPT !.seq = 6]

AllHops == {<<1, 1>>, <<1, 2>>, <<1, 3>>, <<2, 2>>, <<2, 3>>, <<3, 3>>}
ShortHops == {<<1, 1>>, <<1, 2>>, <<1, 3>>}

WalkJobs == <<Walks("adjacency", "none", {<<Loopy>>, <<Sparse, Sparser>>}, AllHops), Walks("compact", "ready", {<<Loopy>>}, AllHops),
              Walks("suitesparse", "ready", {<<Loopy>>}, AllHops), Walks("compact", "ready", {<<Dense, Rewired>>, <<Sparse, Sparser>>}, ShortHops),
              Walks("suitesparse", "gone", {<<Dense, Rewired>>}, AllHops), Walks("suitesparse", "none", {<<Dense, Rewired>>}, AllHops)>>

Ids(S) == [NoTarget EXCEPT !.kind = "ids", !.ids = S]
Word(label, n) == [NoTarget EXCEPT !.kind = "match", !.label = label, !.prop = "n", !.words = {Str(n)}]

Proc(source, target) ==
    [source |-> source, target |-> target, types |-> <<"R", "S">>, dir |-> "out", maxLen |-> 3, count |-> 0, weight |-> "", cost |-> "",
     maxCost |-> -1, pairwise |-> FALSE, fair |-> FALSE, limit |-> 0]

Procs == <<Proc(Ids({1}), Ids({4})),
           [Proc(Ids({1, 2}), Ids({3, 4})) EXCEPT !.count = 3],
           [Proc(Word("P", 12), NoTarget) EXCEPT !.dir = "both", !.maxLen = 2, !.weight = "k", !.count = 4],
           [Proc(Ids({1}), Ids({3})) EXCEPT !.weight = "w", !.cost = "k", !.maxCost = 3],
           [Proc(Ids({1}), Ids({4})) EXCEPT !.fair = TRUE, !.limit = 3, !.count = 2],
           [Proc(Ids({1, 2, 3}), Ids({1, 2, 3})) EXCEPT !.dir = "in", !.pairwise = TRUE, !.types = <<"R">>],
           [Proc(Ids({1}), Ids({4})) EXCEPT !.count = 13]>>

\* The way over 2 is lighter by w and dearer by k.
Weighted == [Dense EXCEPT !.emeta = (<<"R", 1, 3>> :> ("w" :> Num(7) @@ "k" :> Num(1))) @@ (<<"R", 2, 3>> :> ("w" :> Num(1) @@ "k" :> Num(2))),
                          !.recs = (<<"R", 1, 2, 1>> :> ("w" :> Num(1))) @@ (<<"R", 1, 2, 2>> :> ("w" :> Num(2) @@ "k" :> Val("float", -2)))]

PathJob(callers, size, image, histories) ==
    [Run(Job("paths", histories), "compact", image) EXCEPT !.procs = Procs, !.calls = callers, !.size = size]

PathJobs == <<PathJob(<<2, 1>>, 2, "ready", {<<Dense, Denser>>}), PathJob(<<3, 2>>, 1, "none", {<<Weighted, Denser>>}),
              PathJob(<<4, 7>>, 1, "none", {<<Weighted>>}), PathJob(<<5, 6>>, 2, "ready", {<<Dense, Rewired>>, <<Weighted, Denser>>}), PathJob(<<2, 2, 3>>, 2, "none", {<<Dense>>})>>

Plan(op, s, d, count, hops, window, at) == [op |-> op, t |-> "R", s |-> s, d |-> d, count |-> count, hops |-> hops, window |-> window, at |-> at]

PlanJobs == <<[Job("plan", {<<Dense, Denser>>, <<Sparse, Sparser>>}) EXCEPT !.plans =
                {Plan("out", s, 0, c, <<>>, NoWindow, at) : s \in {1, 3}, c \in BOOLEAN, at \in {0, 5, 6}}
                \cup {Plan("out", 1, 0, FALSE, <<>>, Window(1, 1), 0), Plan("out", 1, 0, TRUE, <<>>, Window(1, 1), 0)}
                \cup {Plan(op, 1, 3, c, <<>>, NoWindow, at) : op \in {"filtered", "edge"}, c \in BOOLEAN, at \in {0, 5, 6}}
                \cup {Plan("reach", 1, 0, c, <<1, 2>>, w, at) : c \in BOOLEAN, w \in {NoWindow, Window(1, 1)}, at \in {0, 5}}]>>

AllValues == {Num(n) : n \in 0..7} \cup {Val("sint", n) : n \in -4..-1} \cup {Val("float", h) : h \in MCFloats}
             \cup {NegativeZero, Val("bool", 0), Val("bool", 1), Str(10), Str(12)}

ValueJobs == <<[Job("values", {<<Dense>>}) EXCEPT !.values = AllValues]>>

\* Mutations.
Do(a, b) == [a |-> a, b |-> b, p |-> "a", v |-> Num(3), labels |-> {"Q"}]
Update(patterns, actions) == [NoUpdate EXCEPT !.patterns = patterns, !.actions = actions]
Mutation(u, others, g) == [Job("mutate", {<<g>>}) EXCEPT !.update = u, !.others = others]

SetTwice == Update(<<Edge("r", "R", N("x"), Of("y", "Q"))>>, <<Do("set", "y"), Do("label", "x"), [Do("set", "x") EXCEPT !.p = "n", !.v = Str(30)], Do("remove", "y")>>)
SetRelationships == Update(<<Edge("r", "R", At("x", 1), N("y"))>>, <<[Do("set", "r") EXCEPT !.p = "k"], [Do("set", "r") EXCEPT !.p = "w"], Do("unlabel", "y")>>)
LabelRelationship == Update(<<Edge("r", "R", At("x", 1), N("y"))>>, <<Do("label", "r")>>)
DeleteRelationships == Update(<<Edge("r", "R", N("x"), N("y")), NodePattern(Of("y", "P"))>>, <<Do("delete", "r")>>)
SetAndDelete == Update(<<Edge("r", "R", At("x", 1), N("y"))>>, <<[Do("set", "r") EXCEPT !.p = "k"], Do("delete", "r")>>)
DeleteVertex == Update(<<NodePattern(Of("x", "Q"))>>, <<Do("delete", "x")>>)
DetachVertex == Update(<<NodePattern(Of("x", "Q"))>>, <<Do("detach", "x")>>)
Filtered == [Update(<<NodePattern(Of("x", "P"))>>, <<Do("set", "x")>>) EXCEPT !.where = Compare(Property("x", "a"), ">", Literal(Num(0)))]
Unordered == [Filtered EXCEPT !.where = Compare(Property("x", "n"), ">", Literal(Num(0)))]
ByProperty == [NoUpdate EXCEPT !.kind = "byprop", !.vals = {Num(1), Val("float", 4)}]
Clause(c, t, s, d, props) == [c |-> c, e |-> <<t, s, d>>, src |-> NoMetadata, dst |-> [labels |-> {"Q"}, props |-> Empty], props |-> props]
Bare(c, t, s, d) == [c |-> c, e |-> <<t, s, d>>, src |-> NoMetadata, dst |-> NoMetadata, props |-> Empty]
Creates(clauses) == [NoUpdate EXCEPT !.kind = "create", !.clauses = clauses]

Interfering == (2 :> [labels |-> {"P"}, props |-> ("a" :> Num(5))])

MutateJobs == <<Mutation(SetTwice, Empty, Dense), Mutation(SetTwice, Interfering, Dense), Mutation(SetRelationships, Empty, Dense),
                Mutation(LabelRelationship, Empty, Dense), Mutation(DeleteRelationships, Empty, Dense), Mutation(SetAndDelete, Empty, Dense),
                Mutation(DeleteVertex, Empty, Dense),
                Mutation(DetachVertex, Empty, Dense), Mutation(DetachVertex, Empty, Sparse), Mutation(Filtered, Interfering, Dense),
                Mutation(Unordered, Empty, Dense), Mutation(ByProperty, Empty, Dense),
                Mutation(Creates(<<Clause("merge", "R", 1, 2, "k" :> Num(3)), Clause("merge", "R", 4, 1, "k" :> Num(3))>>), Empty, Dense),
                Mutation(Creates(<<Clause("create", "R", 4, 1, "k" :> Num(3))>>), Empty, Dense),
                Mutation(Creates(<<Bare("create", "R", 4, 1), Bare("create", "S", 1, 4)>>), Empty, Dense),
                Mutation(Creates(<<Clause("create", "R", 4, 1, Empty), Bare("create", "R", 1, 4)>>), Empty, Dense)>>

Spec1(k, t, p, v) == [k |-> k, t |-> t, p |-> p, v |-> v]
NoValue == Val("none", 0)
Stats(specs) == [Job("stats", {<<Dense>>}) EXCEPT !.others = Interfering, !.specs = specs]
StatJobs == <<Stats(<<Spec1("vhist", "", "a", NoValue), Spec1("vprop", "", "a", Num(1))>>),
              Stats(<<Spec1("ehist", "R", "k", NoValue), Spec1("eprop", "R", "k", Num(1))>>),
              Stats(<<Spec1("label", "", "P", NoValue), Spec1("type", "R", "", NoValue)>>)>>

\* A tail over the base, and a walk whose second hop stays among the
\* vertices of the first.
MCOverlayJobs == <<Walks("compact", "ready", {<<Loopy, [DropEdges(Loopy, {<<"R", 4, 4>>}) EXCEPT !.seq = 6]>>}, {<<2, 2>>})>>

MCJobs == RowJobs \o PageJobs \o WalkJobs \o PathJobs \o PlanJobs \o ValueJobs \o MutateJobs \o StatJobs
=============================================================================
