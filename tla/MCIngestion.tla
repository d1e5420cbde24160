---------------------------- MODULE MCIngestion ----------------------------
(***************************************************************************)
(* Ingestion for TLC: four instances of it in one run, which differ in the *)
(* constants they narrow.  Which one a behaviour follows is chosen at its  *)
(* start.                                                                  *)
(***************************************************************************)
EXTENDS Ingestion

CONSTANTS c1, c2, c3, w1, w2, v1, v2, k1, k2

VARIABLE setup

MCForever == 99

\* Observation times: c1 before c2 before c3.
MCObservedAt == [c \in Chunks |-> IF c = c1 THEN 1 ELSE IF c = c2 THEN 2 ELSE 3]
\* Drafts without a valid_to.
NoValidTo == [c \in Chunks |-> MCForever]

\* The drafts of a turn: one fact, or none because the LLM call failed.
OneOrNone == [c \in Chunks |-> {<<>>, <<k1>>}]
\* Two facts in each turn, those of c2 about the same key.
TwoEach == [c \in Chunks |-> IF c = c2 THEN {<<k1, k1>>} ELSE {<<k1, k2>>}]
ExactlyOne == [c \in Chunks |-> {<<k1>>}]

\* How often the records are run.
Runs(first, second, third) ==
  [c \in Chunks |-> IF c = c1 THEN first ELSE IF c = c2 THEN second ELSE third]

\* The constants of the modules themselves are the widest ones; they give the
\* types and the initial state.
Once == Runs(1, 1, 1)

\* Two workers, one crash or exception, the first record run twice.
Crashing == INSTANCE Ingestion WITH
  Versions <- {v1}, Drafts <- OneOrNone, MaxRuns <- Runs(2, 1, 0)

\* One worker and three records that supersede one another, nothing fails.
Serial == INSTANCE Ingestion WITH
  Workers <- {w1}, Versions <- {v1}, Drafts <- TwoEach, MaxRuns <- Once, MaxFaults <- 0

\* Two workers, an extractor with stable ids, records that come back with
\* another content, and a clock that moves.
Stable == INSTANCE Ingestion WITH
  StableIds <- TRUE, Drafts <- ExactlyOne, MaxRuns <- Runs(2, 1, 0), MaxFaults <- 0,
  MaxClock <- 1

\* One worker that is fair, one crash or exception, two records run twice.
Live == INSTANCE Ingestion WITH
  Workers <- {w1}, Versions <- {v1}, Drafts <- ExactlyOne, MaxRuns <- Runs(2, 2, 0)

\* The second worker only runs the first record: the two meet on one record, and
\* on two.
SecondWorkerStays == run'[w2].chunk \in {NoChunk, c1}

MCInit == Init /\ setup \in {"crashing", "serial", "stable", "live"}

MCNext ==
  /\ \/ setup = "crashing" /\ Crashing!Next /\ SecondWorkerStays
     \/ setup = "serial" /\ Serial!Next
     \/ setup = "stable" /\ Stable!Next /\ SecondWorkerStays
     \/ setup = "live" /\ Live!Next
  /\ UNCHANGED setup

MCFairness ==
  /\ WF_vars(setup = "live" /\ Live!Step(w1) /\ UNCHANGED setup)
  /\ \A c \in {c1, c2} :
       WF_vars(setup = "live" /\ Live!RunRecord(w1, c, v1) /\ UNCHANGED setup)

MCSpec == MCInit /\ [][MCNext]_<<vars, setup>> /\ MCFairness

\* When a single worker is idle and nothing has failed, PostgreSQL's manifest and
\* HydraDB hold the same: QuietStoresAgree, which two workers may break.
SerialStoresAgree == setup = "serial" => QuietStoresAgree

\* A stored chunk is replayed until it is completed (ReplayCompletes), by a worker
\* that goes on and a batch that is submitted again.
ReplaysComplete == setup = "live" => ReplayCompletes
=============================================================================
