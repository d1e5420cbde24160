----------------------------- MODULE Placement -----------------------------
(***************************************************************************)
(* Who a node thinks owns a cell: heartbeat objects, the LIST every node   *)
(* takes of them, the view it derives and the readiness it publishes       *)
(* (hydradb/crates/placement/src/{heartbeat,liveness}.rs,                  *)
(* src/engine/placement.rs, src/bin/graph_node/readiness.rs and the        *)
(* publisher of src/bin/graph-node.rs).                                    *)
(*                                                                         *)
(* Time is kept as ages, each saturating where nothing tells it from an    *)
(* older one any more; so behaviours are unbounded.  The publisher and the     *)
(* refresher of a running node act at least once per Interval.             *)
(***************************************************************************)
EXTENDS Rendezvous, TLAPS

CONSTANTS
  Interval,  \* heartbeat_interval
  Timeout,   \* heartbeat_timeout, also the grace and startup windows
  NodeFaults, ListFaults, PutFaults  \* the nodes that may stop, fail to LIST, to write

\* PlacementConfig::validate.
ASSUME PlacementAssumption ==
  /\ Interval \in Nat \ {0} /\ Timeout \in Nat /\ Interval < Timeout
  /\ NodeFaults \subseteq Nodes /\ ListFaults \subseteq Nodes /\ PutFaults \subseteq Nodes

VARIABLES
  life,       \* "down", "starting", "ready", "withdrawing" or "draining", per node
  heartbeat,  \* the age of a node's heartbeat object, or NoObject
  view,       \* the published LiveView: its state and its nodes
  cached,     \* LiveNodeSet.cached
  sinceStart, sinceSuccess,      \* RefreshState
  sincePublish, sinceRefresh,    \* the timers of the two loops
  listWorks, putWorks            \* which requests reach the store, per node

vars == <<life, heartbeat, view, cached, sinceStart, sinceSuccess, sincePublish,
          sinceRefresh, listWorks, putWorks>>

NoObject == Timeout + 1
Older(age, cap) == IF age < cap THEN age + 1 ELSE age
Aged(n, timer, cap) == IF life[n] = "down" THEN 0 ELSE Older(timer[n], cap)

Init ==
  /\ life = [n \in Nodes |-> "down"]
  /\ heartbeat = [n \in Nodes |-> NoObject]
  /\ view = [n \in Nodes |-> [state |-> "grace", nodes |-> Nodes]]
  /\ cached = [n \in Nodes |-> Nodes]
  /\ sinceStart = [n \in Nodes |-> 0]
  /\ sinceSuccess = [n \in Nodes |-> 0]
  /\ sincePublish = [n \in Nodes |-> 0]
  /\ sinceRefresh = [n \in Nodes |-> 0]
  /\ listWorks = [n \in Nodes |-> TRUE]
  /\ putWorks = [n \in Nodes |-> TRUE]

-----------------------------------------------------------------------------
\* ownership_in: a shed view has no opinion, not even an empty one.
Ownership(n, c) ==
  IF view[n].state = "shed" THEN "Unknown"
  ELSE CASE Owner(c, view[n].nodes) = n -> "Local"
         [] Owner(c, view[n].nodes) = NoNode -> "Unowned"
         [] OTHER -> "Remote"

\* NodeReadiness: the lifecycle flag and a view that has not been shed.
IsReady(n) == life[n] = "ready" /\ view[n].state # "shed"

\* live_nodes: the heartbeats younger than the timeout.
Fresh == {m \in Nodes : heartbeat[m] < Timeout}
Published == {m \in Nodes : heartbeat[m] # NoObject}

\* Mutant: an expired heartbeat still counts.
ObserveExpired(n) ==
  Published \cup {n} \cup (IF sinceStart[n] < Timeout THEN Nodes \ Published ELSE {})

\* observe_list: the fresh members, in the startup window those that never
\* published, and the node itself.
ObserveList(n) ==
  Fresh \cup {n} \cup (IF sinceStart[n] < Timeout THEN Nodes \ Published ELSE {})

\* A process starts: the fleet is assumed up, nothing has been read, and the
\* first refresh precedes the listeners.
Start(n) ==
  /\ life[n] = "down"
  /\ life' = [life EXCEPT ![n] = "starting"]
  /\ sinceRefresh' = [sinceRefresh EXCEPT ![n] = Interval]
  /\ UNCHANGED <<heartbeat, view, cached, sinceStart, sinceSuccess, sincePublish,
                 listWorks, putWorks>>

\* Mutant: the cached view is served whatever its age.
RefreshForgiving(n) ==
  /\ life[n] \in {"starting", "ready", "withdrawing"}
  /\ view' = [view EXCEPT ![n] = IF listWorks[n]
                                   THEN [state |-> "fresh", nodes |-> ObserveList(n)]
                                   ELSE [state |-> "grace", nodes |-> cached[n]]]
  /\ cached' = [cached EXCEPT ![n] = view'[n].nodes]
  /\ sinceSuccess' = [sinceSuccess EXCEPT ![n] = IF listWorks[n] THEN 0 ELSE @]
  /\ sinceRefresh' = [sinceRefresh EXCEPT ![n] = 0]
  /\ UNCHANGED <<life, heartbeat, sinceStart, sincePublish, listWorks, putWorks>>

\* refresh: a LIST and install.  A failed LIST teaches nothing: the cached view
\* stands for a grace window, then the node sheds it.
Refresh(n) ==
  /\ life[n] \in {"starting", "ready", "withdrawing"}
  /\ IF listWorks[n]
       THEN /\ cached' = [cached EXCEPT ![n] = ObserveList(n)]
            /\ view' = [view EXCEPT ![n] = [state |-> "fresh", nodes |-> ObserveList(n)]]
            /\ sinceSuccess' = [sinceSuccess EXCEPT ![n] = 0]
       ELSE /\ view' = [view EXCEPT ![n] =
                          IF sinceSuccess[n] < Timeout
                            THEN [state |-> "grace", nodes |-> cached[n]]
                            ELSE [state |-> "shed", nodes |-> {}]]
            /\ UNCHANGED <<cached, sinceSuccess>>
  /\ sinceRefresh' = [sinceRefresh EXCEPT ![n] = 0]
  /\ UNCHANGED <<life, heartbeat, sinceStart, sincePublish, listWorks, putWorks>>

\* The listeners are bound (mark_ready), after the first refresh.
MarkReady(n) ==
  /\ life[n] = "starting" /\ sinceRefresh[n] < Interval
  /\ life' = [life EXCEPT ![n] = "ready"]
  /\ sincePublish' = [sincePublish EXCEPT ![n] = Interval]
  /\ UNCHANGED <<heartbeat, view, cached, sinceStart, sinceSuccess, sinceRefresh,
                 listWorks, putWorks>>

\* One turn of the publisher: PUT while ready, DELETE otherwise.  A request that
\* fails is only logged.
Publish(n) ==
  /\ life[n] = "ready"
  /\ heartbeat' = IF ~putWorks[n] THEN heartbeat
                  ELSE [heartbeat EXCEPT ![n] = IF IsReady(n) THEN 0 ELSE NoObject]
  /\ sincePublish' = [sincePublish EXCEPT ![n] = 0]
  /\ UNCHANGED <<life, view, cached, sinceStart, sinceSuccess, sinceRefresh,
                 listWorks, putWorks>>

\* SIGTERM, once serving: not ready any more.  The publisher's last act is to
\* withdraw the heartbeat, within one interval; only then does the refresh stop.
Shutdown(n) ==
  /\ n \in NodeFaults
  /\ life[n] = "ready"
  /\ life' = [life EXCEPT ![n] = "withdrawing"]
  /\ sincePublish' = [sincePublish EXCEPT ![n] = 0]
  /\ UNCHANGED <<heartbeat, view, cached, sinceStart, sinceSuccess, sinceRefresh,
                 listWorks, putWorks>>

Withdraw(n) ==
  /\ life[n] = "withdrawing"
  /\ heartbeat' = IF putWorks[n] THEN [heartbeat EXCEPT ![n] = NoObject] ELSE heartbeat
  /\ life' = [life EXCEPT ![n] = "draining"]
  /\ UNCHANGED <<view, cached, sinceStart, sinceSuccess, sincePublish, sinceRefresh,
                 listWorks, putWorks>>

\* The process ends, drained or crashed; a crash leaves the heartbeat behind.
EndProcess(n) ==
  /\ life[n] = "draining" \/ (n \in NodeFaults /\ life[n] # "down")
  /\ life' = [life EXCEPT ![n] = "down"]
  /\ view' = [view EXCEPT ![n] = [state |-> "grace", nodes |-> Nodes]]
  /\ cached' = [cached EXCEPT ![n] = Nodes]
  /\ sinceStart' = [sinceStart EXCEPT ![n] = 0]
  /\ sinceSuccess' = [sinceSuccess EXCEPT ![n] = 0]
  /\ sincePublish' = [sincePublish EXCEPT ![n] = 0]
  /\ sinceRefresh' = [sinceRefresh EXCEPT ![n] = 0]
  /\ UNCHANGED <<heartbeat, listWorks, putWorks>>

ListOutage(n) ==
  /\ n \in ListFaults
  /\ listWorks' = [listWorks EXCEPT ![n] = ~@]
  /\ UNCHANGED <<life, heartbeat, view, cached, sinceStart, sinceSuccess, sincePublish,
                 sinceRefresh, putWorks>>

PutOutage(n) ==
  /\ n \in PutFaults
  /\ putWorks' = [putWorks EXCEPT ![n] = ~@]
  /\ UNCHANGED <<life, heartbeat, view, cached, sinceStart, sinceSuccess, sincePublish,
                 sinceRefresh, listWorks>>

\* Time passes, unless a running node's publisher or refresher is due.
Due(n) ==
  \/ life[n] \in {"ready", "withdrawing"} /\ sincePublish[n] >= Interval
  \/ life[n] \in {"starting", "ready", "withdrawing"} /\ sinceRefresh[n] >= Interval

Tick ==
  /\ \A n \in Nodes : ~Due(n)
  /\ heartbeat' = [n \in Nodes |-> IF heartbeat[n] = NoObject
                                     THEN NoObject ELSE Older(heartbeat[n], Timeout)]
  /\ sinceStart' = [n \in Nodes |-> Aged(n, sinceStart, Timeout)]
  /\ sinceSuccess' = [n \in Nodes |-> Aged(n, sinceSuccess, Timeout + Interval)]
  /\ sincePublish' = [n \in Nodes |-> Aged(n, sincePublish, Interval)]
  /\ sinceRefresh' = [n \in Nodes |-> Aged(n, sinceRefresh, Interval)]
  /\ UNCHANGED <<life, view, cached, listWorks, putWorks>>

Next ==
  \/ \E n \in Nodes :
       \/ Start(n) \/ Refresh(n) \/ MarkReady(n) \/ Publish(n) \/ Shutdown(n)
       \/ Withdraw(n) \/ EndProcess(n) \/ ListOutage(n) \/ PutOutage(n)
  \/ Tick

Spec == Init /\ [][Next]_vars

\* The two loops of a running node, and time, do not stop.
Fairness ==
  /\ \A n \in Nodes : WF_vars(Refresh(n)) /\ WF_vars(MarkReady(n)) /\ WF_vars(Publish(n))
                      /\ WF_vars(Withdraw(n))
  /\ WF_vars(Tick)

FairSpec == Spec /\ Fairness

-----------------------------------------------------------------------------
TypeOK ==
  /\ life \in [Nodes -> {"down", "starting", "ready", "withdrawing", "draining"}]
  /\ heartbeat \in [Nodes -> 0..NoObject]
  /\ view \in [Nodes -> [state : {"fresh", "grace", "shed"}, nodes : SUBSET Nodes]]
  /\ cached \in [Nodes -> SUBSET Nodes]
  /\ sinceStart \in [Nodes -> 0..Timeout] /\ sinceSuccess \in [Nodes -> 0..Timeout + Interval]
  /\ sincePublish \in [Nodes -> 0..Interval] /\ sinceRefresh \in [Nodes -> 0..Interval]
  /\ listWorks \in [Nodes -> BOOLEAN] /\ putWorks \in [Nodes -> BOOLEAN]

\* A node never promotes from a view that nothing has confirmed for longer than
\* a grace window and the one refresh that notices it: a node cut off from the
\* store stops claiming cells, even those it owned (decision 7).
StaleViewIsShed ==
  \A n \in Nodes, c \in Cells :
    life[n] \in {"starting", "ready", "withdrawing"} /\ sinceSuccess[n] = Timeout + Interval
    => Ownership(n, c) = "Unknown"

\* A node that can still write its heartbeat but cannot LIST refuses every
\* write; it must not stay the owner its peers compute, or its cells would be
\* unwritable for good.
BlindNodeIsAgedOut ==
  \A n \in Nodes : \A m \in Nodes \ {n} :
    <>[](life[n] = "ready" /\ ~listWorks[n] /\ putWorks[n] /\ life[m] = "ready" /\ listWorks[m])
      => <>[](n \notin view[m].nodes)

\* Once the fleet and the store are stable, every serving node computes the same
\* owner for every cell, that owner is serving, and it alone answers Local.
PlacementConverges ==
  \A up \in SUBSET Nodes \ {{}} :
    <>[](\A n \in Nodes :
           IF n \in up THEN life[n] = "ready" /\ listWorks[n] /\ putWorks[n]
                       ELSE life[n] = "down")
      => <>[](\A c \in Cells : \E o \in up :
                /\ \A n \in up : Owner(c, view[n].nodes) = o
                /\ \A n \in up : Ownership(n, c) = "Local" <=> n = o)

\* Once faults stop, placement heals: who cannot answer ages out, and the others
\* agree on one serving owner of every cell.
PlacementHeals == BlindNodeIsAgedOut /\ PlacementConverges

-----------------------------------------------------------------------------
(* Proofs, for any fleet, any windows and any failures.                    *)

\* How old a view may be.  A node that still answers from its view had a LIST
\* succeed less than a timeout before its last refresh, and a process that has
\* not started has read nothing.
ViewIsRecent ==
  \A n \in Nodes :
    /\ life[n] = "down" => sinceSuccess[n] = 0
    /\ life[n] \in {"starting", "ready", "withdrawing"} /\ view[n].state # "shed"
       => sinceSuccess[n] < Timeout + sinceRefresh[n]

\* The constants, as the provers need them.
LEMMA Windows ==
  /\ Interval \in Nat /\ Timeout \in Nat /\ 0 < Interval /\ Interval < Timeout
  /\ NoObject = Timeout + 1 /\ 0 \in 0..NoObject /\ NoObject \in 0..NoObject
  /\ 0 \in 0..Timeout /\ 0 \in 0..Interval /\ Interval \in 0..Interval
  /\ 0 \in 0..(Timeout + Interval)
  BY PlacementAssumption DEF NoObject

\* A saturating age stays below its cap.
LEMMA Ageing ==
  ASSUME NEW cap \in Nat, NEW n \in Nodes, NEW timer \in [Nodes -> 0..cap]
  PROVE  /\ Older(timer[n], cap) \in 0..cap
         /\ Aged(n, timer, cap) \in 0..cap
         /\ life[n] # "down" /\ timer[n] < cap => Aged(n, timer, cap) = timer[n] + 1
         /\ Aged(n, timer, cap) <= timer[n] + 1
         /\ life[n] = "down" => Aged(n, timer, cap) = 0
  BY DEF Older, Aged

\* What a LIST shows is nodes of the fleet.
LEMMA ListIsOfNodes == ASSUME NEW n \in Nodes PROVE ObserveList(n) \in SUBSET Nodes
  BY DEF ObserveList, Fresh, Published

\* Ages stay within their caps and views within the fleet.
THEOREM PlacementTyped == Spec => []TypeOK
  <1>1. Init => TypeOK
    BY Windows DEF Init, TypeOK
  <1>2. TypeOK /\ [Next]_vars => TypeOK'
    <2> SUFFICES ASSUME TypeOK, [Next]_vars PROVE TypeOK'
      OBVIOUS
    <2> USE Windows
    <2>1. ASSUME NEW n \in Nodes, Start(n) PROVE TypeOK'
      BY <2>1 DEF Start, TypeOK
    <2>2. ASSUME NEW n \in Nodes, Refresh(n) PROVE TypeOK'
      <3>1. ObserveList(n) \in SUBSET Nodes /\ cached[n] \in SUBSET Nodes /\ {} \in SUBSET Nodes
        BY ListIsOfNodes DEF TypeOK
      <3>2. /\ UNCHANGED <<life, heartbeat, sinceStart, sincePublish, listWorks, putWorks>>
            /\ sinceRefresh' \in [Nodes -> 0..Interval]
        BY <2>2 DEF Refresh, TypeOK
      <3>3. /\ \E v \in [state : {"fresh", "grace", "shed"}, nodes : SUBSET Nodes] :
                  view' = [view EXCEPT ![n] = v]
            /\ cached' = cached \/ \E C \in SUBSET Nodes : cached' = [cached EXCEPT ![n] = C]
            /\ sinceSuccess' = sinceSuccess \/ sinceSuccess' = [sinceSuccess EXCEPT ![n] = 0]
        <4>1. CASE listWorks[n]
          BY <2>2, <3>1, <4>1, Zenon DEF Refresh
        <4>2. CASE ~listWorks[n]
          BY <2>2, <3>1, <4>2, Zenon DEF Refresh
        <4> QED
          BY <4>1, <4>2
      <3>4. view' \in [Nodes -> [state : {"fresh", "grace", "shed"}, nodes : SUBSET Nodes]]
        BY <3>3, Zenon DEF TypeOK
      <3>5. cached' \in [Nodes -> SUBSET Nodes]
        BY <3>3, Zenon DEF TypeOK
      <3>6. sinceSuccess' \in [Nodes -> 0..Timeout + Interval]
        BY <3>3, Zenon DEF TypeOK
      <3> QED
        BY <3>2, <3>4, <3>5, <3>6, Zenon DEF TypeOK
    <2>3. ASSUME NEW n \in Nodes, MarkReady(n) PROVE TypeOK'
      BY <2>3 DEF MarkReady, TypeOK
    <2>4. ASSUME NEW n \in Nodes, Publish(n) PROVE TypeOK'
      BY <2>4 DEF Publish, TypeOK
    <2>5. ASSUME NEW n \in Nodes, Shutdown(n) PROVE TypeOK'
      BY <2>5 DEF Shutdown, TypeOK
    <2>6. ASSUME NEW n \in Nodes, Withdraw(n) PROVE TypeOK'
      BY <2>6 DEF Withdraw, TypeOK
    <2>7. ASSUME NEW n \in Nodes, EndProcess(n) PROVE TypeOK'
      BY <2>7 DEF EndProcess, TypeOK
    <2>8. ASSUME NEW n \in Nodes, ListOutage(n) \/ PutOutage(n) PROVE TypeOK'
      BY <2>8, Zenon DEF ListOutage, PutOutage, TypeOK
    <2>9. CASE Tick
      <3>1. /\ sinceStart' \in [Nodes -> 0..Timeout]
            /\ sinceSuccess' \in [Nodes -> 0..Timeout + Interval]
            /\ sincePublish' \in [Nodes -> 0..Interval] /\ sinceRefresh' \in [Nodes -> 0..Interval]
        BY <2>9, Ageing DEF Tick, TypeOK
      <3>2. heartbeat' \in [Nodes -> 0..NoObject]
        BY <2>9 DEF Tick, TypeOK, Older
      <3> QED
        BY <2>9, <3>1, <3>2 DEF Tick, TypeOK
    <2>10. CASE UNCHANGED vars
      BY <2>10 DEF vars, TypeOK
    <2> QED
      BY <2>1, <2>2, <2>3, <2>4, <2>5, <2>6, <2>7, <2>8, <2>9, <2>10 DEF Next
  <1> QED
    BY <1>1, <1>2, PTL DEF Spec

\* A view is never answered from once nothing has confirmed it for a grace
\* window and the refresh after it, whatever requests fail and whenever the
\* process was started (install, decide).
THEOREM StaleViewTheorem == Spec => []StaleViewIsShed
  <1> USE Windows
  <1>1. Init => ViewIsRecent
    BY DEF Init, ViewIsRecent
  <1>2. TypeOK /\ ViewIsRecent /\ [Next]_vars => ViewIsRecent'
    <2> SUFFICES ASSUME TypeOK, ViewIsRecent, [Next]_vars, NEW m \in Nodes
                 PROVE  /\ life'[m] = "down" => sinceSuccess'[m] = 0
                        /\ life'[m] \in {"starting", "ready", "withdrawing"}
                           /\ view'[m].state # "shed"
                           => sinceSuccess'[m] < Timeout + sinceRefresh'[m]
      BY DEF ViewIsRecent
    <2>0. /\ life[m] = "down" => sinceSuccess[m] = 0
          /\ life[m] \in {"starting", "ready", "withdrawing"} /\ view[m].state # "shed"
             => sinceSuccess[m] < Timeout + sinceRefresh[m]
          /\ sinceSuccess[m] \in 0..(Timeout + Interval) /\ sinceRefresh[m] \in 0..Interval
      BY DEF ViewIsRecent, TypeOK
    <2>1. ASSUME NEW n \in Nodes, Start(n)
          PROVE  /\ sinceSuccess' = sinceSuccess /\ view' = view
                 /\ n # m => sinceRefresh'[m] = sinceRefresh[m] /\ life'[m] = life[m]
                 /\ n = m => life[m] = "down" /\ sinceRefresh'[m] = Interval
                             /\ life'[m] = "starting"
      BY <2>1 DEF Start, TypeOK
    <2>6. ASSUME NEW n \in Nodes, \/ MarkReady(n) \/ Publish(n) \/ Shutdown(n)
                                  \/ ListOutage(n) \/ PutOutage(n) \/ Withdraw(n)
          PROVE  /\ sinceSuccess' = sinceSuccess /\ view' = view /\ sinceRefresh' = sinceRefresh
                 /\ \/ life'[m] = life[m]
                    \/ life'[m] = "draining"
                    \/ life'[m] # "down" /\ life[m] \in {"starting", "ready", "withdrawing"}
      <3>1. CASE MarkReady(n)
        BY <3>1 DEF MarkReady, TypeOK
      <3>2. CASE Shutdown(n)
        BY <3>2 DEF Shutdown, TypeOK
      <3>3. CASE Withdraw(n)
        BY <3>3 DEF Withdraw, TypeOK
      <3>4. CASE Publish(n) \/ ListOutage(n) \/ PutOutage(n)
        BY <3>4 DEF Publish, ListOutage, PutOutage
      <3> QED
        BY <2>6, <3>1, <3>2, <3>3, <3>4
    <2>2. ASSUME NEW n \in Nodes, Refresh(n)
          PROVE  /\ life' = life
                 /\ n # m => view'[m] = view[m] /\ sinceSuccess'[m] = sinceSuccess[m]
                             /\ sinceRefresh'[m] = sinceRefresh[m]
                 /\ n = m => /\ sinceRefresh'[m] = 0 /\ life[m] # "down"
                             /\ \/ sinceSuccess'[m] = 0
                                \/ sinceSuccess'[m] < Timeout
                                \/ view'[m].state = "shed"
      BY <2>2 DEF Refresh, TypeOK
    <2>3. ASSUME NEW n \in Nodes, EndProcess(n)
          PROVE  /\ n # m => life'[m] = life[m] /\ view'[m] = view[m]
                             /\ sinceSuccess'[m] = sinceSuccess[m]
                             /\ sinceRefresh'[m] = sinceRefresh[m]
                 /\ n = m => life'[m] = "down" /\ sinceSuccess'[m] = 0
      BY <2>3 DEF EndProcess, TypeOK
    <2>4. CASE Tick
      <3>1. life' = life /\ view' = view
            /\ sinceSuccess'[m] = Aged(m, sinceSuccess, Timeout + Interval)
            /\ sinceRefresh'[m] = Aged(m, sinceRefresh, Interval)
            /\ (life[m] \in {"starting", "ready", "withdrawing"} => sinceRefresh[m] < Interval)
        BY <2>0, <2>4 DEF Tick, Due
      <3>2. /\ sinceSuccess \in [Nodes -> 0..(Timeout + Interval)]
            /\ sinceRefresh \in [Nodes -> 0..Interval] /\ Timeout + Interval \in Nat
        BY DEF TypeOK
      <3>3. /\ life[m] = "down" => sinceSuccess'[m] = 0
            /\ sinceSuccess'[m] <= sinceSuccess[m] + 1
            /\ life[m] # "down" /\ sinceRefresh[m] < Interval
               => sinceRefresh'[m] = sinceRefresh[m] + 1
            /\ sinceSuccess'[m] \in 0..(Timeout + Interval)
        BY <3>1, <3>2, Ageing
      <3> QED
        BY <2>0, <3>1, <3>3
    <2>5. CASE UNCHANGED vars
      BY <2>0, <2>5 DEF vars
    <2> QED
      BY <2>0, <2>1, <2>6, <2>2, <2>3, <2>4, <2>5 DEF Next
  <1>3. TypeOK /\ ViewIsRecent => StaleViewIsShed
    BY DEF TypeOK, ViewIsRecent, StaleViewIsShed, Ownership
  <1> QED
    BY <1>1, <1>2, <1>3, PlacementTyped, PTL DEF Spec
=============================================================================
