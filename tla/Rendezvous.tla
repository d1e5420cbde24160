----------------------------- MODULE Rendezvous -----------------------------
(***************************************************************************)
(* The rendezvous hash (hydradb/crates/placement/src/hash.rs): every node  *)
(* ranks the candidates of a (scope, cell) by a frozen score, ties broken  *)
(* by node id, and the first owns the cell.  The 64-bit hash itself is a   *)
(* constant here: nothing depends on its values, ties included.            *)
(***************************************************************************)
EXTENDS Naturals, FiniteSets

CONSTANTS
  Nodes,   \* the configured fleet
  Cells,   \* the (scope, cell) pairs
  NodeId,  \* the order of the node ids
  Score    \* Score[c][n]: score(scope, cell, node)

ASSUME RendezvousAssumption ==
  /\ NodeId \in [Nodes -> Nat]
  /\ \A m, n \in Nodes : NodeId[m] = NodeId[n] => m = n
  /\ Score \in [Cells -> [Nodes -> Nat]]

NoNode == "none"

\* The order rank sorts by: descending score, then ascending node id.
Before(c, m, n) ==
  \/ Score[c][m] > Score[c][n]
  \/ Score[c][m] = Score[c][n] /\ NodeId[m] < NodeId[n]

\* owner: the top of the ranking, or none when no node is live.
Owner(c, live) ==
  IF \E m \in live : \A n \in live \ {m} : Before(c, m, n)
    THEN CHOOSE m \in live : \A n \in live \ {m} : Before(c, m, n)
    ELSE NoNode
=============================================================================
