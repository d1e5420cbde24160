---------------------------- MODULE MCPlacement ----------------------------
(* Two nodes; n1 wins one cell by score, the other is a tie. *)
EXTENDS Placement

MCNodeId == [n \in Nodes |-> IF n = "n1" THEN 1 ELSE 2]
MCScore == [c \in Cells |-> [n \in Nodes |-> IF c = "c1" /\ n = "n2" THEN 2 ELSE 1]]
=============================================================================
