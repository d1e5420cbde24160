--------------------------- MODULE MCQueryTransport ---------------------------
(* Instances of QueryTransport for TLC. *)
EXTENDS QueryTransport, TLC

MCRequests == {"q1", "q2", "q3", "x1"}
MCConns == {"c1", "c2", "c3", "c4"}
MCKeys == {"k1", "k2"}
MCGates == {"outer", "inner", "all"}
MCCapacity == [outer |-> 1, inner |-> 1, all |-> 1]

\* q1 and q3 use one query id, x1 cancels it.
Base == [requests |-> {"q1", "q2", "x1"},
         kind |-> [r \in MCRequests |-> IF r = "x1" THEN "cancel" ELSE "query"],
         key |-> [r \in MCRequests |-> IF r = "q2" THEN "k2" ELSE "k1"],
         path |-> [r \in MCRequests |-> IF r = "q2" THEN <<"outer", "all">>
                                        ELSE <<"outer", "inner", "all">>],
         order |-> [c \in MCConns |-> CASE c = "c1" -> 1 [] c = "c2" -> 2 [] c = "c3" -> 3 [] OTHER -> 4],
         timeouts |-> FALSE, aging |-> FALSE, idle |-> FALSE, faults |-> FALSE,
         stops |-> FALSE, forced |-> FALSE]
Short == [r \in MCRequests |-> <<"all">>]

MCPlans == {Base,
            [Base EXCEPT !.requests = {"q1", "q3", "x1"}, !.timeouts = TRUE, !.path = Short],
            [Base EXCEPT !.requests = {"q1", "q2", "q3"}, !.idle = TRUE, !.aging = TRUE, !.path = Short],
            [Base EXCEPT !.stops = TRUE, !.forced = TRUE, !.path = Short],
            [Base EXCEPT !.stops = TRUE, !.faults = TRUE, !.path = Short]}
=============================================================================
