---------------------------- MODULE MCGraphStore ----------------------------
(* Instances of GraphStore for TLC. *)
EXTENDS GraphStore, TLC

CONSTANTS s1, s2, a, b, c

On(x, y, z) == (a :> x) @@ (b :> y) @@ (c :> z)
Setup(kinds, stores, writer, rivals, faults, polls, late) ==
    [kind |-> kinds, store |-> stores, writer |-> writer, rival |-> rivals, faults |-> faults,
     polls |-> polls, late |-> late]

One == On(s1, s1, s1)
\* reads of one store against the other node's writer and a fence check
Reads == {Setup(On("read", k, "fence"), One, TRUE, TRUE, FALSE, FALSE, {s2}) :
            k \in {"strong", "write"}}
\* the handle is retired around a read, with failing closes and refreshes
Retirement == {Setup(On(k, "retire", "write"), One, TRUE, FALSE, TRUE, k = "read", {s2}) :
                 k \in {"read", "strong"}}
\* the handle is promoted around a read of a store that starts without one
Promotion == {Setup(On("read", "promote", k), One, FALSE, k = "write", TRUE, FALSE, {s2}) :
                k \in {"write", "promote"}}
\* two stores share the handle; one closes, the other may be a late comer
Shared == {Setup(On("read", "close", "promote"), On(s2, s1, x), TRUE, FALSE, FALSE, FALSE, {}) :
             x \in {s1, s2}}
          \cup {Setup(On("close", "close", "promote"), On(s2, s1, x), TRUE, FALSE, FALSE, FALSE, {s2}) :
             x \in {s1, s2}}

MCSetups == Reads \cup Retirement \cup Promotion \cup Shared
MCStale == {Setup(On("read", "none", "none"), One, TRUE, TRUE, FALSE, FALSE, {s2})}
=============================================================================
