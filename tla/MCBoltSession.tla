---------------------------- MODULE MCBoltSession ----------------------------
(* Instances of BoltSession for TLC. *)
EXTENDS BoltSession, TLC

\* Two HTTP requests and one Bolt connection.  Two namespaces, one inside the
\* other, and the gate of all queries.
MCCapacity == [outer |-> 1, inner |-> 1, all |-> 1]
MCGates == {"outer", "inner", "all"}
MCClients == {"bolt", "h1", "h2"}
MCKeys == {"s1", "s2", "k1", "k2"}

Msg(m, n) == [id |-> 0, m |-> m, n |-> n]
Numbered(script) == [i \in DOMAIN script |-> [script[i] EXCEPT !.id = i]]
Login == <<Msg("HELLO", 0), Msg("LOGON", 0)>>
PullOne == Msg("PULL", 1)
PullAll == Msg("PULL", Everything)
RunIt == Msg("RUN", 0)
ResetIt == Msg("RESET", 0)

\* What a plan leaves open: everything a quiet one does.
Quiet == [http |-> {}, key |-> [c \in MCClients |-> IF c = "h2" THEN "k2" ELSE "k1"],
          size |-> [c \in MCClients |-> 1], asks |-> 2,
          path |-> [c \in MCClients |-> IF c = "h2" THEN <<"outer", "all">>
                                        ELSE <<"outer", "inner", "all">>],
          kind |-> [k \in MCKeys |-> IF k = "k2" THEN "write" ELSE "read"],
          rows |-> [k \in MCKeys |-> IF k = "s1" THEN 3 ELSE 2],
          statement |-> <<"s1", "s2">>, script |-> <<>>, cancels |-> {},
          timeouts |-> FALSE, drops |-> FALSE, expiry |-> FALSE, faults |-> FALSE]

\* Scripts a driver may send, pipelined: results read in pages, results
\* interrupted, and the other messages.
Streams == {
    Login \o <<RunIt, PullOne, PullAll, RunIt, PullAll>>,
    Login \o <<RunIt, PullAll, Msg("ROUTE", 0), ResetIt, RunIt, PullAll>> }
Interrupted == {
    Login \o <<RunIt, PullOne, RunIt, ResetIt, RunIt, Msg("DISCARD", Everything)>>,
    Login \o <<RunIt, PullAll, PullOne, PullOne, PullOne, Msg("GOODBYE", 0)>>,
    Login \o <<RunIt, PullAll, Msg("GOODBYE", 0)>> }
Others == {
    Login \o <<RunIt, PullOne, Msg("LOGOFF", 0), PullOne, Msg("GOODBYE", 0)>>,
    Login \o <<RunIt, Msg("BADPULL", 0), PullOne, Msg("GOODBYE", 0)>>,
    Login \o <<Msg("GOODBYE", 0)>>,
    Login \o <<Msg("BADRUN", 0), ResetIt, Msg("LOGOFF", 0), RunIt, ResetIt, Msg("BADLOGON", 0)>>,
    <<Msg("HELLO", 0), Msg("RUN", 0), ResetIt, Msg("LOGON", 0), Msg("ROUTE", 0), Msg("BEGIN", 0)>> }

Short == [c \in MCClients |-> <<"all">>]
\* The connection beside a mutation, with a cancellation.
Sessions == {[Quiet EXCEPT !.script = Numbered(s), !.http = {"h2"}, !.asks = 1,
                           !.path = Short, !.cancels = {"s1"}] : s \in Streams \cup Interrupted}
\* The connection beside a paged read that competes for cursors and permits.
Crowded == {[Quiet EXCEPT !.script = Numbered(s), !.http = {"h1"}, !.expiry = TRUE] : s \in Streams}
\* The connection alone, with timeouts, lost connections and expired cursors.
Failing == {[Quiet EXCEPT !.script = Numbered(s), !.timeouts = TRUE, !.drops = TRUE,
                          !.path = Short, !.expiry = TRUE] : s \in Streams \cup Interrupted}
Plain == {[Quiet EXCEPT !.script = Numbered(s), !.path = Short] : s \in Others}
\* Paging over HTTP: a cancellation; timeouts and failures; dropped requests and
\* expired cursors; two requests that share a query id.
Paging == {[Quiet EXCEPT !.http = {"h1", "h2"}, !.cancels = {"k1"}],
           [Quiet EXCEPT !.http = {"h1"}, !.asks = 3, !.timeouts = TRUE, !.faults = TRUE],
           [Quiet EXCEPT !.http = {"h1"}, !.asks = 3, !.drops = TRUE, !.expiry = TRUE],
           [Quiet EXCEPT !.http = {"h1", "h2"}, !.drops = TRUE, !.path = Short,
                         !.key = [c \in MCClients |-> "k1"]],
           [Quiet EXCEPT !.http = {"h1"}, !.asks = 3, !.rows = [k \in MCKeys |-> 4]]}

MCPlans == Sessions \cup Crowded \cup Failing \cup Plain \cup Paging
=============================================================================
