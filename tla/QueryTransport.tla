---------------------------- MODULE QueryTransport ----------------------------
(***************************************************************************)
(* The query transport between nodes                                       *)
(* (src/hydradb/src/query/coordination.rs): TcpQueryCellClient with its    *)
(* connection pool, and QueryTransportServer with its connection limits,   *)
(* its registry of queries, admission, cancellation and shutdown.          *)
(*                                                                         *)
(* A request is one frame and so is its response; a connection carries one *)
(* request at a time.  The client may give up on a request at any moment;  *)
(* the server then still executes it.                                      *)
(***************************************************************************)
EXTENDS Naturals, Sequences, FiniteSets

CONSTANTS Requests,     \* calls of the client, each made once
          Conns,        \* TCP connections
          Keys,         \* query ids (with principal and scope)
          Gates,        \* namespace gates and the request gate
          Capacity,     \* their permits
          Plans,        \* what the requests of one behaviour are
          ClientConns,  \* the client's connection_gate
          MaxIdle,      \* max_idle_connections
          ServerConns,  \* max_connections
          ControlConns, \* reserved_control_connections
          MaxServed     \* max_requests_per_connection

\* Limits are numbers; a plan gives every request a query id and the gates it
\* passes, none of them twice: its namespaces from the outermost on, then the
\* request gate.
ASSUME TransportAssumption ==
    /\ IsFiniteSet(Requests) /\ IsFiniteSet(Conns)
    /\ ClientConns \in Nat /\ MaxIdle \in Nat /\ ServerConns \in Nat /\ ControlConns \in Nat
    /\ MaxServed \in Nat /\ Capacity \in [Gates -> Nat]
    /\ \A p \in Plans :
          /\ p.key \in [Requests -> Keys] /\ p.path \in [Requests -> Seq(Gates)]
          /\ \A r \in Requests : \A i, j \in DOMAIN p.path[r] :
                p.path[r][i] = p.path[r][j] => i = j

VARIABLES plan,      \* the plan chosen for this behaviour
          req,       \* what became of every request
          clientFree,\* free permits of the client's connection_gate
          controlGate,\* free permits of the client's control_connection_gate
          pool,      \* idle connections, the newest last
          conn,      \* the connections, both ends
          aged,      \* connections over their age, or of an earlier TLS generation
          serverFree,\* free permits of the server's connection_gate
          reserve,   \* free permits of the server's control_connection_gate
          exec,      \* the request each connection's task is executing
          entries,   \* QueryTransportLifecycle::queries
          nextToken, \* QueryTransportLifecycle::next_token
          cancelled, \* tokens whose cancellation token is set
          acked,     \* history: tokens whose cancellation was acknowledged
          gates,     \* free permits of the admission semaphores
          stop       \* "up", "draining" or "stopped"

vars == <<plan, req, clientFree, controlGate, pool, conn, aged, serverFree, reserve, exec,
          entries, nextToken, cancelled, acked, gates, stop>>

NoConn == [cli |-> "none", srv |-> "none", control |-> FALSE, served |-> 0, inq |-> "none",
           outq |-> [r |-> "none", ok |-> FALSE, close |-> FALSE]]
NoAnswer == NoConn.outq
NotSent == [at |-> "new", conn |-> "none", answer |-> NoAnswer]
NoExec == [at |-> "none", r |-> "none", token |-> 0, permits |-> 0, ok |-> FALSE]
NoEntry == [token |-> 0, state |-> "none"]

IsCancel(r) == plan.kind[r] = "cancel"
KeyOf(r) == plan.key[r]
PathOf(r) == plan.path[r]
Ended(r) == req[r].at \in {"done", "failed"}

clientVars == <<req, clientFree, controlGate, pool, aged>>
serverVars == <<serverFree, reserve, exec, entries, nextToken, cancelled, acked, gates, stop>>

-----------------------------------------------------------------------------
(* TcpQueryCellClient *)

\* connection_gate for a query, control_connection_gate for a cancellation.
AcquireConnection(r) ==
    /\ req[r].at = "new"
    /\ IF IsCancel(r) THEN controlGate > 0 /\ controlGate' = controlGate - 1 /\ UNCHANGED clientFree
       ELSE clientFree > 0 /\ clientFree' = clientFree - 1 /\ UNCHANGED controlGate
    /\ req' = [req EXCEPT ![r].at = "gated"]
    /\ UNCHANGED <<plan, pool, conn, aged, serverVars>>

\* take_idle_connection: connections that are too old, or of another TLS
\* generation, are dropped until one is left that may be used.
Usable == {i \in DOMAIN pool : pool[i] \notin aged}
Newest == CHOOSE i \in Usable : \A j \in Usable : j <= i
TakeIdle(r) ==
    /\ req[r].at = "gated" /\ ~IsCancel(r) /\ Usable # {}
    /\ LET c == pool[Newest]
           dropped == {pool[i] : i \in Newest + 1 .. Len(pool)} IN
       /\ pool' = SubSeq(pool, 1, Newest - 1)
       /\ conn' = [x \in Conns |-> IF x = c THEN [conn[x] EXCEPT !.cli = "used", !.inq = r]
                                   ELSE IF x \in dropped THEN [conn[x] EXCEPT !.cli = "closed"]
                                   ELSE conn[x]]
       /\ req' = [req EXCEPT ![r].at = "sent", ![r].conn = c]
    /\ UNCHANGED <<plan, clientFree, controlGate, aged, serverVars>>

\* open_connection, and what the server's accept loop does with it: a normal
\* connection, one reserved for cancellations, or neither.
OpenConnection(r) ==
    /\ req[r].at = "gated" /\ (IsCancel(r) \/ Usable = {}) /\ stop = "up"
    /\ \E c \in Conns :
          /\ conn[c] = NoConn /\ \A x \in Conns : conn[x] = NoConn => plan.order[c] <= plan.order[x]
          /\ LET admitted == serverFree > 0 \/ reserve > 0
                 control == serverFree = 0 IN
             /\ conn' = [x \in Conns |->
                   IF x = c THEN [NoConn EXCEPT !.cli = "used", !.inq = r, !.control = control,
                                                !.srv = IF admitted THEN "open" ELSE "gone"]
                   ELSE IF ~IsCancel(r) /\ \E i \in DOMAIN pool : pool[i] = x
                   THEN [conn[x] EXCEPT !.cli = "closed"] ELSE conn[x]]
             /\ serverFree' = IF control THEN serverFree ELSE serverFree - 1
             /\ reserve' = IF admitted /\ control THEN reserve - 1 ELSE reserve
          /\ req' = [req EXCEPT ![r].at = "sent", ![r].conn = c]
    /\ pool' = IF IsCancel(r) THEN pool ELSE <<>>
    /\ UNCHANGED <<plan, clientFree, controlGate, aged, exec, entries, nextToken, cancelled, acked,
                   gates, stop>>

\* The request ends and its gate permit is returned.
Leave(r, outcome, answer) ==
    /\ req' = [req EXCEPT ![r].at = outcome, ![r].answer = answer]
    /\ IF IsCancel(r) THEN controlGate' = controlGate + 1 /\ UNCHANGED clientFree
       ELSE clientFree' = clientFree + 1 /\ UNCHANGED controlGate

\* Nothing listens any more, after max_retries attempts.
ConnectFails(r) ==
    /\ req[r].at = "gated" /\ (IsCancel(r) \/ Usable = {}) /\ stop # "up"
    /\ Leave(r, "failed", NoAnswer)
    /\ UNCHANGED <<plan, pool, conn, aged, serverVars>>

\* A response arrives; recycle_connection keeps the connection unless the server
\* announced that it closes it, it is too old, or there are enough idle ones.
\* A control connection is never kept.
ReceiveAnswer(r) ==
    /\ req[r].at = "sent"
    /\ LET c == req[r].conn
           keep == /\ ~IsCancel(r) /\ ~conn[c].outq.close /\ c \notin aged
                   /\ Len(pool) < MaxIdle IN
       /\ conn[c].outq # NoAnswer
       /\ Leave(r, IF conn[c].outq.ok THEN "done" ELSE "failed", conn[c].outq)
       /\ conn' = [conn EXCEPT ![c].outq = NoAnswer, ![c].cli = IF keep THEN "idle" ELSE "closed"]
       /\ pool' = IF keep THEN Append(pool, c) ELSE pool
    /\ UNCHANGED <<plan, aged, serverVars>>

\* The server has closed the connection: the request fails and is not retried.
ConnectionBroken(r) ==
    /\ req[r].at = "sent" /\ conn[req[r].conn].srv = "gone" /\ conn[req[r].conn].outq = NoAnswer
    /\ Leave(r, "failed", NoAnswer)
    /\ conn' = [conn EXCEPT ![req[r].conn].cli = "closed", ![req[r].conn].inq = "none"]
    /\ UNCHANGED <<plan, pool, aged, serverVars>>

\* Mutant: the timed out request leaves its connection in the pool.
ClientTimeoutRecycles(r) ==
    /\ plan.timeouts /\ req[r].at \in {"gated", "sent"}
    /\ Leave(r, "failed", NoAnswer)
    /\ IF req[r].at = "sent"
       THEN /\ conn' = [conn EXCEPT ![req[r].conn].cli = "idle"]
            /\ pool' = Append(pool, req[r].conn)
       ELSE UNCHANGED <<conn, pool>>
    /\ UNCHANGED <<plan, aged, serverVars>>

\* The client's timeout drops the request together with its connection.
ClientTimeout(r) ==
    /\ plan.timeouts /\ req[r].at \in {"gated", "sent"}
    /\ Leave(r, "failed", NoAnswer)
    /\ conn' = IF req[r].at = "sent"
               THEN [conn EXCEPT ![req[r].conn].cli = "closed"] ELSE conn
    /\ UNCHANGED <<plan, pool, aged, serverVars>>

\* A connection passes max_connection_age, or the TLS configuration is reloaded.
Age(c) ==
    /\ plan.aging /\ c \notin aged /\ conn[c].cli \in {"used", "idle"}
    /\ aged' = aged \cup {c}
    /\ UNCHANGED <<plan, req, clientFree, controlGate, pool, conn, serverVars>>

-----------------------------------------------------------------------------
(* QueryTransportServer: one task per connection *)

\* The task ends and returns its admission permit.
CloseServerSide(c) ==
    /\ serverFree' = IF conn[c].control THEN serverFree ELSE serverFree + 1
    /\ reserve' = IF conn[c].control THEN reserve + 1 ELSE reserve

\* The response is written; after the last request, or on a control connection,
\* the task ends.
Respond(c, r, ok) ==
    LET close == conn[c].control \/ conn[c].served + 1 >= MaxServed IN
    /\ conn' = [conn EXCEPT ![c].outq = IF @ = NoAnswer /\ conn[c].cli # "closed"
                                        THEN [r |-> r, ok |-> ok, close |-> close] ELSE @,
                            ![c].inq = "none", ![c].served = @ + 1,
                            ![c].srv = IF close THEN "gone" ELSE @]
    /\ IF close THEN CloseServerSide(c) ELSE UNCHANGED <<serverFree, reserve>>

Readable(c) == conn[c].srv = "open" /\ exec[c] = NoExec /\ conn[c].inq # "none"

\* begin_query_lifecycle; a key can be active once.
BeginQuery(c) ==
    /\ Readable(c) /\ stop = "up"
    /\ LET r == conn[c].inq IN
       /\ ~IsCancel(r) /\ ~conn[c].control
       /\ IF entries[KeyOf(r)] # NoEntry
          THEN Respond(c, r, FALSE) /\ UNCHANGED <<exec, entries, nextToken>>
          ELSE /\ exec' = [exec EXCEPT ![c] = [NoExec EXCEPT !.at = "queued", !.r = r,
                                                            !.token = nextToken]]
               /\ entries' = [entries EXCEPT ![KeyOf(r)] = [token |-> nextToken, state |-> "queued"]]
               /\ nextToken' = nextToken + 1
               /\ conn' = [conn EXCEPT ![c].inq = "none"]
               /\ UNCHANGED <<serverFree, reserve>>
    /\ UNCHANGED <<plan, clientVars, cancelled, acked, gates, stop>>

\* A connection reserved for cancellations refuses everything else.
RefuseQuery(c) ==
    /\ Readable(c) /\ stop = "up" /\ conn[c].control /\ ~IsCancel(conn[c].inq)
    /\ Respond(c, conn[c].inq, FALSE)
    /\ UNCHANGED <<plan, clientVars, exec, entries, nextToken, cancelled, acked, gates, stop>>

\* cancel_query_lifecycle_entry: a queued query is forgotten at once, so that its
\* id can be used again; a running one is marked.
CancelActive(c) ==
    /\ Readable(c) /\ stop = "up" /\ IsCancel(conn[c].inq)
    /\ LET key == KeyOf(conn[c].inq)
           entry == entries[key] IN
       IF entry = NoEntry
       THEN Respond(c, conn[c].inq, FALSE) /\ UNCHANGED <<entries, cancelled, acked>>
       ELSE /\ cancelled' = cancelled \cup {entry.token}
            /\ acked' = acked \cup {entry.token}
            /\ entries' = [entries EXCEPT ![key] = IF entry.state = "queued" THEN NoEntry
                                                   ELSE [@ EXCEPT !.state = "cancelled"]]
            /\ Respond(c, conn[c].inq, TRUE)
    /\ UNCHANGED <<plan, clientVars, exec, nextToken, gates, stop>>

Returned(c) ==
    [g \in Gates |-> gates[g] + Cardinality({i \in 1 .. exec[c].permits : PathOf(exec[c].r)[i] = g})]

\* acquire_namespace_query_permits, outermost namespace first, then
\* acquire_query_transport_permit.
Admit(c) ==
    /\ exec[c].at = "queued"
    /\ LET n == exec[c].permits + 1
           path == PathOf(exec[c].r) IN
       /\ n <= Len(path) /\ gates[path[n]] > 0
       /\ gates' = [gates EXCEPT ![path[n]] = @ - 1]
       /\ exec' = [exec EXCEPT ![c].permits = n]
    /\ UNCHANGED <<plan, clientVars, conn, serverFree, reserve, entries, nextToken, cancelled,
                   acked, stop>>

Executed(c, ok) ==
    /\ gates' = Returned(c)
    /\ exec' = [exec EXCEPT ![c].at = "executed", ![c].ok = ok, ![c].permits = 0]

\* A cancellation ends the wait for a permit.
AdmissionCancelled(c) ==
    /\ exec[c].at = "queued" /\ exec[c].token \in cancelled
    /\ LET n == exec[c].permits + 1
           path == PathOf(exec[c].r) IN n <= Len(path) /\ gates[path[n]] = 0
    /\ Executed(c, FALSE)
    /\ UNCHANGED <<plan, clientVars, conn, serverFree, reserve, entries, nextToken, cancelled,
                   acked, stop>>

\* activate_query_lifecycle and ensure_query_not_cancelled: the entry must still
\* be this query's, and not cancelled.
Activate(c) ==
    /\ exec[c].at = "queued" /\ exec[c].permits = Len(PathOf(exec[c].r))
    /\ LET key == KeyOf(exec[c].r) IN
       IF entries[key].token = exec[c].token /\ entries[key].state # "cancelled"
       THEN /\ entries' = [entries EXCEPT ![key].state = "running"]
            /\ exec' = [exec EXCEPT ![c].at = "running"]
            /\ UNCHANGED gates
       ELSE Executed(c, FALSE) /\ UNCHANGED entries
    /\ UNCHANGED <<plan, clientVars, conn, serverFree, reserve, nextToken, cancelled, acked, stop>>

\* The query cell executes; it may notice a cancelled token, or fail.
Execute(c) ==
    /\ exec[c].at = "running"
    /\ \E ok \in BOOLEAN : /\ ok \/ plan.faults \/ exec[c].token \in cancelled
                           /\ Executed(c, ok)
    /\ UNCHANGED <<plan, clientVars, conn, serverFree, reserve, entries, nextToken, cancelled,
                   acked, stop>>

\* Mutant: the entry is removed whoever registered it.
OwnsAny(c) == entries[KeyOf(exec[c].r)] # NoEntry

\* The registered entry is this query's own.
Owns(c) == entries[KeyOf(exec[c].r)].token = exec[c].token

\* finish_query_lifecycle: the query's own entry is removed, and an entry marked
\* cancelled overrides the result.
Finish(c) ==
    /\ exec[c].at = "executed"
    /\ LET key == KeyOf(exec[c].r)
           overridden == Owns(c) /\ entries[key].state = "cancelled" IN
       /\ entries' = IF Owns(c) THEN [entries EXCEPT ![key] = NoEntry] ELSE entries
       /\ Respond(c, exec[c].r, exec[c].ok /\ ~overridden)
    /\ exec' = [exec EXCEPT ![c] = NoExec]
    /\ UNCHANGED <<plan, clientVars, nextToken, cancelled, acked, gates, stop>>

\* Mutant: a task that waits for a frame does not see the stop signal.
TaskEndsDeaf(c) ==
    /\ conn[c].srv = "open" /\ exec[c] = NoExec
    /\ \/ conn[c].cli = "closed"
       \/ plan.idle /\ conn[c].inq = "none" /\ conn[c].cli = "idle"
    /\ conn' = [conn EXCEPT ![c].srv = "gone"]
    /\ CloseServerSide(c)
    /\ UNCHANGED <<plan, clientVars, exec, entries, nextToken, cancelled, acked, gates, stop>>

\* A task that waits for the next frame ends on end of stream, on the idle
\* timeout, and when the server stops.
TaskEnds(c) ==
    /\ conn[c].srv = "open" /\ exec[c] = NoExec
    /\ \/ conn[c].cli = "closed" \/ stop # "up"
       \/ plan.idle /\ conn[c].inq = "none" /\ conn[c].cli = "idle"
    /\ conn' = [conn EXCEPT ![c].srv = "gone"]
    /\ CloseServerSide(c)
    /\ UNCHANGED <<plan, clientVars, exec, entries, nextToken, cancelled, acked, gates, stop>>

\* QueryTransportServer::stop: no connection is accepted any more.
Stop ==
    /\ plan.stops /\ stop = "up" /\ stop' = "draining"
    /\ UNCHANGED <<plan, clientVars, conn, serverFree, reserve, exec, entries, nextToken, cancelled,
                   acked, gates>>

\* The drain ends when every task has, or after graceful_shutdown_timeout, when
\* the tasks left are aborted with the queries they run.
Drained ==
    /\ stop = "draining"
    /\ plan.forced \/ \A c \in Conns : conn[c].srv # "open"
    /\ stop' = "stopped"
    /\ LET open == {c \in Conns : conn[c].srv = "open"} IN
       /\ conn' = [c \in Conns |-> IF c \in open THEN [conn[c] EXCEPT !.srv = "gone"] ELSE conn[c]]
       /\ exec' = [c \in Conns |-> IF c \in open THEN NoExec ELSE exec[c]]
       /\ gates' = Capacity
       /\ serverFree' = ServerConns /\ reserve' = ControlConns
    /\ UNCHANGED <<plan, clientVars, entries, nextToken, cancelled, acked>>

-----------------------------------------------------------------------------
Init ==
    /\ plan \in Plans
    /\ req = [r \in Requests |-> IF r \in plan.requests THEN NotSent
                                 ELSE [NotSent EXCEPT !.at = "failed"]]
    /\ clientFree = ClientConns /\ controlGate = 1 /\ pool = <<>>
    /\ conn = [c \in Conns |-> NoConn] /\ aged = {}
    /\ serverFree = ServerConns /\ reserve = ControlConns
    /\ exec = [c \in Conns |-> NoExec]
    /\ entries = [k \in Keys |-> NoEntry] /\ nextToken = 1 /\ cancelled = {} /\ acked = {}
    /\ gates = Capacity /\ stop = "up"

ClientStep(r) ==
    \/ AcquireConnection(r) \/ TakeIdle(r) \/ OpenConnection(r) \/ ConnectFails(r)
    \/ ReceiveAnswer(r) \/ ConnectionBroken(r)
ServerStep(c) ==
    \/ BeginQuery(c) \/ RefuseQuery(c) \/ CancelActive(c) \/ Admit(c) \/ AdmissionCancelled(c)
    \/ Activate(c) \/ Execute(c) \/ Finish(c)

Next == \/ \E r \in Requests : ClientStep(r) \/ ClientTimeout(r)
        \/ \E c \in Conns : ServerStep(c) \/ TaskEnds(c) \/ Age(c)
        \/ Stop \/ Drained

\* Tasks are polled, frames are delivered, executions end, and a task sees the
\* end of its stream and the stop signal.
Fairness == /\ \A r \in Requests : WF_vars(ClientStep(r))
            /\ \A c \in Conns : WF_vars(ServerStep(c)) /\ WF_vars(TaskEnds(c))
            /\ WF_vars(Drained)
Spec == Init /\ [][Next]_vars /\ Fairness

-----------------------------------------------------------------------------
(* Properties *)

\* The type of the state: a connection is in the pool exactly when the client
\* holds it idle, and an idle connection has no frame in either direction.
TypeOK ==
    /\ clientFree \in 0 .. ClientConns /\ controlGate \in 0 .. 1
    /\ serverFree \in 0 .. ServerConns /\ reserve \in 0 .. ControlConns
    /\ {pool[i] : i \in DOMAIN pool} = {c \in Conns : conn[c].cli = "idle"}
    /\ Len(pool) <= MaxIdle
    /\ \A c \in Conns : conn[c].cli = "idle" =>
          conn[c].inq = "none" /\ conn[c].outq = NoAnswer /\ exec[c] = NoExec
    /\ \A g \in Gates : gates[g] \in 0 .. Capacity[g]
    /\ \A k \in Keys : entries[k].token < nextToken
    /\ stop \in {"up", "draining", "stopped"}

\* A response is always the answer to the request that receives it, although
\* connections are reused and requests are given up while the server still works
\* on them.
NoCrossedAnswers ==
    \A r \in Requests : req[r].answer # NoAnswer => req[r].answer.r = r

\* A query whose cancellation was acknowledged never answers with rows, whether
\* it was queued or running, and although a queued query's id may be in use again
\* by the time it ends.
CancelledNeverAnswers ==
    \A c \in Conns : exec[c].at = "executed" /\ exec[c].ok /\ exec[c].token \in acked =>
        entries[KeyOf(exec[c].r)] = [token |-> exec[c].token, state |-> "cancelled"]

\* A query that runs is registered, with its own token, so that it can be
\* cancelled; and what is registered is executed by some connection.  (A forced
\* shutdown ends with the registry.)
RunningIsRegistered ==
    stop # "stopped" =>
        /\ \A c \in Conns : exec[c].at = "running" =>
              entries[KeyOf(exec[c].r)].token = exec[c].token
        /\ \A k \in Keys : entries[k] # NoEntry =>
              \E c \in Conns : exec[c] # NoExec /\ exec[c].token = entries[k].token

\* The server holds at most max_connections connections and
\* reserved_control_connections beside them, and every permit that is not free
\* belongs to an open connection or to a query being admitted or executed.
LimitsHold ==
    LET open(control) == {c \in Conns : conn[c].srv = "open" /\ conn[c].control = control} IN
    stop # "stopped" =>
        /\ Cardinality(open(FALSE)) = ServerConns - serverFree
        /\ Cardinality(open(TRUE)) = ControlConns - reserve
        /\ \A g \in Gates :
              Capacity[g] - gates[g] =
                  Cardinality({c \in Conns : \E i \in 1 .. exec[c].permits : PathOf(exec[c].r)[i] = g})

\* Every query that the server begins comes to an end.
QueriesEnd == \A c \in Conns : exec[c] # NoExec ~> exec[c] = NoExec
\* A server that is told to stop stops.
ServerStops == stop = "draining" ~> stop = "stopped"

\* Connections, permits and registered queries are each accounted for, and a
\* cancellation that was acknowledged stands.
ServerAccounts == TypeOK /\ RunningIsRegistered /\ LimitsHold /\ CancelledNeverAnswers

\* Nothing the server begins goes on for ever, its own shutdown included.
EverythingEnds == QueriesEnd /\ ServerStops
=============================================================================
