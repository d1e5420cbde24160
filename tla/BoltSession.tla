----------------------------- MODULE BoltSession -----------------------------
(***************************************************************************)
(* One Bolt connection (src/hydradb/src/client/bolt.rs): the protocol      *)
(* state machine of run_bolt_protocol over the client query service.       *)
(*                                                                         *)
(* The client pipelines a script of messages.  A reader task puts them in  *)
(* a channel (`inbox'); while a PULL or DISCARD waits for a page the       *)
(* connection keeps reading, so that RESET can interrupt it, and queues    *)
(* every other message.  Each message is answered by one summary.          *)
(***************************************************************************)
EXTENDS ClientQuery

CONSTANTS Bolt,        \* the connection's client of the service
          Prefetch,    \* prefetch_rows
          QueueLimit,  \* max_pipelined_messages
          Everything   \* the count of a PULL without a limit

VARIABLES st,       \* BoltState, or "closed"
          auth,     \* session.authenticated
          inbox,    \* messages not read yet
          queue,    \* queued: messages read while a page was awaited
          replies,  \* history: the summaries sent, with the message each answers
          lost,     \* history: the messages dropped by a full queue
          runs,     \* the statement counter (next_query_id)
          pending,  \* session.pending
          pull      \* the PULL or DISCARD being served

boltVars == <<st, auth, inbox, queue, replies, lost, runs, pending, pull>>
vars == <<serviceVars, boltVars>>

NoPending == [on |-> FALSE, key |-> "none", started |-> FALSE, rows |-> <<>>, next |-> 0]
NoPull == [on |-> FALSE, left |-> 0, count |-> 0, send |-> FALSE, msg |-> 0]

\* A message is [id, m, n]: its position in the script, its kind and its count.
Idle == ~pull.on /\ st # "closed"
HasMessage == Idle /\ (queue # <<>> \/ inbox # <<>>)
Message == IF queue # <<>> THEN Head(queue) ELSE Head(inbox)
Take == IF queue # <<>> THEN queue' = Tail(queue) /\ UNCHANGED inbox
        ELSE inbox' = Tail(inbox) /\ UNCHANGED queue
Answer(id, summary) == replies' = Append(replies, <<id, summary>>)

ServiceIdle == UNCHANGED serviceVars

\* clear_pending_result: the pending result is dropped and the cursor it still
\* holds is released, if the session is authenticated.
ClearPending ==
    /\ pending' = NoPending
    /\ IF pending.on /\ pending.next # 0 /\ auth
       THEN /\ cursors' = AfterRelease(pending.key, pending.next)
            /\ cursorBytes' = BytesAfterRelease(pending.key, pending.next)
       ELSE UNCHANGED <<cursors, cursorBytes>>
    /\ UNCHANGED <<plan, active, nextGen, cancelled, acked, gates, call, removals, nextCursor,
                   version, held, delivered>>

-----------------------------------------------------------------------------
(* Messages outside a PULL *)

\* A failed session answers RESET and GOODBYE, and ignores the rest.
InFailed ==
    /\ HasMessage /\ st = "failed" /\ Take
    /\ \/ /\ Message.m = "RESET"
          /\ ClearPending /\ Answer(Message.id, "SUCCESS")
          /\ st' = IF auth THEN "ready" ELSE "authentication"
       \/ /\ Message.m = "GOODBYE"
          /\ ClearPending /\ st' = "closed" /\ UNCHANGED replies
       \/ /\ Message.m \notin {"RESET", "GOODBYE"}
          /\ Answer(Message.id, "IGNORED")
          /\ ServiceIdle /\ UNCHANGED <<st, pending>>
    /\ UNCHANGED <<auth, lost, runs, pull>>

Hello ==
    /\ HasMessage /\ st = "negotiation" /\ Message.m = "HELLO" /\ Take
    /\ Answer(Message.id, "SUCCESS") /\ st' = "authentication"
    /\ ServiceIdle /\ UNCHANGED <<auth, lost, runs, pending, pull>>

\* LOGON; bad credentials end the connection.
Logon ==
    /\ HasMessage /\ st = "authentication" /\ Message.m \in {"LOGON", "BADLOGON"} /\ Take
    /\ IF Message.m = "LOGON"
       THEN Answer(Message.id, "SUCCESS") /\ st' = "ready" /\ auth' = TRUE
       ELSE Answer(Message.id, "FAILURE") /\ st' = "closed" /\ UNCHANGED auth
    /\ ServiceIdle /\ UNCHANGED <<lost, runs, pending, pull>>

Goodbye ==
    /\ HasMessage /\ st # "failed" /\ Message.m = "GOODBYE" /\ Take
    /\ ClearPending /\ st' = "closed"
    /\ UNCHANGED <<auth, replies, lost, runs, pull>>

Reset ==
    /\ HasMessage /\ st \in {"ready", "streaming"} /\ Message.m = "RESET" /\ Take
    /\ ClearPending /\ Answer(Message.id, "SUCCESS") /\ st' = "ready"
    /\ UNCHANGED <<auth, lost, runs, pull>>

Logoff ==
    /\ HasMessage /\ st = "ready" /\ Message.m = "LOGOFF" /\ Take
    /\ ClearPending /\ Answer(Message.id, "SUCCESS")
    /\ auth' = FALSE /\ st' = "authentication"
    /\ UNCHANGED <<lost, runs, pull>>

\* RUN: the statement is prepared, not executed; the result is pending.
Run ==
    /\ HasMessage /\ st = "ready" /\ Message.m \in {"RUN", "BADRUN"} /\ Take
    /\ runs' = runs + 1
    /\ IF Message.m = "RUN"
       THEN /\ Answer(Message.id, "SUCCESS") /\ st' = "streaming"
            /\ pending' = [NoPending EXCEPT !.on = TRUE, !.key = plan.statement[runs + 1]]
       ELSE Answer(Message.id, "FAILURE") /\ st' = "failed" /\ UNCHANGED pending
    /\ ServiceIdle /\ UNCHANGED <<auth, lost, pull>>

\* PULL and DISCARD start consume_bolt_records; a bad count fails the session.
StartPull ==
    /\ HasMessage /\ st = "streaming" /\ Message.m \in {"PULL", "DISCARD", "BADPULL"} /\ Take
    /\ IF Message.m = "BADPULL"
       THEN Answer(Message.id, "FAILURE") /\ st' = "failed" /\ UNCHANGED pull
       ELSE /\ pull' = [on |-> TRUE, left |-> Message.n, count |-> Message.n,
                        send |-> Message.m = "PULL", msg |-> Message.id]
            /\ UNCHANGED <<st, replies>>
    /\ ServiceIdle /\ UNCHANGED <<auth, lost, runs, pending>>

\* ROUTE and TELEMETRY in Ready.
Route ==
    /\ HasMessage /\ st = "ready" /\ Message.m = "ROUTE" /\ Take
    /\ Answer(Message.id, "SUCCESS")
    /\ ServiceIdle /\ UNCHANGED <<st, auth, lost, runs, pending, pull>>

Expected ==
    CASE st = "negotiation" -> {"HELLO"}
      [] st = "authentication" -> {"LOGON", "BADLOGON"}
      [] st = "ready" -> {"RESET", "LOGOFF", "RUN", "BADRUN", "ROUTE"}
      [] st = "streaming" -> {"RESET", "PULL", "DISCARD", "BADPULL"}
      [] OTHER -> {}

\* BEGIN, COMMIT and ROLLBACK, and any message the state does not expect.
Unexpected ==
    /\ HasMessage /\ st # "failed" /\ Message.m \notin Expected \cup {"GOODBYE"} /\ Take
    /\ Answer(Message.id, "FAILURE") /\ st' = "failed"
    /\ ServiceIdle /\ UNCHANGED <<auth, lost, runs, pending, pull>>

-----------------------------------------------------------------------------
(* consume_bolt_records *)

Least(a, b) == IF a < b THEN a ELSE b

\* Buffered rows are sent, or discarded.
SendRecords ==
    /\ pull.on /\ pull.left > 0 /\ pending.rows # <<>>
    /\ LET n == Least(pull.left, Len(pending.rows)) IN
       /\ pull' = [pull EXCEPT !.left = @ - n]
       /\ pending' = [pending EXCEPT !.rows = SubSeq(@, n + 1, Len(@))]
       /\ delivered' = [delivered EXCEPT ![pending.key].rows = @ \o SubSeq(pending.rows, 1, n),
                                         ![pending.key].failed = @ \/ ~pull.send]
    /\ UNCHANGED <<plan, active, nextGen, cancelled, acked, gates, call, removals, cursors,
                   cursorBytes, nextCursor, version, held>>
    /\ UNCHANGED <<st, auth, inbox, queue, replies, lost, runs>>

NeedsPage == /\ pull.on /\ pull.left > 0 /\ pending.rows = <<>>
             /\ ~pending.started \/ pending.next # 0

\* The next page is requested: its cursor is taken out of the pending result
\* before the request.
FetchPage ==
    /\ NeedsPage /\ call[Bolt].at = "idle" /\ nextGen <= MaxGen
    /\ BeginQuery(Bolt, pending.key, pending.next, Least(Prefetch, pull.count))
    /\ pending' = [pending EXCEPT !.started = TRUE, !.next = 0]
    /\ UNCHANGED <<plan, cancelled, acked, gates, removals, cursors, cursorBytes, nextCursor,
                   version, held, delivered>>
    /\ UNCHANGED <<st, auth, inbox, queue, replies, lost, runs, pull>>

\* The page arrives.
PageArrives ==
    /\ pull.on /\ call[Bolt].at = "done" /\ call[Bolt].ok
    /\ pending' = [pending EXCEPT !.rows = call[Bolt].page, !.next = call[Bolt].next]
    /\ call' = [call EXCEPT ![Bolt] = NoCall]
    /\ UNCHANGED <<plan, active, nextGen, cancelled, acked, gates, removals, cursors, cursorBytes,
                   nextCursor, version, held, delivered>>
    /\ UNCHANGED <<st, auth, inbox, queue, replies, lost, runs, pull>>

\* The statement fails: FAILURE answers the PULL, and the pending result goes.
\* There is no cursor left in it to release.
PageFails ==
    /\ pull.on /\ call[Bolt].at = "done" /\ ~call[Bolt].ok
    /\ call' = [call EXCEPT ![Bolt] = NoCall]
    /\ delivered' = [delivered EXCEPT ![pending.key].failed = TRUE]
    /\ Answer(pull.msg, "FAILURE")
    /\ st' = "failed" /\ pending' = NoPending /\ pull' = NoPull
    /\ UNCHANGED <<plan, active, nextGen, cancelled, acked, gates, removals, cursors, cursorBytes,
                   nextCursor, version, held>>
    /\ UNCHANGED <<auth, inbox, queue, lost, runs>>

\* The statement's deadline has passed when the next page is due: the cursor has
\* been taken and stays behind.
StreamDeadline ==
    /\ NeedsPage /\ call[Bolt].at = "idle" /\ plan.timeouts
    /\ delivered' = [delivered EXCEPT ![pending.key].failed = TRUE]
    /\ Answer(pull.msg, "FAILURE")
    /\ st' = "failed" /\ pending' = NoPending /\ pull' = NoPull
    /\ UNCHANGED <<plan, active, nextGen, cancelled, acked, gates, call, removals, cursors,
                   cursorBytes, nextCursor, version, held>>
    /\ UNCHANGED <<auth, inbox, queue, lost, runs>>

\* The summary of a PULL: has_more while rows or a cursor remain, otherwise the
\* statement is over.
HasMore == pending.rows # <<>> \/ pending.next # 0
Summarise ==
    /\ pull.on /\ call[Bolt].at = "idle"
    /\ pull.left = 0 \/ (pending.rows = <<>> /\ pending.started /\ pending.next = 0)
    /\ pull' = NoPull
    /\ Answer(pull.msg, "SUCCESS")
    /\ IF HasMore THEN UNCHANGED <<st, pending, delivered>>
       ELSE /\ delivered' = [delivered EXCEPT ![pending.key].all = TRUE]
            /\ st' = "ready" /\ pending' = NoPending
    /\ UNCHANGED <<plan, active, nextGen, cancelled, acked, gates, call, removals, cursors,
                   cursorBytes, nextCursor, version, held>>
    /\ UNCHANGED <<auth, inbox, queue, lost, runs>>

\* await_bolt_page reads on while the page is computed.
Awaiting == pull.on /\ InFlight(Bolt) /\ inbox # <<>>

\* Mutant: SUCCESS for the RESET goes out before the messages it overtook are
\* answered.
ResetRepliesFirst ==
    <<<<pull.msg, "IGNORED">>, <<Head(inbox).id, "SUCCESS">>>>
        \o [i \in 1 .. Len(queue) |-> <<queue[i].id, "IGNORED">>]

\* IGNORED for the PULL and for every queued message, then SUCCESS.
ResetReplies ==
    <<<<pull.msg, "IGNORED">>>> \o [i \in 1 .. Len(queue) |-> <<queue[i].id, "IGNORED">>]
        \o <<<<Head(inbox).id, "SUCCESS">>>>

\* RESET cancels the query; the page's future is dropped with its guard.
ResetWhileAwaiting ==
    /\ Awaiting /\ Head(inbox).m = "RESET"
    /\ inbox' = Tail(inbox) /\ queue' = <<>>
    /\ DropCall(Bolt)
    /\ acked' = IF active[pending.key] # 0 THEN acked \cup {active[pending.key]} ELSE acked
    /\ replies' = replies \o ResetReplies
    /\ delivered' = [delivered EXCEPT ![pending.key].failed = TRUE]
    /\ st' = "ready" /\ pending' = NoPending /\ pull' = NoPull
    /\ UNCHANGED <<plan, active, nextGen, cursors, cursorBytes, nextCursor, version, held>>
    /\ UNCHANGED <<auth, lost, runs>>

\* GOODBYE, or the end of the stream, closes the connection.
GoodbyeWhileAwaiting ==
    /\ Awaiting /\ Head(inbox).m = "GOODBYE"
    /\ inbox' = Tail(inbox)
    /\ DropCall(Bolt)
    /\ acked' = IF active[pending.key] # 0 THEN acked \cup {active[pending.key]} ELSE acked
    /\ delivered' = [delivered EXCEPT ![pending.key].failed = TRUE]
    /\ st' = "closed" /\ pending' = NoPending /\ pull' = NoPull
    /\ UNCHANGED <<plan, active, nextGen, cursors, cursorBytes, nextCursor, version, held>>
    /\ UNCHANGED <<auth, queue, replies, lost, runs>>

\* Any other message is queued.
QueueWhileAwaiting ==
    /\ Awaiting /\ Head(inbox).m \notin {"RESET", "GOODBYE"} /\ Len(queue) < QueueLimit
    /\ queue' = Append(queue, Head(inbox)) /\ inbox' = Tail(inbox)
    /\ ServiceIdle /\ UNCHANGED <<st, auth, replies, lost, runs, pending, pull>>

\* The queue is full: the message is lost, the page dropped, and FAILURE answers
\* the PULL.
QueueOverflow ==
    /\ Awaiting /\ Head(inbox).m \notin {"RESET", "GOODBYE"} /\ Len(queue) >= QueueLimit
    /\ inbox' = Tail(inbox)
    /\ DropCall(Bolt)
    /\ Answer(pull.msg, "FAILURE") /\ lost' = lost \cup {Head(inbox).id}
    /\ delivered' = [delivered EXCEPT ![pending.key].failed = TRUE]
    /\ st' = "failed" /\ pending' = NoPending /\ pull' = NoPull
    /\ UNCHANGED <<plan, active, nextGen, acked, cursors, cursorBytes, nextCursor, version, held>>
    /\ UNCHANGED <<auth, queue, runs>>

\* An idle timeout, or a write that fails: run_bolt_protocol returns the error
\* and clears nothing; a page in flight is dropped.
ConnectionLost ==
    /\ plan.drops /\ st # "closed"
    /\ st' = "closed" /\ pending' = NoPending /\ pull' = NoPull
    /\ IF InFlight(Bolt)
       THEN DropCall(Bolt)
       ELSE call' = [call EXCEPT ![Bolt] = NoCall] /\ UNCHANGED <<gates, cancelled, removals>>
    /\ delivered' = IF pending.on THEN [delivered EXCEPT ![pending.key].failed = TRUE]
                    ELSE delivered
    /\ UNCHANGED <<plan, active, nextGen, acked, cursors, cursorBytes, nextCursor, version, held>>
    /\ UNCHANGED <<auth, inbox, queue, replies, lost, runs>>

-----------------------------------------------------------------------------
BoltInit ==
    /\ st = IF plan.script = <<>> THEN "closed" ELSE "negotiation"
    /\ auth = FALSE /\ inbox = plan.script
    /\ queue = <<>> /\ replies = <<>> /\ lost = {} /\ runs = 0 /\ pending = NoPending /\ pull = NoPull

BoltStep ==
    \/ InFailed \/ Hello \/ Logon \/ Goodbye \/ Reset \/ Logoff \/ Run \/ StartPull \/ Route
    \/ Unexpected \/ SendRecords \/ FetchPage \/ PageArrives \/ PageFails \/ StreamDeadline
    \/ Summarise \/ ResetWhileAwaiting \/ GoodbyeWhileAwaiting \/ QueueWhileAwaiting
    \/ QueueOverflow \/ ConnectionLost

Init == ServiceInit /\ BoltInit
Next == BoltStep \/ (ServiceNext /\ UNCHANGED boltVars)

\* The runtime polls every ready task, semaphores are handed out in order, and an
\* execution ends.
Fairness == /\ \A c \in Clients : WF_vars(QueryStep(c) /\ UNCHANGED boltVars)
            /\ WF_vars(RemoveDropped /\ UNCHANGED boltVars)
            /\ WF_vars(BoltStep)
Spec == Init /\ [][Next]_vars /\ Fairness

-----------------------------------------------------------------------------
(* Properties *)

\* The type of the service and of the connection.  Tokens are only cancelled for
\* queries that were registered.
TypeOK ==
    /\ \A k \in Keys : active[k] \in 0 .. nextGen - 1
    /\ cancelled \subseteq 1 .. nextGen - 1 /\ acked \subseteq cancelled
    /\ \A g \in Gates : gates[g] \in 0 .. Capacity[g]
    /\ \A c \in Clients : /\ call[c].at \in {"idle", "admitting", "running", "ended", "done"}
                          /\ call[c].permits \in 0 .. Len(PathOf(c))
    /\ nextCursor \in 1 .. MaxCursorId + 1 /\ \A i \in CursorIds : i >= nextCursor => cursors[i] = NoCursor
    /\ st \in {"negotiation", "authentication", "ready", "streaming", "failed", "closed"}
    /\ auth \in BOOLEAN /\ Len(queue) \in 0 .. QueueLimit
    /\ st = "streaming" => pending.on /\ auth

\* Every permit is either free or held by a query that is being admitted or
\* executed, whatever was cancelled, timed out or dropped.
PermitsAccounted ==
    \A g \in Gates :
        gates[g] + MapThenSumSet(LAMBDA c : Cardinality({i \in 1 .. call[c].permits : PathOf(c)[i] = g}),
                                 Clients) = Capacity[g]

\* cursor_buffer_bytes is what the cursors hold, expired ones that nobody purged
\* yet included; it and the number of cursors stay within their limits.
CursorsAccounted ==
    /\ cursorBytes = MapThenSumSet(LAMBDA i : Len(cursors[i].rows), CursorIds)
    /\ cursorBytes <= MaxBytes
    /\ Cardinality(InUse) <= MaxCursors

\* A query whose cancellation was acknowledged, by another request or by a RESET,
\* never answers with rows.
CancelledNeverAnswers ==
    \A c \in Clients : call[c].at = "done" /\ call[c].ok => call[c].gen \notin acked

\* A query in flight is registered under its key, so it can be cancelled; and a
\* registration belongs to a query in flight or to the clean-up task of a dropped
\* one, so a query id never stays "already active" for good.
RegistrationsAreBacked ==
    /\ \A c \in Clients : InFlight(c) => active[call[c].key] = call[c].gen
    /\ \A k \in Keys :
          active[k] # 0 => \/ \E c \in Clients : InFlight(c) /\ call[c].gen = active[k]
                           \/ <<k, active[k]>> \in removals

\* The rows a client was sent for a read, page by page and PULL by PULL, are the
\* first rows of one result computed at one snapshot, in order and without a
\* gap; they are all of it when the client was told that there is no more.
\* Excluded are statements with a failed page and discarded rows.
OneResultInOrder ==
    \A x \in Keys \cup Clients :
        LET key == IF x \in Clients THEN plan.key[x] ELSE x
            rows == delivered[x].rows IN
        plan.kind[key] = "read" /\ ~delivered[x].failed =>
            /\ \A i \in DOMAIN rows : rows[i] = [v |-> rows[1].v, i |-> i]
            /\ delivered[x].all => Len(rows) = plan.rows[key]

\* The connection answers its messages in the order in which they were sent, one
\* summary each, although a RESET overtakes the messages before it.  Only a
\* message that found the queue full is passed over.
RepliesInOrder ==
    \A i \in DOMAIN replies :
        LET earlier == IF i = 1 THEN 0 ELSE replies[i - 1][1] IN
        replies[i][1] > earlier /\ earlier + 1 .. replies[i][1] - 1 \subseteq lost

\* Between a FAILURE and the RESET that clears it nothing but IGNORED is
\* answered, and a statement is never executed for a session that is not logged
\* in.
FailedUntilReset ==
    /\ \A i \in 2 .. Len(replies) :
          replies[i - 1][2] \in {"FAILURE", "IGNORED"} /\ plan.script[replies[i][1]].m # "RESET" =>
              replies[i][2] = "IGNORED"
    /\ InFlight(Bolt) => auth /\ st = "streaming"

\* A server cursor of a Bolt statement is one the session still streams from,
\* unless a page of that statement failed or was interrupted: finished
\* statements leave nothing behind.
FinishedHoldsNoCursor ==
    \A i \in InUse :
        LET k == cursors[i].key IN
        k \in {plan.statement[n] : n \in DOMAIN plan.statement} /\ ~delivered[k].failed =>
            pending.on /\ pending.key = k

\* Every query that starts comes to an end: the permits of the namespace path are
\* always taken outermost first, so no two queries wait for each other.
EveryQueryEnds == \A c \in Clients : InFlight(c) ~> ~InFlight(c)

\* Permits, registrations and cursors are each held by somebody who will give
\* them back, however calls end.
NothingLeaks ==
    TypeOK /\ PermitsAccounted /\ CursorsAccounted /\ RegistrationsAreBacked /\ FinishedHoldsNoCursor

\* What a client is sent: its rows once and in order, its summaries in the order
\* of its messages, IGNORED after a failure, and nothing after a cancellation.
ServedInOrder == OneResultInOrder /\ RepliesInOrder /\ FailedUntilReset /\ CancelledNeverAnswers
=============================================================================
