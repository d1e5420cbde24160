----------------------------- MODULE ClientQuery -----------------------------
(***************************************************************************)
(* The client query service of a graph node                                *)
(* (src/hydradb/src/client/service.rs) and its HTTP front end              *)
(* (src/hydradb/src/client/http.rs).                                       *)
(*                                                                         *)
(* A query is registered under its key (principal, scope, query id), waits *)
(* for one permit of each quota on its namespace path and then for a query *)
(* permit, executes, and is unregistered.  A read materialises its whole   *)
(* result; the rows beyond the first page wait in a server cursor with a   *)
(* time to live and are charged to cursor_buffer_bytes.  A query can be    *)
(* cancelled by another request, time out, or be dropped with the future   *)
(* that runs it.                                                           *)
(*                                                                         *)
(* A row is [v, i]: the i-th row of the result computed at data version v; *)
(* every row counts one byte.                                              *)
(***************************************************************************)
EXTENDS Naturals, Sequences, FiniteSets, FiniteSetsExt

CONSTANTS Clients,     \* callers of the service: HTTP requests and Bolt connections
          Keys,        \* query keys
          Gates,       \* the semaphores: namespace gates and the query gate
          Capacity,    \* their permits
          Plans,       \* what the clients of one behaviour do
          MaxCursors,  \* max_server_cursors
          MaxBytes,    \* max_cursor_buffer_bytes
          MaxCursorId, \* bound on cursor ids
          MaxGen       \* bound on queries

VARIABLES plan,        \* the plan chosen for this behaviour
          active,      \* active_queries: the generation registered for a key, 0 for none
          nextGen,     \* next_generation
          cancelled,   \* the generations whose cancellation token is set
          acked,       \* history: the generations whose cancellation was acknowledged
          gates,       \* the free permits of every semaphore
          call,        \* the query each client is waiting for
          removals,    \* clean-up tasks spawned by ClientQueryDropGuard
          cursors,     \* the server cursors
          cursorBytes, \* cursor_buffer_bytes
          nextCursor,  \* next_cursor_id
          version,     \* how many mutations have been executed
          held,        \* what the HTTP client knows: cursor, rows, failures
          delivered    \* history: the rows sent to an HTTP client, or for a Bolt statement

serviceVars == <<plan, active, nextGen, cancelled, acked, gates, call, removals, cursors,
                 cursorBytes, nextCursor, version, held, delivered>>

NoCursor == [key |-> "none", rows |-> <<>>, old |-> FALSE]
NoCall == [at |-> "idle", key |-> "none", gen |-> 0, cursor |-> 0, size |-> 0, permits |-> 0,
           page |-> <<>>, next |-> 0, ok |-> FALSE, over |-> FALSE]

CursorIds == 1 .. MaxCursorId
InUse == {i \in CursorIds : cursors[i] # NoCursor}
InFlight(c) == call[c].at \in {"admitting", "running", "ended"}

\* The semaphores a client's queries pass, outermost namespace first, the query
\* gate last.
PathOf(c) == plan.path[c]

-----------------------------------------------------------------------------
(* Registration, admission and the end of a query *)

\* begin_query: a key can be active once.
BeginQuery(c, key, cursor, size) ==
    IF active[key] # 0 \/ (cursor # 0 /\ plan.kind[key] = "write")
    THEN /\ call' = [call EXCEPT ![c] = [NoCall EXCEPT !.at = "done", !.key = key]]
         /\ UNCHANGED <<active, nextGen>>
    ELSE /\ call' = [call EXCEPT ![c] = [NoCall EXCEPT !.at = "admitting", !.key = key,
                            !.gen = nextGen, !.cursor = cursor, !.size = size]]
         /\ active' = [active EXCEPT ![key] = nextGen]
         /\ nextGen' = nextGen + 1

\* Mutant: only the outermost permit is returned.
ReturnedFirst(c) ==
    [g \in Gates |-> gates[g] + Cardinality({i \in 1 .. call[c].permits : i = 1 /\ PathOf(c)[i] = g})]

\* The permits a query holds are returned when its execution ends.
Returned(c) ==
    [g \in Gates |-> gates[g] + Cardinality({i \in 1 .. call[c].permits : PathOf(c)[i] = g})]

\* acquire_namespace_permits, then acquire_query_permit.
Admit(c) ==
    /\ call[c].at = "admitting"
    /\ LET n == call[c].permits + 1
           g == PathOf(c)[n] IN
       /\ gates[g] > 0
       /\ gates' = [gates EXCEPT ![g] = @ - 1]
       /\ call' = [call EXCEPT ![c].permits = n,
                               ![c].at = IF n = Len(PathOf(c)) THEN "running" ELSE @]
    /\ UNCHANGED <<plan, active, nextGen, cancelled, acked, removals, cursors, cursorBytes,
                   nextCursor, version, held, delivered>>

\* Waiting for a permit ends when the token is cancelled.
AdmissionCancelled(c) ==
    /\ call[c].at = "admitting" /\ call[c].gen \in cancelled
    /\ gates[PathOf(c)[call[c].permits + 1]] = 0
    /\ gates' = Returned(c)
    /\ call' = [call EXCEPT ![c].at = "ended", ![c].permits = 0]
    /\ UNCHANGED <<plan, active, nextGen, cancelled, acked, removals, cursors, cursorBytes,
                   nextCursor, version, held, delivered>>

\* The execution ends with this page, or with an error.
Ends(c, ok, page, next) ==
    /\ gates' = Returned(c)
    /\ call' = [call EXCEPT ![c].at = "ended", ![c].permits = 0, ![c].ok = ok,
                            ![c].page = page, ![c].next = next]

\* The end of run_query: under the lock the key is unregistered and a cancelled
\* token overrides the result; run_query_with_timeout reports a timeout instead.
FinishQuery(c) ==
    /\ call[c].at = "ended"
    /\ LET key == call[c].key
           own == active[key] = call[c].gen
           ok == call[c].ok /\ ~call[c].over /\ ~(own /\ call[c].gen \in cancelled) IN
       /\ active' = IF own THEN [active EXCEPT ![key] = 0] ELSE active
       /\ call' = [call EXCEPT ![c].at = "done", ![c].ok = ok,
                               ![c].page = IF ok THEN @ ELSE <<>>, ![c].next = IF ok THEN @ ELSE 0]
    /\ UNCHANGED <<plan, nextGen, cancelled, acked, gates, removals, cursors, cursorBytes,
                   nextCursor, version, held, delivered>>

\* run_query_with_timeout: the timer cancels the token and waits for the query.
Timeout(c) ==
    /\ plan.timeouts /\ InFlight(c) /\ ~call[c].over
    /\ cancelled' = cancelled \cup {call[c].gen}
    /\ call' = [call EXCEPT ![c].over = TRUE]
    /\ UNCHANGED <<plan, active, nextGen, acked, gates, removals, cursors, cursorBytes,
                   nextCursor, version, held, delivered>>

\* ClientQueryService::cancel by another request.
CancelQuery(key) ==
    /\ key \in plan.cancels /\ active[key] # 0 /\ active[key] \notin cancelled
    /\ cancelled' = cancelled \cup {active[key]}
    /\ acked' = acked \cup {active[key]}
    /\ UNCHANGED <<plan, active, nextGen, gates, call, removals, cursors, cursorBytes,
                   nextCursor, version, held, delivered>>

\* The future that runs the query is dropped: the permits go with it, the guard
\* cancels the token and spawns a task that unregisters the key.
DropCall(c) ==
    /\ gates' = Returned(c)
    /\ cancelled' = cancelled \cup {call[c].gen}
    /\ removals' = removals \cup {<<call[c].key, call[c].gen>>}
    /\ call' = [call EXCEPT ![c] = NoCall]

\* The task the guard spawned removes the registration if it is still its own.
RemoveDropped ==
    \E r \in removals :
        /\ removals' = removals \ {r}
        /\ active' = IF active[r[1]] = r[2] THEN [active EXCEPT ![r[1]] = 0] ELSE active
        /\ UNCHANGED <<plan, nextGen, cancelled, acked, gates, call, cursors, cursorBytes,
                       nextCursor, version, held, delivered>>

-----------------------------------------------------------------------------
(* Execution and server cursors *)

\* take_cursor_rows.
PageOf(rows, size) == SubSeq(rows, 1, IF size < Len(rows) THEN size ELSE Len(rows))
RestOf(rows, size) == SubSeq(rows, size + 1, Len(rows))

\* query_rows_resident_bytes.
ResidentBytes(rows) == Len(rows)

\* The cursors after purge_expired_cursors, and the bytes it releases.
Purged == [i \in CursorIds |-> IF cursors[i].old THEN NoCursor ELSE cursors[i]]
PurgedBytes == cursorBytes - MapThenSumSet(LAMBDA i : ResidentBytes(cursors[i].rows),
                                           {i \in CursorIds : cursors[i].old})

\* The rows of a read, computed at one snapshot.
ResultOf(key) == [i \in 1 .. plan.rows[key] |-> [v |-> version, i |-> i]]

\* What start_server_cursor compares with the limit: the whole result, although
\* only what is left after the first page stays resident.
AdmittedBytes(result) == PurgedBytes + ResidentBytes(result)

\* Mutant: the page already sent stays charged.
ChargedInFull(result, size) == PurgedBytes + ResidentBytes(result)

\* What start_server_cursor charges.
Charged(result, size) == PurgedBytes + ResidentBytes(RestOf(result, size))

\* A read's first page: the result is materialised and start_server_cursor keeps
\* the rest of it, within the limits on bytes and on cursors.
ExecuteRead(c) ==
    /\ call[c].at = "running" /\ call[c].cursor = 0 /\ plan.kind[call[c].key] = "read"
    /\ LET result == ResultOf(call[c].key)
           size == call[c].size
           rest == RestOf(result, size)
           live == {i \in CursorIds : Purged[i] # NoCursor} IN
       IF AdmittedBytes(result) > MaxBytes \/ (rest # <<>> /\ Cardinality(live) >= MaxCursors)
       THEN /\ Ends(c, FALSE, <<>>, 0)
            /\ cursors' = Purged /\ cursorBytes' = PurgedBytes
            /\ UNCHANGED nextCursor
       ELSE IF rest = <<>>
       THEN /\ Ends(c, TRUE, PageOf(result, size), 0)
            /\ cursors' = Purged /\ cursorBytes' = PurgedBytes
            /\ UNCHANGED nextCursor
       ELSE /\ nextCursor <= MaxCursorId
            /\ Ends(c, TRUE, PageOf(result, size), nextCursor)
            /\ cursors' = [Purged EXCEPT ![nextCursor] =
                              [key |-> call[c].key, rows |-> rest, old |-> FALSE]]
            /\ cursorBytes' = Charged(result, size)
            /\ nextCursor' = nextCursor + 1
    /\ UNCHANGED <<plan, active, nextGen, cancelled, acked, removals, version, held, delivered>>

\* The rows a cursor still has to give are the ones it was created with.
NextRows(i) == cursors[i].rows

\* continue_server_cursor: an unknown, expired or foreign cursor is an error;
\* otherwise a page is taken and the cursor is renewed, or dropped when empty.
ContinueCursor(c) ==
    /\ call[c].at = "running" /\ call[c].cursor # 0
    /\ LET i == call[c].cursor IN
       IF Purged[i] = NoCursor \/ Purged[i].key # call[c].key
       THEN /\ Ends(c, FALSE, <<>>, 0)
            /\ cursors' = Purged /\ cursorBytes' = PurgedBytes
       ELSE LET rest == RestOf(NextRows(i), call[c].size) IN
            /\ cursors' = [Purged EXCEPT ![i] = IF rest = <<>> THEN NoCursor
                                                ELSE [@ EXCEPT !.rows = rest]]
            /\ cursorBytes' = PurgedBytes - (Len(NextRows(i)) - Len(rest))
            /\ Ends(c, TRUE, PageOf(NextRows(i), call[c].size), IF rest = <<>> THEN 0 ELSE i)
    /\ UNCHANGED <<plan, active, nextGen, cancelled, acked, removals, nextCursor, version, held,
                   delivered>>

\* A mutation is executed and answers with a single summary row.
ExecuteWrite(c) ==
    /\ call[c].at = "running" /\ plan.kind[call[c].key] = "write"
    /\ version' = version + 1
    /\ Ends(c, TRUE, <<[v |-> version, i |-> 1]>>, 0)
    /\ UNCHANGED <<plan, active, nextGen, cancelled, acked, removals, cursors, cursorBytes,
                   nextCursor, held, delivered>>

\* The executor sees its token cancelled, or fails.
ExecutionFails(c) ==
    /\ call[c].at = "running" /\ (call[c].gen \in cancelled \/ plan.faults)
    /\ Ends(c, FALSE, <<>>, 0)
    /\ UNCHANGED <<plan, active, nextGen, cancelled, acked, removals, cursors, cursorBytes,
                   nextCursor, version, held, delivered>>

\* release_server_cursor: only the request a cursor belongs to gives it up.
AfterRelease(key, i) ==
    IF Purged[i] # NoCursor /\ Purged[i].key = key
    THEN [Purged EXCEPT ![i] = NoCursor] ELSE Purged
BytesAfterRelease(key, i) ==
    IF Purged[i] # NoCursor /\ Purged[i].key = key
    THEN PurgedBytes - ResidentBytes(Purged[i].rows) ELSE PurgedBytes

\* A cursor's time to live elapses; it is purged by the next access.
ExpireCursor ==
    /\ plan.expiry
    /\ \E i \in InUse : ~cursors[i].old /\ cursors' = [cursors EXCEPT ![i].old = TRUE]
    /\ UNCHANGED <<plan, active, nextGen, cancelled, acked, gates, call, removals, cursorBytes,
                   nextCursor, version, held, delivered>>

-----------------------------------------------------------------------------
(* The HTTP front end *)

\* execute_query: a page of the client's query, from the cursor of the page
\* before it.  After an error the client may ask for the same page again.
HttpRequest(c) ==
    /\ c \in plan.http /\ call[c].at = "idle" /\ held[c].more /\ held[c].asks > 0
    /\ nextGen <= MaxGen
    /\ BeginQuery(c, plan.key[c], held[c].cursor, plan.size[c])
    /\ held' = [held EXCEPT ![c].asks = @ - 1]
    /\ UNCHANGED <<plan, cancelled, acked, gates, removals, cursors, cursorBytes, nextCursor,
                   version, delivered>>

\* The response: the rows and the cursor of the next page, or an error.
HttpResponse(c) ==
    /\ c \in plan.http /\ call[c].at = "done"
    /\ IF call[c].ok
       THEN /\ held' = [held EXCEPT ![c].cursor = call[c].next, ![c].more = call[c].next # 0]
            /\ delivered' = [delivered EXCEPT ![c].rows = @ \o call[c].page,
                                              ![c].all = call[c].next = 0]
       ELSE /\ delivered' = [delivered EXCEPT ![c].failed = TRUE]
            /\ UNCHANGED held
    /\ call' = [call EXCEPT ![c] = NoCall]
    /\ UNCHANGED <<plan, active, nextGen, cancelled, acked, gates, removals, cursors, cursorBytes,
                   nextCursor, version>>

\* The client disconnects and the handler is dropped with its query.
HttpDisconnect(c) ==
    /\ c \in plan.http /\ plan.drops /\ InFlight(c)
    /\ DropCall(c)
    /\ delivered' = [delivered EXCEPT ![c].failed = TRUE]
    /\ UNCHANGED <<plan, active, nextGen, acked, cursors, cursorBytes, nextCursor, version, held>>

-----------------------------------------------------------------------------
ServiceInit ==
    /\ plan \in Plans
    /\ active = [k \in Keys |-> 0] /\ nextGen = 1 /\ cancelled = {} /\ acked = {}
    /\ gates = Capacity /\ call = [c \in Clients |-> NoCall] /\ removals = {}
    /\ cursors = [i \in CursorIds |-> NoCursor] /\ cursorBytes = 0 /\ nextCursor = 1
    /\ version = 0
    /\ held = [c \in Clients |-> [cursor |-> 0, more |-> TRUE, asks |-> plan.asks]]
    /\ delivered = [x \in Keys \cup Clients |-> [rows |-> <<>>, all |-> FALSE, failed |-> FALSE]]

\* What a query does once it is registered.
QueryStep(c) ==
    \/ Admit(c) \/ AdmissionCancelled(c) \/ ExecuteRead(c) \/ ContinueCursor(c) \/ ExecuteWrite(c)
    \/ ExecutionFails(c) \/ FinishQuery(c)

ServiceNext ==
    \/ \E c \in Clients : \/ QueryStep(c) \/ Timeout(c)
                          \/ HttpRequest(c) \/ HttpResponse(c) \/ HttpDisconnect(c)
    \/ \E k \in Keys : CancelQuery(k)
    \/ RemoveDropped \/ ExpireCursor
=============================================================================
