------------------------- MODULE QueryTransportProofs -------------------------
(***************************************************************************)
(* Proofs about QueryTransport, for any requests, connections, query ids,  *)
(* gates and limits: answers are never crossed (NoCrossedTheorem), and     *)
(* connections, permits and registered queries are accounted for           *)
(* (ServerAccountsTheorem).                                                *)
(*                                                                         *)
(* The inductive invariant has three parts.  ConnInv: a request in flight  *)
(* has a connection of its own, on which there is at most one frame or one *)
(* execution, and it is of that request.  RegistryInv: tokens identify the *)
(* executions, and an entry is one's own exactly as long as nobody has     *)
(* cancelled one in the queue.  CountInv: what is not free is held.        *)
(***************************************************************************)
EXTENDS QueryTransport, FiniteSetTheorems, WellFoundedInduction, TLAPS

Answers == [r : Requests \cup {"none"}, ok : BOOLEAN, close : BOOLEAN]
Reqs == [at : {"new", "gated", "sent", "done", "failed"}, conn : Conns \cup {"none"},
         answer : Answers]
ConnStates == [cli : {"none", "used", "idle", "closed"}, srv : {"none", "open", "gone"},
               control : BOOLEAN, served : Nat, inq : Requests \cup {"none"}, outq : Answers]
LiveExecs == [at : {"queued", "running", "executed"}, r : Requests, token : Nat \ {0},
              permits : Nat, ok : BOOLEAN]
Execs == {NoExec} \cup LiveExecs
EntryStates == [token : Nat, state : {"none", "queued", "running", "cancelled"}]

\* The types of the transport's state.
Typed ==
    /\ plan \in Plans /\ req \in [Requests -> Reqs] /\ conn \in [Conns -> ConnStates]
    /\ exec \in [Conns -> Execs] /\ entries \in [Keys -> EntryStates]
    /\ nextToken \in Nat \ {0} /\ acked \subseteq Nat
    /\ pool \in Seq(Conns) /\ gates \in [Gates -> Nat]
    /\ clientFree \in Nat /\ controlGate \in Nat /\ serverFree \in Nat /\ reserve \in Nat
    /\ stop \in {"up", "draining", "stopped"}

-----------------------------------------------------------------------------
(* Connections and what is on them.                                        *)

Sent(r) == req[r].at = "sent"
Live(c) == exec[c] # NoExec

\* What is on connection c, if anything, is of request r.
Carries(c, r) ==
    /\ conn[c].cli = "used"
    /\ conn[c].inq \in {r, "none"}
    /\ Live(c) => exec[c].r = r
    /\ conn[c].outq # NoAnswer => conn[c].outq.r = r

OwnConnection == \A r \in Requests : Sent(r) => req[r].conn \in Conns /\ Carries(req[r].conn, r)
NoSharing == \A r, s \in Requests : Sent(r) /\ Sent(s) /\ req[r].conn = req[s].conn => r = s

Empty(c) == conn[c].inq = "none" /\ conn[c].outq = NoAnswer /\ ~Live(c)

\* A frame, an execution and an answer exclude each other.
OneThing(c) ==
    /\ conn[c].outq # NoAnswer => conn[c].inq = "none" /\ ~Live(c)
    /\ Live(c) => conn[c].inq = "none" /\ conn[c].srv = "open"
    /\ conn[c].cli \in {"none", "idle"} => Empty(c)

PoolIsIdle ==
    /\ \A c \in Conns : conn[c].cli = "idle" <=> \E i \in DOMAIN pool : pool[i] = c
    /\ \A i, j \in DOMAIN pool : pool[i] = pool[j] => i = j
    /\ Len(pool) <= MaxIdle

ConnInv ==
    /\ OwnConnection /\ NoSharing /\ PoolIsIdle /\ NoCrossedAnswers
    /\ \A c \in Conns : OneThing(c)

\* Records of the model, and their fields.
LEMMA Records ==
    /\ NoConn \in ConnStates /\ NoAnswer \in Answers /\ NotSent \in Reqs
    /\ NoConn.cli = "none" /\ NoConn.srv = "none" /\ NoConn.inq = "none"
    /\ NoConn.outq = NoAnswer /\ NoConn.control = FALSE
    /\ NoExec.at = "none" /\ NoExec.permits = 0 /\ NoExec.token = 0
    /\ NoEntry \in EntryStates /\ NoEntry.token = 0 /\ NoEntry.state = "none"
    /\ NotSent.at = "new" /\ NotSent.answer = NoAnswer
  <1>1. NoConn \in ConnStates /\ NoAnswer \in Answers
    BY Zenon DEF NoConn, NoAnswer, ConnStates, Answers
  <1> QED
    BY <1>1, Zenon DEF NoConn, NoAnswer, NotSent, Reqs, NoExec, NoEntry, EntryStates

\* The task of connection c goes on with the one request it has, which may end
\* in an answer.
Proceeds(c) ==
    /\ req' = req /\ pool' = pool
    /\ \A d \in Conns \ {c} : conn'[d] = conn[d] /\ exec'[d] = exec[d]
    /\ \E r \in Requests :
         /\ Live(c) => exec[c].r = r
         /\ ~Live(c) => conn[c].inq = r /\ r # "none"
         /\ exec'[c] # NoExec => exec'[c].r = r /\ conn'[c].srv = "open"
         /\ conn'[c].outq # NoAnswer => exec'[c] = NoExec
         /\ conn'[c].outq = conn[c].outq \/ conn'[c].outq.r = r
    /\ conn'[c].cli = conn[c].cli /\ conn'[c].inq = "none"

\* Such a step crosses nothing.
LEMMA ProceedsKeeps ==
  ASSUME ConnInv, Typed, NEW c \in Conns, Proceeds(c)
  PROVE  ConnInv'
  <1>1. PICK r \in Requests :
         /\ Live(c) => exec[c].r = r
         /\ ~Live(c) => conn[c].inq = r /\ r # "none"
         /\ exec'[c] # NoExec => exec'[c].r = r /\ conn'[c].srv = "open"
         /\ conn'[c].outq # NoAnswer => exec'[c] = NoExec
         /\ conn'[c].outq = conn[c].outq \/ conn'[c].outq.r = r
    BY Zenon DEF Proceeds
  <1>2. /\ req' = req /\ pool' = pool
        /\ \A d \in Conns \ {c} : conn'[d] = conn[d] /\ exec'[d] = exec[d]
        /\ conn'[c].cli = conn[c].cli /\ conn'[c].inq = "none"
    BY Zenon DEF Proceeds
  <1>3. OneThing(c)
    BY Zenon DEF ConnInv
  <1>4. conn[c].cli \notin {"none", "idle"}
    BY <1>1, <1>3, Zenon DEF OneThing, Empty
  <1>5. ASSUME NEW d \in Conns PROVE OneThing(d)'
    <2>1. CASE d = c
      BY <1>1, <1>2, <1>4, <2>1, Zenon DEF OneThing, Empty, Live
    <2>2. CASE d # c
      BY <1>2, <2>2, Zenon DEF ConnInv, OneThing, Empty, Live
    <2> QED
      BY <2>1, <2>2, Zenon
  <1>6. OwnConnection'
    <2> SUFFICES ASSUME NEW s \in Requests, Sent(s)'
                 PROVE  req'[s].conn \in Conns /\ Carries(req[s].conn, s)'
      BY Zenon DEF OwnConnection
    <2>1. Sent(s) /\ req[s].conn \in Conns /\ Carries(req[s].conn, s) /\ req'[s] = req[s]
      BY <1>2, Zenon DEF ConnInv, OwnConnection, Sent
    <2>2. CASE req[s].conn = c
      <3>1. r = s
        BY <1>1, <2>1, <2>2, Zenon DEF Carries
      <3>2. conn[c].outq # NoAnswer => conn[c].outq.r = s
        BY <2>1, <2>2, Zenon DEF Carries
      <3>3. conn'[c].outq # NoAnswer => conn'[c].outq.r = s
        BY <1>1, <3>1, <3>2, Zenon
      <3>4. conn'[c].cli = "used"
        BY <1>2, <2>1, <2>2, Zenon DEF Carries
      <3> QED
        BY <1>1, <1>2, <2>1, <2>2, <3>1, <3>3, <3>4, Zenon DEF Carries, Live
    <2>3. CASE req[s].conn # c
      BY <1>2, <2>1, <2>3, Zenon DEF Carries, Live
    <2> QED
      BY <2>2, <2>3, Zenon
  <1>7. NoSharing' /\ NoCrossedAnswers'
    BY <1>2, Zenon DEF ConnInv, NoSharing, NoCrossedAnswers, Sent
  <1>8. \A d \in Conns : conn'[d].cli = conn[d].cli
    BY <1>2, Zenon
  <1>9. PoolIsIdle'
    <2>1. PoolIsIdle /\ pool' = pool
      BY <1>2, Zenon DEF ConnInv
    <2>2. \A d \in Conns : conn'[d].cli = "idle" <=> \E i \in DOMAIN pool' : pool'[i] = d
      BY <1>8, <2>1, Zenon DEF PoolIsIdle
    <2> QED
      BY <2>1, <2>2, Zenon DEF PoolIsIdle
  <1> QED
    BY <1>5, <1>6, <1>7, <1>9, Zenon DEF ConnInv

\* Requests that are not on a connection change, or nothing does.
LEMMA AloneKeeps ==
  ASSUME ConnInv, conn' = conn, exec' = exec, pool' = pool,
         \A s \in Requests : req'[s] = req[s]
                             \/ (~Sent(s) /\ ~Sent(s)' /\ req'[s].answer \in {NoAnswer, req[s].answer})
  PROVE  ConnInv'
  <1>1. \A s \in Requests : Sent(s)' => Sent(s) /\ req'[s] = req[s]
    BY Zenon DEF Sent
  <1>a. OwnConnection /\ NoSharing /\ NoCrossedAnswers /\ PoolIsIdle
    BY Zenon DEF ConnInv
  <1>2. OwnConnection'
    <2> SUFFICES ASSUME NEW s \in Requests, Sent(s)'
                 PROVE  req'[s].conn \in Conns /\ Carries(req[s].conn, s)'
      BY Zenon DEF OwnConnection
    <2>1. Sent(s) /\ req'[s] = req[s]
      BY <1>1, Zenon
    <2>2. req[s].conn \in Conns /\ Carries(req[s].conn, s)
      BY <1>a, <2>1, Zenon DEF OwnConnection
    <2>3. req'[s].conn = req[s].conn
      BY <2>1, Zenon
    <2>4. Carries(req[s].conn, s)'
      BY <2>2, <2>3, Zenon DEF Carries, Live
    <2> QED
      BY <2>2, <2>3, <2>4, Zenon
  <1>3. NoSharing'
    BY <1>1, Zenon DEF ConnInv, NoSharing
  <1>4. NoCrossedAnswers'
    BY Zenon DEF ConnInv, NoCrossedAnswers
  <1>5. PoolIsIdle'
    BY Zenon DEF ConnInv, PoolIsIdle
  <1>6. \A c \in Conns : OneThing(c)'
    BY Zenon DEF ConnInv, OneThing, Empty, Live
  <1> QED
    BY <1>2, <1>3, <1>4, <1>5, <1>6, Zenon DEF ConnInv

\* A request is put on an unused connection; others may leave the pool.
PutOn(r, c) ==
    /\ ~Sent(r) /\ Sent(r)' /\ req'[r].conn = c /\ req'[r].answer = req[r].answer
    /\ conn[c].cli \in {"none", "idle"}
    /\ conn'[c].cli = "used" /\ conn'[c].inq = r /\ conn'[c].outq = NoAnswer
Dropped(d) ==
    /\ conn[d].cli = "idle" /\ conn'[d].cli = "closed" /\ conn'[d].inq = conn[d].inq
    /\ conn'[d].outq = conn[d].outq /\ conn'[d].srv = conn[d].srv
Rest(r, c) ==
    /\ exec' = exec /\ PoolIsIdle'
    /\ \A s \in Requests \ {r} : req'[s] = req[s]
    /\ \A d \in Conns \ {c} : conn'[d] = conn[d] \/ Dropped(d)

\* That crosses nothing.
LEMMA SendKeeps ==
  ASSUME ConnInv, NEW r \in Requests, NEW c \in Conns, PutOn(r, c), Rest(r, c)
  PROVE  ConnInv'
  <1>a. exec' = exec /\ PoolIsIdle'
    BY Zenon DEF Rest
  <1>b. \A s \in Requests \ {r} : req'[s] = req[s]
    BY Zenon DEF Rest
  <1>c. \A d \in Conns \ {c} : conn'[d] = conn[d] \/ Dropped(d)
    BY Zenon DEF Rest
  <1>d. /\ ~Sent(r) /\ Sent(r)' /\ req'[r].conn = c /\ req'[r].answer = req[r].answer
        /\ conn[c].cli \in {"none", "idle"}
        /\ conn'[c].cli = "used" /\ conn'[c].inq = r /\ conn'[c].outq = NoAnswer
    BY Zenon DEF PutOn
  <1>1. ~Live(c) /\ Empty(c)
    BY <1>d, Zenon DEF ConnInv, OneThing, Empty
  <1>2. \A s \in Requests \ {r} : Sent(s)' => Sent(s) /\ req'[s] = req[s] /\ req[s].conn \in Conns
                                            /\ Carries(req[s].conn, s)
    BY <1>b, Zenon DEF ConnInv, OwnConnection, Sent
  <1>3. \A s \in Requests \ {r} : Sent(s)' => req[s].conn # c
    BY <1>2, <1>d, Zenon DEF Carries
  <1>4. OwnConnection'
    <2> SUFFICES ASSUME NEW s \in Requests, Sent(s)'
                 PROVE  req'[s].conn \in Conns /\ Carries(req[s].conn, s)'
      BY Zenon DEF OwnConnection
    <2>1. CASE s = r
      BY <1>1, <1>a, <1>d, <2>1, Zenon DEF Carries, Live
    <2>2. CASE s # r
      <3>1. /\ req'[s] = req[s] /\ req[s].conn \in Conns \ {c} /\ Carries(req[s].conn, s)
        BY <1>2, <1>3, <2>2, Zenon
      <3>2. conn'[req[s].conn] = conn[req[s].conn]
        BY <1>c, <3>1, Zenon DEF Carries, Dropped
      <3> QED
        BY <1>a, <3>1, <3>2, Zenon DEF Carries, Live
    <2> QED
      BY <2>1, <2>2, Zenon
  <1>5. NoSharing'
    <2> SUFFICES ASSUME NEW s \in Requests, NEW u \in Requests, Sent(s)', Sent(u)',
                        req'[s].conn = req'[u].conn
                 PROVE  s = u
      BY Zenon DEF NoSharing
    <2>1. CASE s = r \/ u = r
      BY <1>2, <1>3, <1>d, <2>1, Zenon
    <2>2. CASE s # r /\ u # r
      BY <1>2, <2>2, Zenon DEF ConnInv, NoSharing
    <2> QED
      BY <2>1, <2>2, Zenon
  <1>6. NoCrossedAnswers'
    BY <1>b, <1>d, Zenon DEF ConnInv, NoCrossedAnswers
  <1>7. ASSUME NEW d \in Conns PROVE OneThing(d)'
    <2>1. OneThing(d)
      BY Zenon DEF ConnInv
    <2>2. CASE d = c
      BY <1>1, <1>a, <1>d, <2>2, Zenon DEF OneThing, Live
    <2>3. CASE d # c
      <3>1. CASE conn'[d] = conn[d]
        BY <1>a, <2>1, <3>1, Zenon DEF OneThing, Empty, Live
      <3>2. CASE Dropped(d)
        BY <1>a, <2>1, <3>2, Zenon DEF OneThing, Empty, Live, Dropped
      <3> QED
        BY <1>c, <2>3, <3>1, <3>2, Zenon
    <2> QED
      BY <2>2, <2>3, Zenon
  <1> QED
    BY <1>4, <1>5, <1>6, <1>7, <1>a, Zenon DEF ConnInv

\* A request in flight ends; its connection is closed, or empty and pooled.
LEMMA EndKeeps ==
  ASSUME ConnInv, NEW r \in Requests, Sent(r), NEW c \in Conns, req[r].conn = c,
         exec' = exec, ~Sent(r)', req'[r].answer # NoAnswer => req'[r].answer.r = r,
         \A s \in Requests \ {r} : req'[s] = req[s],
         \A d \in Conns \ {c} : conn'[d] = conn[d],
         conn'[c].cli \in {"closed", "idle"}, OneThing(c)', PoolIsIdle'
  PROVE  ConnInv'
  <1>1. \A s \in Requests : Sent(s)' => s # r /\ Sent(s) /\ req'[s] = req[s]
    BY Zenon DEF Sent
  <1>2. \A s \in Requests : Sent(s)' => req[s].conn # c /\ req[s].conn \in Conns
                                        /\ Carries(req[s].conn, s)
    BY <1>1, Zenon DEF ConnInv, NoSharing, OwnConnection
  <1>3. OwnConnection'
    <2> SUFFICES ASSUME NEW s \in Requests, Sent(s)'
                 PROVE  req'[s].conn \in Conns /\ Carries(req[s].conn, s)'
      BY Zenon DEF OwnConnection
    <2>1. /\ req'[s] = req[s] /\ req[s].conn \in Conns /\ Carries(req[s].conn, s)
          /\ conn'[req[s].conn] = conn[req[s].conn]
      BY <1>1, <1>2, Zenon
    <2> QED
      BY <2>1, Zenon DEF Carries, Live
  <1>4. NoSharing'
    <2> SUFFICES ASSUME NEW s \in Requests, NEW u \in Requests, Sent(s)', Sent(u)',
                        req'[s].conn = req'[u].conn
                 PROVE  s = u
      BY Zenon DEF NoSharing
    <2>1. Sent(s) /\ Sent(u) /\ req[s].conn = req[u].conn
      BY <1>1, Zenon
    <2> QED
      BY <2>1, Zenon DEF ConnInv, NoSharing
  <1>5. NoCrossedAnswers'
    BY Zenon DEF ConnInv, NoCrossedAnswers
  <1>6. \A d \in Conns \ {c} : OneThing(d)'
    <2> SUFFICES ASSUME NEW d \in Conns \ {c}
                 PROVE  OneThing(d)'
      BY Zenon
    <2>1. OneThing(d) /\ conn'[d] = conn[d] /\ exec'[d] = exec[d]
      BY Zenon DEF ConnInv
    <2> QED
      BY <2>1, Zenon DEF OneThing, Empty, Live
  <1> QED
    BY <1>3, <1>4, <1>5, <1>6, Zenon DEF ConnInv

\* Tasks end at the server, with what they executed.
LEMMA TasksEndKeeps ==
  ASSUME ConnInv, req' = req, pool' = pool,
         \A c \in Conns :
           /\ conn'[c].cli = conn[c].cli /\ conn'[c].inq = conn[c].inq
           /\ conn'[c].outq = conn[c].outq
           /\ exec'[c] = NoExec \/ (exec'[c] = exec[c] /\ conn'[c].srv = conn[c].srv)
  PROVE  ConnInv'
  <1>1. \A c \in Conns : Live(c)' => Live(c) /\ exec'[c] = exec[c] /\ conn'[c].srv = conn[c].srv
    BY Zenon DEF Live
  <1>2. OwnConnection'
    <2> SUFFICES ASSUME NEW s \in Requests, Sent(s)'
                 PROVE  req'[s].conn \in Conns /\ Carries(req[s].conn, s)'
      BY Zenon DEF OwnConnection
    <2>1. req'[s] = req[s] /\ req[s].conn \in Conns /\ Carries(req[s].conn, s)
      BY Zenon DEF ConnInv, OwnConnection, Sent
    <2> QED
      BY <1>1, <2>1, Zenon DEF Carries
  <1>3. NoSharing' /\ NoCrossedAnswers'
    BY Zenon DEF ConnInv, NoSharing, NoCrossedAnswers, Sent
  <1>4. PoolIsIdle'
    <2>1. PoolIsIdle /\ pool' = pool /\ \A d \in Conns : conn'[d].cli = conn[d].cli
      BY Zenon DEF ConnInv
    <2>2. \A d \in Conns : conn'[d].cli = "idle" <=> \E i \in DOMAIN pool' : pool'[i] = d
      <3> SUFFICES ASSUME NEW d \in Conns
                   PROVE  conn'[d].cli = "idle" <=> \E i \in DOMAIN pool' : pool'[i] = d
        BY Zenon
      <3>1. conn[d].cli = "idle" <=> \E i \in DOMAIN pool : pool[i] = d
        BY <2>1, Zenon DEF PoolIsIdle
      <3>2. conn'[d].cli = conn[d].cli /\ pool' = pool
        BY <2>1, Zenon
      <3> QED
        BY <3>1, <3>2
    <2> QED
      BY <2>1, <2>2, Zenon DEF PoolIsIdle
  <1>5. \A c \in Conns : OneThing(c)'
    <2> SUFFICES ASSUME NEW c \in Conns
                 PROVE  OneThing(c)'
      BY Zenon
    <2>1. /\ conn'[c].cli = conn[c].cli /\ conn'[c].inq = conn[c].inq /\ conn'[c].outq = conn[c].outq
          /\ Live(c)' => Live(c) /\ conn'[c].srv = conn[c].srv
      BY <1>1, Zenon
    <2>2. OneThing(c)
      BY Zenon DEF ConnInv
    <2> QED
      BY <2>1, <2>2, Zenon DEF OneThing, Empty
  <1> QED
    BY <1>2, <1>3, <1>4, <1>5, Zenon DEF ConnInv

-----------------------------------------------------------------------------
(* What the actions do to a connection.                                    *)

\* An answer is written, unless the client is gone; the task goes on or ends.
LEMMA RespondEffect ==
  ASSUME Typed, NEW c \in Conns, NEW r \in Requests, NEW ok \in BOOLEAN, Respond(c, r, ok)
  PROVE  /\ conn' \in [Conns -> ConnStates]
         /\ \A d \in Conns \ {c} : conn'[d] = conn[d]
         /\ conn'[c].cli = conn[c].cli /\ conn'[c].control = conn[c].control
         /\ conn'[c].inq = "none"
         /\ conn'[c].outq = conn[c].outq \/ conn'[c].outq.r = r
         /\ \/ conn'[c].srv = "gone" /\ CloseServerSide(c)
            \/ conn'[c].srv = conn[c].srv /\ UNCHANGED <<serverFree, reserve>>
  <1> DEFINE close == conn[c].control \/ conn[c].served + 1 >= MaxServed
             out == IF conn[c].outq = NoAnswer /\ conn[c].cli # "closed"
                    THEN [r |-> r, ok |-> ok, close |-> close] ELSE conn[c].outq
             new == [conn[c] EXCEPT !.outq = out, !.inq = "none", !.served = @ + 1,
                                    !.srv = IF close THEN "gone" ELSE @]
  <1>1. /\ conn \in [Conns -> ConnStates] /\ conn[c] \in ConnStates
    BY Zenon DEF Typed
  <1>2. conn' = [conn EXCEPT ![c] = new]
    BY <1>1, Zenon DEF Respond
  <1>3. IF close THEN CloseServerSide(c) ELSE UNCHANGED <<serverFree, reserve>>
    BY Zenon DEF Respond
  <1>4. close \in BOOLEAN
    BY <1>1 DEF ConnStates
  <1> HIDE DEF close
  <1>5. [r |-> r, ok |-> ok, close |-> close] \in Answers /\ [r |-> r, ok |-> ok, close |-> close].r = r
    BY <1>4, Zenon DEF Answers
  <1>6. out \in Answers /\ (out = conn[c].outq \/ out.r = r)
    BY <1>1, <1>5 DEF ConnStates
  <1> HIDE DEF out
  <1>7. /\ new \in ConnStates /\ new.cli = conn[c].cli /\ new.control = conn[c].control
        /\ new.inq = "none" /\ new.outq = out
        /\ new.srv = IF close THEN "gone" ELSE conn[c].srv
    <2> DEFINE x == conn[c]
               n == x.served + 1
               v == IF close THEN "gone" ELSE x.srv
    <2>1. x \in ConnStates /\ out \in Answers
      BY <1>1, <1>6, Zenon
    <2>2. /\ n \in Nat /\ v \in {"none", "open", "gone"}
      BY <2>1 DEF ConnStates
    <2> DEFINE x1 == [x EXCEPT !.outq = out]
               x2 == [x1 EXCEPT !.inq = "none"]
               x3 == [x2 EXCEPT !.served = n]
               x4 == [x3 EXCEPT !.srv = v]
    <2>3. new = x4
      <3>1. x1.served = x.served /\ x2.served = x1.served /\ x3.srv = x2.srv /\ x2.srv = x1.srv
            /\ x1.srv = x.srv
        BY <2>1 DEF ConnStates
      <3> QED
        BY <2>1, <3>1
    <2> HIDE DEF x, n, v, new
    <2>4. x1 \in ConnStates /\ x1.cli = x.cli /\ x1.control = x.control /\ x1.outq = out
      BY <2>1 DEF ConnStates
    <2> HIDE DEF x1
    <2>5. x2 \in ConnStates /\ x2.cli = x1.cli /\ x2.control = x1.control /\ x2.outq = x1.outq
          /\ x2.inq = "none"
      BY <2>4 DEF ConnStates
    <2> HIDE DEF x2
    <2>6. x3 \in ConnStates /\ x3.cli = x2.cli /\ x3.control = x2.control /\ x3.outq = x2.outq
          /\ x3.inq = x2.inq
      BY <2>2, <2>5 DEF ConnStates
    <2> HIDE DEF x3
    <2>7. x4 \in ConnStates /\ x4.cli = x3.cli /\ x4.control = x3.control /\ x4.outq = x3.outq
          /\ x4.inq = x3.inq /\ x4.srv = v
      BY <2>2, <2>6 DEF ConnStates
    <2> QED
      BY <2>3, <2>4, <2>5, <2>6, <2>7, Zenon DEF x, v
  <1> HIDE DEF new
  <1>8. conn' \in [Conns -> ConnStates] /\ conn'[c] = new
        /\ \A d \in Conns \ {c} : conn'[d] = conn[d]
    BY <1>1, <1>2, <1>7, Zenon
  <1> QED
    BY <1>3, <1>6, <1>7, <1>8, Zenon

-----------------------------------------------------------------------------
(* Types.                                                                  *)

\* Fields of a request that a step of it sets.
LEMMA ReqSet ==
  ASSUME Typed, NEW r \in Requests
  PROVE  /\ \A at \in {"new", "gated", "sent", "done", "failed"} :
              /\ [req EXCEPT ![r].at = at] \in [Requests -> Reqs]
              /\ \A c \in Conns : [req EXCEPT ![r].at = at, ![r].conn = c] \in [Requests -> Reqs]
              /\ \A a \in Answers : [req EXCEPT ![r].at = at, ![r].answer = a] \in [Requests -> Reqs]
         /\ req[r] \in Reqs
  <1>1. req \in [Requests -> Reqs] /\ req[r] \in Reqs
    BY Zenon DEF Typed
  <1>2. ASSUME NEW at \in {"new", "gated", "sent", "done", "failed"}
        PROVE  /\ [req EXCEPT ![r].at = at] \in [Requests -> Reqs]
               /\ \A c \in Conns : [req EXCEPT ![r].at = at, ![r].conn = c] \in [Requests -> Reqs]
               /\ \A a \in Answers : [req EXCEPT ![r].at = at, ![r].answer = a] \in [Requests -> Reqs]
    <2>1. [req[r] EXCEPT !.at = at] \in Reqs
      BY <1>1, Zenon DEF Reqs
    <2>2. [req EXCEPT ![r].at = at] \in [Requests -> Reqs]
      BY <1>1, <2>1, Zenon
    <2>3. ASSUME NEW c \in Conns
          PROVE  [req EXCEPT ![r].at = at, ![r].conn = c] \in [Requests -> Reqs]
      <3>1. [req[r] EXCEPT !.at = at, !.conn = c] \in Reqs
        BY <1>1, Zenon DEF Reqs
      <3> QED
        BY <1>1, <3>1, Zenon
    <2>4. ASSUME NEW a \in Answers
          PROVE  [req EXCEPT ![r].at = at, ![r].answer = a] \in [Requests -> Reqs]
      <3>1. [req[r] EXCEPT !.at = at, !.answer = a] \in Reqs
        BY <1>1, Zenon DEF Reqs
      <3> QED
        BY <1>1, <3>1, Zenon
    <2> QED
      BY <2>2, <2>3, <2>4, Zenon
  <1> QED
    BY <1>1, <1>2, Zenon

\* A request ends: it is no longer in flight and has that answer.
LEMMA LeaveEffect ==
  ASSUME Typed, NEW r \in Requests, NEW outcome \in {"done", "failed"}, NEW answer \in Answers,
         Leave(r, outcome, answer)
  PROVE  /\ req' \in [Requests -> Reqs] /\ ~Sent(r)' /\ req'[r].answer = answer
         /\ \A s \in Requests \ {r} : req'[s] = req[s]
         /\ clientFree' \in Nat /\ controlGate' \in Nat
  <1>1. req' = [req EXCEPT ![r].at = outcome, ![r].answer = answer]
    BY Zenon DEF Leave
  <1>2. req' \in [Requests -> Reqs]
    BY <1>1, ReqSet, Zenon
  <1>3. req \in [Requests -> Reqs] /\ req[r] \in Reqs
    BY Zenon DEF Typed
  <1>4. req'[r].at = outcome /\ req'[r].answer = answer
    BY <1>1, <1>3 DEF Reqs
  <1>5. \A s \in Requests \ {r} : req'[s] = req[s]
    BY <1>1, <1>3, Zenon
  <1>6. clientFree' \in Nat /\ controlGate' \in Nat
    BY DEF Leave, Typed
  <1> QED
    BY <1>2, <1>4, <1>5, <1>6, Zenon DEF Sent

\* What an action of the client leaves alone.
ServerTyped ==
    /\ plan \in Plans /\ exec \in [Conns -> Execs] /\ entries \in [Keys -> EntryStates]
    /\ nextToken \in Nat \ {0} /\ acked \subseteq Nat /\ gates \in [Gates -> Nat]
    /\ stop \in {"up", "draining", "stopped"}
LEMMA ServerSame ==
  ASSUME Typed, UNCHANGED plan, UNCHANGED <<exec, entries, nextToken, cancelled, acked, gates, stop>>
  PROVE  ServerTyped'
  BY Zenon DEF Typed, ServerTyped

\* The types, part by part.
LEMMA TypedParts ==
  ASSUME ServerTyped', req' \in [Requests -> Reqs], conn' \in [Conns -> ConnStates],
         pool' \in Seq(Conns), clientFree' \in Nat, controlGate' \in Nat, serverFree' \in Nat,
         reserve' \in Nat
  PROVE  Typed'
  BY Zenon DEF Typed, ServerTyped

\* AcquireConnection: the request is gated.
LEMMA AcquireKeeps ==
  ASSUME Typed, ConnInv, NEW r \in Requests, AcquireConnection(r)
  PROVE  Typed' /\ ConnInv'
  <1>1. /\ req[r].at = "new" /\ req' = [req EXCEPT ![r].at = "gated"]
        /\ UNCHANGED <<plan, pool, conn, aged, serverVars>>
    BY Zenon DEF AcquireConnection
  <1>2. clientFree' \in Nat /\ controlGate' \in Nat
    BY DEF AcquireConnection, Typed
  <1>3. UNCHANGED <<exec, entries, nextToken, cancelled, acked, gates, stop, serverFree, reserve>>
    BY <1>1, Zenon DEF serverVars
  <1>4. Typed'
    <2>1. ServerTyped'
      BY <1>1, <1>3, ServerSame, Zenon
    <2>2. req' \in [Requests -> Reqs]
      BY <1>1, ReqSet, Zenon
    <2>3. conn' \in [Conns -> ConnStates] /\ pool' \in Seq(Conns) /\ serverFree' \in Nat /\ reserve' \in Nat
      BY <1>1, <1>3, Zenon DEF Typed
    <2> QED
      BY <1>2, <2>1, <2>2, <2>3, TypedParts, Zenon
  <1>5. ConnInv'
    <2>1. req \in [Requests -> Reqs] /\ req[r] \in Reqs
      BY Zenon DEF Typed
    <2>2. req'[r].at = "gated" /\ req'[r].answer = req[r].answer /\ req'[r].conn = req[r].conn
      BY <1>1, <2>1 DEF Reqs
    <2>3. \A s \in Requests \ {r} : req'[s] = req[s]
      BY <1>1, <2>1, Zenon
    <2>4. ~Sent(r) /\ ~Sent(r)'
      BY <1>1, <2>2, Zenon DEF Sent
    <2>5. \A s \in Requests : req'[s] = req[s]
                             \/ (~Sent(s) /\ ~Sent(s)' /\ req'[s].answer \in {NoAnswer, req[s].answer})
      BY <2>2, <2>3, <2>4, Zenon
    <2>6. conn' = conn /\ exec' = exec /\ pool' = pool
      BY <1>1, <1>3, Zenon
    <2> QED
      BY <2>5, <2>6, AloneKeeps, Zenon
  <1> QED
    BY <1>4, <1>5, Zenon

\* A gated request fails: no server listens, or the client gives up.
LEMMA GatedFailsKeeps ==
  ASSUME Typed, ConnInv, NEW r \in Requests, req[r].at = "gated", Leave(r, "failed", NoAnswer),
         UNCHANGED <<plan, pool, conn, aged, serverVars>>
  PROVE  Typed' /\ ConnInv'
  <1>1. /\ req' \in [Requests -> Reqs] /\ ~Sent(r)' /\ req'[r].answer = NoAnswer
        /\ \A s \in Requests \ {r} : req'[s] = req[s]
        /\ clientFree' \in Nat /\ controlGate' \in Nat
    BY LeaveEffect, Records, Zenon
  <1>2. /\ plan' = plan /\ pool' = pool /\ conn' = conn
        /\ UNCHANGED <<exec, entries, nextToken, cancelled, acked, gates, stop, serverFree, reserve>>
    BY Zenon DEF serverVars
  <1>3. ServerTyped'
    BY <1>2, ServerSame, Zenon
  <1>4. conn' \in [Conns -> ConnStates] /\ pool' \in Seq(Conns) /\ serverFree' \in Nat /\ reserve' \in Nat
    BY <1>2, Zenon DEF Typed
  <1>5. Typed'
    BY <1>1, <1>3, <1>4, TypedParts, Zenon
  <1>6. ~Sent(r)
    BY Zenon DEF Sent
  <1>7. \A s \in Requests : req'[s] = req[s]
                           \/ (~Sent(s) /\ ~Sent(s)' /\ req'[s].answer \in {NoAnswer, req[s].answer})
    BY <1>1, <1>6, Zenon
  <1>8. exec' = exec
    BY <1>2, Zenon
  <1>9. ConnInv'
    BY <1>2, <1>7, <1>8, AloneKeeps, Zenon
  <1> QED
    BY <1>5, <1>9, Zenon

\* A request in flight ends with answer a; the client's end of its connection is
\* closed, or back in the pool, and the frames on it are i and o.
EndsWith(r, c, outcome, a, k, i, o) ==
    /\ Sent(r) /\ c = req[r].conn /\ Leave(r, outcome, a) /\ (a # NoAnswer => a.r = r)
    /\ conn' = [conn EXCEPT ![c] = [conn[c] EXCEPT !.cli = k, !.inq = i, !.outq = o]]
    /\ i \in {conn[c].inq, "none"} /\ o \in {conn[c].outq, NoAnswer}
    /\ k = "idle" => i = "none" /\ o = NoAnswer /\ ~Live(c)
    /\ pool' \in Seq(Conns) /\ PoolIsIdle'
    /\ UNCHANGED plan /\ UNCHANGED serverVars
\* That crosses nothing.
LEMMA SentEndsKeeps ==
  ASSUME Typed, ConnInv, NEW r \in Requests, NEW c \in Conns, NEW outcome \in {"done", "failed"},
         NEW a \in Answers, NEW k \in {"closed", "idle"}, NEW i \in Requests \cup {"none"},
         NEW o \in Answers, EndsWith(r, c, outcome, a, k, i, o)
  PROVE  Typed' /\ ConnInv'
  <1>a. /\ Sent(r) /\ c = req[r].conn /\ Leave(r, outcome, a) /\ (a # NoAnswer => a.r = r)
        /\ conn' = [conn EXCEPT ![c] = [conn[c] EXCEPT !.cli = k, !.inq = i, !.outq = o]]
        /\ i \in {conn[c].inq, "none"} /\ o \in {conn[c].outq, NoAnswer}
        /\ k = "idle" => i = "none" /\ o = NoAnswer /\ ~Live(c)
    BY Zenon DEF EndsWith
  <1>b. pool' \in Seq(Conns) /\ PoolIsIdle' /\ UNCHANGED plan /\ UNCHANGED serverVars
    BY Zenon DEF EndsWith
  <1>1. /\ req' \in [Requests -> Reqs] /\ ~Sent(r)' /\ req'[r].answer = a
        /\ \A s \in Requests \ {r} : req'[s] = req[s]
        /\ clientFree' \in Nat /\ controlGate' \in Nat
    BY <1>a, LeaveEffect, Zenon
  <1>2. UNCHANGED <<exec, entries, nextToken, cancelled, acked, gates, stop, serverFree, reserve>>
    BY <1>b, Zenon DEF serverVars
  <1> DEFINE new == [conn[c] EXCEPT !.cli = k, !.inq = i, !.outq = o]
  <1>3. conn \in [Conns -> ConnStates] /\ conn[c] \in ConnStates
    BY Zenon DEF Typed
  <1>4. /\ new \in ConnStates /\ new.cli = k /\ new.inq = i /\ new.outq = o
        /\ new.srv = conn[c].srv
    BY <1>3, Zenon DEF ConnStates
  <1>5. conn' \in [Conns -> ConnStates] /\ conn'[c] = new /\ \A d \in Conns \ {c} : conn'[d] = conn[d]
    <2> HIDE DEF new
    <2> QED
      BY <1>a, <1>3, <1>4, Zenon DEF new
  <1> HIDE DEF new
  <1>6. ServerTyped'
    BY <1>2, <1>b, ServerSame, Zenon
  <1>7. serverFree' \in Nat /\ reserve' \in Nat
    BY <1>2, Zenon DEF Typed
  <1>8. Typed'
    BY <1>1, <1>5, <1>6, <1>7, <1>b, TypedParts, Zenon
  <1>9. OneThing(c)'
    <2>1. OneThing(c) /\ exec'[c] = exec[c]
      BY <1>2, Zenon DEF ConnInv
    <2> QED
      BY <1>4, <1>5, <1>a, <2>1, Zenon DEF OneThing, Empty, Live
  <1>10. /\ exec' = exec /\ req[r].conn = c /\ conn'[c].cli \in {"closed", "idle"}
         /\ (req'[r].answer # NoAnswer => req'[r].answer.r = r)
    BY <1>1, <1>2, <1>4, <1>5, <1>a, Zenon
  <1>11. ConnInv'
    BY <1>1, <1>5, <1>9, <1>10, <1>a, <1>b, EndKeeps, Zenon
  <1> QED
    BY <1>8, <1>11, Zenon

\* The pool stays when no connection becomes idle or ceases to be.
LEMMA PoolKept ==
  ASSUME ConnInv, pool' = pool, \A d \in Conns : conn'[d].cli = "idle" <=> conn[d].cli = "idle"
  PROVE  PoolIsIdle'
  BY Zenon DEF ConnInv, PoolIsIdle

\* ConnectionBroken: the server has closed the connection of the request.
LEMMA BrokenKeeps ==
  ASSUME Typed, ConnInv, NEW r \in Requests, ConnectionBroken(r)
  PROVE  Typed' /\ ConnInv'
  <1> DEFINE c == req[r].conn
  <1>1. /\ Sent(r) /\ Leave(r, "failed", NoAnswer) /\ conn[c].outq = NoAnswer
        /\ conn' = [conn EXCEPT ![c].cli = "closed", ![c].inq = "none"]
        /\ pool' = pool /\ UNCHANGED plan /\ UNCHANGED serverVars
    BY Zenon DEF ConnectionBroken, Sent
  <1>2. c \in Conns /\ conn[c].cli = "used"
    BY <1>1, Zenon DEF ConnInv, OwnConnection, Carries
  <1> HIDE DEF c
  <1>3. conn \in [Conns -> ConnStates] /\ conn[c] \in ConnStates /\ pool \in Seq(Conns)
    BY <1>2, Zenon DEF Typed
  <1>4. conn' = [conn EXCEPT ![c] = [conn[c] EXCEPT !.cli = "closed", !.inq = "none", !.outq = NoAnswer]]
    <2>1. [conn[c] EXCEPT !.cli = "closed", !.inq = "none", !.outq = NoAnswer]
            = [conn[c] EXCEPT !.cli = "closed", !.inq = "none"]
      BY <1>1, <1>3, Zenon DEF ConnStates
    <2> QED
      BY <1>1, <1>2, <1>3, <2>1, Zenon
  <1>5. \A d \in Conns : conn'[d].cli = IF d = c THEN "closed" ELSE conn[d].cli
    BY <1>1, <1>2, <1>3 DEF ConnStates
  <1>6. PoolIsIdle'
    <2>1. \A d \in Conns : conn'[d].cli = "idle" <=> conn[d].cli = "idle"
      BY <1>2, <1>5
    <2> QED
      BY <1>1, <2>1, PoolKept, Zenon
  <1>7. EndsWith(r, c, "failed", NoAnswer, "closed", "none", NoAnswer)
    BY <1>1, <1>3, <1>4, <1>6, Zenon DEF c, EndsWith
  <1> QED
    BY <1>2, <1>7, SentEndsKeeps, Records, Zenon

\* ClientTimeout: the request ends with its connection, if it has one.
LEMMA TimeoutKeeps ==
  ASSUME Typed, ConnInv, NEW r \in Requests, ClientTimeout(r)
  PROVE  Typed' /\ ConnInv'
  <1>1. /\ req[r].at \in {"gated", "sent"} /\ Leave(r, "failed", NoAnswer)
        /\ conn' = IF req[r].at = "sent" THEN [conn EXCEPT ![req[r].conn].cli = "closed"] ELSE conn
        /\ UNCHANGED <<plan, pool, aged, serverVars>>
    BY Zenon DEF ClientTimeout
  <1>2. CASE req[r].at = "gated"
    <2>1. conn' = conn
      BY <1>1, <1>2
    <2>2. UNCHANGED <<plan, pool, conn, aged, serverVars>>
      BY <1>1, <2>1, Zenon
    <2> QED
      BY <1>1, <1>2, <2>2, GatedFailsKeeps, Zenon
  <1>3. CASE req[r].at = "sent"
    <2> DEFINE c == req[r].conn
    <2>1. Sent(r) /\ conn' = [conn EXCEPT ![c].cli = "closed"]
      BY <1>1, <1>3, Zenon DEF Sent
    <2>2. c \in Conns /\ conn[c].cli = "used"
      BY <2>1, Zenon DEF ConnInv, OwnConnection, Carries
    <2> HIDE DEF c
    <2>3. conn \in [Conns -> ConnStates] /\ conn[c] \in ConnStates /\ pool \in Seq(Conns)
      BY <2>2, Zenon DEF Typed
    <2>4. /\ conn[c].inq \in Requests \cup {"none"} /\ conn[c].outq \in Answers
          /\ conn' = [conn EXCEPT ![c] = [conn[c] EXCEPT !.cli = "closed", !.inq = conn[c].inq,
                                                         !.outq = conn[c].outq]]
      <3>1. conn[c].inq \in Requests \cup {"none"} /\ conn[c].outq \in Answers
        BY <2>3, Zenon DEF ConnStates
      <3>2. [conn[c] EXCEPT !.cli = "closed", !.inq = conn[c].inq, !.outq = conn[c].outq]
              = [conn[c] EXCEPT !.cli = "closed"]
        BY <2>3, Zenon DEF ConnStates
      <3> QED
        BY <2>1, <2>2, <2>3, <3>1, <3>2, Zenon
    <2>5. \A d \in Conns : conn'[d].cli = IF d = c THEN "closed" ELSE conn[d].cli
      BY <2>1, <2>2, <2>3 DEF ConnStates
    <2>6. PoolIsIdle'
      <3>1. \A d \in Conns : conn'[d].cli = "idle" <=> conn[d].cli = "idle"
        BY <2>2, <2>5
      <3> QED
        BY <1>1, <3>1, PoolKept, Zenon
    <2>7. /\ pool' \in Seq(Conns) /\ UNCHANGED plan /\ UNCHANGED serverVars
      BY <1>1, <2>3, Zenon
    <2>8. EndsWith(r, c, "failed", NoAnswer, "closed", conn[c].inq, conn[c].outq)
      BY <1>1, <2>1, <2>4, <2>6, <2>7, Zenon DEF c, EndsWith
    <2> QED
      BY <2>2, <2>4, <2>8, SentEndsKeeps, Records, Zenon
  <1> QED
    BY <1>1, <1>2, <1>3, Zenon

\* A connection that was in use is put at the end of the pool.
LEMMA Pooled ==
  ASSUME Typed, ConnInv, NEW c \in Conns, conn[c].cli # "idle", Len(pool) < MaxIdle,
         pool' = Append(pool, c), \A d \in Conns : conn'[d].cli = IF d = c THEN "idle" ELSE conn[d].cli
  PROVE  PoolIsIdle' /\ pool' \in Seq(Conns)
  <1>1. /\ pool \in Seq(Conns) /\ MaxIdle \in Nat
        /\ \A d \in Conns : conn[d].cli = "idle" <=> \E i \in DOMAIN pool : pool[i] = d
        /\ \A i, j \in DOMAIN pool : pool[i] = pool[j] => i = j
    BY TransportAssumption, Zenon DEF Typed, ConnInv, PoolIsIdle
  <1>2. /\ pool' \in Seq(Conns) /\ Len(pool') = Len(pool) + 1 /\ Len(pool) \in Nat
        /\ DOMAIN pool = 1 .. Len(pool) /\ DOMAIN pool' = 1 .. Len(pool) + 1
        /\ pool'[Len(pool) + 1] = c /\ \A i \in 1 .. Len(pool) : pool'[i] = pool[i] /\ pool[i] \in Conns
    BY <1>1
  <1>3. \A i \in 1 .. Len(pool) : pool[i] # c
    BY <1>1, <1>2
  <1>4. \A d \in Conns : conn'[d].cli = "idle" <=> \E i \in DOMAIN pool' : pool'[i] = d
    <2> SUFFICES ASSUME NEW d \in Conns
                 PROVE  conn'[d].cli = "idle" <=> \E i \in DOMAIN pool' : pool'[i] = d
      OBVIOUS
    <2>1. CASE d = c
      BY <1>2, <2>1
    <2>2. CASE d # c
      <3>1. conn'[d].cli = conn[d].cli
        BY <2>2
      <3>2. (\E i \in DOMAIN pool' : pool'[i] = d) <=> \E i \in DOMAIN pool : pool[i] = d
        BY <1>2, <2>2
      <3> QED
        BY <1>1, <3>1, <3>2, Zenon
    <2> QED
      BY <2>1, <2>2
  <1>5. \A i, j \in DOMAIN pool' : pool'[i] = pool'[j] => i = j
    <2> SUFFICES ASSUME NEW i \in 1 .. Len(pool) + 1, NEW j \in 1 .. Len(pool) + 1,
                        pool'[i] = pool'[j]
                 PROVE  i = j
      BY <1>2, Zenon
    <2>1. CASE i \in 1 .. Len(pool) /\ j \in 1 .. Len(pool)
      BY <1>1, <1>2, <2>1
    <2>2. CASE ~(i \in 1 .. Len(pool) /\ j \in 1 .. Len(pool))
      BY <1>2, <1>3, <2>2
    <2> QED
      BY <2>1, <2>2
  <1>6. Len(pool') <= MaxIdle
    BY <1>1, <1>2
  <1> QED
    BY <1>2, <1>4, <1>5, <1>6, Zenon DEF PoolIsIdle

\* ReceiveAnswer: the answer on the connection is taken, and is the request's.
LEMMA ReceiveKeeps ==
  ASSUME Typed, ConnInv, NEW r \in Requests, ReceiveAnswer(r)
  PROVE  Typed' /\ ConnInv'
  <1> DEFINE c == req[r].conn
             a == conn[c].outq
             keep == ~IsCancel(r) /\ ~a.close /\ c \notin aged /\ Len(pool) < MaxIdle
             outcome == IF a.ok THEN "done" ELSE "failed"
             k == IF keep THEN "idle" ELSE "closed"
  <1>1. /\ Sent(r) /\ a # NoAnswer /\ Leave(r, outcome, a)
        /\ conn' = [conn EXCEPT ![c].outq = NoAnswer, ![c].cli = k]
        /\ pool' = (IF keep THEN Append(pool, c) ELSE pool)
        /\ UNCHANGED plan /\ UNCHANGED serverVars
    BY Zenon DEF ReceiveAnswer, Sent
  <1>2. c \in Conns /\ conn[c].cli = "used" /\ a.r = r
    BY <1>1, Zenon DEF ConnInv, OwnConnection, Carries
  <1>3. conn[c].inq = "none" /\ ~Live(c)
    BY <1>1, <1>2, Zenon DEF ConnInv, OneThing
  <1>4. outcome \in {"done", "failed"} /\ k \in {"closed", "idle"}
    BY Zenon
  <1>5. (keep => k = "idle" /\ Len(pool) < MaxIdle) /\ (~keep => k = "closed")
    BY Zenon
  <1> HIDE DEF c, keep, outcome, k
  <1>6. conn \in [Conns -> ConnStates] /\ conn[c] \in ConnStates /\ pool \in Seq(Conns) /\ a \in Answers
    <2>1. conn \in [Conns -> ConnStates] /\ conn[c] \in ConnStates /\ pool \in Seq(Conns)
      BY <1>2, Zenon DEF Typed
    <2> QED
      BY <2>1, Zenon DEF ConnStates
  <1>7. conn' = [conn EXCEPT ![c] = [conn[c] EXCEPT !.cli = k, !.inq = "none", !.outq = NoAnswer]]
    <2>1. [conn[c] EXCEPT !.cli = k, !.inq = "none", !.outq = NoAnswer]
            = [conn[c] EXCEPT !.outq = NoAnswer, !.cli = k]
      BY <1>3, <1>6, Zenon DEF ConnStates
    <2> QED
      BY <1>1, <1>2, <1>6, <2>1, Zenon
  <1>8. \A d \in Conns : conn'[d].cli = IF d = c THEN k ELSE conn[d].cli
    BY <1>1, <1>2, <1>6 DEF ConnStates
  <1>9. PoolIsIdle' /\ pool' \in Seq(Conns)
    <2>1. CASE keep
      <3>1. \A d \in Conns : conn'[d].cli = IF d = c THEN "idle" ELSE conn[d].cli
        BY <1>5, <1>8, <2>1, Zenon
      <3>2. pool' = Append(pool, c) /\ conn[c].cli # "idle" /\ Len(pool) < MaxIdle
        BY <1>1, <1>2, <1>5, <2>1, Zenon
      <3> QED
        BY <1>2, <3>1, <3>2, Pooled, Zenon
    <2>2. CASE ~keep
      <3>1. pool' = pool
        BY <1>1, <2>2, Zenon
      <3>2. \A d \in Conns : conn'[d].cli = "idle" <=> conn[d].cli = "idle"
        BY <1>2, <1>5, <1>8, <2>2
      <3> QED
        BY <1>6, <3>1, <3>2, PoolKept, Zenon
    <2> QED
      BY <2>1, <2>2, Zenon
  <1> HIDE DEF a
  <1>10. c = req[r].conn /\ c \in Conns /\ Sent(r) /\ a \in Answers /\ Leave(r, outcome, a)
    BY <1>1, <1>2, <1>6, Zenon DEF c
  <1>11. /\ a # NoAnswer => a.r = r
         /\ "none" \in Requests \cup {"none"} /\ "none" \in {conn[c].inq, "none"}
         /\ NoAnswer \in Answers /\ NoAnswer \in {conn[c].outq, NoAnswer}
         /\ k = "idle" => "none" = "none" /\ NoAnswer = NoAnswer /\ ~Live(c)
    BY <1>2, <1>3, Records, Zenon
  <1>12. UNCHANGED plan /\ UNCHANGED serverVars
    BY <1>1, Zenon
  <1>13. EndsWith(r, c, outcome, a, k, "none", NoAnswer)
    BY <1>7, <1>9, <1>10, <1>11, <1>12, Zenon DEF EndsWith
  <1> QED
    BY <1>4, <1>10, <1>11, <1>13, SentEndsKeeps, Zenon

\* A set of positions has a last one.
LEMMA LastPosition ==
  ASSUME NEW n \in Nat, NEW S, S \subseteq 1 .. n, S # {}
  PROVE  \E m \in S : \A j \in S : j <= m
  <1> DEFINE Less == {ss \in Nat \X Nat : ss[1] < ss[2]}
             T == {n - i : i \in S}
  <1>1. IsWellFoundedOn(Less, Nat)
    BY NatLessThanWellFounded DEF OpToRel
  <1>a. \A i \in S : i \in Nat /\ i <= n /\ n - i \in Nat
    OBVIOUS
  <1>2. T \subseteq Nat /\ T # {}
    BY <1>a, Zenon
  <1> HIDE DEF Less
  <1>3. PICK x \in T : \A y \in T : ~(<<y, x>> \in Less)
    BY <1>1, <1>2, WFMin, Zenon
  <1>4. \A y \in T : x <= y
    <2> SUFFICES ASSUME NEW y \in T PROVE x <= y
      OBVIOUS
    <2>1. x \in Nat /\ y \in Nat /\ ~(<<y, x>> \in Less)
      BY <1>2, <1>3, Zenon
    <2> HIDE DEF T
    <2> QED
      BY <2>1 DEF Less
  <1>5. PICK m \in S : x = n - m
    BY Zenon
  <1>6. ASSUME NEW j \in S PROVE j <= m
    <2>1. n - j \in T
      BY Zenon
    <2>2. n - m <= n - j
      BY <1>4, <1>5, <2>1, Zenon
    <2>3. j \in Nat /\ m \in Nat
      BY <1>a, Zenon
    <2> HIDE DEF T
    <2> QED
      BY <2>2, <2>3
  <1> QED
    BY <1>6, Zenon

\* The pool up to position n, when the connections from n on are no longer idle.
LEMMA PoolCut ==
  ASSUME Typed, ConnInv, NEW n \in DOMAIN pool, pool' = SubSeq(pool, 1, n - 1),
         \A d \in Conns : conn'[d].cli = "idle"
                          <=> conn[d].cli = "idle" /\ ~\E i \in n .. Len(pool) : pool[i] = d
  PROVE  PoolIsIdle' /\ pool' \in Seq(Conns)
  <1>1. /\ pool \in Seq(Conns) /\ MaxIdle \in Nat /\ Len(pool) <= MaxIdle
        /\ \A d \in Conns : conn[d].cli = "idle" <=> \E i \in DOMAIN pool : pool[i] = d
        /\ \A i, j \in DOMAIN pool : pool[i] = pool[j] => i = j
    BY TransportAssumption, Zenon DEF Typed, ConnInv, PoolIsIdle
  <1>2. /\ Len(pool) \in Nat /\ DOMAIN pool = 1 .. Len(pool) /\ n \in 1 .. Len(pool)
    BY <1>1
  <1>3. /\ pool' \in Seq(Conns) /\ Len(pool') = n - 1 /\ DOMAIN pool' = 1 .. n - 1
        /\ \A i \in 1 .. n - 1 : pool'[i] = pool[i]
    BY <1>1, <1>2
  <1>4. ASSUME NEW d \in Conns
        PROVE  conn'[d].cli = "idle" <=> \E i \in DOMAIN pool' : pool'[i] = d
    <2>1. (\E i \in 1 .. n - 1 : pool[i] = d)
          <=> (\E i \in 1 .. Len(pool) : pool[i] = d) /\ ~\E i \in n .. Len(pool) : pool[i] = d
      <3>1. \A i \in 1 .. Len(pool) : i \in 1 .. n - 1 \/ i \in n .. Len(pool)
        BY <1>2
      <3>2. \A i \in 1 .. n - 1 : i \in 1 .. Len(pool) /\ i \notin n .. Len(pool)
        BY <1>2
      <3>3. \A i \in n .. Len(pool) : i \in 1 .. Len(pool)
        BY <1>2
      <3>4. \A i, j \in 1 .. Len(pool) : pool[i] = pool[j] => i = j
        BY <1>1, <1>2, Zenon
      <3> QED
        BY <3>1, <3>2, <3>3, <3>4, Zenon
    <2>2. (\E i \in DOMAIN pool' : pool'[i] = d) <=> \E i \in 1 .. n - 1 : pool[i] = d
      BY <1>3, Zenon
    <2> QED
      BY <1>1, <1>2, <2>1, <2>2, Zenon
  <1>5. \A i, j \in DOMAIN pool' : pool'[i] = pool'[j] => i = j
    <2>1. \A i \in 1 .. n - 1 : i \in DOMAIN pool
      BY <1>2
    <2>2. \A i \in DOMAIN pool' : i \in DOMAIN pool /\ pool'[i] = pool[i]
      BY <1>3, <2>1, Zenon
    <2>3. \A i, j \in DOMAIN pool : pool[i] = pool[j] => i = j
      BY <1>1, Zenon
    <2> SUFFICES ASSUME NEW i \in DOMAIN pool', NEW j \in DOMAIN pool', pool'[i] = pool'[j]
                 PROVE  i = j
      BY Zenon
    <2>4. i \in DOMAIN pool /\ j \in DOMAIN pool /\ pool[i] = pool[j]
      BY <2>2, Zenon
    <2> QED
      BY <2>3, <2>4, Zenon
  <1>6. Len(pool') <= MaxIdle
    BY <1>1, <1>2, <1>3
  <1> QED
    BY <1>3, <1>4, <1>5, <1>6, Zenon DEF PoolIsIdle

\* The newest connection that may be used is one of the pool.
LEMMA NewestIsPooled ==
  ASSUME Typed, Usable # {}
  PROVE  Newest \in DOMAIN pool
  <1>1. pool \in Seq(Conns)
    BY Zenon DEF Typed
  <1>2. Len(pool) \in Nat /\ Usable \subseteq 1 .. Len(pool) /\ Usable \subseteq DOMAIN pool
    BY <1>1 DEF Usable
  <1>3. \E m \in Usable : \A j \in Usable : j <= m
    BY <1>2, LastPosition, Zenon
  <1>4. Newest \in Usable
    BY <1>3, Zenon DEF Newest
  <1> QED
    BY <1>2, <1>4, Zenon

\* TakeIdle: a request takes the newest usable connection of the pool.
LEMMA TakeIdleKeeps ==
  ASSUME Typed, ConnInv, NEW r \in Requests, TakeIdle(r)
  PROVE  Typed' /\ ConnInv'
  <1> DEFINE n == Newest
             c == pool[n]
             dropped == {pool[i] : i \in n + 1 .. Len(pool)}
  <1>1. /\ req[r].at = "gated" /\ Usable # {} /\ pool' = SubSeq(pool, 1, n - 1)
        /\ conn' = [x \in Conns |-> IF x = c THEN [conn[x] EXCEPT !.cli = "used", !.inq = r]
                                    ELSE IF x \in dropped THEN [conn[x] EXCEPT !.cli = "closed"]
                                    ELSE conn[x]]
        /\ req' = [req EXCEPT ![r].at = "sent", ![r].conn = c]
        /\ UNCHANGED <<plan, clientFree, controlGate, aged, serverVars>>
    BY Zenon DEF TakeIdle
  <1>2. n \in DOMAIN pool /\ pool \in Seq(Conns) /\ conn \in [Conns -> ConnStates]
        /\ req \in [Requests -> Reqs]
    BY <1>1, NewestIsPooled, Zenon DEF Typed
  <1> HIDE DEF n
  <1>3. /\ c \in Conns /\ Len(pool) \in Nat /\ n \in 1 .. Len(pool) /\ DOMAIN pool = 1 .. Len(pool)
    BY <1>2
  <1>4. conn[c].cli = "idle" /\ \A i \in DOMAIN pool : pool[i] \in Conns /\ conn[pool[i]].cli = "idle"
    <2>1. \A i \in DOMAIN pool : pool[i] \in Conns
      BY <1>2
    <2> QED
      BY <1>2, <2>1, Zenon DEF ConnInv, PoolIsIdle
  <1>5. \A d \in Conns : d = c \/ d \in dropped <=> \E i \in n .. Len(pool) : pool[i] = d
    <2>1. \A i \in n .. Len(pool) : i = n \/ i \in n + 1 .. Len(pool)
      BY <1>3
    <2>2. n \in n .. Len(pool) /\ \A i \in n + 1 .. Len(pool) : i \in n .. Len(pool)
      BY <1>3
    <2> QED
      BY <2>1, <2>2, Zenon
  <1>6. \A i \in n + 1 .. Len(pool) : i \in DOMAIN pool /\ pool[i] # c
    <2>1. \A i \in n + 1 .. Len(pool) : i \in DOMAIN pool /\ i # n
      BY <1>3
    <2> QED
      BY <1>2, <2>1, Zenon DEF ConnInv, PoolIsIdle
  <1>7. \A d \in dropped : conn[d].cli = "idle"
    BY <1>4, <1>6, Zenon
  <1> HIDE DEF c, dropped
  <1>8. ASSUME NEW x \in ConnStates
        PROVE  /\ [x EXCEPT !.cli = "used", !.inq = r] \in ConnStates
               /\ [x EXCEPT !.cli = "closed"] \in ConnStates
               /\ [x EXCEPT !.cli = "used", !.inq = r].cli = "used"
               /\ [x EXCEPT !.cli = "used", !.inq = r].inq = r
               /\ [x EXCEPT !.cli = "used", !.inq = r].outq = x.outq
               /\ [x EXCEPT !.cli = "closed"].cli = "closed"
               /\ [x EXCEPT !.cli = "closed"].inq = x.inq
               /\ [x EXCEPT !.cli = "closed"].outq = x.outq
               /\ [x EXCEPT !.cli = "closed"].srv = x.srv
    BY Zenon DEF ConnStates
  <1>9. conn' \in [Conns -> ConnStates]
    <2> DEFINE F(x) == IF x = c THEN [conn[x] EXCEPT !.cli = "used", !.inq = r]
                       ELSE IF x \in dropped THEN [conn[x] EXCEPT !.cli = "closed"] ELSE conn[x]
    <2>1. ASSUME NEW x \in Conns PROVE F(x) \in ConnStates
      <3>1. conn[x] \in ConnStates
        BY <1>2, Zenon
      <3> QED
        BY <1>8, <3>1, Zenon
    <2>2. conn' = [x \in Conns |-> F(x)]
      BY <1>1, Zenon
    <2> HIDE DEF F
    <2> QED
      BY <2>1, <2>2, Zenon
  <1>10. conn'[c].cli = "used" /\ conn'[c].inq = r /\ conn'[c].outq = conn[c].outq
    <2>1. conn[c] \in ConnStates /\ conn'[c] = [conn[c] EXCEPT !.cli = "used", !.inq = r]
      BY <1>1, <1>2, <1>3, Zenon
    <2> DEFINE x == conn[c]
    <2>2. x \in ConnStates /\ conn'[c] = [x EXCEPT !.cli = "used", !.inq = r]
      BY <2>1, Zenon
    <2> HIDE DEF x
    <2>3. conn'[c].cli = "used" /\ conn'[c].inq = r /\ conn'[c].outq = x.outq
      BY <2>2, Zenon DEF ConnStates
    <2> QED
      BY <2>3, Zenon DEF x
  <1>11. ASSUME NEW d \in Conns \ {c} PROVE IF d \in dropped THEN Dropped(d) ELSE conn'[d] = conn[d]
    <2>1. CASE d \in dropped
      <3>1. conn[d] \in ConnStates /\ conn'[d] = [conn[d] EXCEPT !.cli = "closed"] /\ conn[d].cli = "idle"
        BY <1>1, <1>2, <1>7, <2>1, Zenon
      <3> QED
        BY <1>8, <2>1, <3>1, Zenon DEF Dropped
    <2>2. CASE d \notin dropped
      BY <1>1, <2>2, Zenon
    <2> QED
      BY <2>1, <2>2, Zenon
  <1>12. PoolIsIdle' /\ pool' \in Seq(Conns)
    <2>1. \A d \in Conns : conn'[d].cli = "idle"
                           <=> conn[d].cli = "idle" /\ ~\E i \in n .. Len(pool) : pool[i] = d
      <3> SUFFICES ASSUME NEW d \in Conns
                   PROVE  conn'[d].cli = "idle" <=> conn[d].cli = "idle" /\ ~(d = c \/ d \in dropped)
        BY <1>5, Zenon
      <3>1. CASE d = c
        BY <1>10, <3>1, Zenon
      <3>2. CASE d # c
        BY <1>11, <3>2, Zenon DEF Dropped
      <3> QED
        BY <3>1, <3>2, Zenon
    <2> QED
      BY <1>1, <1>2, <2>1, PoolCut, Zenon
  <1>13. /\ req' \in [Requests -> Reqs] /\ req'[r].at = "sent" /\ req'[r].conn = c
         /\ req'[r].answer = req[r].answer
         /\ \A s \in Requests \ {r} : req'[s] = req[s]
    BY <1>1, <1>2, <1>3, Zenon DEF Reqs
  <1>14. UNCHANGED <<exec, entries, nextToken, cancelled, acked, gates, stop, serverFree, reserve>>
         /\ plan' = plan /\ clientFree' = clientFree /\ controlGate' = controlGate
    BY <1>1, Zenon DEF serverVars
  <1>15. Typed'
    <2>1. ServerTyped'
      BY <1>14, ServerSame, Zenon
    <2>2. clientFree' \in Nat /\ controlGate' \in Nat /\ serverFree' \in Nat /\ reserve' \in Nat
      BY <1>14, Zenon DEF Typed
    <2> QED
      BY <1>9, <1>12, <1>13, <2>1, <2>2, TypedParts, Zenon
  <1>16. conn[c].outq = NoAnswer
    BY <1>3, <1>4, Zenon DEF ConnInv, OneThing, Empty
  <1>17. PutOn(r, c)
    BY <1>1, <1>4, <1>10, <1>13, <1>16, Zenon DEF PutOn, Sent
  <1>18. Rest(r, c)
    BY <1>11, <1>12, <1>13, <1>14, Zenon DEF Rest
  <1> QED
    BY <1>3, <1>15, <1>17, <1>18, SendKeeps, Zenon

\* OpenConnection: a request opens a new connection, which the server admits or not.
LEMMA OpenKeeps ==
  ASSUME Typed, ConnInv, NEW r \in Requests, OpenConnection(r)
  PROVE  Typed' /\ ConnInv'
  <1> DEFINE admitted == serverFree > 0 \/ reserve > 0
             control == serverFree = 0
             closes(x) == ~IsCancel(r) /\ \E i \in DOMAIN pool : pool[i] = x
             fresh == [NoConn EXCEPT !.cli = "used", !.inq = r, !.control = control,
                                     !.srv = IF admitted THEN "open" ELSE "gone"]
             F(c, x) == IF x = c THEN fresh
                        ELSE IF closes(x) THEN [conn[x] EXCEPT !.cli = "closed"] ELSE conn[x]
  <1>1. PICK c \in Conns :
          /\ conn[c] = NoConn
          /\ conn' = [x \in Conns |-> F(c, x)]
          /\ serverFree' = IF control THEN serverFree ELSE serverFree - 1
          /\ reserve' = IF admitted /\ control THEN reserve - 1 ELSE reserve
          /\ req' = [req EXCEPT ![r].at = "sent", ![r].conn = c]
    BY Zenon DEF OpenConnection
  <1>2. /\ req[r].at = "gated" /\ pool' = (IF IsCancel(r) THEN pool ELSE <<>>)
        /\ UNCHANGED <<plan, clientFree, controlGate, aged, exec, entries, nextToken, cancelled, acked,
                       gates, stop>>
    BY Zenon DEF OpenConnection
  <1>3. /\ pool \in Seq(Conns) /\ conn \in [Conns -> ConnStates] /\ req \in [Requests -> Reqs]
        /\ serverFree \in Nat /\ reserve \in Nat
    BY Zenon DEF Typed
  <1>4. serverFree' \in Nat /\ reserve' \in Nat
    BY <1>1, <1>3
  <1>5. /\ fresh \in ConnStates /\ fresh.cli = "used" /\ fresh.inq = r /\ fresh.outq = NoAnswer
    <2> DEFINE b == control
               v == IF admitted THEN "open" ELSE "gone"
    <2>1. b \in BOOLEAN /\ v \in {"none", "open", "gone"}
      BY Zenon
    <2> HIDE DEF b, v
    <2>2. fresh = [NoConn EXCEPT !.cli = "used", !.inq = r, !.control = b, !.srv = v]
      BY Zenon DEF b, v
    <2> HIDE DEF fresh
    <2>3. NoConn \in ConnStates /\ NoConn.outq = NoAnswer
      BY Records, Zenon
    <2> QED
      BY <2>1, <2>2, <2>3, Zenon DEF ConnStates
  <1>6. \A x \in Conns : closes(x) => conn[x].cli = "idle"
    BY Zenon DEF ConnInv, PoolIsIdle
  <1>7. ~IsCancel(r) => \A x \in Conns : conn[x].cli = "idle" => closes(x)
    BY Zenon DEF ConnInv, PoolIsIdle
  <1>8. IsCancel(r) => \A x \in Conns : ~closes(x)
    BY Zenon
  <1>9. conn[c].cli = "none"
    BY <1>1, Records, Zenon
  <1> HIDE DEF fresh, closes, admitted, control
  <1>10. ASSUME NEW x \in ConnStates
         PROVE  /\ [x EXCEPT !.cli = "closed"] \in ConnStates
                /\ [x EXCEPT !.cli = "closed"].cli = "closed"
                /\ [x EXCEPT !.cli = "closed"].inq = x.inq
                /\ [x EXCEPT !.cli = "closed"].outq = x.outq
                /\ [x EXCEPT !.cli = "closed"].srv = x.srv
    BY Zenon DEF ConnStates
  <1>11. conn' \in [Conns -> ConnStates]
    <2>1. ASSUME NEW x \in Conns PROVE F(c, x) \in ConnStates
      <3>1. conn[x] \in ConnStates
        BY <1>3, Zenon
      <3> QED
        BY <1>5, <1>10, <3>1, Zenon
    <2> HIDE DEF F
    <2> QED
      BY <1>1, <2>1, Zenon
  <1>12. conn'[c].cli = "used" /\ conn'[c].inq = r /\ conn'[c].outq = NoAnswer
    BY <1>1, <1>5, Zenon
  <1>13. ASSUME NEW d \in Conns \ {c} PROVE IF closes(d) THEN Dropped(d) ELSE conn'[d] = conn[d]
    <2>1. CASE closes(d)
      <3>1. conn[d] \in ConnStates /\ conn'[d] = [conn[d] EXCEPT !.cli = "closed"] /\ conn[d].cli = "idle"
        BY <1>1, <1>3, <1>6, <2>1, Zenon
      <3> QED
        BY <1>10, <2>1, <3>1, Zenon DEF Dropped
    <2>2. CASE ~closes(d)
      BY <1>1, <2>2, Zenon
    <2> QED
      BY <2>1, <2>2, Zenon
  <1>14. PoolIsIdle' /\ pool' \in Seq(Conns)
    <2>1. CASE IsCancel(r)
      <3>1. \A d \in Conns : conn'[d].cli = "idle" <=> conn[d].cli = "idle"
        BY <1>8, <1>9, <1>12, <1>13, <2>1, Zenon
      <3>2. pool' = pool
        BY <1>2, <2>1, Zenon
      <3> QED
        BY <1>3, <3>1, <3>2, PoolKept, Zenon
    <2>2. CASE ~IsCancel(r)
      <3>1. \A d \in Conns : conn'[d].cli # "idle"
        BY <1>7, <1>12, <1>13, <2>2, Zenon DEF Dropped
      <3>2. pool' = <<>>
        BY <1>2, <2>2, Zenon
      <3>3. pool' \in Seq(Conns) /\ DOMAIN pool' = {} /\ Len(pool') <= MaxIdle
        BY <3>2, TransportAssumption
      <3> QED
        BY <3>1, <3>3, Zenon DEF PoolIsIdle
    <2> QED
      BY <2>1, <2>2, Zenon
  <1>15. /\ req' \in [Requests -> Reqs] /\ req'[r].at = "sent" /\ req'[r].conn = c
         /\ req'[r].answer = req[r].answer
         /\ \A s \in Requests \ {r} : req'[s] = req[s]
    BY <1>1, <1>3, Zenon DEF Reqs
  <1>16. Typed'
    <2>1. ServerTyped'
      BY <1>2, ServerSame, Zenon
    <2>2. clientFree' \in Nat /\ controlGate' \in Nat
      BY <1>2, Zenon DEF Typed
    <2> QED
      BY <1>4, <1>11, <1>14, <1>15, <2>1, <2>2, TypedParts, Zenon
  <1>17. PutOn(r, c)
    BY <1>2, <1>9, <1>12, <1>15, Zenon DEF PutOn, Sent
  <1>18. Rest(r, c)
    BY <1>2, <1>13, <1>14, <1>15, Zenon DEF Rest
  <1> QED
    BY <1>16, <1>17, <1>18, SendKeeps, Zenon

\* ConnectFails.
LEMMA ConnectFailsKeeps ==
  ASSUME Typed, ConnInv, NEW r \in Requests, ConnectFails(r)
  PROVE  Typed' /\ ConnInv'
  <1>1. /\ req[r].at = "gated" /\ Leave(r, "failed", NoAnswer)
        /\ UNCHANGED <<plan, pool, conn, aged, serverVars>>
    BY Zenon DEF ConnectFails
  <1> QED
    BY <1>1, GatedFailsKeeps, Zenon

-----------------------------------------------------------------------------
(* The server's actions.                                                   *)

\* A task returns its admission permit, or not.
LEMMA CloseTyped ==
  ASSUME Typed, NEW c \in Conns, CloseServerSide(c) \/ UNCHANGED <<serverFree, reserve>>
  PROVE  serverFree' \in Nat /\ reserve' \in Nat
  <1>1. serverFree \in Nat /\ reserve \in Nat
    BY Zenon DEF Typed
  <1> QED
    BY <1>1 DEF CloseServerSide

\* An action of the server leaves the client's state alone.
LEMMA ClientSame ==
  ASSUME Typed, UNCHANGED <<plan, clientVars>>, conn' \in [Conns -> ConnStates],
         exec' \in [Conns -> Execs], entries' \in [Keys -> EntryStates],
         nextToken' \in Nat \ {0}, acked' \subseteq Nat, gates' \in [Gates -> Nat],
         serverFree' \in Nat, reserve' \in Nat, stop' \in {"up", "draining", "stopped"}
  PROVE  Typed' /\ req' = req /\ pool' = pool
  <1>1. plan' = plan /\ req' = req /\ pool' = pool /\ clientFree' = clientFree
        /\ controlGate' = controlGate
    BY Zenon DEF clientVars
  <1> QED
    BY <1>1, Zenon DEF Typed

\* An execution is of a request of the plan.
LEMMA LiveTyped ==
  ASSUME Typed, NEW c \in Conns, Live(c)
  PROVE  /\ exec[c] \in LiveExecs /\ exec[c].r \in Requests /\ exec[c].permits \in Nat
         /\ exec[c].token \in Nat \ {0} /\ exec[c].ok \in BOOLEAN
  <1>1. exec[c] \in LiveExecs
    BY Zenon DEF Typed, Execs, Live
  <1> QED
    BY <1>1, Zenon DEF LiveExecs

\* Requests have query ids and paths of gates.
LEMMA PlanTyped ==
  ASSUME Typed, NEW r \in Requests
  PROVE  /\ KeyOf(r) \in Keys /\ PathOf(r) \in Seq(Gates)
         /\ \A i, j \in DOMAIN PathOf(r) : PathOf(r)[i] = PathOf(r)[j] => i = j
  <1>1. plan \in Plans
    BY Zenon DEF Typed
  <1>2. /\ plan.key \in [Requests -> Keys] /\ plan.path \in [Requests -> Seq(Gates)]
        /\ \A i, j \in DOMAIN plan.path[r] : plan.path[r][i] = plan.path[r][j] => i = j
    BY <1>1, TransportAssumption, Zenon
  <1> QED
    BY <1>2, Zenon DEF KeyOf, PathOf

\* What waits for admission, runs or has run is an execution.
LEMMA AtIsLive ==
  ASSUME NEW c \in Conns, exec[c].at \in {"queued", "running", "executed"}
  PROVE  Live(c)
  <1>1. NoExec.at = "none"
    BY Zenon DEF NoExec
  <1> QED
    BY <1>1 DEF Live

\* The execution on c goes on.
Runs(c) ==
    /\ Live(c) /\ exec'[c].r = exec[c].r
    /\ \A d \in Conns \ {c} : exec'[d] = exec[d]
    /\ req' = req /\ pool' = pool /\ conn' = conn
LEMMA RunsKeeps ==
  ASSUME Typed, ConnInv, NEW c \in Conns, Runs(c)
  PROVE  ConnInv'
  <1>1. OneThing(c) /\ exec[c].r \in Requests /\ Live(c)
    BY LiveTyped, Zenon DEF ConnInv, Runs
  <1>2. conn[c].inq = "none" /\ conn[c].srv = "open" /\ conn[c].outq = NoAnswer
    BY <1>1, Zenon DEF OneThing
  <1>3. Proceeds(c)
    BY <1>1, <1>2, Zenon DEF Proceeds, Runs
  <1> QED
    BY <1>3, ProceedsKeeps, Zenon

\* An execution that changes is one still.
LEMMA ExecSet ==
  ASSUME Typed, NEW c \in Conns, Live(c)
  PROVE  /\ \A n \in Nat : /\ [exec EXCEPT ![c].permits = n] \in [Conns -> Execs]
                           /\ [exec EXCEPT ![c].permits = n][c].r = exec[c].r
         /\ /\ [exec EXCEPT ![c].at = "running"] \in [Conns -> Execs]
            /\ [exec EXCEPT ![c].at = "running"][c].r = exec[c].r
         /\ \A ok \in BOOLEAN :
              /\ [exec EXCEPT ![c].at = "executed", ![c].ok = ok, ![c].permits = 0] \in [Conns -> Execs]
              /\ [exec EXCEPT ![c].at = "executed", ![c].ok = ok, ![c].permits = 0][c].r = exec[c].r
  <1>1. exec \in [Conns -> Execs] /\ exec[c] \in LiveExecs /\ 0 \in Nat
    BY LiveTyped DEF Typed
  <1>2. ASSUME NEW x \in LiveExecs
        PROVE  /\ \A n \in Nat : /\ [x EXCEPT !.permits = n] \in Execs
                                /\ [x EXCEPT !.permits = n].r = x.r
               /\ [x EXCEPT !.at = "running"] \in Execs /\ [x EXCEPT !.at = "running"].r = x.r
               /\ \A ok \in BOOLEAN :
                    /\ [x EXCEPT !.at = "executed", !.ok = ok, !.permits = 0] \in Execs
                    /\ [x EXCEPT !.at = "executed", !.ok = ok, !.permits = 0].r = x.r
    BY <1>1 DEF Execs, LiveExecs
  <1> QED
    BY <1>1, <1>2, Zenon

\* The permits of an execution are returned, a number of each gate.
LEMMA ReturnedTyped ==
  ASSUME Typed, NEW c \in Conns, Live(c)
  PROVE  Returned(c) \in [Gates -> Nat]
  <1> DEFINE held(g) == {i \in 1 .. exec[c].permits : PathOf(exec[c].r)[i] = g}
  <1>1. exec[c].permits \in Nat /\ gates \in [Gates -> Nat]
    BY LiveTyped, Zenon DEF Typed
  <1>2. ASSUME NEW g \in Gates PROVE gates[g] + Cardinality(held(g)) \in Nat
    <2>1. IsFiniteSet(1 .. exec[c].permits)
      BY <1>1, FS_Interval
    <2>2. held(g) \subseteq 1 .. exec[c].permits
      BY Zenon
    <2>3. IsFiniteSet(held(g))
      BY <2>1, <2>2, FS_Subset, Zenon
    <2>4. Cardinality(held(g)) \in Nat
      BY <2>3, FS_CardinalityType, Zenon
    <2> HIDE DEF held
    <2> QED
      BY <1>1, <2>4
  <1>3. Returned(c) = [g \in Gates |-> gates[g] + Cardinality(held(g))]
    BY Zenon DEF Returned
  <1> HIDE DEF held
  <1> QED
    BY <1>2, <1>3, Zenon

\* Admit: one more gate is passed.
LEMMA AdmitKeeps ==
  ASSUME Typed, ConnInv, NEW c \in Conns, Admit(c)
  PROVE  Typed' /\ ConnInv'
  <1> DEFINE n == exec[c].permits + 1
             g == PathOf(exec[c].r)[n]
  <1>1. /\ exec[c].at = "queued" /\ n <= Len(PathOf(exec[c].r)) /\ gates[g] > 0
        /\ gates' = [gates EXCEPT ![g] = @ - 1] /\ exec' = [exec EXCEPT ![c].permits = n]
        /\ UNCHANGED <<plan, clientVars, conn, serverFree, reserve, entries, nextToken, cancelled,
                       acked, stop>>
    BY Zenon DEF Admit
  <1>2. Live(c)
    BY <1>1, AtIsLive, Zenon
  <1>3. exec[c].permits \in Nat /\ exec[c].r \in Requests
    BY <1>2, LiveTyped, Zenon
  <1>4. n \in Nat
    BY <1>3
  <1>5. gates' \in [Gates -> Nat]
    <2>1. PathOf(exec[c].r) \in Seq(Gates)
      BY <1>3, PlanTyped, Zenon
    <2>2. g \in Gates
      BY <1>1, <1>3, <2>1
    <2>3. gates \in [Gates -> Nat]
      BY Zenon DEF Typed
    <2> HIDE DEF g
    <2>4. gates[g] - 1 \in Nat
      BY <1>1, <2>2, <2>3
    <2> QED
      BY <1>1, <2>3, <2>4, Zenon
  <1> HIDE DEF n, g
  <1>6. exec' \in [Conns -> Execs] /\ exec'[c].r = exec[c].r
    BY <1>1, <1>2, <1>4, ExecSet, Zenon
  <1>7. \A d \in Conns \ {c} : exec'[d] = exec[d]
    BY <1>1, Zenon DEF Typed
  <1>8. Typed' /\ req' = req /\ pool' = pool
    <2>1. /\ conn' \in [Conns -> ConnStates] /\ entries' \in [Keys -> EntryStates]
          /\ nextToken' \in Nat \ {0} /\ acked' \subseteq Nat /\ serverFree' \in Nat /\ reserve' \in Nat
          /\ stop' \in {"up", "draining", "stopped"} /\ UNCHANGED <<plan, clientVars>>
      BY <1>1, Zenon DEF Typed
    <2> QED
      BY <1>5, <1>6, <2>1, ClientSame, Zenon
  <1>9. Runs(c)
    BY <1>1, <1>2, <1>6, <1>7, <1>8, Zenon DEF Runs
  <1> QED
    BY <1>8, <1>9, RunsKeeps, Zenon

\* An execution ends, or could not begin.
Ends(c, ok) ==
    /\ Executed(c, ok) /\ Live(c)
    /\ UNCHANGED <<plan, clientVars, conn, serverFree, reserve, entries, nextToken, cancelled,
                   acked, stop>>
LEMMA EndsKeeps ==
  ASSUME Typed, ConnInv, NEW c \in Conns, NEW ok \in BOOLEAN, Ends(c, ok)
  PROVE  Typed' /\ ConnInv'
  <1>1. /\ gates' = Returned(c) /\ Live(c)
        /\ exec' = [exec EXCEPT ![c].at = "executed", ![c].ok = ok, ![c].permits = 0]
        /\ UNCHANGED <<plan, clientVars, conn, serverFree, reserve, entries, nextToken, cancelled,
                       acked, stop>>
    BY Zenon DEF Ends, Executed
  <1>2. gates' \in [Gates -> Nat]
    BY <1>1, ReturnedTyped, Zenon
  <1>3. exec' \in [Conns -> Execs] /\ exec'[c].r = exec[c].r
    BY <1>1, ExecSet, Zenon
  <1>4. \A d \in Conns \ {c} : exec'[d] = exec[d]
    BY <1>1, Zenon DEF Typed
  <1>5. Typed' /\ req' = req /\ pool' = pool
    <2>1. /\ conn' \in [Conns -> ConnStates] /\ entries' \in [Keys -> EntryStates]
          /\ nextToken' \in Nat \ {0} /\ acked' \subseteq Nat /\ serverFree' \in Nat /\ reserve' \in Nat
          /\ stop' \in {"up", "draining", "stopped"} /\ UNCHANGED <<plan, clientVars>>
      BY <1>1, Zenon DEF Typed
    <2> QED
      BY <1>2, <1>3, <2>1, ClientSame, Zenon
  <1>6. Runs(c)
    BY <1>1, <1>3, <1>4, <1>5, Zenon DEF Runs
  <1> QED
    BY <1>5, <1>6, RunsKeeps, Zenon

\* AdmissionCancelled and Execute.
LEMMA ExecuteKeeps ==
  ASSUME Typed, ConnInv, NEW c \in Conns, AdmissionCancelled(c) \/ Execute(c)
  PROVE  Typed' /\ ConnInv'
  <1>1. PICK ok \in BOOLEAN :
          /\ Executed(c, ok) /\ exec[c].at \in {"queued", "running", "executed"}
          /\ UNCHANGED <<plan, clientVars, conn, serverFree, reserve, entries, nextToken, cancelled,
                         acked, stop>>
    BY Zenon DEF AdmissionCancelled, Execute
  <1>2. Ends(c, ok)
    BY <1>1, AtIsLive, Zenon DEF Ends
  <1> QED
    BY <1>2, EndsKeeps, Zenon

\* Activate: the query runs, or has been cancelled.
LEMMA ActivateKeeps ==
  ASSUME Typed, ConnInv, NEW c \in Conns, Activate(c)
  PROVE  Typed' /\ ConnInv'
  <1> DEFINE key == KeyOf(exec[c].r)
             mine == entries[key].token = exec[c].token /\ entries[key].state # "cancelled"
  <1>1. /\ exec[c].at = "queued"
        /\ \/ /\ entries' = [entries EXCEPT ![key].state = "running"]
              /\ exec' = [exec EXCEPT ![c].at = "running"] /\ UNCHANGED gates
           \/ Executed(c, FALSE) /\ UNCHANGED entries
        /\ UNCHANGED <<plan, clientVars, conn, serverFree, reserve, nextToken, cancelled, acked, stop>>
    BY Zenon DEF Activate
  <1>2. Live(c)
    BY <1>1, AtIsLive, Zenon
  <1>3. CASE Executed(c, FALSE) /\ UNCHANGED entries
    <2>1. Ends(c, FALSE)
      BY <1>1, <1>2, <1>3, Zenon DEF Ends
    <2> QED
      BY <2>1, EndsKeeps, Zenon
  <1>4. CASE /\ entries' = [entries EXCEPT ![key].state = "running"]
             /\ exec' = [exec EXCEPT ![c].at = "running"] /\ UNCHANGED gates
    <2>1. key \in Keys
      BY <1>2, LiveTyped, PlanTyped, Zenon
    <2> HIDE DEF key
    <2>2. entries' \in [Keys -> EntryStates]
      BY <1>4, <2>1, Zenon DEF Typed, EntryStates
    <2>3. exec' \in [Conns -> Execs] /\ exec'[c].r = exec[c].r
      BY <1>2, <1>4, ExecSet, Zenon
    <2>4. \A d \in Conns \ {c} : exec'[d] = exec[d]
      BY <1>4, Zenon DEF Typed
    <2>5. Typed' /\ req' = req /\ pool' = pool
      <3>1. /\ conn' \in [Conns -> ConnStates] /\ gates' \in [Gates -> Nat]
            /\ nextToken' \in Nat \ {0} /\ acked' \subseteq Nat /\ serverFree' \in Nat /\ reserve' \in Nat
            /\ stop' \in {"up", "draining", "stopped"} /\ UNCHANGED <<plan, clientVars>>
        BY <1>1, <1>4, Zenon DEF Typed
      <3> QED
        BY <2>2, <2>3, <3>1, ClientSame, Zenon
    <2>6. Runs(c)
      BY <1>1, <1>2, <2>3, <2>4, <2>5, Zenon DEF Runs
    <2> QED
      BY <2>5, <2>6, RunsKeeps, Zenon
  <1> QED
    BY <1>1, <1>3, <1>4, Zenon

\* A request that was read, or executed, on c is answered there.
Replies(c, r, ok) ==
    /\ Respond(c, r, ok)
    /\ \/ Live(c) /\ exec[c].r = r
       \/ ~Live(c) /\ conn[c].inq = r /\ r # "none"
    /\ exec'[c] = NoExec /\ \A d \in Conns \ {c} : exec'[d] = exec[d]
    /\ exec' \in [Conns -> Execs] /\ entries' \in [Keys -> EntryStates]
    /\ acked' \subseteq Nat /\ UNCHANGED <<plan, clientVars, nextToken, gates, stop>>
LEMMA RepliesKeeps ==
  ASSUME Typed, ConnInv, NEW c \in Conns, NEW r \in Requests, NEW ok \in BOOLEAN, Replies(c, r, ok)
  PROVE  Typed' /\ ConnInv'
  <1>1. Respond(c, r, ok) /\ (Live(c) => exec[c].r = r) /\ (~Live(c) => conn[c].inq = r /\ r # "none")
    BY Zenon DEF Replies
  <1>2. /\ exec'[c] = NoExec /\ \A d \in Conns \ {c} : exec'[d] = exec[d]
        /\ exec' \in [Conns -> Execs] /\ entries' \in [Keys -> EntryStates]
        /\ acked' \subseteq Nat /\ UNCHANGED <<plan, clientVars, nextToken, gates, stop>>
    BY Zenon DEF Replies
  <1>3. /\ conn' \in [Conns -> ConnStates]
        /\ \A d \in Conns \ {c} : conn'[d] = conn[d]
        /\ conn'[c].cli = conn[c].cli /\ conn'[c].inq = "none"
        /\ conn'[c].outq = conn[c].outq \/ conn'[c].outq.r = r
        /\ CloseServerSide(c) \/ UNCHANGED <<serverFree, reserve>>
    BY <1>1, RespondEffect, Zenon
  <1>4. serverFree' \in Nat /\ reserve' \in Nat
    BY <1>3, CloseTyped, Zenon
  <1>5. Typed' /\ req' = req /\ pool' = pool
    <2>1. /\ nextToken' \in Nat \ {0} /\ gates' \in [Gates -> Nat]
          /\ stop' \in {"up", "draining", "stopped"} /\ UNCHANGED <<plan, clientVars>>
      BY <1>2, Zenon DEF Typed
    <2> QED
      BY <1>2, <1>3, <1>4, <2>1, ClientSame, Zenon
  <1>6. Proceeds(c)
    BY <1>1, <1>2, <1>3, <1>5, Zenon DEF Proceeds
  <1> QED
    BY <1>5, <1>6, ProceedsKeeps, Zenon

\* A frame that can be read is a request, and nothing is executed meanwhile.
LEMMA ReadableFrame ==
  ASSUME Typed, NEW c \in Conns, Readable(c)
  PROVE  /\ conn[c].inq \in Requests /\ conn[c].inq # "none" /\ ~Live(c) /\ conn[c].srv = "open"
         /\ exec[c] = NoExec /\ conn[c] \in ConnStates
  <1>1. conn[c] \in ConnStates
    BY Zenon DEF Typed
  <1> QED
    BY <1>1, Zenon DEF Readable, ConnStates, Live

\* RefuseQuery.
LEMMA RefuseKeeps ==
  ASSUME Typed, ConnInv, NEW c \in Conns, RefuseQuery(c)
  PROVE  Typed' /\ ConnInv'
  <1>1. /\ Readable(c) /\ Respond(c, conn[c].inq, FALSE)
        /\ UNCHANGED <<plan, clientVars, exec, entries, nextToken, cancelled, acked, gates, stop>>
    BY Zenon DEF RefuseQuery
  <1>2. /\ conn[c].inq \in Requests /\ conn[c].inq # "none" /\ ~Live(c) /\ exec[c] = NoExec
    BY <1>1, ReadableFrame, Zenon
  <1>3. Replies(c, conn[c].inq, FALSE)
    BY <1>1, <1>2, Zenon DEF Replies, Typed
  <1> QED
    BY <1>2, <1>3, RepliesKeeps, Zenon

\* CancelActive.
LEMMA CancelKeeps ==
  ASSUME Typed, ConnInv, NEW c \in Conns, CancelActive(c)
  PROVE  Typed' /\ ConnInv'
  <1> DEFINE key == KeyOf(conn[c].inq)
  <1>1. /\ Readable(c) /\ UNCHANGED <<plan, clientVars, exec, nextToken, gates, stop>>
        /\ \/ Respond(c, conn[c].inq, FALSE) /\ UNCHANGED <<entries, cancelled, acked>>
           \/ /\ acked' = acked \cup {entries[key].token}
              /\ entries' = [entries EXCEPT ![key] = IF entries[key].state = "queued" THEN NoEntry
                                                     ELSE [@ EXCEPT !.state = "cancelled"]]
              /\ Respond(c, conn[c].inq, TRUE)
    BY Zenon DEF CancelActive
  <1>2. /\ conn[c].inq \in Requests /\ conn[c].inq # "none" /\ ~Live(c) /\ exec[c] = NoExec
    BY <1>1, ReadableFrame, Zenon
  <1>3. key \in Keys
    BY <1>2, PlanTyped, Zenon
  <1> HIDE DEF key
  <1>4. exec' = exec /\ exec' \in [Conns -> Execs]
    BY <1>1, Zenon DEF Typed
  <1>5. CASE Respond(c, conn[c].inq, FALSE) /\ UNCHANGED <<entries, cancelled, acked>>
    <2>1. Replies(c, conn[c].inq, FALSE)
      BY <1>1, <1>2, <1>4, <1>5, Zenon DEF Replies, Typed
    <2> QED
      BY <1>2, <2>1, RepliesKeeps, Zenon
  <1>6. CASE /\ acked' = acked \cup {entries[key].token}
             /\ entries' = [entries EXCEPT ![key] = IF entries[key].state = "queued" THEN NoEntry
                                                    ELSE [@ EXCEPT !.state = "cancelled"]]
             /\ Respond(c, conn[c].inq, TRUE)
    <2>1. entries \in [Keys -> EntryStates] /\ entries[key] \in EntryStates /\ NoEntry \in EntryStates
      BY <1>3, Records, Zenon DEF Typed
    <2>2. entries[key].token \in Nat /\ [entries[key] EXCEPT !.state = "cancelled"] \in EntryStates
      BY <2>1, Zenon DEF EntryStates
    <2>3. acked' \subseteq Nat
      BY <1>6, <2>2, Zenon DEF Typed
    <2>4. entries' \in [Keys -> EntryStates]
      BY <1>6, <2>1, <2>2, Zenon
    <2>5. Replies(c, conn[c].inq, TRUE)
      BY <1>1, <1>2, <1>4, <1>6, <2>3, <2>4, Zenon DEF Replies
    <2> QED
      BY <1>2, <2>5, RepliesKeeps, Zenon
  <1> QED
    BY <1>1, <1>5, <1>6, Zenon

\* BeginQuery: the query is registered, or refused because its id is in use.
LEMMA BeginKeeps ==
  ASSUME Typed, ConnInv, NEW c \in Conns, BeginQuery(c)
  PROVE  Typed' /\ ConnInv'
  <1> DEFINE r == conn[c].inq
             e == [NoExec EXCEPT !.at = "queued", !.r = r, !.token = nextToken]
             n == [token |-> nextToken, state |-> "queued"]
  <1>1. /\ Readable(c) /\ UNCHANGED <<plan, clientVars, cancelled, acked, gates, stop>>
        /\ \/ Respond(c, r, FALSE) /\ UNCHANGED <<exec, entries, nextToken>>
           \/ /\ exec' = [exec EXCEPT ![c] = e]
              /\ entries' = [entries EXCEPT ![KeyOf(r)] = n]
              /\ nextToken' = nextToken + 1
              /\ conn' = [conn EXCEPT ![c].inq = "none"]
              /\ UNCHANGED <<serverFree, reserve>>
    BY Zenon DEF BeginQuery
  <1>2. /\ r \in Requests /\ r # "none" /\ ~Live(c) /\ exec[c] = NoExec /\ conn[c].srv = "open"
        /\ conn[c] \in ConnStates
    BY <1>1, ReadableFrame, Zenon
  <1>3. CASE Respond(c, r, FALSE) /\ UNCHANGED <<exec, entries, nextToken>>
    <2>1. Replies(c, r, FALSE)
      BY <1>1, <1>2, <1>3, Zenon DEF Replies, Typed
    <2> QED
      BY <1>2, <2>1, RepliesKeeps, Zenon
  <1>4. CASE /\ exec' = [exec EXCEPT ![c] = e]
             /\ entries' = [entries EXCEPT ![KeyOf(r)] = n]
             /\ nextToken' = nextToken + 1
             /\ conn' = [conn EXCEPT ![c].inq = "none"]
             /\ UNCHANGED <<serverFree, reserve>>
    <2>1. KeyOf(r) \in Keys
      BY <1>2, PlanTyped, Zenon
    <2>2. nextToken \in Nat \ {0} /\ nextToken' \in Nat \ {0}
      BY <1>4 DEF Typed
    <2>3. 0 \in Nat
      OBVIOUS
    <2>4. e \in LiveExecs /\ e.r = r /\ e # NoExec
      <3> HIDE DEF r
      <3> DEFINE Blank == [at : {"none"}, r : {"none"}, token : {0}, permits : {0}, ok : {FALSE}]
      <3>1. NoExec \in Blank
        BY Zenon DEF NoExec
      <3>2. e \in LiveExecs /\ e.r = r /\ e.at = "queued"
        BY <1>2, <2>2, <2>3, <3>1, Zenon DEF LiveExecs
      <3> HIDE DEF e
      <3>3. NoExec.at = "none"
        BY Zenon DEF NoExec
      <3> QED
        BY <3>2, <3>3
    <2>5. n \in EntryStates
      BY <2>2, Zenon DEF EntryStates
    <2> HIDE DEF e, n
    <2>6. /\ exec' \in [Conns -> Execs] /\ exec'[c] = e /\ \A d \in Conns \ {c} : exec'[d] = exec[d]
      BY <1>4, <2>4, Zenon DEF Typed, Execs
    <2>7. entries' \in [Keys -> EntryStates]
      BY <1>4, <2>5, Zenon DEF Typed
    <2>8. /\ conn' \in [Conns -> ConnStates] /\ \A d \in Conns \ {c} : conn'[d] = conn[d]
          /\ conn'[c].cli = conn[c].cli /\ conn'[c].inq = "none" /\ conn'[c].srv = conn[c].srv
          /\ conn'[c].outq = conn[c].outq
      BY <1>4, <1>2, Zenon DEF Typed, ConnStates
    <2>9. Typed' /\ req' = req /\ pool' = pool
      <3>1. /\ acked' \subseteq Nat /\ gates' \in [Gates -> Nat] /\ serverFree' \in Nat /\ reserve' \in Nat
            /\ stop' \in {"up", "draining", "stopped"} /\ UNCHANGED <<plan, clientVars>>
        BY <1>1, <1>4, Zenon DEF Typed
      <3> QED
        BY <2>2, <2>6, <2>7, <2>8, <3>1, ClientSame, Zenon
    <2>10. OneThing(c)
      BY Zenon DEF ConnInv
    <2>11. conn[c].outq = NoAnswer
      BY <1>2, <2>10, Zenon DEF OneThing
    <2>12. Proceeds(c)
      BY <1>2, <2>4, <2>6, <2>8, <2>9, <2>11, Zenon DEF Proceeds
    <2> QED
      BY <2>9, <2>12, ProceedsKeeps, Zenon
  <1> QED
    BY <1>1, <1>3, <1>4, Zenon

\* Finish: the result is written and the query forgotten.
LEMMA FinishKeeps ==
  ASSUME Typed, ConnInv, NEW c \in Conns, Finish(c)
  PROVE  Typed' /\ ConnInv'
  <1> DEFINE r == exec[c].r
             key == KeyOf(exec[c].r)
             ok == exec[c].ok /\ ~(Owns(c) /\ entries[key].state = "cancelled")
  <1>1. /\ exec[c].at = "executed"
        /\ entries' = IF Owns(c) THEN [entries EXCEPT ![key] = NoEntry] ELSE entries
        /\ Respond(c, r, ok)
        /\ exec' = [exec EXCEPT ![c] = NoExec]
        /\ UNCHANGED <<plan, clientVars, nextToken, cancelled, acked, gates, stop>>
    BY Zenon DEF Finish
  <1>2. Live(c)
    BY <1>1, AtIsLive, Zenon
  <1>3. r \in Requests
    BY <1>2, LiveTyped, Zenon
  <1>4. key \in Keys
    BY <1>3, PlanTyped, Zenon
  <1>5. ok \in BOOLEAN
    BY Zenon
  <1> HIDE DEF key, ok
  <1>6. entries' \in [Keys -> EntryStates]
    BY <1>1, <1>4, Records, Zenon DEF Typed
  <1>7. exec' \in [Conns -> Execs] /\ exec'[c] = NoExec /\ \A d \in Conns \ {c} : exec'[d] = exec[d]
    BY <1>1, Zenon DEF Typed, Execs
  <1>8. Replies(c, r, ok)
    BY <1>1, <1>2, <1>6, <1>7, Zenon DEF Replies, Typed
  <1> QED
    BY <1>3, <1>5, <1>8, RepliesKeeps, Zenon

\* TaskEnds: a task that executes nothing ends.
LEMMA TaskEndsKeeps ==
  ASSUME Typed, ConnInv, NEW c \in Conns, TaskEnds(c)
  PROVE  Typed' /\ ConnInv'
  <1>1. /\ exec[c] = NoExec /\ conn' = [conn EXCEPT ![c].srv = "gone"] /\ CloseServerSide(c)
        /\ UNCHANGED <<plan, clientVars, exec, entries, nextToken, cancelled, acked, gates, stop>>
    BY Zenon DEF TaskEnds
  <1>2. /\ conn' \in [Conns -> ConnStates] /\ \A d \in Conns \ {c} : conn'[d] = conn[d]
        /\ conn'[c].cli = conn[c].cli /\ conn'[c].inq = conn[c].inq /\ conn'[c].outq = conn[c].outq
    <2> DEFINE x == conn[c]
               y == [x EXCEPT !.srv = "gone"]
    <2>1. conn \in [Conns -> ConnStates] /\ x \in ConnStates
      BY Zenon DEF Typed
    <2>2. conn' = [conn EXCEPT ![c] = y]
      BY <1>1, Zenon
    <2> HIDE DEF x
    <2>3. y \in ConnStates /\ y.cli = x.cli /\ y.inq = x.inq /\ y.outq = x.outq
      BY <2>1, Zenon DEF ConnStates
    <2> HIDE DEF y
    <2>4. conn' \in [Conns -> ConnStates] /\ conn'[c] = y /\ \A d \in Conns \ {c} : conn'[d] = conn[d]
      BY <2>1, <2>2, <2>3, Zenon
    <2> QED
      BY <2>3, <2>4, Zenon DEF x
  <1>3. serverFree' \in Nat /\ reserve' \in Nat
    BY <1>1, CloseTyped, Zenon
  <1>4. Typed' /\ req' = req /\ pool' = pool
    <2>1. /\ exec' \in [Conns -> Execs] /\ entries' \in [Keys -> EntryStates]
          /\ nextToken' \in Nat \ {0} /\ acked' \subseteq Nat /\ gates' \in [Gates -> Nat]
          /\ stop' \in {"up", "draining", "stopped"} /\ UNCHANGED <<plan, clientVars>>
      BY <1>1, Zenon DEF Typed
    <2> QED
      BY <1>2, <1>3, <2>1, ClientSame, Zenon
  <1>5. ASSUME NEW d \in Conns
        PROVE  /\ conn'[d].cli = conn[d].cli /\ conn'[d].inq = conn[d].inq
               /\ conn'[d].outq = conn[d].outq
               /\ exec'[d] = NoExec \/ (exec'[d] = exec[d] /\ conn'[d].srv = conn[d].srv)
    <2>1. CASE d = c
      BY <1>1, <1>2, <2>1, Zenon
    <2>2. CASE d # c
      BY <1>1, <1>2, <2>2, Zenon
    <2> QED
      BY <2>1, <2>2, Zenon
  <1>6. ConnInv'
    BY <1>4, <1>5, TasksEndKeeps, Zenon
  <1> QED
    BY <1>4, <1>6, Zenon

\* Drained: the tasks that are left are aborted with what they execute.
LEMMA DrainedKeeps ==
  ASSUME Typed, ConnInv, Drained
  PROVE  Typed' /\ ConnInv'
  <1> DEFINE open == {c \in Conns : conn[c].srv = "open"}
             F(c) == IF c \in open THEN [conn[c] EXCEPT !.srv = "gone"] ELSE conn[c]
             G(c) == IF c \in open THEN NoExec ELSE exec[c]
  <1>1. /\ stop' = "stopped" /\ conn' = [c \in Conns |-> F(c)] /\ exec' = [c \in Conns |-> G(c)]
        /\ gates' = Capacity /\ serverFree' = ServerConns /\ reserve' = ControlConns
        /\ UNCHANGED <<plan, clientVars, entries, nextToken, cancelled, acked>>
    BY Zenon DEF Drained
  <1>2. ASSUME NEW c \in Conns
        PROVE  /\ F(c) \in ConnStates /\ F(c).cli = conn[c].cli /\ F(c).inq = conn[c].inq
               /\ F(c).outq = conn[c].outq /\ G(c) \in Execs
               /\ G(c) = NoExec \/ (G(c) = exec[c] /\ F(c).srv = conn[c].srv)
    <2>1. conn[c] \in ConnStates /\ exec[c] \in Execs /\ NoExec \in Execs
      BY Zenon DEF Typed, Execs
    <2> HIDE DEF open
    <2>2. CASE c \in open
      <3> DEFINE x == conn[c]
      <3>1. x \in ConnStates
        BY <2>1, Zenon
      <3> HIDE DEF x
      <3>2. LET y == [x EXCEPT !.srv = "gone"] IN
               y \in ConnStates /\ y.cli = x.cli /\ y.inq = x.inq /\ y.outq = x.outq
        BY <3>1, Zenon DEF ConnStates
      <3>3. F(c) = [x EXCEPT !.srv = "gone"] /\ G(c) = NoExec
        BY <2>2, Zenon DEF x
      <3> HIDE DEF F, G
      <3> QED
        BY <2>1, <3>2, <3>3, Zenon DEF x
    <2>3. CASE c \notin open
      BY <2>1, <2>3, Zenon
    <2> QED
      BY <2>2, <2>3, Zenon
  <1> HIDE DEF F, G
  <1>3. conn' \in [Conns -> ConnStates] /\ exec' \in [Conns -> Execs]
        /\ \A c \in Conns : conn'[c] = F(c) /\ exec'[c] = G(c)
    BY <1>1, <1>2, Zenon
  <1>4. Typed' /\ req' = req /\ pool' = pool
    <2>1. /\ entries' \in [Keys -> EntryStates] /\ nextToken' \in Nat \ {0} /\ acked' \subseteq Nat
          /\ UNCHANGED <<plan, clientVars>>
      BY <1>1, Zenon DEF Typed
    <2>2. gates' \in [Gates -> Nat] /\ serverFree' \in Nat /\ reserve' \in Nat
      BY <1>1, TransportAssumption, Zenon
    <2> QED
      BY <1>1, <1>3, <2>1, <2>2, ClientSame, Zenon
  <1>5. \A c \in Conns :
           /\ conn'[c].cli = conn[c].cli /\ conn'[c].inq = conn[c].inq
           /\ conn'[c].outq = conn[c].outq
           /\ exec'[c] = NoExec \/ (exec'[c] = exec[c] /\ conn'[c].srv = conn[c].srv)
    BY <1>2, <1>3, Zenon
  <1>6. ConnInv'
    BY <1>4, <1>5, TasksEndKeeps, Zenon
  <1> QED
    BY <1>4, <1>6, Zenon

\* Age and Stop change nothing of a connection, and neither does a stuttering step.
LEMMA QuietKeeps ==
  ASSUME Typed, ConnInv, (\E c \in Conns : Age(c)) \/ Stop \/ UNCHANGED vars
  PROVE  Typed' /\ ConnInv'
  <1>1. /\ UNCHANGED <<plan, req, clientFree, controlGate, pool, conn, serverFree, reserve, exec,
                       entries, nextToken, acked, gates>>
        /\ stop' \in {stop, "draining"}
    BY Zenon DEF Age, Stop, vars, serverVars, clientVars
  <1>2. Typed'
    BY <1>1, Zenon DEF Typed
  <1>3. conn' = conn /\ exec' = exec /\ pool' = pool /\ req' = req
    BY <1>1, Zenon
  <1>4. \A s \in Requests : req'[s] = req[s]
                           \/ (~Sent(s) /\ ~Sent(s)' /\ req'[s].answer \in {NoAnswer, req[s].answer})
    BY <1>3, Zenon
  <1>5. ConnInv'
    BY <1>3, <1>4, AloneKeeps, Zenon
  <1> QED
    BY <1>2, <1>5, Zenon

-----------------------------------------------------------------------------
\* At the start nothing is in flight and no connection exists.
LEMMA ConnInit ==
  ASSUME Init
  PROVE  Typed /\ ConnInv
  <1> DEFINE F(r) == IF r \in plan.requests THEN NotSent ELSE [NotSent EXCEPT !.at = "failed"]
  <1>1. /\ plan \in Plans /\ req = [r \in Requests |-> F(r)] /\ pool = <<>>
        /\ conn = [c \in Conns |-> NoConn] /\ exec = [c \in Conns |-> NoExec]
        /\ entries = [k \in Keys |-> NoEntry] /\ acked = {} /\ stop = "up"
    BY Zenon DEF Init
  <1>2. /\ clientFree = ClientConns /\ controlGate = 1 /\ serverFree = ServerConns
        /\ reserve = ControlConns /\ nextToken = 1 /\ gates = Capacity
    BY Zenon DEF Init
  <1>3. NotSent \in Reqs /\ NotSent.at = "new" /\ NotSent.answer = NoAnswer
    BY Records, Zenon
  <1>4. ASSUME NEW r \in Requests PROVE F(r) \in Reqs /\ F(r).at # "sent" /\ F(r).answer = NoAnswer
    <2>1. LET y == [NotSent EXCEPT !.at = "failed"] IN
            y \in Reqs /\ y.at = "failed" /\ y.answer = NoAnswer
      BY <1>3, Zenon DEF Reqs
    <2> QED
      BY <1>3, <2>1, Zenon
  <1> HIDE DEF F
  <1>5. req \in [Requests -> Reqs] /\ \A r \in Requests : req[r].at # "sent" /\ req[r].answer = NoAnswer
    BY <1>1, <1>4, Zenon
  <1>6. conn \in [Conns -> ConnStates] /\ exec \in [Conns -> Execs] /\ entries \in [Keys -> EntryStates]
    BY <1>1, Records, Zenon DEF Execs
  <1>7. /\ clientFree \in Nat /\ controlGate \in Nat /\ serverFree \in Nat /\ reserve \in Nat
        /\ nextToken \in Nat \ {0} /\ gates \in [Gates -> Nat]
    BY <1>2, TransportAssumption
  <1>8. pool \in Seq(Conns) /\ DOMAIN pool = {} /\ Len(pool) <= MaxIdle
    BY <1>1, TransportAssumption
  <1>9. Typed
    BY <1>1, <1>5, <1>6, <1>7, <1>8, Zenon DEF Typed
  <1>10. OwnConnection /\ NoSharing /\ NoCrossedAnswers
    BY <1>5, Zenon DEF OwnConnection, NoSharing, NoCrossedAnswers, Sent
  <1>11. \A c \in Conns : conn[c] = NoConn /\ exec[c] = NoExec
    BY <1>1, Zenon
  <1>12. \A c \in Conns : conn[c].cli = "none" /\ conn[c].inq = "none" /\ conn[c].outq = NoAnswer
                          /\ ~Live(c)
    BY <1>11, Records, Zenon DEF Live
  <1>13. \A c \in Conns : OneThing(c)
    BY <1>12, Zenon DEF OneThing, Empty
  <1>14. PoolIsIdle
    BY <1>8, <1>12, Zenon DEF PoolIsIdle
  <1> QED
    BY <1>9, <1>10, <1>13, <1>14, Zenon DEF ConnInv

\* Every step keeps a request to its own connection.
LEMMA ConnStep ==
  ASSUME Typed, ConnInv, [Next]_vars
  PROVE  Typed' /\ ConnInv'
  <1>1. ASSUME NEW r \in Requests, ClientStep(r) \/ ClientTimeout(r) PROVE Typed' /\ ConnInv'
    BY <1>1, AcquireKeeps, TakeIdleKeeps, OpenKeeps, ConnectFailsKeeps, ReceiveKeeps, BrokenKeeps,
       TimeoutKeeps, Zenon DEF ClientStep
  <1>2. ASSUME NEW c \in Conns, ServerStep(c) PROVE Typed' /\ ConnInv'
    BY <1>2, BeginKeeps, RefuseKeeps, CancelKeeps, AdmitKeeps, ExecuteKeeps, ActivateKeeps,
       FinishKeeps, Zenon DEF ServerStep
  <1> QED
    BY <1>1, <1>2, TaskEndsKeeps, DrainedKeeps, QuietKeeps, Zenon DEF Next

\* A response is always the answer to the request that receives it, whatever is
\* reused, given up, cancelled or shut down meanwhile (coordination.rs: a
\* connection leaves the pool with a request and returns with its answer read).
THEOREM NoCrossedTheorem == Spec => []NoCrossedAnswers
  <1>1. Init => Typed /\ ConnInv
    BY ConnInit, Zenon
  <1>2. Typed /\ ConnInv /\ [Next]_vars => (Typed /\ ConnInv)'
    BY ConnStep, Zenon
  <1>3. Typed /\ ConnInv => NoCrossedAnswers
    BY Zenon DEF ConnInv
  <1> QED
    BY <1>1, <1>2, <1>3, PTL DEF Spec

-----------------------------------------------------------------------------
(* The registry of queries.                                                *)

\* The query runs, or has run and has rows to answer with.
Strong(c) == exec[c].at = "running" \/ (exec[c].at = "executed" /\ exec[c].ok)
EntryOf(c) == entries[KeyOf(exec[c].r)]

\* Tokens are issued in order, to one execution each, and registered under its id.
TokensIssued ==
    /\ \A k \in Keys : entries[k].token < nextToken /\ (entries[k].token = 0 => entries[k] = NoEntry)
    /\ \A t \in acked : t < nextToken
    /\ \A c \in Conns : Live(c) => exec[c].token < nextToken
TokensUnique == \A c, d \in Conns : Live(c) /\ Live(d) /\ exec[c].token = exec[d].token => c = d
TokensKeyed ==
    \A c \in Conns : \A k \in Keys :
        Live(c) /\ entries[k].token = exec[c].token => k = KeyOf(exec[c].r)

\* What is registered is executed, until a forced shutdown.
Registered ==
    stop # "stopped" => \A k \in Keys : entries[k] # NoEntry =>
        \E c \in Conns : Live(c) /\ exec[c].token = entries[k].token

\* A query that runs is registered, and marked once its cancellation is acknowledged.
StrongOwns ==
    \A c \in Conns : Strong(c) =>
        /\ Owns(c) /\ EntryOf(c).state \in {"running", "cancelled"}
        /\ exec[c].token \in acked => EntryOf(c).state = "cancelled"

\* A query that waits for admission and is registered has not been cancelled.
QueuedFresh ==
    \A c \in Conns : exec[c].at = "queued" /\ Owns(c) =>
        EntryOf(c).state = "queued" /\ exec[c].token \notin acked

RegistryInv == /\ TokensIssued /\ TokensUnique /\ TokensKeyed /\ Registered
               /\ StrongOwns /\ QueuedFresh

\* Executions go on, or none changes, and the registry is left alone.
Continues ==
    /\ \A d \in Conns : /\ exec'[d].r = exec[d].r /\ exec'[d].token = exec[d].token
                        /\ Live(d)' <=> Live(d)
                        /\ Strong(d)' => Strong(d)
                        /\ exec'[d].at = "queued" => exec[d].at = "queued"
    /\ plan' = plan /\ entries' = entries /\ nextToken' = nextToken /\ acked' = acked
    /\ stop = "stopped" => stop' = "stopped"
LEMMA ContinuesKeeps ==
  ASSUME RegistryInv, Continues
  PROVE  RegistryInv'
  <1>1. \A d \in Conns : /\ exec'[d].r = exec[d].r /\ exec'[d].token = exec[d].token
                         /\ Live(d)' <=> Live(d)
                         /\ Strong(d)' => Strong(d)
                         /\ exec'[d].at = "queued" => exec[d].at = "queued"
    BY Zenon DEF Continues
  <1>2. /\ plan' = plan /\ entries' = entries /\ nextToken' = nextToken /\ acked' = acked
        /\ stop = "stopped" => stop' = "stopped"
    BY Zenon DEF Continues
  <1>3. TokensIssued /\ TokensUnique /\ TokensKeyed /\ Registered /\ StrongOwns /\ QueuedFresh
    BY Zenon DEF RegistryInv
  <1>4. \A d \in Conns : (Owns(d)' <=> Owns(d)) /\ EntryOf(d)' = EntryOf(d)
    BY <1>1, <1>2, Zenon DEF Owns, EntryOf, KeyOf
  <1>5. TokensIssued'
    <2>1. \A d \in Conns : Live(d)' => exec'[d].token < nextToken
      BY <1>1, <1>3, Zenon DEF TokensIssued
    <2> QED
      BY <1>2, <1>3, <2>1, Zenon DEF TokensIssued
  <1>a. TokensUnique'
    <2> SUFFICES ASSUME NEW c \in Conns, NEW d \in Conns, Live(c)', Live(d)', exec'[c].token = exec'[d].token
                 PROVE  c = d
      BY Zenon DEF TokensUnique
    <2>1. Live(c) /\ Live(d) /\ exec[c].token = exec[d].token
      BY <1>1, Zenon
    <2> QED
      BY <1>3, <2>1, Zenon DEF TokensUnique
  <1>6. TokensKeyed'
    <2> SUFFICES ASSUME NEW c \in Conns, NEW k \in Keys, Live(c)', entries'[k].token = exec'[c].token
                 PROVE  k = KeyOf(exec[c].r)'
      BY Zenon DEF TokensKeyed
    <2>1. Live(c) /\ entries[k].token = exec[c].token /\ exec'[c].r = exec[c].r
      BY <1>1, <1>2, Zenon
    <2> QED
      BY <1>2, <1>3, <2>1, Zenon DEF TokensKeyed, KeyOf
  <1>7. Registered'
    BY <1>1, <1>2, <1>3, Zenon DEF Registered
  <1>8. StrongOwns'
    BY <1>1, <1>2, <1>3, <1>4, Zenon DEF StrongOwns
  <1>9. QueuedFresh'
    BY <1>1, <1>2, <1>3, <1>4, Zenon DEF QueuedFresh
  <1> QED
    BY <1>5, <1>a, <1>6, <1>7, <1>8, <1>9, Zenon DEF RegistryInv

\* Steps of the client, and of tasks that execute nothing.
LEMMA SameRegistry ==
  ASSUME RegistryInv, UNCHANGED <<plan, exec, entries, nextToken, acked>>,
         stop = "stopped" => stop' = "stopped"
  PROVE  RegistryInv'
  <1>1. Continues
    BY Zenon DEF Continues, Live, Strong
  <1> QED
    BY <1>1, ContinuesKeeps, Zenon

\* One execution goes on.
GoesOn(c) ==
    /\ Live(c) /\ Live(c)' /\ exec'[c].r = exec[c].r /\ exec'[c].token = exec[c].token
    /\ Strong(c)' => Strong(c)
    /\ exec'[c].at = "queued" => exec[c].at = "queued"
    /\ \A d \in Conns \ {c} : exec'[d] = exec[d]
    /\ plan' = plan /\ entries' = entries /\ nextToken' = nextToken /\ acked' = acked
    /\ stop' = stop
LEMMA GoesOnKeeps ==
  ASSUME RegistryInv, NEW c \in Conns, GoesOn(c)
  PROVE  RegistryInv'
  <1>1. ASSUME NEW d \in Conns
        PROVE  /\ exec'[d].r = exec[d].r /\ exec'[d].token = exec[d].token
               /\ Live(d)' <=> Live(d)
               /\ Strong(d)' => Strong(d)
               /\ exec'[d].at = "queued" => exec[d].at = "queued"
    <2>1. CASE d = c
      BY <2>1, Zenon DEF GoesOn
    <2>2. CASE d # c
      BY <2>2, Zenon DEF GoesOn, Live, Strong
    <2> QED
      BY <2>1, <2>2, Zenon
  <1>2. Continues
    BY <1>1, Zenon DEF Continues, GoesOn
  <1> QED
    BY <1>2, ContinuesKeeps, Zenon

\* The fields of an execution that Admit, Activate and Executed leave alone.
LEMMA BlankAt == NoExec.at = "none"
  BY Zenon DEF NoExec
LEMMA ExecPermits ==
  ASSUME Typed, NEW c \in Conns, Live(c), NEW n \in Nat, exec' = [exec EXCEPT ![c].permits = n]
  PROVE  /\ exec'[c].token = exec[c].token /\ exec'[c].at = exec[c].at /\ exec'[c].ok = exec[c].ok
         /\ exec'[c].permits = n /\ exec'[c] # NoExec
  <1> DEFINE x == exec[c]
  <1>1. exec \in [Conns -> Execs] /\ x \in LiveExecs
    BY LiveTyped, Zenon DEF Typed
  <1>2. exec'[c] = [x EXCEPT !.permits = n]
    BY <1>1, Zenon
  <1>3. x.at \in {"queued", "running", "executed"}
    BY <1>1, Zenon DEF LiveExecs
  <1> HIDE DEF x
  <1>4. /\ exec'[c].token = x.token /\ exec'[c].at = x.at /\ exec'[c].ok = x.ok /\ exec'[c].permits = n
    BY <1>1, <1>2, Zenon DEF LiveExecs
  <1>5. exec'[c] # NoExec
    BY <1>3, <1>4, BlankAt, Zenon
  <1> QED
    BY <1>4, <1>5, Zenon DEF x
LEMMA ExecRunning ==
  ASSUME Typed, NEW c \in Conns, Live(c), exec' = [exec EXCEPT ![c].at = "running"]
  PROVE  /\ exec'[c].token = exec[c].token /\ exec'[c].at = "running"
         /\ exec'[c].permits = exec[c].permits /\ exec'[c] # NoExec
  <1> DEFINE x == exec[c]
  <1>1. exec \in [Conns -> Execs] /\ x \in LiveExecs
    BY LiveTyped, Zenon DEF Typed
  <1>2. exec'[c] = [x EXCEPT !.at = "running"]
    BY <1>1, Zenon
  <1> HIDE DEF x
  <1>3. /\ exec'[c].token = x.token /\ exec'[c].at = "running" /\ exec'[c].permits = x.permits
    BY <1>1, <1>2, Zenon DEF LiveExecs
  <1>4. exec'[c] # NoExec
    BY <1>3, BlankAt, Zenon
  <1> QED
    BY <1>3, <1>4, Zenon DEF x
LEMMA ExecExecuted ==
  ASSUME Typed, NEW c \in Conns, Live(c), NEW ok \in BOOLEAN,
         exec' = [exec EXCEPT ![c].at = "executed", ![c].ok = ok, ![c].permits = 0]
  PROVE  /\ exec'[c].token = exec[c].token /\ exec'[c].at = "executed" /\ exec'[c].ok = ok
         /\ exec'[c].permits = 0 /\ exec'[c] # NoExec
  <1> DEFINE x == exec[c]
  <1>1. exec \in [Conns -> Execs] /\ x \in LiveExecs
    BY LiveTyped, Zenon DEF Typed
  <1>2. exec'[c] = [x EXCEPT !.at = "executed", !.ok = ok, !.permits = 0]
    BY <1>1, Zenon
  <1> HIDE DEF x
  <1>3. /\ exec'[c].token = x.token /\ exec'[c].at = "executed" /\ exec'[c].ok = ok
        /\ exec'[c].permits = 0
    BY <1>1, <1>2, Zenon DEF LiveExecs
  <1>4. exec'[c] # NoExec
    BY <1>3, BlankAt, Zenon
  <1> QED
    BY <1>3, <1>4, Zenon DEF x

\* Admit.
LEMMA AdmitRegistry ==
  ASSUME Typed, RegistryInv, NEW c \in Conns, Admit(c)
  PROVE  RegistryInv'
  <1> DEFINE n == exec[c].permits + 1
  <1>1. /\ exec[c].at = "queued" /\ exec' = [exec EXCEPT ![c].permits = n]
        /\ plan' = plan /\ entries' = entries /\ nextToken' = nextToken /\ acked' = acked /\ stop' = stop
    BY Zenon DEF Admit
  <1>2. Live(c)
    BY <1>1, AtIsLive, Zenon
  <1>3. n \in Nat
    BY <1>2, LiveTyped
  <1> HIDE DEF n
  <1>4. exec'[c].r = exec[c].r /\ \A d \in Conns \ {c} : exec'[d] = exec[d]
    BY <1>1, <1>2, <1>3, ExecSet, Zenon DEF Typed
  <1>5. /\ exec'[c].token = exec[c].token /\ exec'[c].at = exec[c].at /\ exec'[c].ok = exec[c].ok
        /\ exec'[c] # NoExec
    BY <1>1, <1>2, <1>3, ExecPermits, Zenon
  <1>6. GoesOn(c)
    BY <1>1, <1>2, <1>4, <1>5, Zenon DEF GoesOn, Live, Strong
  <1> QED
    BY <1>6, GoesOnKeeps, Zenon

\* An execution ends; only one that ran has rows.
LEMMA EndsRegistry ==
  ASSUME Typed, RegistryInv, NEW c \in Conns, NEW ok \in BOOLEAN, Ends(c, ok),
         ok => exec[c].at = "running"
  PROVE  RegistryInv'
  <1>1. /\ Live(c) /\ exec' = [exec EXCEPT ![c].at = "executed", ![c].ok = ok, ![c].permits = 0]
        /\ plan' = plan /\ entries' = entries /\ nextToken' = nextToken /\ acked' = acked /\ stop' = stop
    BY Zenon DEF Ends, Executed
  <1>2. exec'[c].r = exec[c].r /\ \A d \in Conns \ {c} : exec'[d] = exec[d]
    BY <1>1, ExecSet, Zenon DEF Typed
  <1>3. /\ exec'[c].token = exec[c].token /\ exec'[c].at = "executed" /\ exec'[c].ok = ok
        /\ exec'[c] # NoExec
    BY <1>1, ExecExecuted, Zenon
  <1>4. GoesOn(c)
    BY <1>1, <1>2, <1>3, Zenon DEF GoesOn, Live, Strong
  <1> QED
    BY <1>4, GoesOnKeeps, Zenon

\* AdmissionCancelled and Execute.
LEMMA ExecuteRegistry ==
  ASSUME Typed, RegistryInv, NEW c \in Conns, AdmissionCancelled(c) \/ Execute(c)
  PROVE  RegistryInv'
  <1>1. PICK ok \in BOOLEAN :
          /\ Executed(c, ok) /\ exec[c].at \in {"queued", "running", "executed"}
          /\ ok => exec[c].at = "running"
          /\ UNCHANGED <<plan, clientVars, conn, serverFree, reserve, entries, nextToken, cancelled,
                         acked, stop>>
    BY Zenon DEF AdmissionCancelled, Execute
  <1>2. Ends(c, ok)
    BY <1>1, AtIsLive, Zenon DEF Ends
  <1> QED
    BY <1>1, <1>2, EndsRegistry, Zenon

\* Two executions own no entry together.
LEMMA OwnAlone ==
  ASSUME Typed, RegistryInv, NEW c \in Conns, NEW d \in Conns, Live(c), Live(d), Owns(c), Owns(d),
         KeyOf(exec[c].r) = KeyOf(exec[d].r)
  PROVE  c = d
  BY Zenon DEF RegistryInv, TokensUnique, Owns

\* What runs or waits is live.
LEMMA StrongIsLive ==
  ASSUME NEW c \in Conns, Strong(c) \/ exec[c].at = "queued"
  PROVE  Live(c)
  BY AtIsLive, Zenon DEF Strong

\* Activate.
LEMMA ActivateRegistry ==
  ASSUME Typed, RegistryInv, NEW c \in Conns, Activate(c)
  PROVE  RegistryInv'
  <1> DEFINE key == KeyOf(exec[c].r)
  <1>1. /\ exec[c].at = "queued"
        /\ \/ /\ Owns(c) /\ entries' = [entries EXCEPT ![key].state = "running"]
              /\ exec' = [exec EXCEPT ![c].at = "running"] /\ UNCHANGED gates
           \/ Executed(c, FALSE) /\ UNCHANGED entries
        /\ UNCHANGED <<plan, clientVars, conn, serverFree, reserve, nextToken, cancelled, acked, stop>>
    BY Zenon DEF Activate, Owns
  <1>2. Live(c)
    BY <1>1, AtIsLive, Zenon
  <1>3. CASE Executed(c, FALSE) /\ UNCHANGED entries
    <2>1. Ends(c, FALSE)
      BY <1>1, <1>2, <1>3, Zenon DEF Ends
    <2> QED
      BY <2>1, EndsRegistry, Zenon
  <1>4. CASE /\ Owns(c) /\ entries' = [entries EXCEPT ![key].state = "running"]
             /\ exec' = [exec EXCEPT ![c].at = "running"] /\ UNCHANGED gates
    <2>1. key \in Keys /\ exec[c].token \in Nat \ {0}
      BY <1>2, LiveTyped, PlanTyped, Zenon
    <2>2. entries[key].token = exec[c].token /\ entries[key].state = "queued" /\ exec[c].token \notin acked
      BY <1>1, <1>4, Zenon DEF RegistryInv, QueuedFresh, Owns, EntryOf
    <2> HIDE DEF key
    <2>3. /\ entries'[key].token = entries[key].token /\ entries'[key].state = "running"
          /\ \A k \in Keys \ {key} : entries'[k] = entries[k]
      BY <1>4, <2>1, Zenon DEF Typed, EntryStates
    <2>4. \A k \in Keys : entries'[k].token = entries[k].token
      BY <2>3, Zenon
    <2>5. exec'[c].r = exec[c].r /\ \A d \in Conns \ {c} : exec'[d] = exec[d]
      BY <1>2, <1>4, ExecSet, Zenon DEF Typed
    <2>6. exec'[c].token = exec[c].token /\ exec'[c].at = "running" /\ exec'[c] # NoExec
      BY <1>2, <1>4, ExecRunning, Zenon
    <2>7. \A d \in Conns : exec'[d].r = exec[d].r /\ exec'[d].token = exec[d].token
                           /\ (Live(d)' <=> Live(d))
      BY <1>2, <2>5, <2>6, Zenon DEF Live
    <2>8. plan' = plan /\ nextToken' = nextToken /\ acked' = acked /\ stop' = stop
      BY <1>1, Zenon
    <2>9. TokensIssued'
      <3>1. entries[key].token # 0
        BY <2>1, <2>2, Zenon
      <3>2. \A k \in Keys : entries'[k].token < nextToken' /\ (entries'[k].token = 0 => entries'[k] = NoEntry)
        BY <2>3, <2>4, <2>8, <3>1, Zenon DEF RegistryInv, TokensIssued
      <3> QED
        BY <2>7, <2>8, <3>2, Zenon DEF RegistryInv, TokensIssued
    <2>10. TokensUnique'
      BY <2>7, Zenon DEF RegistryInv, TokensUnique
    <2>11. TokensKeyed'
      <3> SUFFICES ASSUME NEW d \in Conns, NEW k \in Keys, Live(d)', entries'[k].token = exec'[d].token
                   PROVE  k = KeyOf(exec[d].r)'
        BY Zenon DEF TokensKeyed
      <3>1. Live(d) /\ entries[k].token = exec[d].token
        BY <2>4, <2>7, Zenon
      <3>2. KeyOf(exec[d].r)' = KeyOf(exec[d].r)
        BY <2>7, <2>8, Zenon DEF KeyOf
      <3> QED
        BY <3>1, <3>2, Zenon DEF RegistryInv, TokensKeyed
    <2>12. Registered'
      <3>1. entries[key] # NoEntry
        BY <2>1, <2>2, Records, Zenon
      <3>2. \A k \in Keys : entries'[k] # NoEntry => entries[k] # NoEntry
        BY <2>3, <3>1, Zenon
      <3> QED
        BY <2>4, <2>7, <2>8, <3>2, Zenon DEF RegistryInv, Registered
    <2>13. ASSUME NEW d \in Conns, d # c, Live(d), Owns(d)' \/ Owns(d)
           PROVE  Owns(d) /\ Owns(d)' /\ EntryOf(d)' = EntryOf(d)
      <3> DEFINE kd == KeyOf(exec[d].r)
      <3>1. kd \in Keys
        BY <2>13, LiveTyped, PlanTyped, Zenon
      <3>2. KeyOf(exec[d].r)' = kd
        BY <2>7, <2>8, Zenon DEF KeyOf
      <3>3. Owns(d) /\ Owns(d)'
        BY <2>4, <2>7, <2>13, <3>1, <3>2, Zenon DEF Owns
      <3>4. kd # key
        BY <1>2, <1>4, <2>13, <3>3, OwnAlone, Zenon DEF key
      <3> QED
        BY <2>3, <3>1, <3>2, <3>3, <3>4, Zenon DEF EntryOf
    <2>14. KeyOf(exec[c].r)' = key
      BY <2>7, <2>8, Zenon DEF KeyOf, key
    <2>15. StrongOwns'
      <3> SUFFICES ASSUME NEW d \in Conns, Strong(d)'
                   PROVE  /\ Owns(d)' /\ EntryOf(d).state' \in {"running", "cancelled"}
                          /\ exec'[d].token \in acked' => EntryOf(d).state' = "cancelled"
        BY Zenon DEF StrongOwns
      <3>1. CASE d = c
        BY <2>2, <2>3, <2>6, <2>8, <2>14, <3>1, Zenon DEF Owns, EntryOf
      <3>2. CASE d # c
        <4>1. exec'[d] = exec[d] /\ Strong(d)
          BY <2>5, <3>2, Zenon DEF Strong
        <4>2. Live(d)
          BY <4>1, StrongIsLive, Zenon
        <4>3. /\ Owns(d) /\ EntryOf(d).state \in {"running", "cancelled"}
              /\ exec[d].token \in acked => EntryOf(d).state = "cancelled"
          BY <4>1, Zenon DEF RegistryInv, StrongOwns
        <4> QED
          BY <2>8, <2>13, <3>2, <4>1, <4>2, <4>3, Zenon
      <3> QED
        BY <3>1, <3>2, Zenon
    <2>16. QueuedFresh'
      <3> SUFFICES ASSUME NEW d \in Conns, exec'[d].at = "queued", Owns(d)'
                   PROVE  EntryOf(d).state' = "queued" /\ exec'[d].token \notin acked'
        BY Zenon DEF QueuedFresh
      <3>1. d # c
        BY <2>6
      <3>2. exec'[d] = exec[d] /\ exec[d].at = "queued"
        BY <2>5, <3>1, Zenon
      <3>3. Live(d)
        BY <3>2, StrongIsLive, Zenon
      <3>4. Owns(d) /\ EntryOf(d)' = EntryOf(d)
        BY <2>13, <3>1, <3>3, Zenon
      <3> QED
        BY <2>8, <3>2, <3>4, Zenon DEF RegistryInv, QueuedFresh
    <2> QED
      BY <2>9, <2>10, <2>11, <2>12, <2>15, <2>16, Zenon DEF RegistryInv
  <1> QED
    BY <1>1, <1>3, <1>4, Zenon

\* Finish: the execution is over and its own entry gone.
LEMMA FinishRegistry ==
  ASSUME Typed, RegistryInv, NEW c \in Conns, Finish(c)
  PROVE  RegistryInv'
  <1> DEFINE key == KeyOf(exec[c].r)
  <1>1. /\ exec[c].at = "executed"
        /\ entries' = IF Owns(c) THEN [entries EXCEPT ![key] = NoEntry] ELSE entries
        /\ exec' = [exec EXCEPT ![c] = NoExec]
        /\ plan' = plan /\ nextToken' = nextToken /\ acked' = acked /\ stop' = stop
    BY Zenon DEF Finish
  <1>2. Live(c)
    BY <1>1, AtIsLive, Zenon
  <1>a. acked' = acked
    BY <1>1, Zenon
  <1>3. key \in Keys /\ exec[c].token \in Nat \ {0}
    BY <1>2, LiveTyped, PlanTyped, Zenon
  <1>4. exec'[c] = NoExec /\ \A d \in Conns \ {c} : exec'[d] = exec[d]
    BY <1>1, Zenon DEF Typed
  <1>5. /\ \A k \in Keys : entries'[k] = entries[k] \/ (k = key /\ Owns(c) /\ entries'[k] = NoEntry)
        /\ Owns(c) => entries'[key] = NoEntry
    BY <1>1, <1>3, Zenon DEF Typed
  <1> HIDE DEF key
  <1>6. \A k \in Keys : entries'[k].token = entries[k].token \/ entries'[k].token = 0
    BY <1>5, Records, Zenon
  <1>7. \A d \in Conns : Live(d)' => d # c /\ Live(d) /\ exec'[d] = exec[d]
                                     /\ exec[d].token \in Nat \ {0}
    BY <1>4, LiveTyped, Zenon DEF Live
  <1>8. TokensIssued'
    <2>1. nextToken \in Nat \ {0} /\ NoEntry.token = 0
      BY Records, Zenon DEF Typed
    <2>2. 0 < nextToken
      BY <2>1
    <2>3. \A k \in Keys : entries'[k].token < nextToken' /\ (entries'[k].token = 0 => entries'[k] = NoEntry)
      BY <1>1, <1>5, <2>1, <2>2, Zenon DEF RegistryInv, TokensIssued
    <2> QED
      BY <1>1, <1>7, <2>3, Zenon DEF RegistryInv, TokensIssued
  <1>9. TokensUnique'
    BY <1>7, Zenon DEF RegistryInv, TokensUnique
  <1>10. TokensKeyed'
    <2> SUFFICES ASSUME NEW d \in Conns, NEW k \in Keys, Live(d)', entries'[k].token = exec'[d].token
                 PROVE  k = KeyOf(exec[d].r)'
      BY Zenon DEF TokensKeyed
    <2>1. Live(d) /\ exec'[d] = exec[d] /\ entries[k].token = exec[d].token
      BY <1>6, <1>7, Zenon
    <2> QED
      BY <1>1, <2>1, Zenon DEF RegistryInv, TokensKeyed, KeyOf
  <1>11. Registered'
    <2> SUFFICES ASSUME stop # "stopped", NEW k \in Keys, entries'[k] # NoEntry
                 PROVE  \E d \in Conns : Live(d)' /\ exec'[d].token = entries'[k].token
      BY <1>1, Zenon DEF Registered
    <2>1. entries'[k] = entries[k]
      BY <1>5, Zenon
    <2>2. PICK d \in Conns : Live(d) /\ exec[d].token = entries[k].token
      BY <2>1, Zenon DEF RegistryInv, Registered
    <2>3. d # c
      <3> SUFFICES ASSUME d = c PROVE FALSE
        BY Zenon
      <3>1. k = key
        BY <1>2, <2>2, Zenon DEF RegistryInv, TokensKeyed, key
      <3>2. Owns(c)
        BY <2>2, <3>1, Zenon DEF Owns, key
      <3> QED
        BY <1>5, <3>1, <3>2, Zenon
    <2> QED
      BY <1>4, <2>1, <2>2, <2>3, Zenon DEF Live
  <1>12. ASSUME NEW d \in Conns, Live(d)', Owns(d)' \/ Owns(d)
         PROVE  Owns(d) /\ Owns(d)' /\ EntryOf(d)' = EntryOf(d)
    <2> DEFINE kd == KeyOf(exec[d].r)
    <2>1. d # c /\ Live(d) /\ exec'[d] = exec[d] /\ exec[d].token \in Nat \ {0}
      BY <1>7, <1>12, Zenon
    <2>2. kd \in Keys
      BY <2>1, LiveTyped, PlanTyped, Zenon
    <2>3. KeyOf(exec[d].r)' = kd
      BY <1>1, <2>1, Zenon DEF KeyOf
    <2>4. Owns(d)
      BY <1>6, <1>12, <2>1, <2>2, <2>3, Zenon DEF Owns
    <2>5. ~(kd = key /\ Owns(c))
      BY <1>2, <2>1, <2>4, OwnAlone, Zenon DEF key
    <2>6. entries'[kd] = entries[kd]
      BY <1>5, <2>2, <2>5, Zenon
    <2> QED
      BY <2>1, <2>3, <2>4, <2>6, Zenon DEF Owns, EntryOf
  <1>13. StrongOwns'
    <2> SUFFICES ASSUME NEW d \in Conns, Strong(d)'
                 PROVE  /\ Owns(d)' /\ EntryOf(d).state' \in {"running", "cancelled"}
                        /\ exec'[d].token \in acked' => EntryOf(d).state' = "cancelled"
      BY Zenon DEF StrongOwns
    <2>1. d # c
      <3>1. NoExec.at = "none"
        BY Records, Zenon
      <3> QED
        BY <1>4, <3>1 DEF Strong
    <2>2. exec'[d] = exec[d] /\ Strong(d)
      BY <1>4, <2>1, Zenon DEF Strong
    <2>3. Live(d)'
      BY <2>2, StrongIsLive, Zenon DEF Live
    <2>4. /\ Owns(d) /\ EntryOf(d).state \in {"running", "cancelled"}
          /\ exec[d].token \in acked => EntryOf(d).state = "cancelled"
      BY <2>2, Zenon DEF RegistryInv, StrongOwns
    <2> QED
      BY <1>a, <1>12, <2>2, <2>3, <2>4, Zenon
  <1>14. QueuedFresh'
    <2> SUFFICES ASSUME NEW d \in Conns, exec'[d].at = "queued", Owns(d)'
                 PROVE  EntryOf(d).state' = "queued" /\ exec'[d].token \notin acked'
      BY Zenon DEF QueuedFresh
    <2>1. d # c
      <3>1. NoExec.at = "none"
        BY Records, Zenon
      <3> QED
        BY <1>4, <3>1
    <2>2. exec'[d] = exec[d] /\ exec[d].at = "queued"
      BY <1>4, <2>1, Zenon
    <2>3. Live(d)'
      BY <2>2, StrongIsLive, Zenon DEF Live
    <2>4. Owns(d) /\ EntryOf(d)' = EntryOf(d)
      BY <1>12, <2>3, Zenon
    <2> QED
      BY <1>a, <2>2, <2>4, Zenon DEF RegistryInv, QueuedFresh
  <1> QED
    BY <1>8, <1>9, <1>10, <1>11, <1>13, <1>14, Zenon DEF RegistryInv

\* CancelActive: an entry is removed or marked, and the cancellation acknowledged.
LEMMA CancelRegistry ==
  ASSUME Typed, RegistryInv, NEW c \in Conns, CancelActive(c)
  PROVE  RegistryInv'
  <1> DEFINE key == KeyOf(conn[c].inq)
             marked == [entries[key] EXCEPT !.state = "cancelled"]
  <1>1. /\ Readable(c) /\ plan' = plan /\ exec' = exec /\ nextToken' = nextToken /\ stop' = stop
        /\ \/ UNCHANGED <<entries, cancelled, acked>>
           \/ /\ entries[key] # NoEntry /\ acked' = acked \cup {entries[key].token}
              /\ entries' = [entries EXCEPT ![key] = IF entries[key].state = "queued" THEN NoEntry
                                                     ELSE marked]
    BY Zenon DEF CancelActive
  <1>2. key \in Keys
    BY <1>1, ReadableFrame, PlanTyped, Zenon
  <1>3. CASE UNCHANGED <<entries, cancelled, acked>>
    BY <1>1, <1>3, SameRegistry, Zenon
  <1>4. CASE /\ entries[key] # NoEntry /\ acked' = acked \cup {entries[key].token}
             /\ entries' = [entries EXCEPT ![key] = IF entries[key].state = "queued" THEN NoEntry
                                                    ELSE marked]
    <2>1. /\ entries[key] \in EntryStates /\ entries[key].token # 0 /\ entries[key].token < nextToken
      BY <1>2, <1>4, Zenon DEF Typed, RegistryInv, TokensIssued
    <2>2. marked.token = entries[key].token /\ marked.state = "cancelled"
      BY <2>1, Zenon DEF EntryStates
    <2> HIDE DEF key, marked
    <2>3. /\ \A k \in Keys \ {key} : entries'[k] = entries[k]
          /\ entries[key].state = "queued" => entries'[key] = NoEntry
          /\ entries[key].state # "queued" => entries'[key] = marked
      BY <1>2, <1>4, Zenon DEF Typed
    <2>4. NoEntry.token = 0
      BY Records, Zenon
    <2>5. \A k \in Keys : entries'[k].token = entries[k].token \/ entries'[k] = NoEntry
      BY <2>2, <2>3, Zenon
    <2>6. \A d \in Conns : (Live(d)' <=> Live(d)) /\ (Strong(d)' <=> Strong(d)) /\ exec'[d] = exec[d]
                           /\ KeyOf(exec[d].r)' = KeyOf(exec[d].r)
      BY <1>1, Zenon DEF Live, Strong, KeyOf
    <2>7. TokensIssued'
      <3>1. nextToken \in Nat \ {0}
        BY Zenon DEF Typed
      <3>2. 0 < nextToken
        BY <3>1
      <3>3. \A k \in Keys : entries'[k].token < nextToken'
        BY <1>1, <2>4, <2>5, <3>2, Zenon DEF RegistryInv, TokensIssued
      <3>4. \A k \in Keys : entries'[k].token = 0 => entries'[k] = NoEntry
        BY <2>1, <2>2, <2>3, Zenon DEF RegistryInv, TokensIssued
      <3>5. \A t \in acked' : t < nextToken'
        BY <1>1, <1>4, <2>1, Zenon DEF RegistryInv, TokensIssued
      <3> QED
        BY <1>1, <2>6, <3>3, <3>4, <3>5, Zenon DEF RegistryInv, TokensIssued
    <2>8. TokensUnique'
      BY <2>6, Zenon DEF RegistryInv, TokensUnique
    <2>9. TokensKeyed'
      <3> SUFFICES ASSUME NEW d \in Conns, NEW k \in Keys, Live(d), entries'[k].token = exec[d].token
                   PROVE  k = KeyOf(exec[d].r)
        BY <2>6, Zenon DEF TokensKeyed
      <3>1. exec[d].token \in Nat \ {0}
        BY LiveTyped, Zenon
      <3>2. entries[k].token = exec[d].token
        BY <2>4, <2>5, <3>1, Zenon
      <3> QED
        BY <3>2, Zenon DEF RegistryInv, TokensKeyed
    <2>10. Registered'
      <3> SUFFICES ASSUME stop # "stopped", NEW k \in Keys, entries'[k] # NoEntry
                   PROVE  \E d \in Conns : Live(d) /\ exec[d].token = entries'[k].token
        BY <1>1, <2>6, Zenon DEF Registered
      <3>1. entries[k] # NoEntry /\ entries'[k].token = entries[k].token
        BY <1>4, <2>3, <2>5, Zenon
      <3> QED
        BY <3>1, Zenon DEF RegistryInv, Registered
    <2>11. ASSUME NEW d \in Conns, Live(d), KeyOf(exec[d].r) # key
           PROVE  /\ EntryOf(d)' = EntryOf(d) /\ (Owns(d)' <=> Owns(d))
                  /\ exec[d].token \in acked' => exec[d].token \in acked
      <3>1. KeyOf(exec[d].r) \in Keys
        BY <2>11, LiveTyped, PlanTyped, Zenon
      <3>2. EntryOf(d)' = EntryOf(d)
        BY <2>3, <2>6, <2>11, <3>1, Zenon DEF EntryOf
      <3>3. Owns(d)' <=> Owns(d)
        BY <2>6, <3>2, Zenon DEF Owns, EntryOf
      <3>4. exec[d].token # entries[key].token
        BY <1>2, <2>11, Zenon DEF RegistryInv, TokensKeyed
      <3> QED
        BY <1>4, <3>2, <3>3, <3>4, Zenon
    <2>12. StrongOwns'
      <3> SUFFICES ASSUME NEW d \in Conns, Strong(d)
                   PROVE  /\ Owns(d)' /\ EntryOf(d).state' \in {"running", "cancelled"}
                          /\ exec'[d].token \in acked' => EntryOf(d).state' = "cancelled"
        BY <2>6, Zenon DEF StrongOwns
      <3>1. /\ Owns(d) /\ EntryOf(d).state \in {"running", "cancelled"}
            /\ exec[d].token \in acked => EntryOf(d).state = "cancelled"
        BY Zenon DEF RegistryInv, StrongOwns
      <3>2. Live(d)
        BY StrongIsLive, Zenon
      <3>3. CASE KeyOf(exec[d].r) # key
        BY <2>6, <2>11, <3>1, <3>2, <3>3, Zenon
      <3>4. CASE KeyOf(exec[d].r) = key
        <4>1. entries[key].state # "queued" /\ entries[key].token = exec[d].token
          BY <3>1, <3>4, Zenon DEF EntryOf, Owns
        <4>2. entries'[key].token = exec[d].token /\ entries'[key].state = "cancelled"
          BY <2>2, <2>3, <4>1, Zenon
        <4>3. KeyOf(exec[d].r)' = key
          BY <2>6, <3>4, Zenon
        <4> QED
          BY <2>6, <4>2, <4>3, Zenon DEF Owns, EntryOf
      <3> QED
        BY <3>3, <3>4, Zenon
    <2>13. QueuedFresh'
      <3> SUFFICES ASSUME NEW d \in Conns, exec[d].at = "queued", Owns(d)'
                   PROVE  EntryOf(d).state' = "queued" /\ exec'[d].token \notin acked'
        BY <2>6, Zenon DEF QueuedFresh
      <3>1. Live(d) /\ exec[d].token \in Nat \ {0}
        BY StrongIsLive, LiveTyped, Zenon
      <3>2. KeyOf(exec[d].r) # key
        <4> SUFFICES ASSUME KeyOf(exec[d].r) = key PROVE FALSE
          BY Zenon
        <4>1. entries'[key].token = exec[d].token
          BY <2>6, Zenon DEF Owns
        <4>2. entries'[key] # NoEntry
          BY <2>4, <3>1, <4>1, Zenon
        <4>3. entries[key].state # "queued" /\ entries[key].token = exec[d].token
          BY <2>2, <2>3, <4>1, <4>2, Zenon
        <4> QED
          BY <4>3, Zenon DEF RegistryInv, QueuedFresh, Owns, EntryOf
      <3>3. Owns(d) /\ EntryOf(d)' = EntryOf(d) /\ (exec[d].token \in acked' => exec[d].token \in acked)
        BY <2>11, <3>1, <3>2, Zenon
      <3> QED
        BY <2>6, <3>3, Zenon DEF RegistryInv, QueuedFresh
    <2> QED
      BY <2>7, <2>8, <2>9, <2>10, <2>12, <2>13, Zenon DEF RegistryInv
  <1> QED
    BY <1>1, <1>3, <1>4, Zenon

\* BeginQuery: a new token for a free id, or nothing.
LEMMA BeginRegistry ==
  ASSUME Typed, RegistryInv, NEW c \in Conns, BeginQuery(c)
  PROVE  RegistryInv'
  <1> DEFINE r == conn[c].inq
             key == KeyOf(r)
             e == [NoExec EXCEPT !.at = "queued", !.r = r, !.token = nextToken]
             n == [token |-> nextToken, state |-> "queued"]
  <1>1. /\ Readable(c) /\ plan' = plan /\ acked' = acked /\ stop' = stop
        /\ \/ UNCHANGED <<exec, entries, nextToken>>
           \/ /\ entries[key] = NoEntry
              /\ exec' = [exec EXCEPT ![c] = e]
              /\ entries' = [entries EXCEPT ![key] = n]
              /\ nextToken' = nextToken + 1
    BY Zenon DEF BeginQuery
  <1>2. /\ key \in Keys /\ ~Live(c)
    BY <1>1, ReadableFrame, PlanTyped, Zenon
  <1>3. CASE UNCHANGED <<exec, entries, nextToken>>
    BY <1>1, <1>3, SameRegistry, Zenon
  <1>4. CASE /\ entries[key] = NoEntry
             /\ exec' = [exec EXCEPT ![c] = e]
             /\ entries' = [entries EXCEPT ![key] = n]
             /\ nextToken' = nextToken + 1
    <2>1. e.r = r /\ e.token = nextToken /\ e.at = "queued"
      <3> HIDE DEF r
      <3> DEFINE Blank == [at : {"none"}, r : {"none"}, token : {0}, permits : {0}, ok : {FALSE}]
      <3>1. NoExec \in Blank
        BY Zenon DEF NoExec
      <3> QED
        BY <3>1, Zenon
    <2>2. n.token = nextToken /\ n.state = "queued"
      BY Zenon
    <2>3. nextToken \in Nat \ {0} /\ entries \in [Keys -> EntryStates] /\ exec \in [Conns -> Execs]
          /\ acked \subseteq Nat
      BY Zenon DEF Typed
    <2>4. nextToken # 0 /\ nextToken < nextToken + 1
      BY <2>3
    <2>5. \A t \in Nat : t < nextToken => t < nextToken + 1 /\ t # nextToken
      BY <2>3
    <2> HIDE DEF e, n
    <2>6. exec'[c] = e /\ \A d \in Conns \ {c} : exec'[d] = exec[d]
      BY <1>4, <2>3, Zenon
    <2>7. entries'[key] = n /\ \A k \in Keys \ {key} : entries'[k] = entries[k]
      BY <1>2, <1>4, <2>3, Zenon
    <2>8. Live(c)' /\ exec'[c].token = nextToken /\ KeyOf(exec[c].r)' = key
      <3>1. NoExec.at = "none"
        BY Records, Zenon
      <3>2. e # NoExec
        BY <2>1, <3>1
      <3> QED
        BY <1>1, <2>1, <2>6, <3>2, Zenon DEF Live, KeyOf
    <2>9. \A d \in Conns : Live(d) => /\ d # c /\ exec'[d] = exec[d] /\ Live(d)'
                                      /\ exec[d].token \in Nat /\ exec[d].token # 0
                                      /\ exec[d].token # nextToken /\ exec[d].token < nextToken
                                      /\ KeyOf(exec[d].r)' = KeyOf(exec[d].r)
      <3> SUFFICES ASSUME NEW d \in Conns, Live(d)
                   PROVE  /\ d # c /\ exec'[d] = exec[d] /\ Live(d)'
                          /\ exec[d].token \in Nat /\ exec[d].token # 0
                          /\ exec[d].token # nextToken /\ exec[d].token < nextToken
                          /\ KeyOf(exec[d].r)' = KeyOf(exec[d].r)
        BY Zenon
      <3>1. d # c /\ exec'[d] = exec[d] /\ exec[d].token \in Nat \ {0}
        BY <1>2, <2>6, LiveTyped, Zenon
      <3>2. exec[d].token < nextToken
        BY Zenon DEF RegistryInv, TokensIssued
      <3> QED
        BY <1>1, <2>5, <3>1, <3>2, Zenon DEF Live, KeyOf
    <2>10. \A d \in Conns : Live(d)' => d = c \/ Live(d)
      BY <2>6, Zenon DEF Live
    <2>11. \A k \in Keys : entries[k].token \in Nat /\ entries[k].token < nextToken
                           /\ entries[k].token # nextToken
      <3>1. \A k \in Keys : entries[k].token \in Nat
        BY <2>3, Zenon DEF EntryStates
      <3> QED
        BY <2>5, <3>1, Zenon DEF RegistryInv, TokensIssued
    <2>12. TokensIssued'
      <3>1. \A k \in Keys : entries'[k].token < nextToken' /\ (entries'[k].token = 0 => entries'[k] = NoEntry)
        BY <1>4, <2>2, <2>4, <2>5, <2>7, <2>11, Zenon DEF RegistryInv, TokensIssued
      <3>2. \A t \in acked' : t < nextToken'
        BY <1>1, <1>4, <2>3, <2>5, Zenon DEF RegistryInv, TokensIssued
      <3>3. \A d \in Conns : Live(d)' => exec'[d].token < nextToken'
        BY <1>4, <2>4, <2>5, <2>8, <2>9, <2>10, Zenon
      <3> QED
        BY <3>1, <3>2, <3>3, Zenon DEF TokensIssued
    <2>13. TokensUnique'
      <3> SUFFICES ASSUME NEW d \in Conns, NEW f \in Conns, Live(d)', Live(f)',
                          exec'[d].token = exec'[f].token
                   PROVE  d = f
        BY Zenon DEF TokensUnique
      <3> QED
        BY <2>8, <2>9, <2>10, Zenon DEF RegistryInv, TokensUnique
    <2>14. TokensKeyed'
      <3> SUFFICES ASSUME NEW d \in Conns, NEW k \in Keys, Live(d)', entries'[k].token = exec'[d].token
                   PROVE  k = KeyOf(exec[d].r)'
        BY Zenon DEF TokensKeyed
      <3>1. CASE d = c
        BY <2>7, <2>8, <2>11, <3>1, Zenon
      <3>2. CASE d # c
        <4>1. Live(d) /\ exec'[d] = exec[d] /\ exec[d].token # nextToken
          BY <2>9, <2>10, <3>2, Zenon
        <4>2. k # key
          BY <2>2, <2>7, <4>1, Zenon
        <4>3. entries[k].token = exec[d].token
          BY <2>7, <4>1, <4>2, Zenon
        <4> QED
          BY <2>9, <4>1, <4>3, Zenon DEF RegistryInv, TokensKeyed
      <3> QED
        BY <3>1, <3>2, Zenon
    <2>15. Registered'
      <3> SUFFICES ASSUME stop # "stopped", NEW k \in Keys, entries'[k] # NoEntry
                   PROVE  \E d \in Conns : Live(d)' /\ exec'[d].token = entries'[k].token
        BY <1>1, Zenon DEF Registered
      <3>1. CASE k = key
        BY <2>2, <2>7, <2>8, <3>1, Zenon
      <3>2. CASE k # key
        <4>1. entries'[k] = entries[k]
          BY <2>7, <3>2, Zenon
        <4>2. PICK d \in Conns : Live(d) /\ exec[d].token = entries[k].token
          BY <4>1, Zenon DEF RegistryInv, Registered
        <4> QED
          BY <2>9, <4>1, <4>2, Zenon
      <3> QED
        BY <3>1, <3>2, Zenon
    <2>16. ASSUME NEW d \in Conns, Live(d), Owns(d) \/ Owns(d)'
           PROVE  Owns(d) /\ Owns(d)' /\ EntryOf(d)' = EntryOf(d)
      <3> DEFINE kd == KeyOf(exec[d].r)
      <3>1. /\ kd \in Keys /\ exec'[d] = exec[d] /\ KeyOf(exec[d].r)' = kd
            /\ exec[d].token # 0 /\ exec[d].token # nextToken
        BY <2>9, <2>16, LiveTyped, PlanTyped, Zenon
      <3>2. entries[key].token = 0
        BY <1>4, Records, Zenon
      <3>3. kd # key
        BY <2>2, <2>7, <2>16, <3>1, <3>2, Zenon DEF Owns
      <3>4. entries'[kd] = entries[kd]
        BY <2>7, <3>1, <3>3, Zenon
      <3> QED
        BY <2>16, <3>1, <3>4, Zenon DEF Owns, EntryOf
    <2>17. StrongOwns'
      <3> SUFFICES ASSUME NEW d \in Conns, Strong(d)'
                   PROVE  /\ Owns(d)' /\ EntryOf(d).state' \in {"running", "cancelled"}
                          /\ exec'[d].token \in acked' => EntryOf(d).state' = "cancelled"
        BY Zenon DEF StrongOwns
      <3>1. d # c
        BY <2>1, <2>6 DEF Strong
      <3>2. exec'[d] = exec[d] /\ Strong(d)
        BY <2>6, <3>1, Zenon DEF Strong
      <3>3. Live(d)
        BY <3>2, StrongIsLive, Zenon
      <3>4. /\ Owns(d) /\ EntryOf(d).state \in {"running", "cancelled"}
            /\ exec[d].token \in acked => EntryOf(d).state = "cancelled"
        BY <3>2, Zenon DEF RegistryInv, StrongOwns
      <3> QED
        BY <1>1, <2>16, <3>2, <3>3, <3>4, Zenon
    <2>18. QueuedFresh'
      <3> SUFFICES ASSUME NEW d \in Conns, exec'[d].at = "queued", Owns(d)'
                   PROVE  EntryOf(d).state' = "queued" /\ exec'[d].token \notin acked'
        BY Zenon DEF QueuedFresh
      <3>1. CASE d = c
        <4>1. nextToken \notin acked
          BY <2>3, <2>5, Zenon DEF RegistryInv, TokensIssued
        <4>2. EntryOf(c)' = n
          BY <2>7, <2>8, Zenon DEF EntryOf
        <4> QED
          BY <1>1, <2>2, <2>8, <3>1, <4>1, <4>2, Zenon
      <3>2. CASE d # c
        <4>1. exec'[d] = exec[d] /\ exec[d].at = "queued"
          BY <2>6, <3>2, Zenon
        <4>2. Live(d)
          BY <4>1, StrongIsLive, Zenon
        <4>3. Owns(d) /\ EntryOf(d)' = EntryOf(d)
          BY <2>16, <4>2, Zenon
        <4> QED
          BY <1>1, <4>1, <4>3, Zenon DEF RegistryInv, QueuedFresh
      <3> QED
        BY <3>1, <3>2, Zenon
    <2> QED
      BY <2>12, <2>13, <2>14, <2>15, <2>17, <2>18, Zenon DEF RegistryInv
  <1> QED
    BY <1>1, <1>3, <1>4, Zenon

\* Drained: no execution is left, and nobody is registered to be executed.
LEMMA DrainedRegistry ==
  ASSUME Typed, ConnInv, RegistryInv, Drained
  PROVE  RegistryInv'
  <1> DEFINE open == {c \in Conns : conn[c].srv = "open"}
  <1>1. /\ stop' = "stopped" /\ exec' = [c \in Conns |-> IF c \in open THEN NoExec ELSE exec[c]]
        /\ plan' = plan /\ entries' = entries /\ nextToken' = nextToken /\ acked' = acked
    BY Zenon DEF Drained
  <1>2. \A c \in Conns : exec'[c] = NoExec
    BY <1>1, Zenon DEF ConnInv, OneThing, Live
  <1>3. NoExec.at = "none"
    BY Records, Zenon
  <1>4. \A c \in Conns : exec'[c].at = "none" /\ ~Live(c)'
    BY <1>2, <1>3, Zenon DEF Live
  <1>5. \A c \in Conns : ~Strong(c)' /\ exec'[c].at # "queued"
    BY <1>4 DEF Strong
  <1>6. TokensIssued' /\ TokensUnique' /\ TokensKeyed'
    BY <1>1, <1>4, Zenon DEF RegistryInv, TokensIssued, TokensUnique, TokensKeyed
  <1>7. Registered' /\ StrongOwns' /\ QueuedFresh'
    BY <1>1, <1>5, Zenon DEF Registered, StrongOwns, QueuedFresh
  <1> QED
    BY <1>6, <1>7, Zenon DEF RegistryInv

-----------------------------------------------------------------------------
(* What is not free is held.                                               *)

Flying(r) == req[r].at \in {"gated", "sent"}
QueriesInFlight == {r \in Requests : Flying(r) /\ ~IsCancel(r)}
CancelsInFlight == {r \in Requests : Flying(r) /\ IsCancel(r)}
PlainOpen == {c \in Conns : conn[c].srv = "open" /\ ~conn[c].control}
ReservedOpen == {c \in Conns : conn[c].srv = "open" /\ conn[c].control}
Holders(g) == {c \in Conns : \E i \in 1 .. exec[c].permits : PathOf(exec[c].r)[i] = g}

\* A request of the client that has not ended holds a permit of its gate.
ClientCounts ==
    /\ clientFree + Cardinality(QueriesInFlight) = ClientConns
    /\ controlGate + Cardinality(CancelsInFlight) = 1

\* So does an open connection at the server.
ServerCounts ==
    /\ serverFree + Cardinality(PlainOpen) = ServerConns
    /\ reserve + Cardinality(ReservedOpen) = ControlConns

\* So does an execution, of every gate it has passed; it returns them when it ends.
GateCounts ==
    /\ \A g \in Gates : gates[g] + Cardinality(Holders(g)) = Capacity[g]
    /\ \A c \in Conns : Live(c) => /\ exec[c].permits <= Len(PathOf(exec[c].r))
                                   /\ exec[c].at = "executed" => exec[c].permits = 0

CountInv == ClientCounts /\ ServerCounts /\ GateCounts

\* x takes a permit: its holders were S and are T, n were free and m are.
Takes(x, S, T, n, m, N) ==
    IsFiniteSet(S) /\ x \notin S /\ T = S \cup {x} /\ n \in Nat /\ m = n - 1 /\ n + Cardinality(S) = N
\* x returns one.
Gives(x, S, T, n, m, N) ==
    IsFiniteSet(S) /\ x \in S /\ T = S \ {x} /\ n \in Nat /\ m = n + 1 /\ n + Cardinality(S) = N

\* The sums stay.
LEMMA TakesOne ==
  ASSUME NEW x, NEW S, NEW T, NEW n, NEW m, NEW N, Takes(x, S, T, n, m, N)
  PROVE  m + Cardinality(T) = N
  <1> DEFINE a == Cardinality(S)
             b == Cardinality(T)
  <1>1. IsFiniteSet(S) /\ x \notin S /\ T = S \cup {x}
    BY Zenon DEF Takes
  <1>2. b = a + 1
    BY <1>1, FS_AddElement
  <1>3. a \in Nat
    BY <1>1, FS_CardinalityType
  <1>4. n \in Nat /\ m = n - 1 /\ n + a = N
    BY Zenon DEF Takes
  <1> HIDE DEF a, b
  <1>5. m + b = N
    BY <1>2, <1>3, <1>4
  <1> QED
    BY <1>5, Zenon DEF b
LEMMA GivesOne ==
  ASSUME NEW x, NEW S, NEW T, NEW n, NEW m, NEW N, Gives(x, S, T, n, m, N)
  PROVE  m + Cardinality(T) = N
  <1> DEFINE a == Cardinality(S)
             b == Cardinality(T)
  <1>1. IsFiniteSet(S) /\ x \in S /\ T = S \ {x}
    BY Zenon DEF Gives
  <1>2. b = a - 1
    BY <1>1, FS_RemoveElement
  <1>3. a \in Nat
    BY <1>1, FS_CardinalityType
  <1>4. n \in Nat /\ m = n + 1 /\ n + a = N
    BY Zenon DEF Gives
  <1> HIDE DEF a, b
  <1>5. m + b = N
    BY <1>2, <1>3, <1>4
  <1> QED
    BY <1>5, Zenon DEF b

\* The sets that are counted are finite.
LEMMA CountedFinite ==
    /\ IsFiniteSet(QueriesInFlight) /\ Cardinality(QueriesInFlight) \in Nat
    /\ IsFiniteSet(CancelsInFlight) /\ Cardinality(CancelsInFlight) \in Nat
    /\ IsFiniteSet(PlainOpen) /\ Cardinality(PlainOpen) \in Nat
    /\ IsFiniteSet(ReservedOpen) /\ Cardinality(ReservedOpen) \in Nat
    /\ \A g \in Gates : IsFiniteSet(Holders(g)) /\ Cardinality(Holders(g)) \in Nat
  <1>1. IsFiniteSet(Requests) /\ IsFiniteSet(Conns)
    BY TransportAssumption, Zenon
  <1>2. /\ QueriesInFlight \subseteq Requests /\ CancelsInFlight \subseteq Requests
        /\ PlainOpen \subseteq Conns /\ ReservedOpen \subseteq Conns
        /\ \A g : Holders(g) \subseteq Conns
    BY Zenon DEF QueriesInFlight, CancelsInFlight, PlainOpen, ReservedOpen, Holders
  <1> QED
    BY <1>1, <1>2, FS_Subset, FS_CardinalityType, Zenon

\* The same requests are in flight.
LEMMA FlightSame ==
  ASSUME ClientCounts, plan' = plan, clientFree' = clientFree, controlGate' = controlGate,
         \A r \in Requests : Flying(r)' <=> Flying(r)
  PROVE  ClientCounts'
  <1>1. QueriesInFlight' = QueriesInFlight /\ CancelsInFlight' = CancelsInFlight
    BY Zenon DEF QueriesInFlight, CancelsInFlight, IsCancel
  <1> QED
    BY <1>1, Zenon DEF ClientCounts

\* AcquireConnection takes a permit.
LEMMA AcquireCounts ==
  ASSUME Typed, ClientCounts, NEW r \in Requests, AcquireConnection(r)
  PROVE  ClientCounts'
  <1>1. /\ req[r].at = "new" /\ req' = [req EXCEPT ![r].at = "gated"] /\ plan' = plan
    BY Zenon DEF AcquireConnection
  <1>2. /\ IsCancel(r) => controlGate' = controlGate - 1 /\ clientFree' = clientFree
        /\ ~IsCancel(r) => clientFree' = clientFree - 1 /\ controlGate' = controlGate
    BY Zenon DEF AcquireConnection
  <1>3. req'[r].at = "gated" /\ \A s \in Requests \ {r} : req'[s] = req[s]
    BY <1>1, Zenon DEF Typed, Reqs
  <1>4. Flying(r)' /\ ~Flying(r)
    BY <1>1, <1>3 DEF Flying
  <1>5. \A s \in Requests \ {r} : Flying(s)' <=> Flying(s)
    BY <1>3, Zenon DEF Flying
  <1>6. \A s \in Requests : IsCancel(s)' <=> IsCancel(s)
    BY <1>1, Zenon DEF IsCancel
  <1>7. clientFree \in Nat /\ controlGate \in Nat /\ IsFiniteSet(QueriesInFlight)
        /\ IsFiniteSet(CancelsInFlight)
    BY CountedFinite, Zenon DEF Typed
  <1>8. /\ clientFree + Cardinality(QueriesInFlight) = ClientConns
        /\ controlGate + Cardinality(CancelsInFlight) = 1
    BY Zenon DEF ClientCounts
  <1>9. CASE IsCancel(r)
    <2>1. CancelsInFlight' = CancelsInFlight \cup {r} /\ r \notin CancelsInFlight
      BY <1>4, <1>5, <1>6, <1>9, Zenon DEF CancelsInFlight
    <2>2. QueriesInFlight' = QueriesInFlight
      BY <1>5, <1>6, <1>9, Zenon DEF QueriesInFlight
    <2>3. Takes(r, CancelsInFlight, CancelsInFlight', controlGate, controlGate', 1)
      BY <1>2, <1>7, <1>8, <1>9, <2>1, Zenon DEF Takes
    <2>4. controlGate' + Cardinality(CancelsInFlight') = 1
      BY <2>3, TakesOne, Zenon
    <2> QED
      BY <1>2, <1>8, <1>9, <2>2, <2>4, Zenon DEF ClientCounts
  <1>10. CASE ~IsCancel(r)
    <2>1. QueriesInFlight' = QueriesInFlight \cup {r} /\ r \notin QueriesInFlight
      BY <1>4, <1>5, <1>6, <1>10, Zenon DEF QueriesInFlight
    <2>2. CancelsInFlight' = CancelsInFlight
      BY <1>5, <1>6, <1>10, Zenon DEF CancelsInFlight
    <2>3. Takes(r, QueriesInFlight, QueriesInFlight', clientFree, clientFree', ClientConns)
      BY <1>2, <1>7, <1>8, <1>10, <2>1, Zenon DEF Takes
    <2>4. clientFree' + Cardinality(QueriesInFlight') = ClientConns
      BY <2>3, TakesOne, Zenon
    <2> QED
      BY <1>2, <1>8, <1>10, <2>2, <2>4, Zenon DEF ClientCounts
  <1> QED
    BY <1>9, <1>10, Zenon

\* Leave returns it.
LEMMA LeaveCounts ==
  ASSUME Typed, ClientCounts, NEW r \in Requests, Flying(r),
         NEW outcome \in {"done", "failed"}, NEW answer \in Answers, Leave(r, outcome, answer),
         plan' = plan
  PROVE  ClientCounts'
  <1>1. req' = [req EXCEPT ![r].at = outcome, ![r].answer = answer]
    BY Zenon DEF Leave
  <1>2. /\ IsCancel(r) => controlGate' = controlGate + 1 /\ clientFree' = clientFree
        /\ ~IsCancel(r) => clientFree' = clientFree + 1 /\ controlGate' = controlGate
    BY Zenon DEF Leave
  <1>3. req'[r].at = outcome /\ \A s \in Requests \ {r} : req'[s] = req[s]
    BY <1>1, Zenon DEF Typed, Reqs
  <1>4. ~Flying(r)' /\ Flying(r)
    BY <1>3 DEF Flying
  <1>5. \A s \in Requests \ {r} : Flying(s)' <=> Flying(s)
    BY <1>3, Zenon DEF Flying
  <1>6. \A s \in Requests : IsCancel(s)' <=> IsCancel(s)
    BY Zenon DEF IsCancel
  <1>7. clientFree \in Nat /\ controlGate \in Nat /\ IsFiniteSet(QueriesInFlight)
        /\ IsFiniteSet(CancelsInFlight)
    BY CountedFinite, Zenon DEF Typed
  <1>8. /\ clientFree + Cardinality(QueriesInFlight) = ClientConns
        /\ controlGate + Cardinality(CancelsInFlight) = 1
    BY Zenon DEF ClientCounts
  <1>9. CASE IsCancel(r)
    <2>1. CancelsInFlight' = CancelsInFlight \ {r} /\ r \in CancelsInFlight
      BY <1>4, <1>5, <1>6, <1>9, Zenon DEF CancelsInFlight
    <2>2. QueriesInFlight' = QueriesInFlight
      BY <1>5, <1>6, <1>9, Zenon DEF QueriesInFlight
    <2>3. Gives(r, CancelsInFlight, CancelsInFlight', controlGate, controlGate', 1)
      BY <1>2, <1>7, <1>8, <1>9, <2>1, Zenon DEF Gives
    <2>4. controlGate' + Cardinality(CancelsInFlight') = 1
      BY <2>3, GivesOne, Zenon
    <2> QED
      BY <1>2, <1>8, <1>9, <2>2, <2>4, Zenon DEF ClientCounts
  <1>10. CASE ~IsCancel(r)
    <2>1. QueriesInFlight' = QueriesInFlight \ {r} /\ r \in QueriesInFlight
      BY <1>4, <1>5, <1>6, <1>10, Zenon DEF QueriesInFlight
    <2>2. CancelsInFlight' = CancelsInFlight
      BY <1>5, <1>6, <1>10, Zenon DEF CancelsInFlight
    <2>3. Gives(r, QueriesInFlight, QueriesInFlight', clientFree, clientFree', ClientConns)
      BY <1>2, <1>7, <1>8, <1>10, <2>1, Zenon DEF Gives
    <2>4. clientFree' + Cardinality(QueriesInFlight') = ClientConns
      BY <2>3, GivesOne, Zenon
    <2> QED
      BY <1>2, <1>8, <1>10, <2>2, <2>4, Zenon DEF ClientCounts
  <1> QED
    BY <1>9, <1>10, Zenon

\* The same connections are open.
LEMMA OpenSame ==
  ASSUME ServerCounts, serverFree' = serverFree, reserve' = reserve,
         \A c \in Conns : /\ conn'[c].srv = "open" <=> conn[c].srv = "open"
                          /\ conn[c].srv = "open" => conn'[c].control = conn[c].control
  PROVE  ServerCounts'
  <1>1. PlainOpen' = PlainOpen /\ ReservedOpen' = ReservedOpen
    BY Zenon DEF PlainOpen, ReservedOpen
  <1> QED
    BY <1>1, Zenon DEF ServerCounts

\* A task ends and returns its permit.
LEMMA CloseCounts ==
  ASSUME Typed, ServerCounts, NEW c \in Conns, conn[c].srv = "open", conn'[c].srv = "gone",
         \A d \in Conns \ {c} : conn'[d] = conn[d], CloseServerSide(c)
  PROVE  ServerCounts'
  <1>2. /\ conn[c].control => reserve' = reserve + 1 /\ serverFree' = serverFree
        /\ ~conn[c].control => serverFree' = serverFree + 1 /\ reserve' = reserve
    BY Zenon DEF CloseServerSide
  <1>5. conn'[c].srv # "open"
    OBVIOUS
  <1>7. serverFree \in Nat /\ reserve \in Nat /\ IsFiniteSet(PlainOpen) /\ IsFiniteSet(ReservedOpen)
    BY CountedFinite, Zenon DEF Typed
  <1>8. /\ serverFree + Cardinality(PlainOpen) = ServerConns
        /\ reserve + Cardinality(ReservedOpen) = ControlConns
    BY Zenon DEF ServerCounts
  <1>9. CASE conn[c].control
    <2>1. ReservedOpen' = ReservedOpen \ {c} /\ c \in ReservedOpen
      BY <1>5, <1>9, Zenon DEF ReservedOpen
    <2>2. PlainOpen' = PlainOpen
      BY <1>5, <1>9, Zenon DEF PlainOpen
    <2>3. Gives(c, ReservedOpen, ReservedOpen', reserve, reserve', ControlConns)
      BY <1>2, <1>7, <1>8, <1>9, <2>1, Zenon DEF Gives
    <2>4. reserve' + Cardinality(ReservedOpen') = ControlConns
      BY <2>3, GivesOne, Zenon
    <2> QED
      BY <1>2, <1>8, <1>9, <2>2, <2>4, Zenon DEF ServerCounts
  <1>10. CASE ~conn[c].control
    <2>1. PlainOpen' = PlainOpen \ {c} /\ c \in PlainOpen
      BY <1>5, <1>10, Zenon DEF PlainOpen
    <2>2. ReservedOpen' = ReservedOpen
      BY <1>5, <1>10, Zenon DEF ReservedOpen
    <2>3. Gives(c, PlainOpen, PlainOpen', serverFree, serverFree', ServerConns)
      BY <1>2, <1>7, <1>8, <1>10, <2>1, Zenon DEF Gives
    <2>4. serverFree' + Cardinality(PlainOpen') = ServerConns
      BY <2>3, GivesOne, Zenon
    <2> QED
      BY <1>2, <1>8, <1>10, <2>2, <2>4, Zenon DEF ServerCounts
  <1> QED
    BY <1>9, <1>10, Zenon

\* OpenConnection takes a permit, a reserved one, or none.
LEMMA OpenCounts ==
  ASSUME Typed, ServerCounts, NEW r \in Requests, OpenConnection(r)
  PROVE  ServerCounts'
  <1> DEFINE admitted == serverFree > 0 \/ reserve > 0
             control == serverFree = 0
             closes(x) == ~IsCancel(r) /\ \E i \in DOMAIN pool : pool[i] = x
             fresh == [NoConn EXCEPT !.cli = "used", !.inq = r, !.control = control,
                                     !.srv = IF admitted THEN "open" ELSE "gone"]
             F(c, x) == IF x = c THEN fresh
                        ELSE IF closes(x) THEN [conn[x] EXCEPT !.cli = "closed"] ELSE conn[x]
  <1>1. PICK c \in Conns :
          /\ conn[c] = NoConn
          /\ conn' = [x \in Conns |-> F(c, x)]
          /\ serverFree' = IF control THEN serverFree ELSE serverFree - 1
          /\ reserve' = IF admitted /\ control THEN reserve - 1 ELSE reserve
    BY Zenon DEF OpenConnection
  <1>2. serverFree \in Nat /\ reserve \in Nat /\ conn \in [Conns -> ConnStates]
    BY Zenon DEF Typed
  <1>4. /\ ~control => serverFree > 0 /\ admitted
        /\ control /\ admitted => reserve > 0
    BY <1>2
  <1>a. (control => control = TRUE) /\ (~control => control = FALSE)
    BY Zenon
  <1> HIDE DEF admitted, control
  <1>5. fresh.srv = (IF admitted THEN "open" ELSE "gone") /\ fresh.control = control
    <2> DEFINE v == IF admitted THEN "open" ELSE "gone"
    <2> HIDE DEF v
    <2>1. fresh = [NoConn EXCEPT !.cli = "used", !.inq = r, !.control = control, !.srv = v]
      BY Zenon DEF v
    <2>2. NoConn \in ConnStates
      BY Records, Zenon
    <2> HIDE DEF fresh
    <2> QED
      BY <2>1, <2>2, Zenon DEF ConnStates, v
  <1> HIDE DEF fresh, closes
  <1>6. conn'[c] = fresh
    BY <1>1, Zenon
  <1>7. \A x \in Conns \ {c} : conn'[x].srv = conn[x].srv /\ conn'[x].control = conn[x].control
    <2> SUFFICES ASSUME NEW x \in Conns \ {c}
                 PROVE  conn'[x].srv = conn[x].srv /\ conn'[x].control = conn[x].control
      BY Zenon
    <2>1. conn'[x] = conn[x] \/ conn'[x] = [conn[x] EXCEPT !.cli = "closed"]
      BY <1>1, Zenon
    <2>2. conn[x] \in ConnStates
      BY <1>2, Zenon
    <2> QED
      BY <2>1, <2>2, Zenon DEF ConnStates
  <1>8. conn[c].srv # "open"
    <2>1. conn[c].srv = "none"
      BY <1>1, Records, Zenon
    <2> QED
      BY <2>1
  <1>9. /\ serverFree + Cardinality(PlainOpen) = ServerConns /\ IsFiniteSet(PlainOpen)
        /\ reserve + Cardinality(ReservedOpen) = ControlConns /\ IsFiniteSet(ReservedOpen)
    BY CountedFinite, Zenon DEF ServerCounts
  <1>10. "gone" # "open"
    OBVIOUS
  <1>11. CASE ~admitted
    <2>1. control /\ conn'[c].srv # "open"
      BY <1>4, <1>5, <1>6, <1>10, <1>11, Zenon
    <2>2. serverFree' = serverFree /\ reserve' = reserve
      BY <1>1, <1>11, <2>1, Zenon
    <2>3. PlainOpen' = PlainOpen
      BY <1>7, <1>8, <2>1, Zenon DEF PlainOpen
    <2>4. ReservedOpen' = ReservedOpen
      BY <1>7, <1>8, <2>1, Zenon DEF ReservedOpen
    <2> QED
      BY <2>2, <2>3, <2>4, Zenon DEF ServerCounts
  <1>12. CASE admitted /\ control
    <2>0. control = TRUE
      BY <1>a, <1>12, Zenon
    <2>1. conn'[c].srv = "open" /\ conn'[c].control
      BY <1>5, <1>6, <1>12, <2>0, Zenon
    <2>2. ReservedOpen' = ReservedOpen \cup {c} /\ c \notin ReservedOpen
      <3>1. c \notin ReservedOpen /\ c \in ReservedOpen'
        BY <1>8, <2>1, Zenon DEF ReservedOpen
      <3>2. ASSUME NEW x, x # c
            PROVE  x \in ReservedOpen' <=> x \in ReservedOpen
        BY <1>7, <3>2, Zenon DEF ReservedOpen
      <3>3. \A x : x \in ReservedOpen' <=> x \in ReservedOpen \cup {c}
        BY <3>1, <3>2, Zenon
      <3> QED
        BY <3>1, <3>3
    <2>3. PlainOpen' = PlainOpen
      BY <1>7, <1>8, <2>1, Zenon DEF PlainOpen
    <2>4. serverFree' = serverFree /\ reserve' = reserve - 1
      BY <1>1, <1>12, Zenon
    <2>5. Takes(c, ReservedOpen, ReservedOpen', reserve, reserve', ControlConns)
      BY <1>2, <1>9, <2>2, <2>4, Zenon DEF Takes
    <2>6. reserve' + Cardinality(ReservedOpen') = ControlConns
      BY <2>5, TakesOne, Zenon
    <2> QED
      BY <1>9, <2>3, <2>4, <2>6, Zenon DEF ServerCounts
  <1>13. CASE admitted /\ ~control
    <2>0. control = FALSE
      BY <1>a, <1>13, Zenon
    <2>1. conn'[c].srv = "open" /\ ~conn'[c].control
      BY <1>5, <1>6, <1>13, <2>0, Zenon
    <2>2. PlainOpen' = PlainOpen \cup {c} /\ c \notin PlainOpen
      <3>1. c \notin PlainOpen /\ c \in PlainOpen'
        BY <1>8, <2>1, Zenon DEF PlainOpen
      <3>2. ASSUME NEW x, x # c
            PROVE  x \in PlainOpen' <=> x \in PlainOpen
        BY <1>7, <3>2, Zenon DEF PlainOpen
      <3>3. \A x : x \in PlainOpen' <=> x \in PlainOpen \cup {c}
        BY <3>1, <3>2, Zenon
      <3> QED
        BY <3>1, <3>3
    <2>3. ReservedOpen' = ReservedOpen
      BY <1>7, <1>8, <2>1, Zenon DEF ReservedOpen
    <2>4. serverFree' = serverFree - 1 /\ reserve' = reserve
      BY <1>1, <1>13, Zenon
    <2>5. Takes(c, PlainOpen, PlainOpen', serverFree, serverFree', ServerConns)
      BY <1>2, <1>9, <2>2, <2>4, Zenon DEF Takes
    <2>6. serverFree' + Cardinality(PlainOpen') = ServerConns
      BY <2>5, TakesOne, Zenon
    <2> QED
      BY <1>9, <2>3, <2>4, <2>6, Zenon DEF ServerCounts
  <1> QED
    BY <1>11, <1>12, <1>13, Zenon

\* The same executions hold the same gates.
LEMMA HoldersSame ==
  ASSUME GateCounts, plan' = plan, gates' = gates,
         \A c \in Conns : \/ exec'[c] = exec[c]
                          \/ /\ exec'[c].permits = 0 /\ exec[c].permits = 0
                             /\ Live(c)' => exec'[c].r \in Requests
                          \/ /\ exec'[c].permits = exec[c].permits /\ exec'[c].r = exec[c].r
                             /\ Live(c) /\ exec'[c].at # "executed",
         Typed
  PROVE  GateCounts'
  <1>1. ASSUME NEW g, NEW c \in Conns PROVE c \in Holders(g)' <=> c \in Holders(g)
    <2>1. CASE exec'[c].permits = exec[c].permits /\ exec'[c].r = exec[c].r
      BY <2>1, Zenon DEF Holders, PathOf
    <2>2. CASE exec'[c].permits = 0 /\ exec[c].permits = 0
      <3>1. 1 .. 0 = {}
        OBVIOUS
      <3> QED
        BY <2>2, <3>1, Zenon DEF Holders
    <2> QED
      BY <2>1, <2>2, Zenon
  <1>2. ASSUME NEW g PROVE Holders(g)' = Holders(g)
    <2>1. Holders(g) \subseteq Conns
      BY Zenon DEF Holders
    <2>2. \A x \in Holders(g)' : x \in Conns
      BY Zenon DEF Holders
    <2>3. \A x : x \in Holders(g)' <=> x \in Holders(g)
      BY <1>1, <2>1, <2>2, Zenon
    <2> QED
      BY <2>3, Zenon
  <1>3. ASSUME NEW c \in Conns, Live(c)'
        PROVE  /\ exec'[c].permits <= Len(PathOf(exec[c].r))'
               /\ exec'[c].at = "executed" => exec'[c].permits = 0
    <2>1. CASE exec'[c] = exec[c]
      BY <1>3, <2>1, Zenon DEF GateCounts, Live, PathOf
    <2>2. CASE exec'[c].permits = 0 /\ exec'[c].r \in Requests
      <3>1. PathOf(exec'[c].r) \in Seq(Gates)
        BY <2>2, PlanTyped, Zenon
      <3>2. Len(PathOf(exec'[c].r)) \in Nat
        BY <3>1
      <3>3. 0 <= Len(PathOf(exec'[c].r))
        BY <3>2
      <3>4. PathOf(exec[c].r)' = PathOf(exec'[c].r)
        BY Zenon DEF PathOf
      <3> QED
        BY <2>2, <3>3, <3>4, Zenon
    <2>3. CASE /\ exec'[c].permits = exec[c].permits /\ exec'[c].r = exec[c].r /\ Live(c)
               /\ exec'[c].at # "executed"
      BY <2>3, Zenon DEF GateCounts, PathOf
    <2> QED
      BY <1>3, <2>1, <2>2, <2>3, Zenon
  <1> QED
    BY <1>2, <1>3, Zenon DEF GateCounts

\* Admit takes the next gate's permit, which the execution did not have.
LEMMA AdmitCounts ==
  ASSUME Typed, GateCounts, NEW c \in Conns, Admit(c)
  PROVE  GateCounts'
  <1> DEFINE n == exec[c].permits + 1
             path == PathOf(exec[c].r)
             p == path[n]
  <1>1. /\ exec[c].at = "queued" /\ n <= Len(path) /\ gates[p] > 0
        /\ gates' = [gates EXCEPT ![p] = @ - 1] /\ exec' = [exec EXCEPT ![c].permits = n]
        /\ plan' = plan
    BY Zenon DEF Admit
  <1>2. Live(c)
    BY <1>1, AtIsLive, Zenon
  <1>3. /\ exec[c].permits \in Nat /\ exec[c].r \in Requests
    BY <1>2, LiveTyped, Zenon
  <1>4. /\ path \in Seq(Gates) /\ \A i, j \in DOMAIN path : path[i] = path[j] => i = j
    BY <1>3, PlanTyped, Zenon
  <1>5. /\ n \in Nat /\ n \in DOMAIN path /\ \A i \in 1 .. exec[c].permits : i \in DOMAIN path /\ i # n
        /\ 1 .. n = (1 .. exec[c].permits) \cup {n}
    BY <1>1, <1>3, <1>4
  <1>6. p \in Gates
    BY <1>4, <1>5
  <1>7. /\ exec'[c].r = exec[c].r /\ exec'[c].permits = n /\ exec'[c].at = "queued"
        /\ \A d \in Conns \ {c} : exec'[d] = exec[d]
    <2> HIDE DEF n
    <2>1. n \in Nat /\ exec' = [exec EXCEPT ![c].permits = n] /\ exec[c].at = "queued"
      BY <1>1, <1>5, Zenon
    <2>2. exec'[c].permits = n /\ exec'[c].at = exec[c].at
      BY <1>2, <2>1, ExecPermits, Zenon
    <2>3. exec'[c].r = exec[c].r
      BY <1>2, <2>1, ExecSet, Zenon
    <2>4. \A d \in Conns \ {c} : exec'[d] = exec[d]
      BY <2>1, Zenon DEF Typed
    <2> QED
      BY <2>1, <2>2, <2>3, <2>4, Zenon
  <1>8. c \notin Holders(p)
    BY <1>4, <1>5, Zenon DEF Holders
  <1>9. ASSUME NEW g
        PROVE  /\ g = p => Holders(g)' = Holders(g) \cup {c}
               /\ g # p => Holders(g)' = Holders(g)
    <2>1. c \in Holders(g)' <=> \E i \in 1 .. n : path[i] = g
      BY <1>1, <1>7, Zenon DEF Holders, PathOf
    <2>2. c \in Holders(g) <=> \E i \in 1 .. exec[c].permits : path[i] = g
      BY Zenon DEF Holders
    <2>3. c \in Holders(g)' <=> (g = p \/ c \in Holders(g))
      BY <1>5, <2>1, <2>2, Zenon
    <2>4. \A d : d # c => (d \in Holders(g)' <=> d \in Holders(g))
      BY <1>1, <1>7, Zenon DEF Holders, PathOf
    <2>5. \A d : d \in Holders(g)' <=> (d \in Holders(g) \/ (g = p /\ d = c))
      BY <2>3, <2>4, Zenon
    <2>6. CASE g = p
      <3>1. \A d : d \in Holders(g)' <=> d \in Holders(g) \cup {c}
        BY <2>5, <2>6, Zenon
      <3> QED
        BY <2>6, <3>1, Zenon
    <2>7. CASE g # p
      <3>1. \A d : d \in Holders(g)' <=> d \in Holders(g)
        BY <2>5, <2>7, Zenon
      <3> QED
        BY <2>7, <3>1, Zenon
    <2> QED
      BY <2>6, <2>7, Zenon
  <1>10. gates \in [Gates -> Nat]
    BY Zenon DEF Typed
  <1> HIDE DEF p
  <1>11. gates'[p] = gates[p] - 1 /\ \A g \in Gates \ {p} : gates'[g] = gates[g]
    BY <1>1, <1>6, <1>10, Zenon
  <1>12. ASSUME NEW g \in Gates PROVE gates'[g] + Cardinality(Holders(g)') = Capacity[g]
    <2>1. gates[g] + Cardinality(Holders(g)) = Capacity[g]
      BY Zenon DEF GateCounts
    <2>2. CASE g = p
      <3>1. Holders(g)' = Holders(g) \cup {c} /\ c \notin Holders(g)
        BY <1>8, <1>9, <2>2, Zenon
      <3>2. gates'[g] = gates[g] - 1 /\ gates[g] \in Nat /\ IsFiniteSet(Holders(g))
        BY <1>10, <1>11, <2>2, CountedFinite, Zenon
      <3>3. Takes(c, Holders(g), Holders(g)', gates[g], gates'[g], Capacity[g])
        BY <2>1, <3>1, <3>2, Zenon DEF Takes
      <3> QED
        BY <3>3, TakesOne, Zenon
    <2>3. CASE g # p
      BY <1>9, <1>11, <2>1, <2>3, Zenon
    <2> QED
      BY <2>2, <2>3, Zenon
  <1>13. ASSUME NEW d \in Conns, Live(d)'
         PROVE  /\ exec'[d].permits <= Len(PathOf(exec[d].r))'
                /\ exec'[d].at = "executed" => exec'[d].permits = 0
    <2>1. CASE d = c
      <3>1. PathOf(exec[c].r)' = path
        BY <1>1, <1>7, Zenon DEF PathOf
      <3>2. exec'[c].at # "executed"
        BY <1>7
      <3> QED
        BY <1>1, <1>7, <2>1, <3>1, <3>2, Zenon
    <2>2. CASE d # c
      BY <1>1, <1>7, <1>13, <2>2, Zenon DEF GateCounts, Live, PathOf
    <2> QED
      BY <2>1, <2>2, Zenon
  <1> QED
    BY <1>12, <1>13, Zenon DEF GateCounts

\* Executed returns the permits, one of each gate it has passed.
LEMMA EndsCounts ==
  ASSUME Typed, GateCounts, NEW c \in Conns, NEW ok \in BOOLEAN, Live(c), Executed(c, ok), plan' = plan
  PROVE  GateCounts'
  <1> DEFINE path == PathOf(exec[c].r)
             held(g) == {i \in 1 .. exec[c].permits : path[i] = g}
  <1>1. /\ gates' = Returned(c)
        /\ exec' = [exec EXCEPT ![c].at = "executed", ![c].ok = ok, ![c].permits = 0]
    BY Zenon DEF Executed
  <1>2. /\ exec[c].permits \in Nat /\ exec[c].r \in Requests
    BY LiveTyped, Zenon
  <1>3. /\ path \in Seq(Gates) /\ \A i, j \in DOMAIN path : path[i] = path[j] => i = j
    BY <1>2, PlanTyped, Zenon
  <1>4. exec[c].permits <= Len(path)
    BY Zenon DEF GateCounts
  <1>5. \A i \in 1 .. exec[c].permits : i \in DOMAIN path
    BY <1>2, <1>3, <1>4
  <1>6. /\ exec'[c].r = exec[c].r /\ exec'[c].permits = 0 /\ exec'[c].at = "executed"
        /\ \A d \in Conns \ {c} : exec'[d] = exec[d]
    <2>1. exec'[c].r = exec[c].r
      BY <1>1, ExecSet, Zenon
    <2>2. exec'[c].permits = 0 /\ exec'[c].at = "executed"
      BY <1>1, ExecExecuted, Zenon
    <2>3. \A d \in Conns \ {c} : exec'[d] = exec[d]
      BY <1>1, Zenon DEF Typed
    <2> QED
      BY <2>1, <2>2, <2>3, Zenon
  <1>7. \A g : Holders(g)' = Holders(g) \ {c}
    <2>1. 1 .. 0 = {}
      OBVIOUS
    <2>2. \A g : c \notin Holders(g)'
      BY <1>6, <2>1, Zenon DEF Holders
    <2>3. \A g : \A d : d # c => (d \in Holders(g)' <=> d \in Holders(g))
      BY <1>6, Zenon DEF Holders, PathOf
    <2>4. \A g : \A d : d \in Holders(g)' <=> d \in Holders(g) \ {c}
      BY <2>2, <2>3, Zenon
    <2> QED
      BY <2>4, Zenon
  <1>8. \A g \in Gates : gates'[g] = gates[g] + Cardinality(held(g))
    BY <1>1, Zenon DEF Returned
  <1>9. gates \in [Gates -> Nat]
    BY Zenon DEF Typed
  <1>10. ASSUME NEW g \in Gates PROVE gates'[g] + Cardinality(Holders(g)') = Capacity[g]
    <2>1. gates[g] + Cardinality(Holders(g)) = Capacity[g] /\ gates[g] \in Nat
      BY <1>9, Zenon DEF GateCounts
    <2>2. Cardinality(Holders(g)) \in Nat
      BY CountedFinite, Zenon
    <2>3. CASE c \in Holders(g)
      <3>1. PICK i \in 1 .. exec[c].permits : path[i] = g
        BY <2>3, Zenon DEF Holders
      <3>2. held(g) = {i}
        BY <1>3, <1>5, <3>1, Zenon
      <3>3. Cardinality(held(g)) = 1
        BY <3>2, FS_Singleton, Zenon
      <3>4. gates'[g] = gates[g] + 1 /\ IsFiniteSet(Holders(g))
        BY <1>8, <3>3, CountedFinite, Zenon
      <3>5. Holders(g)' = Holders(g) \ {c}
        BY <1>7, Zenon
      <3>6. Gives(c, Holders(g), Holders(g)', gates[g], gates'[g], Capacity[g])
        BY <2>1, <2>3, <3>4, <3>5, Zenon DEF Gives
      <3> QED
        BY <3>6, GivesOne, Zenon
    <2>4. CASE c \notin Holders(g)
      <3>1. held(g) = {}
        BY <2>4, Zenon DEF Holders
      <3>2. Cardinality(held(g)) = 0
        BY <3>1, FS_EmptySet, Zenon
      <3>3. Holders(g)' = Holders(g)
        BY <1>7, <2>4, Zenon
      <3>4. gates'[g] = gates[g] + 0
        BY <1>8, <3>2, Zenon
      <3> QED
        BY <2>1, <2>2, <3>3, <3>4
    <2> QED
      BY <2>3, <2>4, Zenon
  <1>11. ASSUME NEW d \in Conns, Live(d)'
         PROVE  /\ exec'[d].permits <= Len(PathOf(exec[d].r))'
                /\ exec'[d].at = "executed" => exec'[d].permits = 0
    <2>1. CASE d = c
      <3>1. PathOf(exec[c].r)' = path
        BY <1>6, Zenon DEF PathOf
      <3>2. 0 <= Len(path)
        BY <1>3
      <3> QED
        BY <1>6, <2>1, <3>1, <3>2, Zenon
    <2>2. CASE d # c
      BY <1>6, <1>11, <2>2, Zenon DEF GateCounts, Live, PathOf
    <2> QED
      BY <2>1, <2>2, Zenon
  <1> QED
    BY <1>10, <1>11, Zenon DEF GateCounts

\* The steps of the client: what they leave at the server.
LEMMA ClientLeaves ==
  ASSUME NEW r \in Requests, ClientStep(r) \/ ClientTimeout(r)
  PROVE  UNCHANGED <<plan, exec, entries, nextToken, acked, gates, stop>>
  BY Zenon DEF ClientStep, ClientTimeout, AcquireConnection, TakeIdle, OpenConnection, ConnectFails,
               ReceiveAnswer, ConnectionBroken, serverVars

\* They do not open or close the server's end, except by OpenConnection.
LEMMA ClientKeepsOpen ==
  ASSUME Typed, ConnInv, ServerCounts, NEW r \in Requests, ClientStep(r) \/ ClientTimeout(r)
  PROVE  ServerCounts'
  <1>1. conn \in [Conns -> ConnStates]
    BY Zenon DEF Typed
  <1>2. ASSUME serverFree' = serverFree, reserve' = reserve,
               \A x \in Conns : conn'[x].srv = conn[x].srv /\ conn'[x].control = conn[x].control
        PROVE  ServerCounts'
    BY <1>2, OpenSame, Zenon
  <1>3. CASE AcquireConnection(r) \/ ConnectFails(r)
    <2>1. serverFree' = serverFree /\ reserve' = reserve /\ conn' = conn
      BY <1>3, Zenon DEF AcquireConnection, ConnectFails, serverVars
    <2> QED
      BY <1>2, <2>1, Zenon
  <1>4. CASE TakeIdle(r)
    <2> DEFINE c == pool[Newest]
               dropped == {pool[i] : i \in Newest + 1 .. Len(pool)}
    <2>1. /\ serverFree' = serverFree /\ reserve' = reserve
          /\ conn' = [x \in Conns |-> IF x = c THEN [conn[x] EXCEPT !.cli = "used", !.inq = r]
                                      ELSE IF x \in dropped THEN [conn[x] EXCEPT !.cli = "closed"]
                                      ELSE conn[x]]
      BY <1>4, Zenon DEF TakeIdle, serverVars
    <2> HIDE DEF c, dropped
    <2>2. ASSUME NEW x \in Conns PROVE conn'[x].srv = conn[x].srv /\ conn'[x].control = conn[x].control
      <3>1. \/ conn'[x] = [conn[x] EXCEPT !.cli = "used", !.inq = r]
            \/ conn'[x] = [conn[x] EXCEPT !.cli = "closed"]
            \/ conn'[x] = conn[x]
        BY <2>1, Zenon
      <3>2. conn[x] \in ConnStates
        BY <1>1, Zenon
      <3> QED
        BY <3>1, <3>2, Zenon DEF ConnStates
    <2> QED
      BY <1>2, <2>1, <2>2, Zenon
  <1>5. CASE OpenConnection(r)
    BY <1>5, OpenCounts, Zenon
  <1> DEFINE c == req[r].conn
  <1>6. ASSUME NEW y, serverFree' = serverFree, reserve' = reserve, conn' = [conn EXCEPT ![c] = y],
               c \in Conns => y.srv = conn[c].srv /\ y.control = conn[c].control
        PROVE  ServerCounts'
    <2> HIDE DEF c
    <2>1. ASSUME NEW x \in Conns PROVE conn'[x].srv = conn[x].srv /\ conn'[x].control = conn[x].control
      <3>1. CASE x = c
        <4>1. conn'[x] = y
          BY <1>1, <1>6, <3>1, Zenon
        <4> QED
          BY <1>6, <3>1, <4>1, Zenon
      <3>2. CASE x # c
        <4>1. conn'[x] = conn[x]
          BY <1>1, <1>6, <3>2, Zenon
        <4> QED
          BY <4>1, Zenon
      <3> QED
        BY <3>1, <3>2, Zenon
    <2> QED
      BY <1>2, <1>6, <2>1, Zenon
  <1>7. CASE ReceiveAnswer(r)
    <2> DEFINE k == IF /\ ~IsCancel(r) /\ ~conn[c].outq.close /\ c \notin aged
                       /\ Len(pool) < MaxIdle THEN "idle" ELSE "closed"
               y == [conn[c] EXCEPT !.outq = NoAnswer, !.cli = k]
    <2>1. serverFree' = serverFree /\ reserve' = reserve /\ conn' = [conn EXCEPT ![c] = y]
      BY <1>7, Zenon DEF ReceiveAnswer, serverVars
    <2> HIDE DEF c, k
    <2>2. c \in Conns => y.srv = conn[c].srv /\ y.control = conn[c].control
      BY <1>1, Zenon DEF ConnStates
    <2> HIDE DEF y
    <2> QED
      BY <1>6, <2>1, <2>2, Zenon
  <1>8. CASE ConnectionBroken(r)
    <2> DEFINE y == [conn[c] EXCEPT !.cli = "closed", !.inq = "none"]
    <2>1. serverFree' = serverFree /\ reserve' = reserve /\ conn' = [conn EXCEPT ![c] = y]
      BY <1>8, Zenon DEF ConnectionBroken, serverVars
    <2> HIDE DEF c
    <2>2. c \in Conns => y.srv = conn[c].srv /\ y.control = conn[c].control
      BY <1>1, Zenon DEF ConnStates
    <2> HIDE DEF y
    <2> QED
      BY <1>6, <2>1, <2>2, Zenon
  <1>9. CASE ClientTimeout(r)
    <2> DEFINE y == [conn[c] EXCEPT !.cli = "closed"]
    <2>1. /\ serverFree' = serverFree /\ reserve' = reserve
          /\ conn' = conn \/ conn' = [conn EXCEPT ![c] = y]
      BY <1>9, Zenon DEF ClientTimeout, serverVars
    <2> HIDE DEF c
    <2>2. c \in Conns => y.srv = conn[c].srv /\ y.control = conn[c].control
      BY <1>1, Zenon DEF ConnStates
    <2> HIDE DEF y
    <2> QED
      BY <1>2, <1>6, <2>1, <2>2, Zenon
  <1> QED
    BY <1>3, <1>4, <1>5, <1>7, <1>8, <1>9, Zenon DEF ClientStep

\* They take and return the client's own permits.
LEMMA ClientFlights ==
  ASSUME Typed, ConnInv, ClientCounts, NEW r \in Requests, ClientStep(r) \/ ClientTimeout(r)
  PROVE  ClientCounts'
  <1>1. plan' = plan
    BY ClientLeaves, Zenon
  <1>2. CASE AcquireConnection(r)
    BY <1>2, AcquireCounts, Zenon
  <1>3. CASE TakeIdle(r) \/ OpenConnection(r)
    <2>1. /\ req[r].at = "gated" /\ clientFree' = clientFree /\ controlGate' = controlGate
          /\ \E c : req' = [req EXCEPT ![r].at = "sent", ![r].conn = c]
      BY <1>3, Zenon DEF TakeIdle, OpenConnection
    <2>2. req'[r].at = "sent" /\ \A s \in Requests \ {r} : req'[s] = req[s]
      <3> DEFINE x == req[r]
      <3>1. PICK c : req' = [req EXCEPT ![r].at = "sent", ![r].conn = c]
        BY <2>1, Zenon
      <3> DEFINE y == [x EXCEPT !.at = "sent", !.conn = c]
      <3>4. req' = [req EXCEPT ![r] = y]
        BY <3>1, Zenon
      <3>2. req \in [Requests -> Reqs] /\ x \in Reqs
        BY Zenon DEF Typed
      <3> HIDE DEF x
      <3>3. y.at = "sent"
        BY <3>2, Zenon DEF Reqs
      <3> HIDE DEF y
      <3> QED
        BY <3>2, <3>3, <3>4, Zenon
    <2>3. Flying(r) /\ Flying(r)'
      BY <2>1, <2>2 DEF Flying
    <2>4. \A s \in Requests : Flying(s)' <=> Flying(s)
      BY <2>2, <2>3, Zenon DEF Flying
    <2> QED
      BY <1>1, <2>1, <2>4, FlightSame, Zenon
  <1>4. CASE ConnectFails(r) \/ ConnectionBroken(r) \/ ClientTimeout(r)
    <2>1. Flying(r) /\ Leave(r, "failed", NoAnswer)
      BY <1>4, Zenon DEF ConnectFails, ConnectionBroken, ClientTimeout, Flying
    <2>2. NoAnswer \in Answers
      BY Records, Zenon
    <2> QED
      BY <1>1, <2>1, <2>2, LeaveCounts, Zenon
  <1>5. CASE ReceiveAnswer(r)
    <2> DEFINE a == conn[req[r].conn].outq
               o == IF a.ok THEN "done" ELSE "failed"
    <2>1. req[r].at = "sent" /\ Leave(r, o, a)
      BY <1>5, Zenon DEF ReceiveAnswer
    <2>2. req[r].conn \in Conns
      BY <2>1, Zenon DEF ConnInv, OwnConnection, Sent
    <2>3. a \in Answers
      BY <2>2, Zenon DEF Typed, ConnStates
    <2>4. o \in {"done", "failed"}
      BY Zenon
    <2>5. Flying(r)
      BY <2>1, Zenon DEF Flying
    <2> HIDE DEF a, o
    <2> QED
      BY <1>1, <2>1, <2>3, <2>4, <2>5, LeaveCounts, Zenon
  <1> QED
    BY <1>2, <1>3, <1>4, <1>5, Zenon DEF ClientStep

\* A step of the client keeps the registry and the counts.
LEMMA ClientAccounts ==
  ASSUME Typed, ConnInv, RegistryInv, CountInv, NEW r \in Requests, ClientStep(r) \/ ClientTimeout(r)
  PROVE  RegistryInv' /\ CountInv'
  <1>1. UNCHANGED <<plan, exec, entries, nextToken, acked, gates, stop>>
    BY ClientLeaves, Zenon
  <1>2. RegistryInv'
    BY <1>1, SameRegistry, Zenon
  <1>3. GateCounts'
    BY <1>1, HoldersSame, Zenon DEF CountInv
  <1> QED
    BY <1>2, <1>3, ClientKeepsOpen, ClientFlights, Zenon DEF CountInv

\* A response leaves the connection open, or returns its permit.
LEMMA RespondCounts ==
  ASSUME Typed, ServerCounts, NEW c \in Conns, NEW r \in Requests, NEW ok \in BOOLEAN,
         conn[c].srv = "open", Respond(c, r, ok)
  PROVE  ServerCounts'
  <1>1. /\ \A d \in Conns \ {c} : conn'[d] = conn[d]
        /\ conn'[c].control = conn[c].control
        /\ \/ conn'[c].srv = "gone" /\ CloseServerSide(c)
           \/ conn'[c].srv = conn[c].srv /\ UNCHANGED <<serverFree, reserve>>
    BY RespondEffect, Zenon
  <1>2. CASE conn'[c].srv = "gone" /\ CloseServerSide(c)
    BY <1>1, <1>2, CloseCounts, Zenon
  <1>3. CASE conn'[c].srv = conn[c].srv /\ UNCHANGED <<serverFree, reserve>>
    <2>1. \A d \in Conns : /\ conn'[d].srv = "open" <=> conn[d].srv = "open"
                           /\ conn[d].srv = "open" => conn'[d].control = conn[d].control
      BY <1>1, <1>3, Zenon
    <2> QED
      BY <1>3, <2>1, OpenSame, Zenon
  <1> QED
    BY <1>1, <1>2, <1>3, Zenon

\* A step of the server leaves the client's permits alone.
LEMMA ServerFlights ==
  ASSUME ClientCounts, UNCHANGED <<plan, clientVars>>
  PROVE  ClientCounts'
  <1>1. plan' = plan /\ req' = req /\ clientFree' = clientFree /\ controlGate' = controlGate
    BY Zenon DEF clientVars
  <1>2. \A r \in Requests : Flying(r)' <=> Flying(r)
    BY <1>1, Zenon DEF Flying
  <1> QED
    BY <1>1, <1>2, FlightSame, Zenon

\* Steps that leave connections alone.
LEMMA ConnsAlone ==
  ASSUME ServerCounts, UNCHANGED <<conn, serverFree, reserve>>
  PROVE  ServerCounts'
  BY OpenSame, Zenon

\* BeginQuery.
LEMMA BeginCounts ==
  ASSUME Typed, CountInv, NEW c \in Conns, BeginQuery(c)
  PROVE  CountInv'
  <1> DEFINE r == conn[c].inq
             e == [NoExec EXCEPT !.at = "queued", !.r = r, !.token = nextToken]
  <1>1. /\ Readable(c) /\ UNCHANGED <<plan, clientVars>> /\ gates' = gates
        /\ \/ Respond(c, r, FALSE) /\ exec' = exec
           \/ /\ exec' = [exec EXCEPT ![c] = e]
              /\ conn' = [conn EXCEPT ![c].inq = "none"]
              /\ UNCHANGED <<serverFree, reserve>>
    BY Zenon DEF BeginQuery
  <1>2. /\ r \in Requests /\ conn[c].srv = "open" /\ exec[c] = NoExec /\ conn[c] \in ConnStates
    BY <1>1, ReadableFrame, Zenon
  <1>3. ClientCounts'
    BY <1>1, ServerFlights, Zenon DEF CountInv
  <1>4. CASE Respond(c, r, FALSE) /\ exec' = exec
    <2>1. ServerCounts'
      BY <1>2, <1>4, RespondCounts, Zenon DEF CountInv
    <2>2. GateCounts'
      BY <1>1, <1>4, HoldersSame, Zenon DEF CountInv
    <2> QED
      BY <1>3, <2>1, <2>2, Zenon DEF CountInv
  <1>5. CASE /\ exec' = [exec EXCEPT ![c] = e]
             /\ conn' = [conn EXCEPT ![c].inq = "none"]
             /\ UNCHANGED <<serverFree, reserve>>
    <2>1. e.r = r /\ e.permits = 0
      <3> HIDE DEF r
      <3> DEFINE Blank == [at : {"none"}, r : {"none"}, token : {0}, permits : {0}, ok : {FALSE}]
      <3>1. NoExec \in Blank
        BY Zenon DEF NoExec
      <3> QED
        BY <3>1, Zenon
    <2> HIDE DEF e
    <2>2. exec'[c] = e /\ \A d \in Conns \ {c} : exec'[d] = exec[d]
      BY <1>5, Zenon DEF Typed
    <2>3. exec[c].permits = 0
      BY <1>2, Records, Zenon
    <2>4. GateCounts'
      BY <1>1, <1>2, <2>1, <2>2, <2>3, HoldersSame, Zenon DEF CountInv
    <2>5. \A d \in Conns : conn'[d].srv = conn[d].srv /\ conn'[d].control = conn[d].control
      BY <1>2, <1>5, Zenon DEF Typed, ConnStates
    <2>6. ServerCounts'
      BY <1>5, <2>5, OpenSame, Zenon DEF CountInv
    <2> QED
      BY <1>3, <2>4, <2>6, Zenon DEF CountInv
  <1> QED
    BY <1>1, <1>4, <1>5, Zenon

\* RefuseQuery and CancelActive.
LEMMA AnswerCounts ==
  ASSUME Typed, CountInv, NEW c \in Conns, RefuseQuery(c) \/ CancelActive(c)
  PROVE  CountInv'
  <1>1. /\ Readable(c) /\ UNCHANGED <<plan, clientVars>> /\ gates' = gates /\ exec' = exec
        /\ \E ok \in BOOLEAN : Respond(c, conn[c].inq, ok)
    BY Zenon DEF RefuseQuery, CancelActive
  <1>2. conn[c].inq \in Requests /\ conn[c].srv = "open"
    BY <1>1, ReadableFrame, Zenon
  <1>3. ClientCounts'
    BY <1>1, ServerFlights, Zenon DEF CountInv
  <1>4. ServerCounts'
    BY <1>1, <1>2, RespondCounts, Zenon DEF CountInv
  <1>5. GateCounts'
    BY <1>1, HoldersSame, Zenon DEF CountInv
  <1> QED
    BY <1>3, <1>4, <1>5, Zenon DEF CountInv

\* Admit, AdmissionCancelled, Activate and Execute.
LEMMA RunCounts ==
  ASSUME Typed, CountInv, NEW c \in Conns,
         Admit(c) \/ AdmissionCancelled(c) \/ Activate(c) \/ Execute(c)
  PROVE  CountInv'
  <1>1. /\ UNCHANGED <<plan, clientVars>> /\ UNCHANGED <<conn, serverFree, reserve>>
        /\ exec[c].at \in {"queued", "running", "executed"}
    BY Zenon DEF Admit, AdmissionCancelled, Activate, Execute
  <1>2. ClientCounts' /\ ServerCounts' /\ Live(c) /\ GateCounts
    BY <1>1, ServerFlights, ConnsAlone, AtIsLive, Zenon DEF CountInv
  <1>3. CASE Admit(c)
    BY <1>2, <1>3, AdmitCounts, Zenon DEF CountInv
  <1>4. ASSUME NEW ok \in BOOLEAN, Executed(c, ok) PROVE CountInv'
    BY <1>1, <1>2, <1>4, EndsCounts, Zenon DEF CountInv
  <1>5. CASE AdmissionCancelled(c) \/ Execute(c)
    BY <1>4, <1>5, Zenon DEF AdmissionCancelled, Execute
  <1>6. CASE Activate(c)
    <2>1. Executed(c, FALSE) \/ (exec' = [exec EXCEPT ![c].at = "running"] /\ gates' = gates)
      BY <1>6, Zenon DEF Activate
    <2>2. CASE exec' = [exec EXCEPT ![c].at = "running"] /\ gates' = gates
      <3>1. exec'[c].r = exec[c].r /\ \A d \in Conns \ {c} : exec'[d] = exec[d]
        BY <1>2, <2>2, ExecSet, Zenon DEF Typed
      <3>2. exec'[c].permits = exec[c].permits /\ exec'[c].at = "running"
        BY <1>2, <2>2, ExecRunning, Zenon
      <3>3. exec'[c].at # "executed"
        BY <3>2
      <3>4. GateCounts'
        BY <1>1, <1>2, <2>2, <3>1, <3>2, <3>3, HoldersSame, Zenon
      <3> QED
        BY <1>2, <3>4, Zenon DEF CountInv
    <2> QED
      BY <1>4, <2>1, <2>2, Zenon
  <1> QED
    BY <1>3, <1>5, <1>6, Zenon

\* Finish.
LEMMA FinishCounts ==
  ASSUME Typed, ConnInv, CountInv, NEW c \in Conns, Finish(c)
  PROVE  CountInv'
  <1> DEFINE ok == exec[c].ok /\ ~(Owns(c) /\ entries[KeyOf(exec[c].r)].state = "cancelled")
  <1>1. /\ exec[c].at = "executed" /\ Respond(c, exec[c].r, ok) /\ exec' = [exec EXCEPT ![c] = NoExec]
        /\ UNCHANGED <<plan, clientVars>> /\ gates' = gates
    BY Zenon DEF Finish
  <1>2. Live(c)
    BY <1>1, AtIsLive, Zenon
  <1>3. exec[c].r \in Requests /\ conn[c].srv = "open" /\ exec[c].permits = 0
    BY <1>1, <1>2, LiveTyped, Zenon DEF ConnInv, OneThing, CountInv, GateCounts
  <1>4. ok \in BOOLEAN
    BY Zenon
  <1> HIDE DEF ok
  <1>5. ServerCounts'
    BY <1>1, <1>3, <1>4, RespondCounts, Zenon DEF CountInv
  <1>6. exec'[c] = NoExec /\ \A d \in Conns \ {c} : exec'[d] = exec[d]
    BY <1>1, Zenon DEF Typed
  <1>7. exec'[c].permits = 0 /\ ~Live(c)'
    BY <1>6, Records, Zenon DEF Live
  <1>8. GateCounts'
    BY <1>1, <1>3, <1>6, <1>7, HoldersSame, Zenon DEF CountInv
  <1> QED
    BY <1>1, <1>5, <1>8, ServerFlights, Zenon DEF CountInv

\* TaskEnds.
LEMMA TaskEndsCounts ==
  ASSUME Typed, CountInv, NEW c \in Conns, TaskEnds(c)
  PROVE  CountInv'
  <1>1. /\ conn[c].srv = "open" /\ conn' = [conn EXCEPT ![c].srv = "gone"] /\ CloseServerSide(c)
        /\ UNCHANGED <<plan, clientVars>> /\ exec' = exec /\ gates' = gates
    BY Zenon DEF TaskEnds
  <1>2. conn'[c].srv = "gone" /\ \A d \in Conns \ {c} : conn'[d] = conn[d]
    BY <1>1, Zenon DEF Typed, ConnStates
  <1>3. ServerCounts'
    BY <1>1, <1>2, CloseCounts, Zenon DEF CountInv
  <1>4. GateCounts'
    BY <1>1, HoldersSame, Zenon DEF CountInv
  <1> QED
    BY <1>1, <1>3, <1>4, ServerFlights, Zenon DEF CountInv

\* Nothing is held where nothing is open or executed.
LEMMA NothingHeld ==
    /\ (\A c \in Conns : conn[c].srv # "open") => PlainOpen = {} /\ ReservedOpen = {}
    /\ (\A c \in Conns : exec[c] = NoExec) => \A g \in Gates : Holders(g) = {}
    /\ Cardinality({}) = 0
  <1>1. 1 .. 0 = {} /\ NoExec.permits = 0
    BY Records
  <1>2. (\A c \in Conns : exec[c] = NoExec) => \A g \in Gates : Holders(g) = {}
    BY <1>1, Zenon DEF Holders
  <1> QED
    BY <1>2, FS_EmptySet, Zenon DEF PlainOpen, ReservedOpen

\* Drained: every task has ended, and every permit is free.
LEMMA DrainedCounts ==
  ASSUME Typed, ConnInv, CountInv, Drained
  PROVE  CountInv'
  <1> DEFINE open == {c \in Conns : conn[c].srv = "open"}
  <1>1. /\ conn' = [c \in Conns |-> IF c \in open THEN [conn[c] EXCEPT !.srv = "gone"] ELSE conn[c]]
        /\ exec' = [c \in Conns |-> IF c \in open THEN NoExec ELSE exec[c]]
        /\ gates' = Capacity /\ serverFree' = ServerConns /\ reserve' = ControlConns
        /\ UNCHANGED <<plan, clientVars>>
    BY Zenon DEF Drained
  <1>2. \A c \in Conns : exec'[c] = NoExec
    BY <1>1, Zenon DEF ConnInv, OneThing, Live
  <1>3. \A c \in Conns : conn'[c].srv # "open"
    <2> SUFFICES ASSUME NEW c \in Conns PROVE conn'[c].srv # "open"
      BY Zenon
    <2>1. conn[c] \in ConnStates
      BY Zenon DEF Typed
    <2>2. CASE c \in open
      <3>1. conn'[c] = [conn[c] EXCEPT !.srv = "gone"]
        BY <1>1, <2>2, Zenon
      <3>2. conn'[c].srv = "gone"
        BY <2>1, <3>1, Zenon DEF ConnStates
      <3> QED
        BY <3>2
    <2>3. CASE c \notin open
      BY <1>1, <2>3, Zenon
    <2> QED
      BY <2>2, <2>3, Zenon
  <1>4. 1 .. 0 = {} /\ NoExec.permits = 0
    BY Records
  <1>5. PlainOpen' = {} /\ ReservedOpen' = {}
    BY <1>3, Zenon DEF PlainOpen, ReservedOpen
  <1>6. \A g \in Gates : Holders(g)' = {}
    BY <1>2, <1>4, Zenon DEF Holders
  <1>7. Cardinality({}) = 0
    BY FS_EmptySet, Zenon
  <1>8. \A g \in Gates : Capacity[g] + 0 = Capacity[g]
    BY TransportAssumption
  <1>9. ServerConns + 0 = ServerConns /\ ControlConns + 0 = ControlConns
    BY TransportAssumption
  <1>10. ServerCounts'
    BY <1>1, <1>5, <1>7, <1>9, Zenon DEF ServerCounts
  <1>11. GateCounts'
    BY <1>1, <1>2, <1>6, <1>7, <1>8, Zenon DEF GateCounts, Live
  <1> QED
    BY <1>1, <1>10, <1>11, ServerFlights, Zenon DEF CountInv

\* Age, Stop and stuttering steps.
LEMMA QuietAccounts ==
  ASSUME Typed, RegistryInv, CountInv, (\E c \in Conns : Age(c)) \/ Stop \/ UNCHANGED vars
  PROVE  RegistryInv' /\ CountInv'
  <1>1. /\ UNCHANGED <<plan, exec, entries, nextToken, acked>> /\ (stop' = stop \/ stop = "up")
        /\ UNCHANGED <<conn, serverFree, reserve>> /\ gates' = gates
        /\ req' = req /\ clientFree' = clientFree /\ controlGate' = controlGate
    BY Zenon DEF Age, Stop, vars, serverVars, clientVars
  <1>2. stop = "stopped" => stop' = "stopped"
    BY <1>1
  <1>3. RegistryInv'
    BY <1>1, <1>2, SameRegistry, Zenon
  <1>4. ClientCounts'
    <2>1. \A r \in Requests : Flying(r)' <=> Flying(r)
      BY <1>1, Zenon DEF Flying
    <2> QED
      BY <1>1, <2>1, FlightSame, Zenon DEF CountInv
  <1>5. ServerCounts'
    BY <1>1, ConnsAlone, Zenon DEF CountInv
  <1>6. GateCounts'
    BY <1>1, HoldersSame, Zenon DEF CountInv
  <1> QED
    BY <1>3, <1>4, <1>5, <1>6, Zenon DEF CountInv

\* Every step keeps the accounts.
LEMMA AccountsStep ==
  ASSUME Typed, ConnInv, RegistryInv, CountInv, [Next]_vars
  PROVE  RegistryInv' /\ CountInv'
  <1>1. ASSUME NEW r \in Requests, ClientStep(r) \/ ClientTimeout(r) PROVE RegistryInv' /\ CountInv'
    BY <1>1, ClientAccounts, Zenon
  <1>2. ASSUME NEW c \in Conns, ServerStep(c) PROVE RegistryInv' /\ CountInv'
    <2>1. CASE BeginQuery(c)
      BY <2>1, BeginRegistry, BeginCounts, Zenon
    <2>2. CASE RefuseQuery(c)
      <3>1. UNCHANGED <<plan, exec, entries, nextToken, acked>> /\ stop' = stop
        BY <2>2, Zenon DEF RefuseQuery
      <3> QED
        BY <2>2, <3>1, SameRegistry, AnswerCounts, Zenon
    <2>3. CASE CancelActive(c)
      BY <2>3, CancelRegistry, AnswerCounts, Zenon
    <2>4. CASE Admit(c)
      BY <2>4, AdmitRegistry, RunCounts, Zenon
    <2>5. CASE AdmissionCancelled(c) \/ Execute(c)
      BY <2>5, ExecuteRegistry, RunCounts, Zenon
    <2>6. CASE Activate(c)
      BY <2>6, ActivateRegistry, RunCounts, Zenon
    <2>7. CASE Finish(c)
      BY <2>7, FinishRegistry, FinishCounts, Zenon
    <2> QED
      BY <1>2, <2>1, <2>2, <2>3, <2>4, <2>5, <2>6, <2>7, Zenon DEF ServerStep
  <1>3. ASSUME NEW c \in Conns, TaskEnds(c) PROVE RegistryInv' /\ CountInv'
    <2>1. UNCHANGED <<plan, exec, entries, nextToken, acked>> /\ stop' = stop
      BY <1>3, Zenon DEF TaskEnds
    <2> QED
      BY <1>3, <2>1, SameRegistry, TaskEndsCounts, Zenon
  <1>4. CASE Drained
    BY <1>4, DrainedRegistry, DrainedCounts, Zenon
  <1> QED
    BY <1>1, <1>2, <1>3, <1>4, QuietAccounts, Zenon DEF Next

\* At the start everything is free and nothing is registered.
LEMMA AccountsInit ==
  ASSUME Init
  PROVE  RegistryInv /\ CountInv
  <1>1. /\ exec = [c \in Conns |-> NoExec] /\ entries = [k \in Keys |-> NoEntry]
        /\ conn = [c \in Conns |-> NoConn] /\ nextToken = 1 /\ acked = {} /\ gates = Capacity
        /\ clientFree = ClientConns /\ controlGate = 1 /\ serverFree = ServerConns
        /\ reserve = ControlConns
    BY Zenon DEF Init
  <1>2. \A c \in Conns : /\ exec[c] = NoExec /\ exec[c].at = "none" /\ ~Live(c)
                         /\ conn[c].srv = "none"
    BY <1>1, Records, Zenon DEF Live
  <1>3. \A c \in Conns : ~Strong(c) /\ exec[c].at # "queued" /\ conn[c].srv # "open"
    BY <1>2 DEF Strong
  <1>4. \A k \in Keys : entries[k] = NoEntry /\ entries[k].token = 0
    BY <1>1, Records, Zenon
  <1>5. 0 < nextToken
    BY <1>1
  <1>6. RegistryInv
    BY <1>1, <1>2, <1>3, <1>4, <1>5, Zenon DEF RegistryInv, TokensIssued, TokensUnique, TokensKeyed,
       Registered, StrongOwns, QueuedFresh
  <1>7. QueriesInFlight = {} /\ CancelsInFlight = {}
    <2>1. \A r \in Requests : req[r].at \notin {"gated", "sent"}
      <3> SUFFICES ASSUME NEW r \in Requests PROVE req[r].at \notin {"gated", "sent"}
        BY Zenon
      <3>1. req[r] = NotSent \/ req[r] = [NotSent EXCEPT !.at = "failed"]
        BY Zenon DEF Init
      <3>2. NotSent \in Reqs /\ NotSent.at = "new"
        BY Records, Zenon
      <3>3. req[r].at = "new" \/ req[r].at = "failed"
        BY <3>1, <3>2, Zenon DEF Reqs
      <3> QED
        BY <3>3
    <2> QED
      BY <2>1, Zenon DEF QueriesInFlight, CancelsInFlight, Flying
  <1>8. /\ PlainOpen = {} /\ ReservedOpen = {}
        /\ \A g \in Gates : Holders(g) = {}
        /\ Cardinality({}) = 0
    BY <1>2, <1>3, NothingHeld, Zenon
  <1>9. /\ ClientConns + 0 = ClientConns /\ 1 + 0 = 1
        /\ ServerConns + 0 = ServerConns /\ ControlConns + 0 = ControlConns
        /\ \A g \in Gates : Capacity[g] + 0 = Capacity[g]
    BY TransportAssumption
  <1>10. ClientCounts /\ ServerCounts
    BY <1>1, <1>7, <1>8, <1>9, Zenon DEF ClientCounts, ServerCounts
  <1>11. GateCounts
    BY <1>1, <1>2, <1>8, <1>9, Zenon DEF GateCounts
  <1> QED
    BY <1>6, <1>10, <1>11, Zenon DEF CountInv

\* The invariant says what ServerAccounts does.
LEMMA AccountsHold ==
  ASSUME Typed, ConnInv, RegistryInv, CountInv
  PROVE  ServerAccounts
  <1>1. /\ clientFree + Cardinality(QueriesInFlight) = ClientConns /\ Cardinality(QueriesInFlight) \in Nat
        /\ controlGate + Cardinality(CancelsInFlight) = 1 /\ Cardinality(CancelsInFlight) \in Nat
        /\ clientFree \in Nat /\ controlGate \in Nat
    BY CountedFinite, Zenon DEF CountInv, ClientCounts, Typed
  <1>2. /\ serverFree + Cardinality(PlainOpen) = ServerConns
        /\ reserve + Cardinality(ReservedOpen) = ControlConns
        /\ Cardinality(PlainOpen) \in Nat /\ Cardinality(ReservedOpen) \in Nat
        /\ serverFree \in Nat /\ reserve \in Nat
    BY CountedFinite, Zenon DEF CountInv, ServerCounts, Typed
  <1>3. ASSUME NEW g \in Gates
        PROVE  /\ gates[g] + Cardinality(Holders(g)) = Capacity[g] /\ gates[g] \in Nat
               /\ Cardinality(Holders(g)) \in Nat
    BY CountedFinite, Zenon DEF CountInv, GateCounts, Typed
  <1>4. TypeOK
    <2>1. clientFree \in 0 .. ClientConns /\ controlGate \in 0 .. 1
      BY <1>1
    <2>2. serverFree \in 0 .. ServerConns /\ reserve \in 0 .. ControlConns
      BY <1>2
    <2>3. ASSUME NEW g \in Gates PROVE gates[g] \in 0 .. Capacity[g]
      BY <1>3
    <2>4. {pool[i] : i \in DOMAIN pool} = {c \in Conns : conn[c].cli = "idle"}
      <3>1. \A i \in DOMAIN pool : pool[i] \in Conns
        BY DEF Typed
      <3>2. \A c \in Conns : conn[c].cli = "idle" <=> \E i \in DOMAIN pool : pool[i] = c
        BY Zenon DEF ConnInv, PoolIsIdle
      <3>3. \A c : c \in {pool[i] : i \in DOMAIN pool} <=> c \in Conns /\ conn[c].cli = "idle"
        <4> SUFFICES ASSUME NEW c
                     PROVE  c \in {pool[i] : i \in DOMAIN pool} <=> c \in Conns /\ conn[c].cli = "idle"
          BY Zenon
        <4>1. c \in {pool[i] : i \in DOMAIN pool} => c \in Conns /\ conn[c].cli = "idle"
          BY <3>1, <3>2, Zenon
        <4>2. c \in Conns /\ conn[c].cli = "idle" => c \in {pool[i] : i \in DOMAIN pool}
          BY <3>2, Zenon
        <4> QED
          BY <4>1, <4>2, Zenon
      <3> QED
        BY <3>3, Zenon
    <2>5. \A c \in Conns : conn[c].cli = "idle" =>
             conn[c].inq = "none" /\ conn[c].outq = NoAnswer /\ exec[c] = NoExec
      BY Zenon DEF ConnInv, OneThing, Empty, Live
    <2>6. Len(pool) <= MaxIdle /\ stop \in {"up", "draining", "stopped"}
      BY Zenon DEF ConnInv, PoolIsIdle, Typed
    <2>7. \A k \in Keys : entries[k].token < nextToken
      BY Zenon DEF RegistryInv, TokensIssued
    <2> QED
      BY <2>1, <2>2, <2>3, <2>4, <2>5, <2>6, <2>7, Zenon DEF TypeOK
  <1>5. RunningIsRegistered
    <2>1. \A c \in Conns : exec[c].at = "running" => entries[KeyOf(exec[c].r)].token = exec[c].token
      BY Zenon DEF RegistryInv, StrongOwns, Strong, Owns
    <2> QED
      BY <2>1, Zenon DEF RegistryInv, Registered, RunningIsRegistered, Live
  <1>6. LimitsHold
    <2>1. /\ Cardinality(PlainOpen) = ServerConns - serverFree
          /\ Cardinality(ReservedOpen) = ControlConns - reserve
      BY <1>2
    <2>2. ASSUME NEW g \in Gates PROVE Capacity[g] - gates[g] = Cardinality(Holders(g))
      BY <1>3
    <2>3. {c \in Conns : conn[c].srv = "open" /\ conn[c].control = FALSE} = PlainOpen
      <3>1. \A c \in Conns : conn[c].control = FALSE <=> ~conn[c].control
        BY Zenon DEF Typed, ConnStates
      <3> QED
        BY <3>1, Zenon DEF PlainOpen
    <2>4. {c \in Conns : conn[c].srv = "open" /\ conn[c].control = TRUE} = ReservedOpen
      <3>1. \A c \in Conns : conn[c].control = TRUE <=> conn[c].control
        BY Zenon DEF Typed, ConnStates
      <3> QED
        BY <3>1, Zenon DEF ReservedOpen
    <2> QED
      BY <2>1, <2>2, <2>3, <2>4, Zenon DEF LimitsHold, Holders
  <1>7. CancelledNeverAnswers
    <2> SUFFICES ASSUME NEW c \in Conns, exec[c].at = "executed", exec[c].ok, exec[c].token \in acked
                 PROVE  EntryOf(c) = [token |-> exec[c].token, state |-> "cancelled"]
      BY Zenon DEF CancelledNeverAnswers, EntryOf
    <2>1. Live(c)
      BY AtIsLive, Zenon
    <2>2. KeyOf(exec[c].r) \in Keys
      BY <2>1, LiveTyped, PlanTyped, Zenon
    <2>3. EntryOf(c) \in EntryStates
      BY <2>2, Zenon DEF Typed, EntryOf
    <2>4. EntryOf(c).token = exec[c].token /\ EntryOf(c).state = "cancelled"
      BY Zenon DEF RegistryInv, StrongOwns, Strong, Owns, EntryOf
    <2> QED
      BY <2>3, <2>4 DEF EntryStates
  <1> QED
    BY <1>4, <1>5, <1>6, <1>7, Zenon DEF ServerAccounts

\* Connections, gates and the registry are accounted for, and an acknowledged
\* cancellation stands, for any requests, limits, faults and shutdowns
\* (coordination.rs: begin_, cancel_, activate_ and finish_query_lifecycle, the
\* connection gates and the admission permits).
THEOREM ServerAccountsTheorem == Spec => []ServerAccounts
  <1> DEFINE Inv == Typed /\ ConnInv /\ RegistryInv /\ CountInv
  <1>1. Init => Inv
    BY ConnInit, AccountsInit, Zenon
  <1>2. Inv /\ [Next]_vars => Inv'
    BY ConnStep, AccountsStep, Zenon
  <1>3. Inv => ServerAccounts
    BY AccountsHold, Zenon
  <1> QED
    BY <1>1, <1>2, <1>3, PTL DEF Spec
=============================================================================
