--------------------------- MODULE GraphStoreProofs ---------------------------
(***************************************************************************)
(* Proofs about GraphStore, for any stores, callers, setups and bounds:    *)
(* the writer state is owned and goes with its last owner                  *)
(* (WriterIsOwnedTheorem), and reads are fresh (ReadsAreFreshTheorem).     *)
(*                                                                         *)
(* The inductive invariant has two parts.  OwnedInv: whoever installs or   *)
(* drains holds the open gate, and a handle or a closing flag that no      *)
(* owner is left for has a closer on its way.  FreshInv: what a call was   *)
(* shown is known to its reader, or the reader has been asked for a        *)
(* refresh that starts after it, or the handle is still there.             *)
(***************************************************************************)
EXTENDS GraphStore, TLAPS

Ops == [at : Steps, then : Uses, min : Nat, need : Nat, floor : Nat, got : Nat, stale : BOOLEAN]
Handles == [epoch : Nat, seq : Nat, fenced : BOOLEAN]
ReaderStates == [open : BOOLEAN, seq : Nat]

Typed ==
    /\ setup \in Setups /\ committed \in Nat /\ epoch \in Nat /\ rival \in Nat
    /\ handle \in Handles /\ closing \in BOOLEAN /\ openGate \in Callers \cup {Free}
    /\ attached \subseteq Stores /\ retiring \subseteq Stores /\ unasked \subseteq Stores
    /\ reader \in [Stores -> ReaderStates]
    /\ lossGen \in [Stores -> Nat] /\ ackGen \in [Stores -> Nat]
    /\ refreshGate \in [Stores -> Callers \cup {Free}]
    /\ op \in [Callers -> Ops] /\ bookmark \in Nat

\* Sequences, epochs and generations are ordered.
OrderedCell ==
    /\ committed <= MaxSeq /\ epoch <= MaxEpoch /\ rival <= epoch /\ bookmark <= committed
    /\ epoch = 0 => committed = 0 /\ \A s \in Stores : ~reader[s].open
\* A handle of the newest epoch knows every commit, and is not the rival's.
OrderedHandle ==
    handle # NoHandle => /\ 1 <= handle.epoch /\ handle.epoch <= epoch /\ handle.epoch # rival
                         /\ handle.seq <= committed
                         /\ handle.epoch = epoch => handle.seq = committed
OrderedStores == \A s \in Stores : reader[s].seq <= committed /\ ackGen[s] <= lossGen[s]
OrderedCalls ==
    \A t \in Callers : /\ op[t].min <= committed /\ op[t].floor <= committed
                       /\ op[t].need <= lossGen[StoreOf(t)]
                       /\ op[t].at = "pulled" => op[t].got <= committed
Ordered == OrderedCell /\ OrderedHandle /\ OrderedStores /\ OrderedCalls

-----------------------------------------------------------------------------
(* Who owns the writer state.                                              *)

\* The release of the last owner is on its way.
Closing(u) == Kind(u) = "close" /\ op[u].at = "gate"

OwnedInv ==
    /\ owners = Cardinality(attached) /\ attached \cap retiring = {}
    /\ \A s \in retiring : ~reader[s].open
    /\ \A t \in Callers : op[t].at # "idle" => StoreOf(t) \in attached \cup retiring
    /\ \A t \in Callers : op[t].at \in {"install", "drain"} => openGate = t
    /\ attached = {} /\ (handle # NoHandle \/ \E t \in Callers : op[t].at = "install") =>
           \E u \in Callers : Closing(u)
    /\ closing => \E u \in Callers : op[u].at = "drain" \/ Closing(u)

-----------------------------------------------------------------------------
(* What a call relies on.                                                  *)

Fetching == {"open", "lock", "loop", "pull", "pulled"}

\* The steps a call of each kind takes.
ThenFits(t) ==
    \/ Kind(t) = "read" /\ op[t].then \in {"sequence", "snapshot", "full"}
    \/ Kind(t) = "strong" /\ op[t].then \in {"full", "snapshot"}
    \/ Kind(t) = "write" /\ op[t].then = "mark"
Shape(t) ==
    /\ op[t].at \in Fetching \cup {"use"} => ThenFits(t)
    /\ op[t].at \in {"sequence", "snapshot"} => Kind(t) = "read"
    /\ op[t].at = "mark" => Kind(t) = "write"
    /\ op[t].at \in {"gate", "install", "drain"} => Kind(t) \in {"promote", "retire", "close", "fence"}

\* The sequence a call must not fall behind.
Want(t) == IF Kind(t) = "read" THEN op[t].min ELSE op[t].floor

\* Its reader has it, or will when it is opened.
Caught(t) == reader[StoreOf(t)].open => reader[StoreOf(t)].seq >= Want(t)

\* Its reader is to be refreshed, and no refresh that began too early counts.
Asked(t) ==
    /\ lossGen[StoreOf(t)] # ackGen[StoreOf(t)]
    /\ \A u \in Callers :
          StoreOf(u) = StoreOf(t) /\ op[u].at = "pulled" /\ op[u].need = lossGen[StoreOf(t)] =>
              op[u].got >= Want(t)

StrongInv(t) ==
    Kind(t) = "strong" =>
        /\ op[t].at = "pulled" => op[t].got >= Want(t)
        /\ op[t].at \in Fetching /\ op[t].then = "snapshot" => Caught(t)
        /\ op[t].at = "use" => Caught(t)
        /\ op[t].at = "done" => op[t].got >= Want(t)

\* A read or a mutation that is past its handle, or may still answer from it.
Past(t) == op[t].then \in {"snapshot", "mark"}
Covered(t) ==
    \/ Caught(t) \/ Asked(t) \/ StoreOf(t) \in unasked \cup retiring
    \/ handle # NoHandle /\ ~closing

CausalInv(t) ==
    Kind(t) \in {"read", "write"} =>
        /\ op[t].at \in Fetching /\ Past(t) /\ ~op[t].stale => Caught(t) \/ Asked(t)
        /\ op[t].at = "use" /\ Past(t) /\ ~op[t].stale => Caught(t)
        /\ op[t].at \in {"snapshot", "mark"} /\ ~op[t].stale => Covered(t)
        /\ op[t].at = "mark" /\ handle # NoHandle => handle.seq >= Want(t)
        /\ op[t].at = "done" /\ ~op[t].stale => op[t].got >= Want(t)

Mine(t) == Shape(t) /\ StrongInv(t) /\ CausalInv(t)
FreshInv == \A t \in Callers : Mine(t)

Inv == Typed /\ Ordered /\ OwnedInv /\ FreshInv

-----------------------------------------------------------------------------
(* Records and calls.                                                      *)

\* The records a state starts from.
LEMMA Blanks ==
    /\ NoHandle \in Handles /\ NoHandle.epoch = 0 /\ NoHandle.seq = 0
    /\ NoReader \in ReaderStates /\ NoReader.open = FALSE /\ NoReader.seq = 0
    /\ NotCalled \in Ops /\ NotCalled.at = "idle" /\ NotCalled.min = 0 /\ NotCalled.need = 0
    /\ NotCalled.floor = 0
  BY DEF NoHandle, Handles, NoReader, ReaderStates, NotCalled, Ops, Steps, Uses

\* A caller's kind and store are those of the setup.
LEMMA SetupTyped ==
  ASSUME Typed, NEW t \in Callers
  PROVE  Kind(t) \in Kinds /\ StoreOf(t) \in Stores /\ op[t] \in Ops
  <1>1. setup.kind \in [Callers -> Kinds] /\ setup.store \in [Callers -> Stores]
    BY StoreAssumption, Zenon DEF Typed
  <1> QED
    BY <1>1, Zenon DEF Typed, Kind, StoreOf

\* No call but that of t changes.
OnlyCall(t) == op' \in [Callers -> Ops] /\ \A u \in Callers \ {t} : op'[u] = op[u]
\* What x keeps of y.
SameOrder(x, y) == x.min = y.min /\ x.need = y.need /\ x.floor = y.floor

\* The other forms a step gives its call.
Turn(t, step, then, b) ==
    op' = [op EXCEPT ![t].at = step, ![t].then = then, ![t].stale = @ \/ b]
Answer(t, step, got, b) ==
    op' = [op EXCEPT ![t].at = step, ![t].got = got, ![t].stale = @ \/ b]
Needs(t, step, need) ==
    op' = [op EXCEPT ![t].at = step, ![t].need = need]
Gets(t, step, got) ==
    op' = [op EXCEPT ![t].at = step, ![t].got = got]
Floors(t, step, floor) ==
    op' = [op EXCEPT ![t].at = step, ![t].floor = floor]
AsksCausal(t, step, min, floor) ==
    op' = [op EXCEPT ![t].at = step, ![t].min = min, ![t].floor = floor]
AsksStrong(t, step, then, floor) ==
    op' = [op EXCEPT ![t].at = step, ![t].then = then, ![t].floor = floor]

\* One call is replaced.
LEMMA CallSet ==
  ASSUME Typed, NEW t \in Callers, NEW x \in Ops, op' = [op EXCEPT ![t] = x]
  PROVE  OnlyCall(t) /\ op'[t] = x
  BY Zenon DEF Typed, OnlyCall

\* Goto, Continue and Return, and the other forms a step gives its call.
LEMMA GotoSets ==
  ASSUME Typed, NEW t \in Callers, NEW step \in Steps,
         Goto(t, step)
  PROVE  /\ OnlyCall(t)
         /\ op'[t].at = step /\ op'[t].then = op[t].then /\ op'[t].got = op[t].got
         /\ op'[t].stale = op[t].stale /\ SameOrder(op'[t], op[t])
  <1> DEFINE x == op[t]
             y == [x EXCEPT !.at = step]
  <1>1. op' = [op EXCEPT ![t] = y]
    BY Zenon DEF Goto
  <1>2. x \in Ops
    BY SetupTyped, Zenon
  <1> HIDE DEF x
  <1>3. /\ y \in Ops
        /\ y.at = step /\ y.then = x.then /\ y.min = x.min /\ y.need = x.need
        /\ y.floor = x.floor /\ y.got = x.got /\ y.stale = x.stale
    BY <1>2, Zenon DEF Ops
  <1> HIDE DEF y
  <1>4. OnlyCall(t) /\ op'[t] = y
    BY <1>1, <1>3, CallSet, Zenon
  <1> QED
    BY <1>3, <1>4, Zenon DEF x, SameOrder

\* A call that moves on to what it waited for (Continue) writes its step and its use.
LEMMA ContinueSets ==
  ASSUME Typed, NEW t \in Callers, NEW step \in Steps, NEW then \in Uses,
         Continue(t, step, then)
  PROVE  /\ OnlyCall(t)
         /\ op'[t].at = step /\ op'[t].then = then /\ op'[t].got = op[t].got
         /\ op'[t].stale = op[t].stale /\ SameOrder(op'[t], op[t])
  <1> DEFINE x == op[t]
             y == [x EXCEPT !.at = step, !.then = then]
  <1>1. op' = [op EXCEPT ![t] = y]
    BY Zenon DEF Continue
  <1>2. x \in Ops
    BY SetupTyped, Zenon
  <1> HIDE DEF x
  <1>3. /\ y \in Ops
        /\ y.at = step /\ y.then = then /\ y.min = x.min /\ y.need = x.need
        /\ y.floor = x.floor /\ y.got = x.got /\ y.stale = x.stale
    BY <1>2, Zenon DEF Ops
  <1> HIDE DEF y
  <1>4. OnlyCall(t) /\ op'[t] = y
    BY <1>1, <1>3, CallSet, Zenon
  <1> QED
    BY <1>3, <1>4, Zenon DEF x, SameOrder

\* A call that returns a sequence number (Return) is done with that number.
LEMMA ReturnSets ==
  ASSUME Typed, NEW t \in Callers, NEW value \in Nat,
         Return(t, value)
  PROVE  /\ OnlyCall(t)
         /\ op'[t].at = "done" /\ op'[t].then = op[t].then /\ op'[t].got = value
         /\ op'[t].stale = op[t].stale /\ SameOrder(op'[t], op[t])
  <1> DEFINE x == op[t]
             y == [x EXCEPT !.at = "done", !.got = value]
  <1>1. op' = [op EXCEPT ![t] = y]
    BY Zenon DEF Return
  <1>2. x \in Ops /\ "done" \in Steps
    BY SetupTyped, Zenon DEF Steps
  <1> HIDE DEF x
  <1>3. /\ y \in Ops
        /\ y.at = "done" /\ y.then = x.then /\ y.min = x.min /\ y.need = x.need
        /\ y.floor = x.floor /\ y.got = value /\ y.stale = x.stale
    BY <1>2, Zenon DEF Ops
  <1> HIDE DEF y
  <1>4. OnlyCall(t) /\ op'[t] = y
    BY <1>1, <1>3, CallSet, Zenon
  <1> QED
    BY <1>3, <1>4, Zenon DEF x, SameOrder

\* The same of a call that changes its step, its use and whether it may be stale.
LEMMA TurnSets ==
  ASSUME Typed, NEW t \in Callers, NEW step \in Steps, NEW then \in Uses, NEW b \in BOOLEAN,
         Turn(t, step, then, b)
  PROVE  /\ OnlyCall(t)
         /\ op'[t].at = step /\ op'[t].then = then /\ op'[t].got = op[t].got
         /\ op'[t].stale = (op[t].stale \/ b) /\ SameOrder(op'[t], op[t])
  <1> DEFINE x == op[t]
             y == [x EXCEPT !.at = step, !.then = then, !.stale = x.stale \/ b]
  <1>1. op' = [op EXCEPT ![t] = y]
    BY Zenon DEF Turn
  <1>2. x \in Ops
    BY SetupTyped, Zenon
  <1> HIDE DEF x
  <1>3. /\ y \in Ops
        /\ y.at = step /\ y.then = then /\ y.min = x.min /\ y.need = x.need
        /\ y.floor = x.floor /\ y.got = x.got /\ y.stale = (x.stale \/ b)
    BY <1>2, Zenon DEF Ops
  <1> HIDE DEF y
  <1>4. OnlyCall(t) /\ op'[t] = y
    BY <1>1, <1>3, CallSet, Zenon
  <1> QED
    BY <1>3, <1>4, Zenon DEF x, SameOrder

\* The same of a call that changes its step, what it got and whether it may be stale.
LEMMA AnswerSets ==
  ASSUME Typed, NEW t \in Callers, NEW step \in Steps, NEW got \in Nat, NEW b \in BOOLEAN,
         Answer(t, step, got, b)
  PROVE  /\ OnlyCall(t)
         /\ op'[t].at = step /\ op'[t].then = op[t].then /\ op'[t].got = got
         /\ op'[t].stale = (op[t].stale \/ b) /\ SameOrder(op'[t], op[t])
  <1> DEFINE x == op[t]
             y == [x EXCEPT !.at = step, !.got = got, !.stale = x.stale \/ b]
  <1>1. op' = [op EXCEPT ![t] = y]
    BY Zenon DEF Answer
  <1>2. x \in Ops
    BY SetupTyped, Zenon
  <1> HIDE DEF x
  <1>3. /\ y \in Ops
        /\ y.at = step /\ y.then = x.then /\ y.min = x.min /\ y.need = x.need
        /\ y.floor = x.floor /\ y.got = got /\ y.stale = (x.stale \/ b)
    BY <1>2, Zenon DEF Ops
  <1> HIDE DEF y
  <1>4. OnlyCall(t) /\ op'[t] = y
    BY <1>1, <1>3, CallSet, Zenon
  <1> QED
    BY <1>3, <1>4, Zenon DEF x, SameOrder

\* The same of a call that notes the loss generation its refresh answers.
LEMMA NeedSets ==
  ASSUME Typed, NEW t \in Callers, NEW step \in Steps, NEW need \in Nat,
         Needs(t, step, need)
  PROVE  /\ OnlyCall(t)
         /\ op'[t].at = step /\ op'[t].then = op[t].then /\ op'[t].min = op[t].min
         /\ op'[t].need = need /\ op'[t].floor = op[t].floor /\ op'[t].got = op[t].got
         /\ op'[t].stale = op[t].stale
  <1> DEFINE x == op[t]
             y == [x EXCEPT !.at = step, !.need = need]
  <1>1. op' = [op EXCEPT ![t] = y]
    BY Zenon DEF Needs
  <1>2. x \in Ops
    BY SetupTyped, Zenon
  <1> HIDE DEF x
  <1>3. /\ y \in Ops
        /\ y.at = step /\ y.then = x.then /\ y.min = x.min /\ y.need = need
        /\ y.floor = x.floor /\ y.got = x.got /\ y.stale = x.stale
    BY <1>2, Zenon DEF Ops
  <1> HIDE DEF y
  <1>4. OnlyCall(t) /\ op'[t] = y
    BY <1>1, <1>3, CallSet, Zenon
  <1> QED
    BY <1>3, <1>4, Zenon DEF x

\* The same of a call that takes what the manifest shows.
LEMMA GotSets ==
  ASSUME Typed, NEW t \in Callers, NEW step \in Steps, NEW got \in Nat,
         Gets(t, step, got)
  PROVE  /\ OnlyCall(t)
         /\ op'[t].at = step /\ op'[t].then = op[t].then /\ op'[t].got = got
         /\ op'[t].stale = op[t].stale /\ SameOrder(op'[t], op[t])
  <1> DEFINE x == op[t]
             y == [x EXCEPT !.at = step, !.got = got]
  <1>1. op' = [op EXCEPT ![t] = y]
    BY Zenon DEF Gets
  <1>2. x \in Ops
    BY SetupTyped, Zenon
  <1> HIDE DEF x
  <1>3. /\ y \in Ops
        /\ y.at = step /\ y.then = x.then /\ y.min = x.min /\ y.need = x.need
        /\ y.floor = x.floor /\ y.got = got /\ y.stale = x.stale
    BY <1>2, Zenon DEF Ops
  <1> HIDE DEF y
  <1>4. OnlyCall(t) /\ op'[t] = y
    BY <1>1, <1>3, CallSet, Zenon
  <1> QED
    BY <1>3, <1>4, Zenon DEF x, SameOrder

\* The same of a call that begins, with the commits so far as its floor.
LEMMA FloorSets ==
  ASSUME Typed, NEW t \in Callers, NEW step \in Steps, NEW floor \in Nat,
         Floors(t, step, floor)
  PROVE  /\ OnlyCall(t)
         /\ op'[t].at = step /\ op'[t].then = op[t].then /\ op'[t].min = op[t].min
         /\ op'[t].need = op[t].need /\ op'[t].floor = floor /\ op'[t].got = op[t].got
         /\ op'[t].stale = op[t].stale
  <1> DEFINE x == op[t]
             y == [x EXCEPT !.at = step, !.floor = floor]
  <1>1. op' = [op EXCEPT ![t] = y]
    BY Zenon DEF Floors
  <1>2. x \in Ops
    BY SetupTyped, Zenon
  <1> HIDE DEF x
  <1>3. /\ y \in Ops
        /\ y.at = step /\ y.then = x.then /\ y.min = x.min /\ y.need = x.need
        /\ y.floor = floor /\ y.got = x.got /\ y.stale = x.stale
    BY <1>2, Zenon DEF Ops
  <1> HIDE DEF y
  <1>4. OnlyCall(t) /\ op'[t] = y
    BY <1>1, <1>3, CallSet, Zenon
  <1> QED
    BY <1>3, <1>4, Zenon DEF x

\* The same of a causal read that begins with a bookmark.
LEMMA CausalSets ==
  ASSUME Typed, NEW t \in Callers, NEW step \in Steps, NEW min \in Nat, NEW floor \in Nat,
         AsksCausal(t, step, min, floor)
  PROVE  /\ OnlyCall(t)
         /\ op'[t].at = step /\ op'[t].then = op[t].then /\ op'[t].min = min
         /\ op'[t].need = op[t].need /\ op'[t].floor = floor /\ op'[t].got = op[t].got
         /\ op'[t].stale = op[t].stale
  <1> DEFINE x == op[t]
             y == [x EXCEPT !.at = step, !.min = min, !.floor = floor]
  <1>1. op' = [op EXCEPT ![t] = y]
    BY Zenon DEF AsksCausal
  <1>2. x \in Ops
    BY SetupTyped, Zenon
  <1> HIDE DEF x
  <1>3. /\ y \in Ops
        /\ y.at = step /\ y.then = x.then /\ y.min = min /\ y.need = x.need
        /\ y.floor = floor /\ y.got = x.got /\ y.stale = x.stale
    BY <1>2, Zenon DEF Ops
  <1> HIDE DEF y
  <1>4. OnlyCall(t) /\ op'[t] = y
    BY <1>1, <1>3, CallSet, Zenon
  <1> QED
    BY <1>3, <1>4, Zenon DEF x

\* The same of a strong read that begins.
LEMMA StrongSets ==
  ASSUME Typed, NEW t \in Callers, NEW step \in Steps, NEW then \in Uses, NEW floor \in Nat,
         AsksStrong(t, step, then, floor)
  PROVE  /\ OnlyCall(t)
         /\ op'[t].at = step /\ op'[t].then = then /\ op'[t].min = op[t].min
         /\ op'[t].need = op[t].need /\ op'[t].floor = floor /\ op'[t].got = op[t].got
         /\ op'[t].stale = op[t].stale
  <1> DEFINE x == op[t]
             y == [x EXCEPT !.at = step, !.then = then, !.floor = floor]
  <1>1. op' = [op EXCEPT ![t] = y]
    BY Zenon DEF AsksStrong
  <1>2. x \in Ops
    BY SetupTyped, Zenon
  <1> HIDE DEF x
  <1>3. /\ y \in Ops
        /\ y.at = step /\ y.then = then /\ y.min = x.min /\ y.need = x.need
        /\ y.floor = floor /\ y.got = x.got /\ y.stale = x.stale
    BY <1>2, Zenon DEF Ops
  <1> HIDE DEF y
  <1>4. OnlyCall(t) /\ op'[t] = y
    BY <1>1, <1>3, CallSet, Zenon
  <1> QED
    BY <1>3, <1>4, Zenon DEF x

-----------------------------------------------------------------------------
(* What a step may do to the calls of others.                              *)

ReaderGrows(s) ==
    \/ ~reader'[s].open
    \/ reader[s].open /\ reader'[s].seq >= reader[s].seq
    \/ reader'[s].seq >= committed
Bumped(s) == lossGen'[s] = lossGen[s] + 1 /\ ackGen'[s] = ackGen[s]
Acked(s) ==
    \E v \in Callers : /\ StoreOf(v) = s /\ op[v].at = "pulled" /\ ackGen'[s] = op[v].need
                       /\ reader'[s].seq >= op[v].got
GenStep(s) ==
    \/ lossGen'[s] = lossGen[s] /\ (ackGen'[s] = ackGen[s] \/ Acked(s))
    \/ Bumped(s)
\* What covers a call whose handle is still there goes over into something else.
CoverStep(s) ==
    /\ s \in unasked => s \in unasked' \/ Bumped(s) \/ reader'[s].seq >= committed
    /\ s \in retiring => s \in retiring'
    /\ handle # NoHandle /\ ~closing /\ s \in attached =>
           \/ handle' # NoHandle /\ ~closing'
           \/ s \in unasked' \cup retiring' \/ Bumped(s)
HandleStep ==
    handle' # NoHandle => (handle # NoHandle /\ handle'.seq >= handle.seq) \/ handle'.seq >= committed

\* Only the calls of X change, and none gets an older manifest.
World(X) ==
    /\ setup' = setup /\ HandleStep
    /\ \A s \in Stores : ReaderGrows(s) /\ GenStep(s) /\ CoverStep(s)
    /\ \A u \in Callers \ X : op'[u] = op[u]
    /\ \A u \in X : op'[u].at = "pulled" => op'[u].got >= committed

\* The numbers of the state.
LEMMA Numbers ==
  ASSUME Typed, NEW t \in Callers
  PROVE  /\ committed \in Nat /\ Want(t) \in Nat /\ op[t].got \in Nat /\ op[t].need \in Nat
         /\ op[t].min \in Nat /\ op[t].floor \in Nat /\ op[t].stale \in BOOLEAN
         /\ op[t].at \in Steps /\ op[t].then \in Uses
         /\ lossGen[StoreOf(t)] \in Nat /\ ackGen[StoreOf(t)] \in Nat
         /\ reader[StoreOf(t)] \in ReaderStates /\ reader[StoreOf(t)].seq \in Nat
         /\ handle.seq \in Nat
  <1>1. /\ op[t].got \in Nat /\ op[t].need \in Nat /\ op[t].min \in Nat /\ op[t].floor \in Nat
        /\ op[t].stale \in BOOLEAN /\ op[t].at \in Steps /\ op[t].then \in Uses
    BY SetupTyped, Zenon DEF Ops
  <1>2. Want(t) \in Nat
    BY <1>1, Zenon DEF Want
  <1>3. /\ lossGen[StoreOf(t)] \in Nat /\ ackGen[StoreOf(t)] \in Nat
        /\ reader[StoreOf(t)] \in ReaderStates
    BY SetupTyped, Zenon DEF Typed
  <1>4. reader[StoreOf(t)].seq \in Nat
    BY <1>3, Zenon DEF ReaderStates
  <1>5. committed \in Nat /\ handle.seq \in Nat
    BY Zenon DEF Typed, Handles
  <1> QED
    BY <1>1, <1>2, <1>3, <1>4, <1>5, Zenon

\* What a call wants was durable when it came to want it.
LEMMA WantDurable ==
  ASSUME Ordered, NEW t \in Callers
  PROVE  Want(t) <= committed
  BY Zenon DEF Ordered, OrderedCalls, Want

\* A reader that has what a call wants keeps it, or is opened again with it.
LEMMA CaughtStays ==
  ASSUME Typed, Typed', Ordered, NEW t \in Callers, setup' = setup, op'[t] = op[t],
         ReaderGrows(StoreOf(t)), Caught(t)
  PROVE  Caught(t)'
  <1> DEFINE s == StoreOf(t)
             w == Want(t)
             m == reader[s].seq
             n == reader'[s].seq
  <1>1. StoreOf(t)' = s /\ Want(t)' = w
    BY Zenon DEF StoreOf, Want, Kind
  <1>2. w \in Nat /\ m \in Nat /\ committed \in Nat /\ w <= committed
    BY Numbers, WantDurable, Zenon
  <1>3. n \in Nat
    BY <1>1, SetupTyped, Zenon DEF Typed, ReaderStates
  <1>4. \/ ~reader'[s].open
        \/ reader[s].open /\ n >= m
        \/ n >= committed
    BY Zenon DEF ReaderGrows
  <1>5. reader[s].open => m >= w
    BY Zenon DEF Caught
  <1>6. ~reader'[s].open \/ n >= w
    <2> HIDE DEF m, n, w
    <2> QED
      BY <1>2, <1>3, <1>4, <1>5
  <1> QED
    BY <1>1, <1>6, Zenon DEF Caught

\* A bumped generation asks for a refresh that starts now.
LEMMA BumpAsks ==
  ASSUME Typed, Typed', Ordered, NEW X, World(X), NEW t \in Callers, Bumped(StoreOf(t)),
         Want(t)' <= committed
  PROVE  Asked(t)'
  <1> DEFINE s == StoreOf(t)
             l == lossGen[s]
             w == Want(t)'
  <1>1. \A u \in Callers : StoreOf(u)' = StoreOf(u)
    BY Zenon DEF World, StoreOf
  <1>2. l \in Nat /\ ackGen[s] \in Nat /\ ackGen[s] <= l /\ lossGen'[s] = l + 1 /\ ackGen'[s] = ackGen[s]
    BY SetupTyped, Numbers, Zenon DEF Bumped, Ordered, OrderedStores
  <1>3. lossGen'[s] # ackGen'[s]
    BY <1>2
  <1>4. ASSUME NEW u \in Callers, StoreOf(u) = s, op'[u].at = "pulled", op'[u].need = lossGen'[s]
        PROVE  op'[u].got >= w
    <2>1. CASE u \in X
      <3>1. op'[u].got >= committed
        BY <1>4, <2>1, Zenon DEF World
      <3>2. op'[u] \in Ops
        BY Zenon DEF Typed
      <3>3. op'[u].got \in Nat /\ committed \in Nat
        BY <3>2, Zenon DEF Ops, Typed
      <3>4. w \in Nat
        <4>1. op'[t] \in Ops
          BY Zenon DEF Typed
        <4> QED
          BY <4>1, Zenon DEF Want, Ops
      <3> HIDE DEF w
      <3> QED
        BY <3>1, <3>3, <3>4 DEF w
    <2>2. CASE u \notin X
      <3>1. op'[u] = op[u] /\ op[u].need <= l /\ op[u].need \in Nat
        BY <1>4, <2>2, Numbers, Zenon DEF World, Ordered, OrderedCalls
      <3>2. op[u].need # l + 1
        BY <1>2, <3>1
      <3> QED
        BY <1>2, <1>4, <3>1, <3>2, Zenon
    <2> QED
      BY <2>1, <2>2, Zenon
  <1> QED
    BY <1>1, <1>3, <1>4, Zenon DEF Asked

\* A refresh that was asked for stays asked for until it has been made.
LEMMA AskedStays ==
  ASSUME Typed, Typed', Ordered, NEW X, World(X), NEW t \in Callers, t \notin X, Asked(t)
  PROVE  Caught(t)' \/ Asked(t)'
  <1> DEFINE s == StoreOf(t)
             w == Want(t)
  <1>1. /\ \A u \in Callers : StoreOf(u)' = StoreOf(u)
        /\ op'[t] = op[t] /\ Want(t)' = w
    BY Zenon DEF World, StoreOf, Want, Kind
  <1>2. w \in Nat /\ committed \in Nat /\ w <= committed /\ s \in Stores
    BY Numbers, WantDurable, SetupTyped, Zenon
  <1>3. ASSUME NEW u \in Callers, StoreOf(u) = s, op'[u].at = "pulled", op'[u].need = lossGen'[s],
               lossGen'[s] = lossGen[s]
        PROVE  op'[u].got >= w
    <2>1. CASE u \in X
      <3>1. op'[u].got >= committed
        BY <1>3, <2>1, Zenon DEF World
      <3>2. op'[u] \in Ops
        BY Zenon DEF Typed
      <3>3. op'[u].got \in Nat
        BY <3>2, Zenon DEF Ops
      <3> HIDE DEF w
      <3> QED
        BY <1>2, <3>1, <3>3
    <2>2. CASE u \notin X
      <3>1. op'[u] = op[u]
        BY <2>2, Zenon DEF World
      <3> QED
        BY <1>3, <3>1, Zenon DEF Asked
    <2> QED
      BY <2>1, <2>2, Zenon
  <1>4. CASE lossGen'[s] = lossGen[s] /\ lossGen'[s] # ackGen'[s]
    BY <1>1, <1>3, <1>4, Zenon DEF Asked
  <1>5. CASE lossGen'[s] = lossGen[s] /\ ackGen'[s] = ackGen[s]
    BY <1>4, <1>5, Zenon DEF Asked
  <1>6. CASE lossGen'[s] = lossGen[s] /\ Acked(s) /\ lossGen'[s] = ackGen'[s]
    <2>1. PICK v \in Callers : /\ StoreOf(v) = s /\ op[v].at = "pulled" /\ ackGen'[s] = op[v].need
                               /\ reader'[s].seq >= op[v].got
      BY <1>6, Zenon DEF Acked
    <2>2. op[v].got >= w
      BY <1>6, <2>1, Zenon DEF Asked
    <2>3. op[v].got \in Nat
      BY Numbers, Zenon
    <2>4. reader'[s].seq \in Nat
      BY <1>2, Zenon DEF Typed, ReaderStates
    <2>5. reader'[s].seq >= w
      <3> HIDE DEF w, s
      <3> QED
        BY <1>2, <2>1, <2>2, <2>3, <2>4
    <2> QED
      BY <1>1, <2>5, Zenon DEF Caught
  <1>7. CASE Bumped(s)
    <2>1. Want(t)' <= committed
      BY <1>1, <1>2, Zenon
    <2> QED
      BY <1>7, <2>1, BumpAsks, Zenon
  <1>8. GenStep(s)
    BY <1>2, Zenon DEF World
  <1> QED
    BY <1>4, <1>5, <1>6, <1>7, <1>8, Zenon DEF GenStep

\* What covers a call that has not looked at the handle yet goes on covering it.
LEMMA CoveredStays ==
  ASSUME Typed, Typed', Ordered, OwnedInv, NEW X, World(X), NEW t \in Callers, t \notin X,
         op[t].at # "idle", Covered(t)
  PROVE  Covered(t)'
  <1> DEFINE s == StoreOf(t)
             w == Want(t)
  <1>1. StoreOf(t)' = s /\ op'[t] = op[t] /\ Want(t)' = w /\ s \in Stores
    BY SetupTyped, Zenon DEF World, StoreOf, Want, Kind
  <1>2. ReaderGrows(s) /\ CoverStep(s)
    BY <1>1, Zenon DEF World
  <1>3. CASE Caught(t)
    <2>1. setup' = setup
      BY Zenon DEF World
    <2>2. Caught(t)'
      BY <1>1, <1>2, <1>3, <2>1, CaughtStays, Zenon
    <2> QED
      BY <2>2, Zenon DEF Covered
  <1>4. CASE Asked(t)
    BY <1>4, AskedStays, Zenon DEF Covered
  <1>5. CASE Bumped(s)
    <2>1. Want(t)' <= committed
      BY <1>1, WantDurable, Zenon
    <2> QED
      BY <1>5, <2>1, BumpAsks, Zenon DEF Covered
  <1>6. CASE reader'[s].seq >= committed
    <2>1. w \in Nat /\ committed \in Nat /\ w <= committed
      BY Numbers, WantDurable, Zenon
    <2>2. reader'[s].seq \in Nat
      BY <1>1, Zenon DEF Typed, ReaderStates
    <2>3. reader'[s].seq >= w
      <3> HIDE DEF w, s
      <3> QED
        BY <1>6, <2>1, <2>2
    <2> QED
      BY <1>1, <2>3, Zenon DEF Caught, Covered
  <1>7. CASE s \in unasked' \cup retiring'
    BY <1>1, <1>7, Zenon DEF Covered
  <1>8. CASE handle' # NoHandle /\ ~closing'
    BY <1>8, Zenon DEF Covered
  <1>9. s \in attached \cup retiring
    BY Zenon DEF OwnedInv
  <1> QED
    BY <1>2, <1>3, <1>4, <1>5, <1>6, <1>7, <1>8, <1>9, Zenon DEF Covered, CoverStep

\* A step of others leaves a call with what it relies on.
LEMMA WorldKeeps ==
  ASSUME Typed, Typed', Ordered, OwnedInv, FreshInv, NEW X, World(X),
         NEW t \in Callers, t \notin X
  PROVE  Mine(t)'
  <1>1. /\ Kind(t)' = Kind(t) /\ StoreOf(t)' = StoreOf(t) /\ op'[t] = op[t] /\ Want(t)' = Want(t)
        /\ StoreOf(t) \in Stores /\ setup' = setup
    BY SetupTyped, Zenon DEF World, Kind, StoreOf, Want
  <1>2. Mine(t)
    BY Zenon DEF FreshInv
  <1>3. Caught(t) => Caught(t)'
    <2>1. ReaderGrows(StoreOf(t))
      BY <1>1, Zenon DEF World
    <2> QED
      BY <1>1, <2>1, CaughtStays, Zenon
  <1>4. Asked(t) => Caught(t)' \/ Asked(t)'
    BY AskedStays, Zenon
  <1>5. op[t].at # "idle" /\ Covered(t) => Covered(t)'
    BY CoveredStays, Zenon
  <1>6. op[t].at = "mark" /\ Kind(t) = "write" /\ handle' # NoHandle => handle'.seq >= Want(t)
    <2> SUFFICES ASSUME op[t].at = "mark", Kind(t) = "write", handle' # NoHandle
                 PROVE  handle'.seq >= Want(t)
      BY Zenon
    <2> DEFINE w == Want(t)
               h == handle.seq
               g == handle'.seq
    <2>1. (handle # NoHandle /\ g >= h) \/ g >= committed
      BY Zenon DEF World, HandleStep
    <2>2. handle # NoHandle => h >= w
      BY <1>2, Zenon DEF Mine, CausalInv
    <2>3. w \in Nat /\ h \in Nat /\ committed \in Nat /\ w <= committed
      BY Numbers, WantDurable, Zenon
    <2>4. g \in Nat
      BY Zenon DEF Typed, Handles
    <2> HIDE DEF w, h, g
    <2>5. g >= w
      BY <2>1, <2>2, <2>3, <2>4
    <2> QED
      BY <2>5, Zenon DEF w, g
  <1>7. Shape(t)'
    BY <1>1, <1>2, Zenon DEF Mine, Shape, ThenFits
  <1>8. StrongInv(t)'
    BY <1>1, <1>2, <1>3, Zenon DEF Mine, StrongInv
  <1>9. CausalInv(t)'
    <2> SUFFICES ASSUME Kind(t) \in {"read", "write"}
                 PROVE  CausalInv(t)'
      BY <1>1, Zenon DEF CausalInv
    <2>1. CausalInv(t)
      BY <1>2, Zenon DEF Mine
    <2>2. /\ op[t].at \in Fetching /\ Past(t) /\ ~op[t].stale => Caught(t)' \/ Asked(t)'
          /\ op[t].at = "use" /\ Past(t) /\ ~op[t].stale => Caught(t)'
      BY <1>3, <1>4, <2>1, Zenon DEF CausalInv
    <2>3. op[t].at \in {"snapshot", "mark"} /\ ~op[t].stale => Covered(t)'
      BY <1>5, <2>1, Zenon DEF CausalInv
    <2>4. op[t].at = "mark" /\ handle' # NoHandle => handle'.seq >= Want(t)
      <3>1. op[t].at = "mark" => Kind(t) = "write"
        BY <1>2, Zenon DEF Mine, Shape
      <3> QED
        BY <1>6, <3>1, Zenon
    <2>5. op[t].at = "done" /\ ~op[t].stale => op[t].got >= Want(t)
      BY <2>1, Zenon DEF CausalInv
    <2>6. Past(t)' <=> Past(t)
      BY <1>1, Zenon DEF Past
    <2> QED
      BY <1>1, <2>2, <2>3, <2>4, <2>5, <2>6, Zenon DEF CausalInv
  <1> QED
    BY <1>7, <1>8, <1>9, Zenon DEF Mine

-----------------------------------------------------------------------------
(* The parts a step leaves alone.                                          *)

CellSame == setup' = setup /\ committed' = committed /\ epoch' = epoch /\ rival' = rival
OwnersSame == owners' = owners /\ attached' = attached /\ retiring' = retiring
HandleSame == handle' = handle /\ closing' = closing /\ openGate' = openGate
ReaderSame == reader' = reader /\ lossGen' = lossGen /\ ackGen' = ackGen /\ unasked' = unasked

\* What World asks of a store holds where its reader, its generations, and what
\* covers its calls stay.
LEMMA ReaderStays ==
  ASSUME Typed, NEW s \in Stores, reader'[s] = reader[s]
  PROVE  ReaderGrows(s)
  <1> DEFINE n == reader[s].seq
  <1>1. n \in Nat
    BY Zenon DEF Typed, ReaderStates
  <1> HIDE DEF n
  <1>2. n >= n
    BY <1>1
  <1> QED
    BY <1>2, Zenon DEF ReaderGrows, n

\* A store whose generations a step leaves alone keeps their order.
LEMMA GenStays ==
  ASSUME NEW s \in Stores, lossGen'[s] = lossGen[s], ackGen'[s] = ackGen[s]
  PROVE  GenStep(s)
  BY Zenon DEF GenStep

\* A step that takes no handle away and no notice leaves every reader covered.
LEMMA CoverStays ==
  ASSUME NEW s \in Stores, unasked' = unasked, retiring' = retiring,
         handle # NoHandle /\ ~closing => handle' # NoHandle /\ ~closing'
  PROVE  CoverStep(s)
  BY Zenon DEF CoverStep

\* A step that keeps the handle or drops it does not move the handle's sequence.
LEMMA HandleStays ==
  ASSUME Typed, handle' # NoHandle => handle' = handle
  PROVE  HandleStep
  <1> DEFINE n == handle.seq
  <1>1. n \in Nat
    BY Zenon DEF Typed, Handles
  <1> HIDE DEF n
  <1>2. n >= n
    BY <1>1
  <1> QED
    BY <1>2, Zenon DEF HandleStep, n

\* The order of the parts, where they stay.
LEMMA CallsOrdered ==
  ASSUME Typed, Typed', OrderedCalls, setup' = setup, NEW t \in Callers,
         OnlyCall(t), committed' >= committed, \A s \in Stores : lossGen'[s] >= lossGen[s],
         op'[t].min <= committed', op'[t].floor <= committed', op'[t].need <= lossGen'[StoreOf(t)],
         op'[t].at = "pulled" => op'[t].got <= committed'
  PROVE  OrderedCalls'
  <1> SUFFICES ASSUME NEW u \in Callers
               PROVE  /\ op'[u].min <= committed' /\ op'[u].floor <= committed'
                      /\ op'[u].need <= lossGen'[StoreOf(u)]
                      /\ op'[u].at = "pulled" => op'[u].got <= committed'
    BY Zenon DEF OrderedCalls, StoreOf
  <1>1. CASE u = t
    BY <1>1, Zenon
  <1>2. CASE u # t
    <2> DEFINE a == op[u].min
               b == op[u].floor
               c == op[u].need
               g == op[u].got
               l == lossGen[StoreOf(u)]
               m == lossGen'[StoreOf(u)]
    <2>1. op'[u].min = a /\ op'[u].floor = b /\ op'[u].need = c /\ op'[u].got = g /\ op'[u].at = op[u].at
      BY <1>2, Zenon DEF OnlyCall
    <2>2. a \in Nat /\ b \in Nat /\ c \in Nat /\ g \in Nat /\ l \in Nat /\ committed \in Nat
      BY Numbers, Zenon
    <2>3. m \in Nat /\ committed' \in Nat /\ m >= l
      BY SetupTyped, Zenon DEF Typed
    <2>4. a <= committed /\ b <= committed /\ c <= l /\ (op[u].at = "pulled" => g <= committed)
      BY Zenon DEF OrderedCalls
    <2> HIDE DEF a, b, c, g, l, m
    <2>5. a <= committed' /\ b <= committed' /\ c <= m /\ (g <= committed => g <= committed')
      BY <2>2, <2>3, <2>4
    <2> QED
      BY <2>1, <2>4, <2>5, Zenon DEF m
  <1> QED
    BY <1>1, <1>2, Zenon

\* A step that keeps the readers, and the handle or none, keeps the order of the rest.
LEMMA RestOrdered ==
  ASSUME Ordered, CellSame, handle' # NoHandle => handle' = handle, reader' = reader,
         lossGen' = lossGen, ackGen' = ackGen, bookmark' <= committed
  PROVE  OrderedCell' /\ OrderedHandle' /\ OrderedStores'
  <1>1. OrderedCell'
    BY Zenon DEF Ordered, OrderedCell, CellSame
  <1>2. OrderedHandle'
    BY Zenon DEF Ordered, OrderedHandle, CellSame
  <1>3. OrderedStores'
    BY Zenon DEF Ordered, OrderedStores, CellSame
  <1> QED
    BY <1>1, <1>2, <1>3, Zenon

\* Who owns the writer state, when no store joins or leaves.
GateKept(t) ==
    /\ op'[t].at \in {"install", "drain"} => openGate' = t
    /\ \A u \in Callers \ {t} : op[u].at \in {"install", "drain"} => openGate' = u
CloserKept(t) ==
    /\ Closing(t) => /\ op'[t].at = "drain" /\ handle' = NoHandle
                     /\ \A u \in Callers : op'[u].at # "install"
    /\ op[t].at = "drain" => ~closing'
    /\ closing' => closing \/ op'[t].at = "drain"
    /\ op'[t].at = "install" => attached # {}
    /\ handle' # NoHandle => handle # NoHandle \/ op[t].at = "install"

\* A step of one call that keeps the owners, its gate and its close keeps OwnedInv.
LEMMA OwnedKeeps ==
  ASSUME OwnedInv, setup' = setup, OwnersSame, NEW t \in Callers,
         \A s \in retiring : ~reader'[s].open, OnlyCall(t),
         StoreOf(t) \in attached \cup retiring, GateKept(t), CloserKept(t)
  PROVE  OwnedInv'
  <1>1. \A u \in Callers : StoreOf(u)' = StoreOf(u) /\ Kind(u)' = Kind(u)
    BY Zenon DEF StoreOf, Kind
  <1>2. owners' = Cardinality(attached') /\ attached' \cap retiring' = {}
    BY Zenon DEF OwnedInv, OwnersSame
  <1>3. \A s \in retiring' : ~reader'[s].open
    BY Zenon DEF OwnersSame
  <1>4. \A u \in Callers : op'[u].at # "idle" => StoreOf(u)' \in attached' \cup retiring'
    BY <1>1, Zenon DEF OwnedInv, OwnersSame, OnlyCall
  <1>5. \A u \in Callers : op'[u].at \in {"install", "drain"} => openGate' = u
    BY Zenon DEF GateKept, OnlyCall
  <1>6. \A u \in Callers : Closing(u) /\ u # t => Closing(u)'
    BY <1>1, Zenon DEF Closing, OnlyCall
  <1>7. ASSUME attached' = {}, handle' # NoHandle \/ \E u \in Callers : op'[u].at = "install"
        PROVE  \E u \in Callers : Closing(u)'
    <2>1. attached = {} /\ op'[t].at # "install"
      BY <1>7, Zenon DEF OwnersSame, CloserKept
    <2>2. handle # NoHandle \/ \E u \in Callers : op[u].at = "install"
      BY <1>7, <2>1, Zenon DEF CloserKept, OnlyCall
    <2>3. PICK u \in Callers : Closing(u)
      BY <2>1, <2>2, Zenon DEF OwnedInv
    <2>4. u # t
      BY <1>7, <2>3, Zenon DEF CloserKept
    <2> QED
      BY <1>6, <2>3, <2>4, Zenon
  <1>8. ASSUME closing'
        PROVE  \E u \in Callers : op'[u].at = "drain" \/ Closing(u)'
    <2>1. CASE op'[t].at = "drain"
      BY <2>1, Zenon
    <2>2. CASE op'[t].at # "drain"
      <3>1. closing /\ op[t].at # "drain" /\ ~Closing(t)
        BY <1>8, <2>2, Zenon DEF CloserKept
      <3>2. PICK u \in Callers : op[u].at = "drain" \/ Closing(u)
        BY <3>1, Zenon DEF OwnedInv
      <3>3. u # t /\ op'[u] = op[u]
        BY <3>1, <3>2, Zenon DEF OnlyCall
      <3> QED
        BY <1>6, <3>2, <3>3, Zenon
    <2> QED
      BY <2>1, <2>2, Zenon
  <1> QED
    BY <1>2, <1>3, <1>4, <1>5, <1>7, <1>8, Zenon DEF OwnedInv

\* A step that touches neither the writer state nor its gate.
LEMMA OwnedQuiet ==
  ASSUME OwnedInv, setup' = setup, OwnersSame, HandleSame, NEW t \in Callers,
         reader' = reader, OnlyCall(t),
         StoreOf(t) \in attached \cup retiring,
         op[t].at \notin {"install", "drain"}, ~Closing(t), op'[t].at \notin {"install", "drain"}
  PROVE  OwnedInv'
  <1>1. \A s \in retiring : ~reader'[s].open
    BY Zenon DEF OwnedInv
  <1>2. GateKept(t)
    BY Zenon DEF GateKept, OwnedInv, HandleSame
  <1>3. CloserKept(t)
    BY Zenon DEF CloserKept, HandleSame
  <1> QED
    BY <1>1, <1>2, <1>3, OwnedKeeps, Zenon

-----------------------------------------------------------------------------
(* Steps that change a call and nothing it relies on.                      *)

\* The invariant, put together from the parts of a step.
LEMMA StepKeeps ==
  ASSUME Inv, Typed', Ordered', OwnedInv', NEW t \in Callers, World({t}), Mine(t)'
  PROVE  Inv'
  <1>1. \A u \in Callers : Mine(u)'
    <2> SUFFICES ASSUME NEW u \in Callers
                 PROVE  Mine(u)'
      BY Zenon
    <2>1. CASE u = t
      BY <2>1, Zenon
    <2>2. CASE u # t
      <3>1. Typed /\ Ordered /\ OwnedInv /\ FreshInv /\ u \notin {t}
        BY <2>2, Zenon DEF Inv
      <3> QED
        BY <3>1, WorldKeeps, Zenon
    <2> QED
      BY <2>1, <2>2, Zenon
  <1>2. FreshInv'
    BY <1>1, Zenon DEF FreshInv
  <1> QED
    BY <1>2, Zenon DEF Inv

\* A step that writes only the record of call t changes the world for t alone.
LEMMA WorldOfCall ==
  ASSUME Typed, NEW t \in Callers, CellSame, OwnersSame, HandleSame, ReaderSame, OnlyCall(t),
         op'[t].at = "pulled" => op'[t].got >= committed
  PROVE  World({t})
  <1>1. \A s \in Stores : ReaderGrows(s)
    BY ReaderStays, Zenon DEF ReaderSame
  <1>2. \A s \in Stores : GenStep(s)
    BY GenStays, Zenon DEF ReaderSame
  <1>3. \A s \in Stores : CoverStep(s)
    BY CoverStays, Zenon DEF ReaderSame, OwnersSame, HandleSame
  <1>4. HandleStep
    BY HandleStays, Zenon DEF HandleSame
  <1> QED
    BY <1>1, <1>2, <1>3, <1>4, Zenon DEF World, OnlyCall, CellSame

\* A call's step to a place where it holds no gate.
LEMMA CallOnly ==
  ASSUME Inv, NEW t \in Callers, CellSame, OwnersSame, HandleSame, ReaderSame, OnlyCall(t),
         refreshGate' \in [Stores -> Callers \cup {Free}], bookmark' \in Nat, bookmark' <= committed,
         StoreOf(t) \in attached \cup retiring,
         op[t].at \notin {"install", "drain"}, ~Closing(t), op'[t].at \notin {"install", "drain"},
         op'[t].at = "pulled" => op'[t].got = committed,
         op'[t].min <= committed, op'[t].floor <= committed, op'[t].need <= lossGen[StoreOf(t)],
         Mine(t)'
  PROVE  Inv'
  <1>1. Typed /\ Ordered /\ OwnedInv
    BY Zenon DEF Inv
  <1>2. Typed'
    BY <1>1, Zenon DEF Typed, CellSame, OwnersSame, HandleSame, ReaderSame, OnlyCall
  <1>3. World({t})
    <2>1. committed >= committed
      <3>1. committed \in Nat
        BY <1>1, Zenon DEF Typed
      <3> QED
        BY <3>1
    <2>2. op'[t].at = "pulled" => op'[t].got >= committed
      BY <2>1, Zenon
    <2> QED
      BY <1>1, <2>2, WorldOfCall, Zenon
  <1>4. OwnedInv'
    BY <1>1, OwnedQuiet, Zenon DEF CellSame, ReaderSame
  <1>5. OrderedCell' /\ OrderedHandle' /\ OrderedStores'
    BY <1>1, RestOrdered, Zenon DEF HandleSame, ReaderSame
  <1>6. OrderedCalls'
    <2>1. /\ committed' >= committed /\ committed <= committed'
          /\ \A s \in Stores : lossGen'[s] >= lossGen[s]
      <3>1. committed \in Nat /\ \A s \in Stores : lossGen[s] \in Nat
        BY <1>1, Zenon DEF Typed
      <3>2. committed >= committed /\ committed <= committed /\ \A s \in Stores : lossGen[s] >= lossGen[s]
        BY <3>1
      <3> QED
        BY <3>2, Zenon DEF CellSame, ReaderSame
    <2>2. /\ op'[t].min <= committed' /\ op'[t].floor <= committed'
          /\ op'[t].need <= lossGen'[StoreOf(t)] /\ setup' = setup
          /\ op'[t].at = "pulled" => op'[t].got <= committed'
      BY <2>1, Zenon DEF CellSame, ReaderSame
    <2>3. OrderedCalls
      BY <1>1, Zenon DEF Ordered
    <2> QED
      BY <1>1, <1>2, <2>1, <2>2, <2>3, CallsOrdered, Zenon
  <1> QED
    BY <1>2, <1>3, <1>4, <1>5, <1>6, StepKeeps, Zenon DEF Ordered

\* The common case: what the call wants and its refresh stay, and no gate moves.
LEMMA CallMoves ==
  ASSUME Inv, NEW t \in Callers, CellSame, OwnersSame, HandleSame, ReaderSame, OnlyCall(t),
         refreshGate' \in [Stores -> Callers \cup {Free}], bookmark' = bookmark,
         op[t].at \notin {"idle", "install", "drain"}, ~Closing(t),
         op'[t].at \notin {"install", "drain", "pulled"}, SameOrder(op'[t], op[t]), Mine(t)'
  PROVE  Inv'
  <1>1. /\ StoreOf(t) \in attached \cup retiring
        /\ op[t].min <= committed /\ op[t].floor <= committed /\ op[t].need <= lossGen[StoreOf(t)]
        /\ bookmark \in Nat /\ bookmark <= committed
    BY Zenon DEF Inv, OwnedInv, Ordered, OrderedCalls, OrderedCell, Typed
  <1>2. /\ op'[t].min <= committed /\ op'[t].floor <= committed
        /\ op'[t].need <= lossGen[StoreOf(t)]
    BY <1>1, Zenon DEF SameOrder
  <1> QED
    BY <1>1, <1>2, CallOnly, Zenon

\* What a call sees of its reader, while that stays and it wants the same.
LEMMA ViewWant ==
  ASSUME NEW t \in Callers, CellSame, ReaderSame, OnlyCall(t),
         op'[t].min = op[t].min, op'[t].floor = op[t].floor
  PROVE  /\ Kind(t)' = Kind(t) /\ StoreOf(t)' = StoreOf(t) /\ Want(t)' = Want(t)
         /\ (Caught(t)' <=> Caught(t))
         /\ op'[t].at # "pulled" /\ Asked(t) => Asked(t)'
  <1>1. /\ Kind(t)' = Kind(t) /\ \A u \in Callers : StoreOf(u)' = StoreOf(u)
        /\ Want(t)' = Want(t)
    BY Zenon DEF CellSame, Kind, StoreOf, Want
  <1>2. Caught(t)' <=> Caught(t)
    BY <1>1, Zenon DEF Caught, ReaderSame
  <1>3. op'[t].at # "pulled" /\ Asked(t) => Asked(t)'
    BY <1>1, Zenon DEF Asked, ReaderSame, OnlyCall
  <1> QED
    BY <1>1, <1>2, <1>3, Zenon

\* A call whose order is unchanged still asks for the same, and sees the same reader.
LEMMA ViewSame ==
  ASSUME NEW t \in Callers, CellSame, ReaderSame, OnlyCall(t), SameOrder(op'[t], op[t])
  PROVE  /\ Kind(t)' = Kind(t) /\ StoreOf(t)' = StoreOf(t) /\ Want(t)' = Want(t)
         /\ (Caught(t)' <=> Caught(t))
         /\ op'[t].at # "pulled" /\ Asked(t) => Asked(t)'
  BY ViewWant, Zenon DEF SameOrder

\* A call that waits for a gate, failed, or read nothing relies on nothing.
LEMMA MineQuiet ==
  ASSUME NEW t \in Callers,
         op'[t].at \in {"gate", "install", "drain"} =>
             Kind(t)' \in {"promote", "retire", "close", "fence"},
         op'[t].at = "done" => Kind(t)' \notin {"read", "write", "strong"},
         op'[t].at \in {"gate", "install", "drain", "done", "failed"}
  PROVE  Mine(t)'
  <1>1. /\ op'[t].at \notin Fetching \cup {"use"}
        /\ op'[t].at \notin {"sequence", "snapshot", "mark", "use", "pulled"}
    BY DEF Fetching
  <1>2. Shape(t)'
    BY <1>1, Zenon DEF Shape
  <1>3. StrongInv(t)'
    BY <1>1, Zenon DEF StrongInv
  <1>4. CausalInv(t)'
    BY <1>1, Zenon DEF CausalInv
  <1> QED
    BY <1>2, <1>3, <1>4, Zenon DEF Mine

\* What makes a call sound where it arrives.
LEMMA MineFetching ==
  ASSUME NEW t \in Callers, op'[t].at \in Fetching, ThenFits(t)',
         Kind(t)' = "strong" => /\ op'[t].at = "pulled" => op'[t].got >= Want(t)'
                                /\ op'[t].then = "snapshot" => Caught(t)',
         Kind(t)' \in {"read", "write"} /\ Past(t)' /\ ~op'[t].stale => Caught(t)' \/ Asked(t)'
  PROVE  Mine(t)'
  <1>1. op'[t].at \notin {"sequence", "snapshot", "mark", "gate", "install", "drain", "use", "done"}
    BY DEF Fetching
  <1>2. Shape(t)'
    BY <1>1, Zenon DEF Shape
  <1>3. StrongInv(t)'
    BY <1>1, Zenon DEF StrongInv
  <1>4. CausalInv(t)'
    BY <1>1, Zenon DEF CausalInv
  <1> QED
    BY <1>2, <1>3, <1>4, Zenon DEF Mine

\* What a call that is about to use its reader has to know.
LEMMA MineUse ==
  ASSUME NEW t \in Callers, op'[t].at = "use", ThenFits(t)',
         Kind(t)' = "strong" => Caught(t)',
         Kind(t)' \in {"read", "write"} /\ Past(t)' /\ ~op'[t].stale => Caught(t)'
  PROVE  Mine(t)'
  <1>1. /\ op'[t].at \notin {"sequence", "snapshot", "mark", "gate", "install", "drain", "done", "pulled"}
        /\ op'[t].at \notin Fetching
    BY DEF Fetching
  <1>2. Shape(t)'
    BY <1>1, Zenon DEF Shape
  <1>3. StrongInv(t)'
    BY <1>1, Zenon DEF StrongInv
  <1>4. CausalInv(t)'
    BY <1>1, Zenon DEF CausalInv
  <1> QED
    BY <1>2, <1>3, <1>4, Zenon DEF Mine

\* What a call that is done has to know.
LEMMA MineDone ==
  ASSUME NEW t \in Callers, op'[t].at = "done",
         Kind(t)' = "strong" => op'[t].got >= Want(t)',
         Kind(t)' \in {"read", "write"} /\ ~op'[t].stale => op'[t].got >= Want(t)'
  PROVE  Mine(t)'
  <1>1. /\ op'[t].at \notin {"sequence", "snapshot", "mark", "gate", "install", "drain", "use", "pulled"}
        /\ op'[t].at \notin Fetching \cup {"use"}
    BY DEF Fetching
  <1>2. Shape(t)'
    BY <1>1, Zenon DEF Shape
  <1>3. StrongInv(t)'
    BY <1>1, Zenon DEF StrongInv
  <1>4. CausalInv(t)'
    BY <1>1, Zenon DEF CausalInv
  <1> QED
    BY <1>2, <1>3, <1>4, Zenon DEF Mine

\* What a read that looks for a sequence or a snapshot has to know.
LEMMA MineReading ==
  ASSUME NEW t \in Callers, op'[t].at \in {"sequence", "snapshot"}, Kind(t)' = "read",
         op'[t].at = "snapshot" /\ ~op'[t].stale => Covered(t)'
  PROVE  Mine(t)'
  <1>1. /\ op'[t].at \notin {"mark", "gate", "install", "drain", "use", "pulled", "done"}
        /\ op'[t].at \notin Fetching \cup {"use"}
    BY DEF Fetching
  <1>2. Shape(t)'
    BY <1>1, Zenon DEF Shape
  <1>3. StrongInv(t)'
    BY Zenon DEF StrongInv
  <1>4. CausalInv(t)'
    BY <1>1, Zenon DEF CausalInv
  <1> QED
    BY <1>2, <1>3, <1>4, Zenon DEF Mine

-----------------------------------------------------------------------------
(* The reads.                                                              *)

\* The names of the steps and uses that the actions write.
LEMMA StepNames ==
    /\ {"sequence", "snapshot", "open", "lock", "loop", "pull", "pulled", "use", "mark"} \subseteq Steps
    /\ {"gate", "install", "drain", "done", "failed"} \subseteq Steps
    /\ {"sequence", "snapshot", "full", "mark"} \subseteq Uses
  BY DEF Steps, Uses

\* A failed call relies on nothing.
LEMMA FailOnly ==
  ASSUME Inv, NEW t \in Callers, CellSame, OwnersSame, HandleSame, ReaderSame, Fail(t),
         refreshGate' \in [Stores -> Callers \cup {Free}], bookmark' = bookmark,
         op[t].at \notin {"idle", "install", "drain"}, ~Closing(t)
  PROVE  Inv'
  <1>1. /\ OnlyCall(t) /\ op'[t].at = "failed" /\ SameOrder(op'[t], op[t])
    BY GotoSets, StepNames, Zenon DEF Inv, Fail
  <1>2. Mine(t)'
    BY <1>1, MineQuiet, Zenon
  <1> QED
    BY <1>1, <1>2, CallMoves, Zenon

\* Begin: a read wants its bookmark, a strong one what is durable now.
LEMMA BeginKeeps ==
  ASSUME Inv, NEW t \in Callers, Begin(t)
  PROVE  Inv'
  <1>1. Typed /\ Ordered /\ OwnedInv
    BY Zenon DEF Inv
  <1>2. /\ CellSame /\ OwnersSame /\ HandleSame /\ ReaderSame
        /\ refreshGate' = refreshGate /\ bookmark' = bookmark
    BY Zenon DEF Begin, HandleState, ReaderState, CellSame, OwnersSame, HandleSame, ReaderSame
  <1>3. op[t].at = "idle" /\ StoreOf(t) \in attached \cup retiring
    BY Zenon DEF Begin, Ready
  <1>4. /\ refreshGate' \in [Stores -> Callers \cup {Free}] /\ bookmark' \in Nat
        /\ bookmark' <= committed /\ committed \in Nat
    BY <1>1, <1>2, Zenon DEF Typed, Ordered, OrderedCell
  <1>5. /\ op[t].min <= committed /\ op[t].need <= lossGen[StoreOf(t)] /\ op[t].min \in Nat
    BY <1>1, Numbers, Zenon DEF Ordered, OrderedCalls
  <1>6. op[t].at \notin {"install", "drain"} /\ ~Closing(t)
    BY <1>3, Zenon DEF Closing
  <1>7. committed <= committed /\ 0 <= committed /\ 0 \in Nat
    BY <1>4
  <1>8. Kind(t)' = Kind(t) /\ StoreOf(t)' = StoreOf(t)
    BY <1>2, Zenon DEF CellSame, Kind, StoreOf
  <1>9. ASSUME Kind(t) = "read", NEW min \in {0, bookmark},
               op' = [op EXCEPT ![t].at = IF min = 0 THEN "snapshot" ELSE "sequence",
                                ![t].min = min, ![t].floor = committed]
        PROVE  Inv'
    <2> DEFINE step == IF min = 0 THEN "snapshot" ELSE "sequence"
    <2>1. step \in {"sequence", "snapshot"} /\ (step = "snapshot" => min = 0) /\ step \in Steps
      BY StepNames, Zenon
    <2>2. min \in Nat /\ min <= committed
      BY <1>2, <1>4, <1>7, Zenon
    <2>3. AsksCausal(t, step, min, committed)
      BY <1>9, Zenon DEF AsksCausal
    <2> HIDE DEF step
    <2>4. /\ OnlyCall(t) /\ op'[t].at = step /\ op'[t].min = min /\ op'[t].floor = committed
          /\ op'[t].need = op[t].need
      BY <1>1, <1>4, <2>1, <2>2, <2>3, CausalSets
    <2>5. step = "snapshot" => Caught(t)'
      <3> SUFFICES ASSUME step = "snapshot" PROVE Caught(t)'
        BY Zenon
      <3>1. Want(t)' = 0
        BY <1>8, <1>9, <2>1, <2>4, Zenon DEF Want
      <3>2. reader'[StoreOf(t)].seq \in Nat
        BY <1>1, <1>2, Numbers, Zenon DEF ReaderSame
      <3>3. reader'[StoreOf(t)].seq >= 0
        BY <3>2
      <3> QED
        BY <1>8, <3>1, <3>3, Zenon DEF Caught
    <2>6. Mine(t)'
      BY <1>8, <1>9, <2>1, <2>4, <2>5, MineReading, Zenon DEF Covered
    <2>7. op'[t].at \notin {"install", "drain", "pulled"}
      BY <2>1, <2>4, Zenon
    <2> QED
      BY <1>2, <1>3, <1>4, <1>5, <1>6, <1>7, <2>2, <2>4, <2>6, <2>7, CallOnly, Zenon
  <1>10. ASSUME Kind(t) = "strong",
                op' = [op EXCEPT ![t].at = "open", ![t].then = "full", ![t].floor = committed]
         PROVE  Inv'
    <2>1. /\ OnlyCall(t) /\ op'[t].at = "open" /\ op'[t].then = "full" /\ op'[t].floor = committed
          /\ op'[t].need = op[t].need /\ op'[t].min = op[t].min
      <3>1. AsksStrong(t, "open", "full", committed)
        BY <1>10, Zenon DEF AsksStrong
      <3>2. "open" \in Steps /\ "full" \in Uses
        BY StepNames, Zenon
      <3> QED
        BY <1>1, <1>4, <3>1, <3>2, StrongSets
    <2>2. op'[t].at \in Fetching
      BY <2>1, Zenon DEF Fetching
    <2>3. ThenFits(t)'
      BY <1>8, <1>10, <2>1, Zenon DEF ThenFits
    <2>4. Mine(t)'
      BY <1>8, <1>10, <2>1, <2>2, <2>3, MineFetching, Zenon
    <2>5. op'[t].at \notin {"install", "drain", "pulled"}
      BY <2>1, Zenon
    <2> QED
      BY <1>2, <1>3, <1>4, <1>5, <1>6, <1>7, <2>1, <2>4, <2>5, CallOnly, Zenon
  <1> QED
    BY <1>9, <1>10, Zenon DEF Begin

-----------------------------------------------------------------------------
(* A handle that SlateDB closed is dropped: clear_closed_writer.           *)

\* What the step leaves alone besides.
Clears(t) ==
    /\ CellSame /\ OwnersSame /\ closing' = closing /\ openGate' = openGate /\ reader' = reader
    /\ ackGen' = ackGen /\ refreshGate' = refreshGate /\ bookmark' = bookmark
    /\ OpenWriter(StoreOf(t)) /\ ClearClosedWriter(StoreOf(t))

\* The generation of the store that found it is bumped.
LEMMA BumpSets ==
  ASSUME Typed, NEW s \in Stores, lossGen' = [lossGen EXCEPT ![s] = @ + 1]
  PROVE  /\ lossGen' \in [Stores -> Nat] /\ lossGen'[s] = lossGen[s] + 1
         /\ \A x \in Stores \ {s} : lossGen'[x] = lossGen[x]
         /\ \A x \in Stores : lossGen'[x] >= lossGen[x]
  <1> DEFINE l == lossGen[s]
  <1>1. l \in Nat /\ lossGen \in [Stores -> Nat]
    BY Zenon DEF Typed
  <1>2. l + 1 \in Nat /\ l + 1 >= l /\ \A n \in Nat : n >= n
    <2> HIDE DEF l
    <2> QED
      BY <1>1
  <1>3. lossGen' = [lossGen EXCEPT ![s] = l + 1]
    BY Zenon
  <1> HIDE DEF l
  <1>4. /\ lossGen' \in [Stores -> Nat] /\ lossGen'[s] = l + 1
        /\ \A x \in Stores \ {s} : lossGen'[x] = lossGen[x]
    BY <1>1, <1>2, <1>3, Zenon
  <1>5. \A x \in Stores : lossGen'[x] >= lossGen[x]
    <2> SUFFICES ASSUME NEW x \in Stores PROVE lossGen'[x] >= lossGen[x]
      BY Zenon
    <2>1. CASE x = s
      BY <1>2, <1>4, <2>1, Zenon DEF l
    <2>2. CASE x # s
      <3>1. lossGen'[x] = lossGen[x] /\ lossGen[x] \in Nat
        BY <1>1, <1>4, <2>2, Zenon
      <3> QED
        BY <1>2, <3>1, Zenon
    <2> QED
      BY <2>1, <2>2, Zenon
  <1> QED
    BY <1>4, <1>5, Zenon DEF l

\* Raising loss generations keeps the order of every store's numbers.
LEMMA BumpedStores ==
  ASSUME Typed, Typed', OrderedStores, reader' = reader, committed' = committed, ackGen' = ackGen,
         \A x \in Stores : lossGen'[x] >= lossGen[x]
  PROVE  OrderedStores'
  <1> SUFFICES ASSUME NEW s \in Stores
               PROVE  reader'[s].seq <= committed' /\ ackGen'[s] <= lossGen'[s]
    BY Zenon DEF OrderedStores
  <1> DEFINE a == ackGen[s]
             l == lossGen[s]
             m == lossGen'[s]
  <1>1. a \in Nat /\ l \in Nat /\ m \in Nat /\ a <= l /\ m >= l
    BY Zenon DEF Typed, OrderedStores
  <1>2. reader'[s].seq <= committed' /\ ackGen'[s] = a
    BY Zenon DEF OrderedStores
  <1> HIDE DEF a, l, m
  <1>3. a <= m
    BY <1>1
  <1> QED
    BY <1>2, <1>3, Zenon DEF m

\* The store's own reader is asked; the readers of the others are not.
LEMMA ClearWorld ==
  ASSUME Inv, NEW t \in Callers, Clears(t), OnlyCall(t), SameOrder(op'[t], op[t]),
         op[t].at \notin {"idle", "install", "drain"}, ~Closing(t),
         op'[t].at \notin {"install", "drain", "pulled"}
  PROVE  Typed' /\ Ordered' /\ OwnedInv' /\ World({t}) /\ Asked(t)' /\ Kind(t)' = Kind(t)
  <1> DEFINE s == StoreOf(t)
  <1>1. Typed /\ Ordered /\ OwnedInv /\ s \in Stores
    BY SetupTyped, Zenon DEF Inv
  <1>2. /\ CellSame /\ OwnersSame /\ closing' = closing /\ openGate' = openGate /\ reader' = reader
        /\ ackGen' = ackGen /\ refreshGate' = refreshGate /\ bookmark' = bookmark
        /\ handle' = NoHandle /\ unasked' = unasked \cup (attached \ {s})
        /\ lossGen' = [lossGen EXCEPT ![s] = @ + 1]
    BY Zenon DEF Clears, ClearClosedWriter
  <1>3. /\ lossGen' \in [Stores -> Nat] /\ lossGen'[s] = lossGen[s] + 1
        /\ \A x \in Stores \ {s} : lossGen'[x] = lossGen[x]
        /\ \A x \in Stores : lossGen'[x] >= lossGen[x]
    BY <1>1, <1>2, BumpSets, Zenon
  <1>4. Typed'
    <2>1. handle' \in Handles
      BY <1>2, Blanks, Zenon
    <2>2. unasked' \subseteq Stores
      BY <1>1, <1>2, Zenon DEF Typed
    <2> QED
      BY <1>1, <1>2, <1>3, <2>1, <2>2, Zenon DEF Typed, CellSame, OwnersSame, OnlyCall
  <1>5. Ordered'
    <2>1. OrderedCell'
      BY <1>1, <1>2, Zenon DEF Ordered, OrderedCell, CellSame
    <2>2. OrderedHandle'
      BY <1>2, Zenon DEF OrderedHandle
    <2>3. OrderedStores'
      BY <1>1, <1>2, <1>3, <1>4, BumpedStores, Zenon DEF Ordered, CellSame
    <2>4. OrderedCalls'
      <3>1. /\ op[t].min <= committed /\ op[t].floor <= committed /\ op[t].need <= lossGen[s]
            /\ lossGen[s] \in Nat /\ op[t].need \in Nat /\ committed \in Nat
        BY <1>1, Numbers, Zenon DEF Ordered, OrderedCalls
      <3>2. op[t].need <= lossGen'[s] /\ committed >= committed
        BY <1>3, <3>1
      <3>3. /\ op'[t].min <= committed' /\ op'[t].floor <= committed' /\ op'[t].need <= lossGen'[s]
            /\ committed' >= committed /\ setup' = setup /\ op'[t].at # "pulled"
        BY <1>2, <3>1, <3>2, Zenon DEF SameOrder, CellSame
      <3>4. OrderedCalls
        BY <1>1, Zenon DEF Ordered
      <3> QED
        BY <1>1, <1>3, <1>4, <3>3, <3>4, CallsOrdered, Zenon
    <2> QED
      BY <2>1, <2>2, <2>3, <2>4, Zenon DEF Ordered
  <1>6. OwnedInv'
    <2>1. \A x \in retiring : ~reader'[x].open
      BY <1>1, <1>2, Zenon DEF OwnedInv
    <2>2. GateKept(t)
      BY <1>1, <1>2, Zenon DEF GateKept, OwnedInv
    <2>3. CloserKept(t)
      BY <1>2, Zenon DEF CloserKept
    <2>4. s \in attached \cup retiring /\ setup' = setup
      BY <1>1, <1>2, Zenon DEF OwnedInv, CellSame
    <2> QED
      BY <1>1, <1>2, <2>1, <2>2, <2>3, <2>4, OwnedKeeps, Zenon
  <1>7. Bumped(s)
    BY <1>2, <1>3, Zenon DEF Bumped
  <1>8. World({t})
    <2>1. \A x \in Stores : ReaderGrows(x)
      BY <1>1, <1>2, ReaderStays, Zenon
    <2>2. \A x \in Stores : GenStep(x)
      BY <1>2, <1>3, <1>7, Zenon DEF GenStep
    <2>3. \A x \in Stores : CoverStep(x)
      BY <1>2, <1>7, Zenon DEF CoverStep, OwnersSame
    <2>4. HandleStep
      BY <1>2, Zenon DEF HandleStep
    <2> QED
      BY <1>2, <2>1, <2>2, <2>3, <2>4, Zenon DEF World, OnlyCall, CellSame
  <1>9. Asked(t)'
    <2>1. Want(t)' = Want(t)
      BY <1>2, Zenon DEF CellSame, Want, Kind, SameOrder
    <2>2. Want(t)' <= committed
      BY <1>1, <2>1, WantDurable, Zenon
    <2> QED
      BY <1>1, <1>4, <1>7, <1>8, <2>2, BumpAsks, Zenon
  <1> QED
    BY <1>2, <1>4, <1>5, <1>6, <1>8, <1>9, Zenon DEF CellSame, Kind

-----------------------------------------------------------------------------
(* DurableSequence and Snapshot: the handle, or the reader without it.     *)

\* Without a handle to answer from, a covered call relies on its reader, unless
\* it is marked stale.
LEMMA ReaderCovers ==
  ASSUME OwnedInv, NEW t \in Callers, ~OpenWriter(StoreOf(t)), ~Behind(StoreOf(t)), Covered(t)
  PROVE  Caught(t) \/ Asked(t)
  <1>1. CASE StoreOf(t) \in retiring
    BY <1>1, Zenon DEF OwnedInv, Caught
  <1>2. CASE StoreOf(t) \notin retiring
    BY <1>2, Zenon DEF OpenWriter, Behind, Covered
  <1> QED
    BY <1>1, <1>2, Zenon

\* A handle of the newest epoch knows what a read wants.
LEMMA HandleKnows ==
  ASSUME Typed, Ordered, NEW t \in Callers, handle # NoHandle, ~Behind(StoreOf(t))
  PROVE  handle.seq >= Want(t)
  <1> DEFINE e == handle.epoch
             n == handle.seq
             w == Want(t)
  <1>1. e \in Nat /\ epoch \in Nat /\ n \in Nat /\ w \in Nat /\ committed \in Nat /\ w <= committed
    BY Numbers, WantDurable, Zenon DEF Typed, Handles
  <1>2. 1 <= e /\ e <= epoch /\ (e = epoch => n = committed)
    BY Zenon DEF Ordered, OrderedHandle
  <1>3. e \notin 1 .. epoch - 1
    BY Zenon DEF Behind
  <1> HIDE DEF e, n, w
  <1>4. e = epoch
    BY <1>1, <1>2, <1>3
  <1>5. n >= w
    BY <1>1, <1>2, <1>4
  <1> QED
    BY <1>5, Zenon DEF n, w

\* The step to the reader.
LEMMA TurnKeeps ==
  ASSUME Inv, NEW t \in Callers, CellSame, OwnersSame, HandleSame, ReaderSame,
         refreshGate' = refreshGate, bookmark' = bookmark,
         op[t].at \in {"sequence", "snapshot", "mark"}, ~OpenWriter(StoreOf(t)),
         Turn(t, "open", op[t].at, Behind(StoreOf(t)))
  PROVE  Inv'
  <1>1. Typed /\ OwnedInv /\ Mine(t)
    BY Zenon DEF Inv, FreshInv
  <1>2. "open" \in Steps /\ op[t].at \in Uses /\ Behind(StoreOf(t)) \in BOOLEAN
    <2>1. op[t].at \in Uses
      BY StepNames, Zenon
    <2> QED
      BY <2>1, StepNames, Zenon DEF Behind
  <1>3. /\ OnlyCall(t) /\ op'[t].at = "open" /\ op'[t].then = op[t].at
        /\ op'[t].stale = (op[t].stale \/ Behind(StoreOf(t))) /\ SameOrder(op'[t], op[t])
    BY <1>1, <1>2, TurnSets
  <1>4. /\ Kind(t)' = Kind(t) /\ StoreOf(t)' = StoreOf(t) /\ Want(t)' = Want(t)
        /\ (Caught(t)' <=> Caught(t))
        /\ op'[t].at # "pulled" /\ Asked(t) => Asked(t)'
    BY <1>3, ViewSame, Zenon
  <1>5. op'[t].at \in Fetching /\ op'[t].at \notin {"install", "drain", "pulled"}
    BY <1>3, Zenon DEF Fetching
  <1>6. ThenFits(t)' /\ Kind(t) # "strong"
    BY <1>1, <1>3, <1>4, Zenon DEF Mine, Shape, ThenFits
  <1>7. Kind(t)' \in {"read", "write"} /\ Past(t)' /\ ~op'[t].stale => Caught(t)' \/ Asked(t)'
    <2> SUFFICES ASSUME Kind(t) \in {"read", "write"}, Past(t)', ~op'[t].stale
                 PROVE  Caught(t)' \/ Asked(t)'
      BY <1>4, Zenon
    <2>1. op[t].at \in {"snapshot", "mark"} /\ ~op[t].stale /\ ~Behind(StoreOf(t))
      BY <1>3, Zenon DEF Past
    <2>2. Covered(t)
      BY <1>1, <2>1, Zenon DEF Mine, CausalInv
    <2>3. Caught(t) \/ Asked(t)
      BY <1>1, <2>1, <2>2, ReaderCovers, Zenon
    <2> QED
      BY <1>3, <1>4, <2>3, Zenon
  <1>8. Mine(t)'
    BY <1>4, <1>5, <1>6, <1>7, MineFetching, Zenon
  <1>9. /\ refreshGate' \in [Stores -> Callers \cup {Free}] /\ ~Closing(t)
        /\ op[t].at \notin {"idle", "install", "drain"}
    BY <1>1, Zenon DEF Typed, Closing
  <1> QED
    BY <1>3, <1>5, <1>8, <1>9, CallMoves, Zenon

\* The step to the reader of a call that found the handle closed.
LEMMA FoundClosedKeeps ==
  ASSUME Inv, NEW t \in Callers, Clears(t),
         op[t].at \in {"sequence", "snapshot", "mark"}, Continue(t, "open", op[t].at)
  PROVE  Inv'
  <1>1. Typed /\ OwnedInv /\ Mine(t)
    BY Zenon DEF Inv, FreshInv
  <1>2. "open" \in Steps /\ op[t].at \in Uses
    BY StepNames, Zenon
  <1>3. /\ OnlyCall(t) /\ op'[t].at = "open" /\ op'[t].then = op[t].at
        /\ SameOrder(op'[t], op[t])
    BY <1>1, <1>2, ContinueSets, Zenon
  <1>4. /\ op'[t].at \in Fetching /\ op'[t].at \notin {"install", "drain", "pulled"}
        /\ op[t].at \notin {"idle", "install", "drain"} /\ ~Closing(t)
    BY <1>3, Zenon DEF Fetching, Closing
  <1>5. Typed' /\ Ordered' /\ OwnedInv' /\ World({t}) /\ Asked(t)' /\ Kind(t)' = Kind(t)
    BY <1>3, <1>4, ClearWorld, Zenon
  <1>6. ThenFits(t)' /\ Kind(t) # "strong"
    BY <1>1, <1>3, <1>5, Zenon DEF Mine, Shape, ThenFits
  <1>7. Mine(t)'
    BY <1>4, <1>5, <1>6, MineFetching, Zenon
  <1> QED
    BY <1>5, <1>7, StepKeeps, Zenon

\* The larger of two sequences is a sequence that was durable.
LEMMA BookmarkGrows ==
  ASSUME Typed, Ordered, NEW n \in Nat, n <= committed,
         bookmark' = IF n > bookmark THEN n ELSE bookmark
  PROVE  bookmark' \in Nat /\ bookmark' <= committed
  <1>1. bookmark \in Nat /\ bookmark <= committed
    BY Zenon DEF Typed, Ordered, OrderedCell
  <1> QED
    BY <1>1, Zenon

\* An answer, with the bookmark that may go with it.
LEMMA AnswerKeeps ==
  ASSUME Inv, NEW t \in Callers, CellSame, OwnersSame, HandleSame, ReaderSame,
         refreshGate' = refreshGate, OnlyCall(t), SameOrder(op'[t], op[t]),
         bookmark' \in Nat, bookmark' <= committed,
         op[t].at \notin {"idle", "install", "drain"}, ~Closing(t), op'[t].at = "done",
         Kind(t) = "strong" => op'[t].got >= Want(t),
         Kind(t) \in {"read", "write"} /\ ~op'[t].stale => op'[t].got >= Want(t)
  PROVE  Inv'
  <1>1. /\ StoreOf(t) \in attached \cup retiring
        /\ op[t].min <= committed /\ op[t].floor <= committed /\ op[t].need <= lossGen[StoreOf(t)]
    BY Zenon DEF Inv, OwnedInv, Ordered, OrderedCalls
  <1>2. /\ op'[t].min <= committed /\ op'[t].floor <= committed
        /\ op'[t].need <= lossGen[StoreOf(t)]
        /\ op'[t].at \notin {"install", "drain"} /\ op'[t].at # "pulled"
    BY <1>1, Zenon DEF SameOrder
  <1>3. refreshGate' \in [Stores -> Callers \cup {Free}]
    BY Zenon DEF Inv, Typed
  <1>4. Kind(t)' = Kind(t) /\ Want(t)' = Want(t)
    BY ViewSame, Zenon
  <1>5. Mine(t)'
    BY <1>4, MineDone, Zenon
  <1>6. op[t].at \notin {"install", "drain"}
    BY Zenon
  <1> QED
    BY <1>1, <1>2, <1>3, <1>5, <1>6, CallOnly, Zenon

\* durable_sequence (DurableSequence) keeps the invariant.
LEMMA DurableSequenceKeeps ==
  ASSUME Inv, NEW t \in Callers, DurableSequence(t)
  PROVE  Inv'
  <1> DEFINE s == StoreOf(t)
  <1>1. Typed /\ Ordered /\ OwnedInv /\ Mine(t)
    BY Zenon DEF Inv, FreshInv
  <1>2. /\ op[t].at \in {"sequence", "mark"} /\ setup' = setup
        /\ op[t].at \in {"sequence", "snapshot", "mark"}
        /\ op[t].at \notin {"idle", "install", "drain"} /\ ~Closing(t)
    BY Zenon DEF DurableSequence, Closing
  <1>3. CASE ReadableWriter(s) /\ UNCHANGED <<HandleState, ReaderState>>
    <2>1. /\ CellSame /\ OwnersSame /\ HandleSame /\ ReaderSame /\ refreshGate' = refreshGate
      BY <1>2, <1>3, Zenon
         DEF HandleState, ReaderState, CellSame, OwnersSame, HandleSame, ReaderSame
    <2>2. handle # NoHandle /\ ~closing
      BY <1>3, Zenon DEF ReadableWriter, OpenWriter
    <2>3. handle.seq \in Nat /\ handle.seq <= committed
      BY <1>1, <2>2, Numbers, Zenon DEF Ordered, OrderedHandle
    <2>4. CASE /\ op[t].at = "mark" /\ Return(t, handle.seq)
               /\ bookmark' = IF handle.seq > bookmark THEN handle.seq ELSE bookmark
      <3>1. /\ OnlyCall(t) /\ op'[t].at = "done" /\ op'[t].got = handle.seq
            /\ SameOrder(op'[t], op[t])
        BY <1>1, <2>3, <2>4, ReturnSets, Zenon
      <3>2. Kind(t) = "write" /\ handle.seq >= Want(t)
        BY <1>1, <2>2, <2>4, Zenon DEF Mine, Shape, CausalInv
      <3>3. bookmark' \in Nat /\ bookmark' <= committed
        BY <1>1, <2>3, <2>4, BookmarkGrows, Zenon
      <3> QED
        BY <1>2, <2>1, <3>1, <3>2, <3>3, AnswerKeeps, Zenon
    <2>5. CASE op[t].at = "sequence" /\ Goto(t, "snapshot") /\ bookmark' = bookmark
      <3>1. OnlyCall(t) /\ op'[t].at = "snapshot" /\ SameOrder(op'[t], op[t])
        BY <1>1, <2>5, GotoSets, StepNames, Zenon
      <3>2. Kind(t)' = "read"
        BY <1>1, <2>1, <2>5, Zenon DEF Mine, Shape, CellSame, Kind
      <3>3. Covered(t)'
        BY <2>1, <2>2, Zenon DEF Covered, HandleSame
      <3>4. Mine(t)'
        BY <3>1, <3>2, <3>3, MineReading, Zenon
      <3>5. op'[t].at \notin {"install", "drain", "pulled"} /\ refreshGate' \in [Stores -> Callers \cup {Free}]
        BY <1>1, <2>1, <3>1, Zenon DEF Typed
      <3> QED
        BY <1>2, <2>1, <2>5, <3>1, <3>4, <3>5, CallMoves, Zenon
    <2>6. CASE op[t].at = "sequence" /\ Continue(t, "open", "full") /\ bookmark' = bookmark
      <3>1. OnlyCall(t) /\ op'[t].at = "open" /\ op'[t].then = "full" /\ SameOrder(op'[t], op[t])
        BY <1>1, <2>6, ContinueSets, StepNames, Zenon
      <3>2. Kind(t)' = "read"
        BY <1>1, <2>1, <2>6, Zenon DEF Mine, Shape, CellSame, Kind
      <3>3. op'[t].at \in Fetching /\ ThenFits(t)' /\ ~Past(t)'
        BY <3>1, <3>2, Zenon DEF Fetching, ThenFits, Past
      <3>4. Mine(t)'
        BY <3>2, <3>3, MineFetching, Zenon
      <3>5. op'[t].at \notin {"install", "drain", "pulled"} /\ refreshGate' \in [Stores -> Callers \cup {Free}]
        BY <1>1, <2>1, <3>1, Zenon DEF Typed
      <3> QED
        BY <1>2, <2>1, <2>6, <3>1, <3>4, <3>5, CallMoves, Zenon
    <2>7. \/ /\ op[t].at = "mark" /\ Return(t, handle.seq)
             /\ bookmark' = IF handle.seq > bookmark THEN handle.seq ELSE bookmark
          \/ op[t].at = "sequence" /\ Goto(t, "snapshot") /\ bookmark' = bookmark
          \/ op[t].at = "sequence" /\ Continue(t, "open", "full") /\ bookmark' = bookmark
      BY <1>2, <1>3, Zenon DEF DurableSequence, ReadableWriter, FindsClosed
    <2> QED
      BY <2>4, <2>5, <2>6, <2>7, Zenon
  <1>4. CASE /\ FindsClosed(s) /\ ClearClosedWriter(s) /\ Continue(t, "open", op[t].at)
             /\ UNCHANGED <<committed, epoch, rival, closing, owners, openGate, attached, retiring,
                            reader, ackGen, refreshGate, bookmark>>
    <2>1. Clears(t)
      BY <1>2, <1>4, Zenon DEF Clears, FindsClosed, CellSame, OwnersSame
    <2> QED
      BY <1>2, <1>4, <2>1, FoundClosedKeeps, Zenon
  <1>5. CASE /\ ~OpenWriter(s)
             /\ op' = [op EXCEPT ![t].at = "open", ![t].then = op[t].at,
                                 ![t].stale = @ \/ Behind(s)]
             /\ UNCHANGED <<HandleState, ReaderState, bookmark>>
    <2>1. /\ CellSame /\ OwnersSame /\ HandleSame /\ ReaderSame /\ refreshGate' = refreshGate
          /\ bookmark' = bookmark
      BY <1>2, <1>5, Zenon
         DEF HandleState, ReaderState, CellSame, OwnersSame, HandleSame, ReaderSame
    <2>2. Turn(t, "open", op[t].at, Behind(s))
      BY <1>5, Zenon DEF Turn
    <2> QED
      BY <1>2, <1>5, <2>1, <2>2, TurnKeeps, Zenon
  <1> QED
    BY <1>3, <1>4, <1>5, Zenon DEF DurableSequence

\* GraphStore::snapshot (Snapshot) keeps the invariant.
LEMMA SnapshotKeeps ==
  ASSUME Inv, NEW t \in Callers, Snapshot(t)
  PROVE  Inv'
  <1> DEFINE s == StoreOf(t)
  <1>1. Typed /\ Ordered /\ OwnedInv /\ Mine(t)
    BY Zenon DEF Inv, FreshInv
  <1>2. /\ op[t].at = "snapshot" /\ setup' = setup /\ bookmark' = bookmark
        /\ op[t].at \in {"sequence", "snapshot", "mark"}
        /\ op[t].at \notin {"idle", "install", "drain"} /\ ~Closing(t)
    BY Zenon DEF Snapshot, Closing
  <1>3. CASE /\ ReadableWriter(s)
             /\ op' = [op EXCEPT ![t].at = "done", ![t].got = handle.seq,
                                 ![t].stale = @ \/ Behind(s)]
             /\ UNCHANGED <<HandleState, ReaderState>>
    <2>1. /\ CellSame /\ OwnersSame /\ HandleSame /\ ReaderSame /\ refreshGate' = refreshGate
      BY <1>2, <1>3, Zenon
         DEF HandleState, ReaderState, CellSame, OwnersSame, HandleSame, ReaderSame
    <2>2. handle # NoHandle /\ handle.seq \in Nat
      BY <1>1, <1>3, Numbers, Zenon DEF ReadableWriter, OpenWriter
    <2>3. Answer(t, "done", handle.seq, Behind(s))
      BY <1>3, Zenon DEF Answer
    <2>4. "done" \in Steps /\ Behind(s) \in BOOLEAN
      BY StepNames, Zenon DEF Behind
    <2>5. /\ OnlyCall(t) /\ op'[t].at = "done" /\ op'[t].got = handle.seq
          /\ op'[t].stale = (op[t].stale \/ Behind(s)) /\ SameOrder(op'[t], op[t])
      BY <1>1, <2>2, <2>3, <2>4, AnswerSets
    <2>6. Kind(t) = "read"
      BY <1>1, <1>2, Zenon DEF Mine, Shape
    <2>7. ~op'[t].stale => op'[t].got >= Want(t)
      BY <1>1, <2>2, <2>5, HandleKnows, Zenon
    <2>8. bookmark' \in Nat /\ bookmark' <= committed
      BY <1>1, <1>2, Zenon DEF Typed, Ordered, OrderedCell
    <2> QED
      BY <1>2, <2>1, <2>5, <2>6, <2>7, <2>8, AnswerKeeps, Zenon
  <1>4. CASE /\ FindsClosed(s) /\ ClearClosedWriter(s) /\ Continue(t, "open", "snapshot")
             /\ UNCHANGED <<committed, epoch, rival, closing, owners, openGate, attached, retiring,
                            reader, ackGen, refreshGate>>
    <2>1. Clears(t)
      BY <1>2, <1>4, Zenon DEF Clears, FindsClosed, CellSame, OwnersSame
    <2>2. Continue(t, "open", op[t].at)
      BY <1>2, <1>4, Zenon
    <2> QED
      BY <1>2, <2>1, <2>2, FoundClosedKeeps, Zenon
  <1>5. CASE /\ ~OpenWriter(s)
             /\ op' = [op EXCEPT ![t].at = "open", ![t].then = "snapshot",
                                 ![t].stale = @ \/ Behind(s)]
             /\ UNCHANGED <<HandleState, ReaderState>>
    <2>1. /\ CellSame /\ OwnersSame /\ HandleSame /\ ReaderSame /\ refreshGate' = refreshGate
      BY <1>2, <1>5, Zenon
         DEF HandleState, ReaderState, CellSame, OwnersSame, HandleSame, ReaderSame
    <2>2. Turn(t, "open", "snapshot", Behind(s))
      BY <1>5, Zenon DEF Turn
    <2>3. Turn(t, "open", op[t].at, Behind(s))
      BY <1>2, <2>2, Zenon
    <2> QED
      BY <1>2, <1>5, <2>1, <2>3, TurnKeeps, Zenon
  <1> QED
    BY <1>3, <1>4, <1>5, Zenon DEF Snapshot

-----------------------------------------------------------------------------
(* The refresh of a reader.                                                *)

\* A call that goes on fetching from the same reader, for the same use.
LEMMA FetchMoves ==
  ASSUME NEW t \in Callers, Mine(t), CellSame, ReaderSame, OnlyCall(t),
         op[t].at \in Fetching, op'[t].at \in Fetching \ {"pulled"}, op'[t].then = op[t].then,
         op'[t].stale = op[t].stale, op'[t].min = op[t].min, op'[t].floor = op[t].floor
  PROVE  Mine(t)'
  <1>1. /\ Kind(t)' = Kind(t) /\ (Caught(t)' <=> Caught(t))
        /\ op'[t].at # "pulled" /\ Asked(t) => Asked(t)'
    BY ViewWant, Zenon
  <1>2. ThenFits(t)' /\ (Past(t)' <=> Past(t))
    BY <1>1, Zenon DEF Mine, Shape, ThenFits, Past
  <1>3. op'[t].at # "pulled"
    BY Zenon
  <1>4. Kind(t)' = "strong" /\ op'[t].then = "snapshot" => Caught(t)'
    BY <1>1, Zenon DEF Mine, StrongInv
  <1>5. Kind(t)' \in {"read", "write"} /\ Past(t)' /\ ~op'[t].stale => Caught(t)' \/ Asked(t)'
    BY <1>1, <1>2, <1>3, Zenon DEF Mine, CausalInv
  <1>6. op'[t].at \in Fetching
    BY Zenon
  <1> QED
    BY <1>2, <1>3, <1>4, <1>5, <1>6, MineFetching, Zenon

\* A call whose reader needs no refresh uses it.
LEMMA FetchUses ==
  ASSUME NEW t \in Callers, Mine(t), CellSame, ReaderSame, OnlyCall(t),
         op[t].at \in Fetching, op'[t].at = "use", op'[t].then = op[t].then,
         op'[t].stale = op[t].stale, op'[t].min = op[t].min, op'[t].floor = op[t].floor,
         op[t].then # "full", lossGen[StoreOf(t)] = ackGen[StoreOf(t)]
  PROVE  Mine(t)'
  <1>1. /\ Kind(t)' = Kind(t) /\ (Caught(t)' <=> Caught(t))
    BY ViewWant, Zenon
  <1>2. ThenFits(t) /\ ThenFits(t)' /\ (Past(t)' <=> Past(t))
    BY <1>1, Zenon DEF Mine, Shape, ThenFits, Past
  <1>3. ~Asked(t)
    BY Zenon DEF Asked
  <1>4. Kind(t)' = "strong" => Caught(t)'
    BY <1>1, <1>2, Zenon DEF Mine, StrongInv, ThenFits
  <1>5. Kind(t)' \in {"read", "write"} /\ Past(t)' /\ ~op'[t].stale => Caught(t)'
    BY <1>1, <1>2, <1>3, Zenon DEF Mine, CausalInv
  <1> QED
    BY <1>2, <1>4, <1>5, MineUse, Zenon

\* Locking or releasing a reader_refresh_gate keeps its type.
LEMMA GateSets ==
  ASSUME Typed, NEW s \in Stores, NEW x \in Callers \cup {Free},
         refreshGate' = [refreshGate EXCEPT ![s] = x]
  PROVE  refreshGate' \in [Stores -> Callers \cup {Free}]
  BY Zenon DEF Typed

\* Taking the reader_refresh_gate (LockRefresh) keeps the invariant.
LEMMA LockRefreshKeeps ==
  ASSUME Inv, NEW t \in Callers, LockRefresh(t)
  PROVE  Inv'
  <1>1. Typed /\ Mine(t) /\ StoreOf(t) \in Stores
    BY SetupTyped, Zenon DEF Inv, FreshInv
  <1>2. /\ CellSame /\ OwnersSame /\ HandleSame /\ ReaderSame /\ bookmark' = bookmark
    BY Zenon DEF LockRefresh, HandleState, CellSame, OwnersSame, HandleSame, ReaderSame
  <1>3. refreshGate' \in [Stores -> Callers \cup {Free}]
    <2>1. refreshGate' = [refreshGate EXCEPT ![StoreOf(t)] = t]
      BY Zenon DEF LockRefresh
    <2> QED
      BY <1>1, <2>1, GateSets, Zenon
  <1>4. /\ OnlyCall(t) /\ op'[t].at = "loop" /\ op'[t].then = op[t].then
        /\ op'[t].stale = op[t].stale /\ SameOrder(op'[t], op[t])
    BY <1>1, GotoSets, StepNames, Zenon DEF LockRefresh
  <1>5. op[t].at = "lock"
    BY Zenon DEF LockRefresh
  <1>6. /\ op[t].at \in Fetching /\ op'[t].at \in Fetching \ {"pulled"} /\ ~Closing(t)
        /\ op[t].at \notin {"idle", "install", "drain"}
        /\ op'[t].at \notin {"install", "drain", "pulled"}
    BY <1>4, <1>5, Zenon DEF Fetching, Closing
  <1>7. Mine(t)'
    BY <1>1, <1>2, <1>4, <1>6, FetchMoves, Zenon DEF SameOrder
  <1> QED
    BY <1>2, <1>3, <1>4, <1>6, <1>7, CallMoves, Zenon

\* RefreshLoop: the generation is read before the manifest.
LEMMA RefreshLoopKeeps ==
  ASSUME Inv, NEW t \in Callers, RefreshLoop(t)
  PROVE  Inv'
  <1> DEFINE s == StoreOf(t)
  <1>1. Typed /\ Ordered /\ OwnedInv /\ Mine(t) /\ s \in Stores
    BY SetupTyped, Zenon DEF Inv, FreshInv
  <1>2. /\ CellSame /\ OwnersSame /\ HandleSame /\ ReaderSame /\ bookmark' = bookmark
        /\ op[t].at = "loop"
    BY Zenon DEF RefreshLoop, HandleState, CellSame, OwnersSame, HandleSame, ReaderSame
  <1>3. /\ op[t].at \in Fetching /\ ~Closing(t) /\ op[t].at \notin {"idle", "install", "drain"}
        /\ op[t].at \notin {"install", "drain"}
    BY <1>2, Zenon DEF Fetching, Closing
  <1>4. CASE /\ op[t].then # "full" /\ lossGen[s] = ackGen[s]
             /\ refreshGate' = [refreshGate EXCEPT ![s] = Free] /\ Goto(t, "use")
    <2>1. /\ OnlyCall(t) /\ op'[t].at = "use" /\ op'[t].then = op[t].then
          /\ op'[t].stale = op[t].stale /\ SameOrder(op'[t], op[t])
      BY <1>1, <1>4, GotoSets, StepNames, Zenon
    <2>2. refreshGate' \in [Stores -> Callers \cup {Free}]
      BY <1>1, <1>4, GateSets, Zenon
    <2>3. Mine(t)'
      BY <1>1, <1>2, <1>3, <1>4, <2>1, FetchUses, Zenon DEF SameOrder
    <2>4. op'[t].at \notin {"install", "drain", "pulled"}
      BY <2>1, Zenon
    <2> QED
      BY <1>2, <1>3, <2>1, <2>2, <2>3, <2>4, CallMoves, Zenon
  <1>5. CASE /\ op' = [op EXCEPT ![t].at = "pull", ![t].need = lossGen[s]]
             /\ refreshGate' = refreshGate
    <2>1. Needs(t, "pull", lossGen[s])
      BY <1>5, Zenon DEF Needs
    <2>2. "pull" \in Steps /\ lossGen[s] \in Nat
      BY <1>1, Numbers, StepNames, Zenon
    <2>3. /\ OnlyCall(t) /\ op'[t].at = "pull" /\ op'[t].then = op[t].then
          /\ op'[t].min = op[t].min /\ op'[t].floor = op[t].floor /\ op'[t].need = lossGen[s]
          /\ op'[t].stale = op[t].stale
      BY <1>1, <2>1, <2>2, NeedSets, Zenon
    <2>4. op'[t].at \in Fetching \ {"pulled"} /\ op'[t].at \notin {"install", "drain"} /\ op'[t].at # "pulled"
      BY <2>3, Zenon DEF Fetching
    <2>5. Mine(t)'
      BY <1>1, <1>2, <1>3, <2>3, <2>4, FetchMoves, Zenon
    <2>6. op'[t].need <= lossGen[s]
      BY <2>2, <2>3
    <2>7. /\ op'[t].min <= committed /\ op'[t].floor <= committed /\ s \in attached \cup retiring
          /\ bookmark' \in Nat /\ bookmark' <= committed
          /\ refreshGate' \in [Stores -> Callers \cup {Free}]
      BY <1>1, <1>2, <1>3, <1>5, <2>3, Zenon DEF Ordered, OrderedCalls, OrderedCell, OwnedInv, Typed
    <2> QED
      BY <1>2, <1>3, <2>3, <2>4, <2>5, <2>6, <2>7, CallOnly, Zenon
  <1> QED
    BY <1>4, <1>5, Zenon DEF RefreshLoop

\* ReadManifest: what is durable now.
LEMMA ReadManifestKeeps ==
  ASSUME Inv, NEW t \in Callers, ReadManifest(t)
  PROVE  Inv'
  <1> DEFINE s == StoreOf(t)
  <1>1. Typed /\ Ordered /\ OwnedInv /\ Mine(t) /\ s \in Stores
    BY SetupTyped, Zenon DEF Inv, FreshInv
  <1>2. /\ CellSame /\ OwnersSame /\ HandleSame /\ ReaderSame /\ bookmark' = bookmark
        /\ refreshGate' = refreshGate /\ op[t].at = "pull"
    BY Zenon DEF ReadManifest, HandleState, ReaderState, CellSame, OwnersSame, HandleSame, ReaderSame
  <1>3. /\ op[t].at \in Fetching /\ ~Closing(t) /\ op[t].at # "idle"
        /\ op[t].at \notin {"install", "drain"}
    BY <1>2, Zenon DEF Fetching, Closing
  <1>4. Gets(t, "pulled", committed)
    BY Zenon DEF ReadManifest, Gets
  <1>5. "pulled" \in Steps /\ committed \in Nat
    BY <1>1, StepNames, Zenon DEF Typed
  <1>6. /\ OnlyCall(t) /\ op'[t].at = "pulled" /\ op'[t].then = op[t].then
        /\ op'[t].got = committed /\ op'[t].stale = op[t].stale /\ SameOrder(op'[t], op[t])
    BY <1>1, <1>4, <1>5, GotSets, Zenon
  <1>7. /\ Kind(t)' = Kind(t) /\ StoreOf(t)' = s /\ Want(t)' = Want(t) /\ (Caught(t)' <=> Caught(t))
    BY <1>2, <1>6, ViewSame, Zenon
  <1>8. committed >= Want(t) /\ committed >= committed
    <2>1. Want(t) \in Nat /\ Want(t) <= committed
      BY <1>1, Numbers, WantDurable, Zenon
    <2> QED
      BY <1>5, <2>1
  <1>9. Asked(t) => Asked(t)'
    <2>1. \A u \in Callers : StoreOf(u)' = StoreOf(u)
      BY <1>2, Zenon DEF CellSame, StoreOf
    <2> QED
      BY <1>2, <1>6, <1>7, <1>8, <2>1, Zenon DEF Asked, ReaderSame, OnlyCall
  <1>10. Mine(t)'
    <2>1. ThenFits(t)' /\ (Past(t)' <=> Past(t)) /\ op'[t].at \in Fetching
      BY <1>1, <1>3, <1>6, <1>7, Zenon DEF Mine, Shape, ThenFits, Past, Fetching
    <2>2. Kind(t)' = "strong" => /\ op'[t].at = "pulled" => op'[t].got >= Want(t)'
                                 /\ op'[t].then = "snapshot" => Caught(t)'
      BY <1>1, <1>3, <1>6, <1>7, <1>8, Zenon DEF Mine, StrongInv
    <2>3. Kind(t)' \in {"read", "write"} /\ Past(t)' /\ ~op'[t].stale => Caught(t)' \/ Asked(t)'
      BY <1>1, <1>3, <1>6, <1>7, <1>9, <2>1, Zenon DEF Mine, CausalInv
    <2> QED
      BY <2>1, <2>2, <2>3, MineFetching, Zenon
  <1>11. /\ op'[t].min <= committed /\ op'[t].floor <= committed /\ op'[t].need <= lossGen[s]
         /\ s \in attached \cup retiring /\ bookmark' \in Nat /\ bookmark' <= committed
         /\ refreshGate' \in [Stores -> Callers \cup {Free}]
    BY <1>1, <1>2, <1>3, <1>6, Zenon
       DEF Ordered, OrderedCalls, OrderedCell, OwnedInv, Typed, SameOrder
  <1>12. op'[t].at \notin {"install", "drain"} /\ op'[t].got = committed
    BY <1>6, Zenon
  <1> QED
    BY <1>2, <1>3, <1>6, <1>10, <1>11, <1>12, CallOnly, Zenon

\* A DbReader::refresh that fails (RefreshFails) keeps the invariant.
LEMMA RefreshFailsKeeps ==
  ASSUME Inv, NEW t \in Callers, RefreshFails(t)
  PROVE  Inv'
  <1>1. Typed /\ StoreOf(t) \in Stores
    BY SetupTyped, Zenon DEF Inv
  <1>2. /\ CellSame /\ OwnersSame /\ HandleSame /\ ReaderSame /\ bookmark' = bookmark /\ Fail(t)
    BY Zenon DEF RefreshFails, HandleState, CellSame, OwnersSame, HandleSame, ReaderSame
  <1>3. refreshGate' \in [Stores -> Callers \cup {Free}]
    <2>1. refreshGate' = [refreshGate EXCEPT ![StoreOf(t)] = Free]
      BY Zenon DEF RefreshFails
    <2> QED
      BY <1>1, <2>1, GateSets, Zenon
  <1>4. op[t].at \notin {"idle", "install", "drain"} /\ ~Closing(t)
    BY Zenon DEF RefreshFails, Closing
  <1> QED
    BY <1>2, <1>3, <1>4, FailOnly, Zenon

\* UseReader: a reader that has what the call wants answers, or sends it on.
LEMMA UseReaderKeeps ==
  ASSUME Inv, NEW t \in Callers, UseReader(t)
  PROVE  Inv'
  <1> DEFINE s == StoreOf(t)
             then == op[t].then
             n == reader[s].seq
  <1>1. Typed /\ Ordered /\ OwnedInv /\ Mine(t) /\ s \in Stores /\ n \in Nat
    BY SetupTyped, Numbers, Zenon DEF Inv, FreshInv
  <1>2. /\ CellSame /\ OwnersSame /\ HandleSame /\ ReaderSame /\ refreshGate' = refreshGate
        /\ op[t].at = "use"
    BY Zenon DEF UseReader, HandleState, ReaderState, CellSame, OwnersSame, HandleSame, ReaderSame
  <1>3. /\ ~Closing(t) /\ op[t].at \notin {"idle", "install", "drain"}
        /\ refreshGate' \in [Stores -> Callers \cup {Free}]
    BY <1>1, <1>2, Zenon DEF Closing, Typed
  <1>4. ThenFits(t)
    BY <1>1, <1>2, Zenon DEF Mine, Shape
  <1>5. /\ Kind(t) = "strong" => Caught(t)
        /\ Kind(t) \in {"read", "write"} /\ Past(t) /\ ~op[t].stale => Caught(t)
    BY <1>1, <1>2, Zenon DEF Mine, StrongInv, CausalInv
  <1>6. Kind(t)' = Kind(t)
    BY <1>2, Zenon DEF CellSame, Kind
  <1>7. CASE ~reader[s].open /\ Fail(t) /\ bookmark' = bookmark
    BY <1>2, <1>3, <1>7, FailOnly, Zenon
  <1>8. CASE /\ reader[s].open /\ then = "mark" /\ Return(t, n)
             /\ bookmark' = IF n > bookmark THEN n ELSE bookmark
    <2>1. /\ OnlyCall(t) /\ op'[t].at = "done" /\ op'[t].got = n
          /\ op'[t].stale = op[t].stale /\ SameOrder(op'[t], op[t])
      BY <1>1, <1>8, ReturnSets, Zenon
    <2>2. Kind(t) = "write" /\ Past(t)
      BY <1>4, <1>8, Zenon DEF ThenFits, Past
    <2>3. ~op'[t].stale => op'[t].got >= Want(t)
      BY <1>5, <1>8, <2>1, <2>2, Zenon DEF Caught
    <2>4. bookmark' \in Nat /\ bookmark' <= committed
      <3>1. n <= committed
        BY <1>1, Zenon DEF Ordered, OrderedStores
      <3> QED
        BY <1>1, <1>8, <3>1, BookmarkGrows, Zenon
    <2> QED
      BY <1>2, <1>3, <2>1, <2>2, <2>3, <2>4, AnswerKeeps, Zenon
  <1>9. CASE reader[s].open /\ then = "snapshot" /\ Return(t, n) /\ bookmark' = bookmark
    <2>1. /\ OnlyCall(t) /\ op'[t].at = "done" /\ op'[t].got = n
          /\ op'[t].stale = op[t].stale /\ SameOrder(op'[t], op[t])
      BY <1>1, <1>9, ReturnSets, Zenon
    <2>2. /\ Kind(t) = "strong" => op'[t].got >= Want(t)
          /\ Kind(t) \in {"read", "write"} /\ ~op'[t].stale => op'[t].got >= Want(t)
      BY <1>5, <1>9, <2>1, Zenon DEF Caught, Past
    <2>3. bookmark' \in Nat /\ bookmark' <= committed
      BY <1>1, <1>9, Zenon DEF Typed, Ordered, OrderedCell
    <2> QED
      BY <1>2, <1>3, <2>1, <2>2, <2>3, AnswerKeeps, Zenon
  <1>10. CASE /\ then \notin {"mark", "snapshot"} /\ Continue(t, "open", "full")
              /\ bookmark' = bookmark
    <2>1. OnlyCall(t) /\ op'[t].at = "open" /\ op'[t].then = "full" /\ SameOrder(op'[t], op[t])
      BY <1>1, <1>10, ContinueSets, StepNames, Zenon
    <2>2. op'[t].at \in Fetching /\ ThenFits(t)' /\ ~Past(t)'
      BY <1>4, <1>6, <1>10, <2>1, Zenon DEF Fetching, ThenFits, Past
    <2>3. Mine(t)' /\ op'[t].at \notin {"install", "drain", "pulled"}
      BY <2>1, <2>2, MineFetching, Zenon
    <2> QED
      BY <1>2, <1>3, <1>10, <2>1, <2>3, CallMoves, Zenon
  <1>11. CASE Kind(t) = "strong" /\ Continue(t, "open", "snapshot") /\ bookmark' = bookmark
    <2>1. OnlyCall(t) /\ op'[t].at = "open" /\ op'[t].then = "snapshot" /\ SameOrder(op'[t], op[t])
      BY <1>1, <1>11, ContinueSets, StepNames, Zenon
    <2>2. op'[t].at \in Fetching /\ ThenFits(t)'
      BY <1>6, <1>11, <2>1, Zenon DEF Fetching, ThenFits
    <2>3. Caught(t)'
      BY <1>2, <1>5, <1>11, <2>1, ViewSame, Zenon
    <2>4. Mine(t)' /\ op'[t].at \notin {"install", "drain", "pulled"}
      BY <1>6, <1>11, <2>1, <2>2, <2>3, MineFetching, Zenon
    <2> QED
      BY <1>2, <1>3, <1>11, <2>1, <2>4, CallMoves, Zenon
  <1>12. CASE /\ then \notin {"mark", "snapshot"} /\ Kind(t) # "strong" /\ ~(n < op[t].min)
              /\ Goto(t, "snapshot") /\ bookmark' = bookmark
    <2>1. OnlyCall(t) /\ op'[t].at = "snapshot" /\ SameOrder(op'[t], op[t])
      BY <1>1, <1>12, GotoSets, StepNames, Zenon
    <2>2. Kind(t) = "read"
      BY <1>4, <1>12, Zenon DEF ThenFits
    <2>3. n >= op[t].min
      <3>1. op[t].min \in Nat
        BY <1>1, Numbers, Zenon
      <3> HIDE DEF n
      <3> QED
        BY <1>1, <1>12, <3>1
    <2>4. Caught(t)'
      <3>1. Caught(t)
        BY <2>2, <2>3, Zenon DEF Caught, Want
      <3> QED
        BY <1>2, <2>1, <3>1, ViewSame, Zenon
    <2>5. Mine(t)' /\ op'[t].at \notin {"install", "drain", "pulled"}
      BY <1>6, <2>1, <2>2, <2>4, MineReading, Zenon DEF Covered
    <2> QED
      BY <1>2, <1>3, <1>12, <2>1, <2>5, CallMoves, Zenon
  <1>13. \/ ~reader[s].open /\ Fail(t) /\ bookmark' = bookmark
         \/ /\ reader[s].open /\ then = "mark" /\ Return(t, n)
            /\ bookmark' = IF n > bookmark THEN n ELSE bookmark
         \/ reader[s].open /\ then = "snapshot" /\ Return(t, n) /\ bookmark' = bookmark
         \/ then \notin {"mark", "snapshot"} /\ Continue(t, "open", "full") /\ bookmark' = bookmark
         \/ Kind(t) = "strong" /\ Continue(t, "open", "snapshot") /\ bookmark' = bookmark
         \/ /\ then \notin {"mark", "snapshot"} /\ Kind(t) # "strong" /\ ~(n < op[t].min)
            /\ Goto(t, "snapshot") /\ bookmark' = bookmark
    BY Zenon DEF UseReader
  <1> QED
    BY <1>7, <1>8, <1>9, <1>10, <1>11, <1>12, <1>13, Zenon

-----------------------------------------------------------------------------
(* Readers that are opened or catch up.                                    *)

\* The reader of s becomes r, which has all that is durable, or no less than before.
ReaderBecomes(s, r) ==
    /\ reader' = [reader EXCEPT ![s] = r] /\ r \in ReaderStates /\ r.open
    /\ s \notin retiring /\ epoch # 0 /\ r.seq <= committed
    /\ (reader[s].open /\ r.seq >= reader[s].seq) \/ r.seq >= committed

\* A step that replaces the reader of store s: what it does to the other state.
LEMMA ReaderMoves ==
  ASSUME Inv, NEW s \in Stores, NEW r, ReaderBecomes(s, r), CellSame, OwnersSame, HandleSame,
         bookmark' = bookmark
  PROVE  /\ reader' \in [Stores -> ReaderStates] /\ reader'[s] = r
         /\ \A x \in Stores \ {s} : reader'[x] = reader[x]
         /\ \A x \in Stores : ReaderGrows(x) /\ reader'[x].seq <= committed
         /\ \A x \in retiring : ~reader'[x].open
         /\ OrderedCell' /\ OrderedHandle'
  <1>1. Typed /\ Ordered /\ OwnedInv
    BY Zenon DEF Inv
  <1>2. /\ reader' \in [Stores -> ReaderStates] /\ reader'[s] = r
        /\ \A x \in Stores \ {s} : reader'[x] = reader[x]
    BY <1>1, Zenon DEF ReaderBecomes, Typed
  <1>3. \A x \in Stores : ReaderGrows(x)
    <2> SUFFICES ASSUME NEW x \in Stores PROVE ReaderGrows(x)
      BY Zenon
    <2>1. CASE x = s
      BY <1>2, <2>1, Zenon DEF ReaderBecomes, ReaderGrows
    <2>2. CASE x # s
      BY <1>1, <1>2, <2>2, ReaderStays, Zenon
    <2> QED
      BY <2>1, <2>2, Zenon
  <1>4. \A x \in Stores : reader'[x].seq <= committed
    BY <1>1, <1>2, Zenon DEF ReaderBecomes, Ordered, OrderedStores
  <1>5. \A x \in retiring : ~reader'[x].open
    <2>1. retiring \subseteq Stores /\ s \notin retiring /\ \A x \in retiring : ~reader[x].open
      BY <1>1, Zenon DEF Typed, ReaderBecomes, OwnedInv
    <2> QED
      BY <1>2, <2>1, Zenon
  <1>6. OrderedCell'
    BY <1>1, Zenon DEF Ordered, OrderedCell, CellSame, ReaderBecomes
  <1>7. OrderedHandle'
    BY <1>1, Zenon DEF Ordered, OrderedHandle, CellSame, HandleSame
  <1> QED
    BY <1>2, <1>3, <1>4, <1>5, <1>6, <1>7, Zenon

\* A call that opens its reader, which then has all that is durable.
LEMMA OpensKeeps ==
  ASSUME Inv, NEW t \in Callers, CellSame, OwnersSame, HandleSame, lossGen' = lossGen,
         ackGen' = ackGen, unasked' = unasked, refreshGate' = refreshGate, bookmark' = bookmark,
         ReaderBecomes(StoreOf(t), [open |-> TRUE, seq |-> committed]),
         op[t].at = "open", NEW step \in {"use", "lock"}, Goto(t, step)
  PROVE  Inv'
  <1> DEFINE s == StoreOf(t)
             r == [open |-> TRUE, seq |-> committed]
  <1>1. Typed /\ Ordered /\ OwnedInv /\ Mine(t) /\ s \in Stores
    BY SetupTyped, Zenon DEF Inv, FreshInv
  <1>2. /\ reader' \in [Stores -> ReaderStates] /\ reader'[s] = r
        /\ \A x \in Stores : ReaderGrows(x) /\ reader'[x].seq <= committed
        /\ \A x \in retiring : ~reader'[x].open
        /\ OrderedCell' /\ OrderedHandle'
    BY <1>1, ReaderMoves, Zenon
  <1>3. r.seq = committed
    BY Zenon
  <1>4. /\ OnlyCall(t) /\ op'[t].at = step /\ op'[t].then = op[t].then
        /\ op'[t].stale = op[t].stale /\ SameOrder(op'[t], op[t])
    <2>1. step \in Steps
      BY StepNames, Zenon
    <2> QED
      BY <1>1, <2>1, GotoSets, Zenon
  <1> HIDE DEF r
  <1>5. Typed'
    BY <1>1, <1>2, <1>4, Zenon DEF Typed, CellSame, OwnersSame, HandleSame, OnlyCall
  <1>6. /\ Kind(t)' = Kind(t) /\ StoreOf(t)' = s /\ Want(t)' = Want(t) /\ setup' = setup
    BY <1>4, Zenon DEF CellSame, Kind, StoreOf, Want, SameOrder
  <1>7. Caught(t)'
    <2>1. Want(t) \in Nat /\ committed \in Nat /\ Want(t) <= committed
      BY <1>1, Numbers, WantDurable, Zenon
    <2>2. committed >= Want(t)
      BY <2>1
    <2> QED
      BY <1>2, <1>3, <1>6, <2>2, Zenon DEF Caught
  <1>8. Mine(t)'
    <2>1. op[t].at \in Fetching /\ (op'[t].at = "use" \/ op'[t].at \in Fetching \ {"pulled"})
      BY <1>4, Zenon DEF Fetching
    <2>2. ThenFits(t)'
      BY <1>1, <1>4, <1>6, <2>1, Zenon DEF Mine, Shape, ThenFits
    <2>3. CASE op'[t].at = "use"
      BY <1>7, <2>2, <2>3, MineUse, Zenon
    <2>4. CASE op'[t].at \in Fetching \ {"pulled"}
      <3>1. op'[t].at \in Fetching /\ op'[t].at # "pulled"
        BY <2>4, Zenon
      <3> QED
        BY <1>7, <2>2, <3>1, MineFetching, Zenon
    <2> QED
      BY <2>1, <2>3, <2>4, Zenon
  <1>9. op'[t].at \notin {"install", "drain", "pulled"} /\ op[t].at \notin {"install", "drain", "idle"}
    BY <1>4, Zenon
  <1>10. World({t})
    <2>1. \A x \in Stores : GenStep(x)
      BY GenStays, Zenon
    <2>2. \A x \in Stores : CoverStep(x)
      BY CoverStays, Zenon DEF OwnersSame, HandleSame
    <2>3. HandleStep
      BY <1>1, HandleStays, Zenon DEF HandleSame
    <2>4. op'[t].at # "pulled"
      BY <1>9, Zenon
    <2> QED
      BY <1>2, <1>4, <1>6, <2>1, <2>2, <2>3, <2>4, Zenon DEF World, OnlyCall
  <1>11. OwnedInv'
    <2>1. s \in attached \cup retiring /\ ~Closing(t)
      BY <1>1, <1>9, Zenon DEF OwnedInv, Closing
    <2>2. GateKept(t)
      BY <1>1, <1>9, Zenon DEF GateKept, OwnedInv, HandleSame
    <2>3. CloserKept(t)
      BY <1>9, <2>1, Zenon DEF CloserKept, HandleSame
    <2> QED
      BY <1>1, <1>2, <1>4, <1>6, <2>1, <2>2, <2>3, OwnedKeeps, Zenon
  <1>12. Ordered'
    <2>1. OrderedStores'
      BY <1>1, <1>2, Zenon DEF Ordered, OrderedStores, CellSame
    <2>2. OrderedCalls'
      <3>1. \A u \in Callers : /\ op'[u].min = op[u].min /\ op'[u].floor = op[u].floor
                               /\ op'[u].need = op[u].need /\ StoreOf(u)' = StoreOf(u)
                               /\ op'[u].at = "pulled" => op[u].at = "pulled" /\ op'[u].got = op[u].got
        BY <1>4, <1>6, <1>9, Zenon DEF SameOrder, OnlyCall, StoreOf
      <3> QED
        BY <1>1, <3>1, Zenon DEF Ordered, OrderedCalls, CellSame
    <2> QED
      BY <1>2, <2>1, <2>2, Zenon DEF Ordered
  <1> QED
    BY <1>5, <1>8, <1>10, <1>11, <1>12, StepKeeps, Zenon

\* open_reader and the comparison of generations (OpenReader) keep the invariant.
LEMMA OpenReaderKeeps ==
  ASSUME Inv, NEW t \in Callers, OpenReader(t)
  PROVE  Inv'
  <1> DEFINE s == StoreOf(t)
             full == op[t].then = "full"
             step == IF ~full /\ lossGen[s] = ackGen[s] THEN "use" ELSE "lock"
  <1>1. Typed /\ Ordered /\ OwnedInv /\ Mine(t) /\ s \in Stores
    BY SetupTyped, Zenon DEF Inv, FreshInv
  <1>2. /\ CellSame /\ OwnersSame /\ HandleSame /\ refreshGate' = refreshGate /\ bookmark' = bookmark
        /\ op[t].at = "open" /\ lossGen' = lossGen /\ ackGen' = ackGen /\ unasked' = unasked
    BY Zenon DEF OpenReader, HandleState, CellSame, OwnersSame, HandleSame
  <1>3. /\ ~Closing(t) /\ op[t].at \notin {"idle", "install", "drain"}
        /\ refreshGate' \in [Stores -> Callers \cup {Free}] /\ op[t].at \in Fetching
    BY <1>1, <1>2, Zenon DEF Closing, Typed, Fetching
  <1>4. ThenFits(t) /\ Kind(t)' = Kind(t)
    BY <1>1, <1>2, <1>3, Zenon DEF Mine, Shape, CellSame, Kind
  <1>5. reader' = reader => ReaderSame
    BY <1>2, Zenon DEF ReaderSame
  <1>6. CASE Fail(t) /\ reader' = reader
    BY <1>2, <1>3, <1>5, <1>6, FailOnly, Zenon
  <1>7. CASE epoch = 0 /\ full /\ Continue(t, "open", "snapshot") /\ reader' = reader
    <2>1. OnlyCall(t) /\ op'[t].at = "open" /\ op'[t].then = "snapshot" /\ SameOrder(op'[t], op[t])
      BY <1>1, <1>7, ContinueSets, StepNames, Zenon
    <2>2. op'[t].at \in Fetching /\ ThenFits(t)'
      BY <1>4, <1>7, <2>1, Zenon DEF Fetching, ThenFits
    <2>3. Caught(t)
      BY <1>1, <1>7, Zenon DEF Caught, Ordered, OrderedCell
    <2>4. Caught(t)'
      BY <1>2, <1>5, <1>7, <2>1, <2>3, ViewSame, Zenon
    <2>5. Mine(t)' /\ op'[t].at \notin {"install", "drain", "pulled"}
      BY <2>1, <2>2, <2>4, MineFetching, Zenon
    <2> QED
      BY <1>2, <1>3, <1>5, <1>7, <2>1, <2>5, CallMoves, Zenon
  <1>8. CASE epoch = 0 /\ Return(t, 0) /\ reader' = reader
    <2>1. /\ 0 \in Nat /\ committed = 0 /\ Want(t) \in Nat /\ Want(t) <= committed
      BY <1>1, <1>8, Numbers, WantDurable DEF Ordered, OrderedCell
    <2>2. 0 >= Want(t)
      BY <2>1
    <2>3. OnlyCall(t) /\ op'[t].at = "done" /\ op'[t].got = 0 /\ SameOrder(op'[t], op[t])
      BY <1>1, <1>8, <2>1, ReturnSets, Zenon
    <2>4. bookmark' \in Nat /\ bookmark' <= committed
      BY <1>1, <1>2, Zenon DEF Typed, Ordered, OrderedCell
    <2> QED
      BY <1>2, <1>3, <1>5, <1>8, <2>2, <2>3, <2>4, AnswerKeeps, Zenon
  <1>9. CASE reader' = reader /\ Goto(t, step)
    <2>1. step \in Steps /\ step \in {"use", "lock"} /\ (step = "use" => ~full /\ lossGen[s] = ackGen[s])
      BY StepNames, Zenon
    <2> HIDE DEF step
    <2>2. /\ OnlyCall(t) /\ op'[t].at = step /\ op'[t].then = op[t].then
          /\ op'[t].stale = op[t].stale /\ SameOrder(op'[t], op[t])
      BY <1>1, <1>9, <2>1, GotoSets, Zenon
    <2>3. Mine(t)'
      <3>1. CASE step = "use"
        BY <1>1, <1>2, <1>3, <1>5, <1>9, <2>1, <2>2, <3>1, FetchUses, Zenon DEF SameOrder
      <3>2. CASE step = "lock"
        <4>1. op'[t].at \in Fetching \ {"pulled"}
          BY <2>2, <3>2, Zenon DEF Fetching
        <4> QED
          BY <1>1, <1>2, <1>3, <1>5, <1>9, <2>2, <4>1, FetchMoves, Zenon DEF SameOrder
      <3> QED
        BY <2>1, <3>1, <3>2, Zenon
    <2>4. op'[t].at \notin {"install", "drain", "pulled"}
      BY <2>1, <2>2, Zenon
    <2> QED
      BY <1>2, <1>3, <1>5, <1>9, <2>2, <2>3, <2>4, CallMoves, Zenon
  <1>10. CASE /\ s \notin retiring /\ epoch # 0
              /\ reader' = [reader EXCEPT ![s] = [open |-> TRUE, seq |-> committed]] /\ Goto(t, step)
    <2> DEFINE r == [open |-> TRUE, seq |-> committed]
    <2>1. committed \in Nat
      BY <1>1, Zenon DEF Typed
    <2>2. r \in ReaderStates /\ r.open = TRUE /\ r.seq = committed
      BY <2>1, Zenon DEF ReaderStates
    <2>3. committed >= committed /\ committed <= committed
      BY <2>1
    <2>4. reader' = [reader EXCEPT ![s] = r]
      BY <1>10, Zenon
    <2>5. ReaderBecomes(s, r)
      <3> HIDE DEF r
      <3> QED
        BY <1>10, <2>2, <2>3, <2>4, Zenon DEF ReaderBecomes
    <2>6. step \in {"use", "lock"}
      BY Zenon
    <2> HIDE DEF step
    <2> QED
      BY <1>2, <1>10, <2>5, <2>6, OpensKeeps, Zenon
  <1>11. \/ Fail(t) /\ reader' = reader
         \/ epoch = 0 /\ full /\ Continue(t, "open", "snapshot") /\ reader' = reader
         \/ epoch = 0 /\ Return(t, 0) /\ reader' = reader
         \/ reader' = reader /\ Goto(t, step)
         \/ /\ s \notin retiring /\ epoch # 0
            /\ reader' = [reader EXCEPT ![s] = [open |-> TRUE, seq |-> committed]] /\ Goto(t, step)
    <2> HIDE DEF step
    <2>1. \/ s \in retiring /\ Fail(t) /\ reader' = reader
          \/ s \notin retiring /\ epoch = 0 /\ full /\ Continue(t, "open", "snapshot") /\ reader' = reader
          \/ s \notin retiring /\ epoch = 0 /\ ~full /\ Return(t, 0) /\ reader' = reader
          \/ /\ s \notin retiring /\ epoch # 0 /\ Goto(t, step)
             /\ reader' = IF reader[s].open THEN reader
                          ELSE [reader EXCEPT ![s] = [open |-> TRUE, seq |-> committed]]
      BY Zenon DEF OpenReader, step
    <2> QED
      BY <2>1, Zenon
  <1> QED
    BY <1>6, <1>7, <1>8, <1>9, <1>10, <1>11, Zenon

\* Refreshed: the reader has what the refresh read, which acknowledges the
\* generation that was read before it.
LEMMA RefreshedKeeps ==
  ASSUME Inv, NEW t \in Callers, Refreshed(t)
  PROVE  Inv'
  <1> DEFINE s == StoreOf(t)
             got == op[t].got
             old == reader[s]
             n == old.seq
             m == IF got > n THEN got ELSE n
             r == [old EXCEPT !.seq = m]
             step == IF op[t].then = "full" /\ lossGen[s] = op[t].need THEN "use" ELSE "loop"
  <1>1. /\ Typed /\ Ordered /\ OwnedInv /\ Mine(t) /\ s \in Stores /\ n \in Nat /\ got \in Nat
        /\ committed \in Nat /\ op[t].need \in Nat /\ old \in ReaderStates
    BY SetupTyped, Numbers, Zenon DEF Inv, FreshInv
  <1>2. /\ CellSame /\ OwnersSame /\ HandleSame /\ bookmark' = bookmark /\ lossGen' = lossGen
        /\ op[t].at = "pulled" /\ old.open
        /\ unasked' = (IF got = committed THEN unasked \ {s} ELSE unasked)
        /\ ackGen' = [ackGen EXCEPT ![s] = op[t].need]
    BY Zenon DEF Refreshed, HandleState, CellSame, OwnersSame, HandleSame, Acknowledged
  <1>3. reader' = [reader EXCEPT ![s] = r]
    BY Zenon DEF Refreshed
  <1>4. /\ Goto(t, step) /\ step \in {"use", "loop"} /\ step \in Steps
        /\ step = "use" => op[t].then = "full"
        /\ refreshGate' \in [Stores -> Callers \cup {Free}]
    <2>1. \/ /\ op[t].then = "full" /\ lossGen[s] = op[t].need /\ Goto(t, "use")
             /\ refreshGate' = [refreshGate EXCEPT ![s] = Free]
          \/ /\ ~(op[t].then = "full" /\ lossGen[s] = op[t].need) /\ Goto(t, "loop")
             /\ refreshGate' = refreshGate
      BY Zenon DEF Refreshed
    <2>2. refreshGate' \in [Stores -> Callers \cup {Free}]
      BY <1>1, <2>1, GateSets, Zenon DEF Typed
    <2>3. step \in {"use", "loop"} /\ step \in Steps /\ (step = "use" => op[t].then = "full")
      BY StepNames, Zenon
    <2>4. Goto(t, step)
      BY <2>1, Zenon
    <2> QED
      BY <2>2, <2>3, <2>4, Zenon
  <1> HIDE DEF step
  <1>5. got <= committed /\ n <= committed /\ op[t].need <= lossGen[s]
    BY <1>1, <1>2, Zenon DEF Ordered, OrderedStores, OrderedCalls
  <1>6. m \in Nat /\ m >= n /\ m >= got /\ m <= committed /\ (got = committed => m >= committed)
    <2> HIDE DEF n, got
    <2> QED
      BY <1>1, <1>5
  <1> HIDE DEF m
  <1>7. r \in ReaderStates /\ r.open = old.open /\ r.seq = m
    <2> HIDE DEF old
    <2> QED
      BY <1>1, <1>6, Zenon DEF ReaderStates
  <1> HIDE DEF r
  <1>8. ReaderBecomes(s, r)
    <2>1. s \notin retiring /\ epoch # 0
      BY <1>1, <1>2, Zenon DEF OwnedInv, Ordered, OrderedCell
    <2> QED
      BY <1>2, <1>3, <1>6, <1>7, <2>1, Zenon DEF ReaderBecomes
  <1>9. /\ reader' \in [Stores -> ReaderStates] /\ reader'[s] = r
        /\ \A x \in Stores : ReaderGrows(x) /\ reader'[x].seq <= committed
        /\ \A x \in retiring : ~reader'[x].open
        /\ OrderedCell' /\ OrderedHandle'
    BY <1>1, <1>2, <1>8, ReaderMoves, Zenon
  <1>10. /\ ackGen' \in [Stores -> Nat] /\ ackGen'[s] = op[t].need
         /\ \A x \in Stores \ {s} : ackGen'[x] = ackGen[x]
    BY <1>1, <1>2, Zenon DEF Typed
  <1>11. /\ OnlyCall(t) /\ op'[t].at = step /\ op'[t].then = op[t].then
         /\ op'[t].stale = op[t].stale /\ SameOrder(op'[t], op[t])
    BY <1>1, <1>4, GotoSets, Zenon
  <1>12. op'[t].at \notin {"install", "drain", "pulled"} /\ op[t].at \notin {"install", "drain", "idle"}
    BY <1>2, <1>4, <1>11, Zenon
  <1>13. Typed'
    <2>1. unasked' \subseteq Stores
      BY <1>1, <1>2, Zenon DEF Typed
    <2> QED
      BY <1>1, <1>2, <1>4, <1>9, <1>10, <1>11, <2>1, Zenon
         DEF Typed, CellSame, OwnersSame, HandleSame, OnlyCall
  <1>14. /\ Kind(t)' = Kind(t) /\ (\A u \in Callers : StoreOf(u)' = StoreOf(u)) /\ Want(t)' = Want(t)
         /\ setup' = setup
    BY <1>2, <1>11, Zenon DEF CellSame, Kind, StoreOf, Want, SameOrder
  <1>15. Caught(t) => Caught(t)'
    <2> DEFINE w == Want(t)
    <2>1. w \in Nat
      BY <1>1, Numbers, Zenon
    <2>2. n >= w => m >= w
      <3> HIDE DEF n, w
      <3> QED
        BY <1>1, <1>6, <2>1
    <2> QED
      BY <1>2, <1>7, <1>9, <1>14, <2>2, Zenon DEF Caught
  <1>16. got >= Want(t) => Caught(t)'
    <2> DEFINE w == Want(t)
    <2>1. w \in Nat
      BY <1>1, Numbers, Zenon
    <2>2. got >= w => m >= w
      <3> HIDE DEF got, w
      <3> QED
        BY <1>1, <1>6, <2>1
    <2> QED
      BY <1>7, <1>9, <1>14, <2>2, Zenon DEF Caught
  <1>17. Asked(t) => Caught(t)' \/ Asked(t)'
    <2> SUFFICES ASSUME Asked(t) PROVE Caught(t)' \/ Asked(t)'
      BY Zenon
    <2>1. CASE op[t].need = lossGen[s]
      BY <1>2, <1>16, <2>1, Zenon DEF Asked
    <2>2. CASE op[t].need # lossGen[s]
      <3>1. lossGen'[s] # ackGen'[s]
        BY <1>2, <1>10, <2>2, Zenon
      <3>2. ASSUME NEW u \in Callers, StoreOf(u) = s, op'[u].at = "pulled", op'[u].need = lossGen'[s]
            PROVE  op'[u].got >= Want(t)
        <4>1. u # t
          BY <1>12, <3>2, Zenon
        <4>2. op'[u] = op[u]
          BY <1>11, <4>1, Zenon DEF OnlyCall
        <4> QED
          BY <1>2, <3>2, <4>2, Zenon DEF Asked
      <3> QED
        BY <1>14, <3>1, <3>2, Zenon DEF Asked
    <2> QED
      BY <2>1, <2>2, Zenon
  <1>18. Mine(t)'
    <2>1. op[t].at \in Fetching /\ (op'[t].at = "use" \/ (op'[t].at \in Fetching /\ op'[t].at # "pulled"))
      BY <1>2, <1>4, <1>11, Zenon DEF Fetching
    <2>2. ThenFits(t)' /\ (Past(t)' <=> Past(t))
      BY <1>1, <1>11, <1>14, <2>1, Zenon DEF Mine, Shape, ThenFits, Past
    <2>3. Kind(t) = "strong" => Caught(t)'
      BY <1>1, <1>2, <1>16, Zenon DEF Mine, StrongInv
    <2>4. CASE op'[t].at = "use"
      <3>1. ~Past(t)'
        BY <1>4, <1>11, <2>4, Zenon DEF Past
      <3> QED
        BY <1>14, <2>2, <2>3, <2>4, <3>1, MineUse, Zenon
    <2>5. CASE op'[t].at \in Fetching /\ op'[t].at # "pulled"
      <3>1. Kind(t)' \in {"read", "write"} /\ Past(t)' /\ ~op'[t].stale => Caught(t)' \/ Asked(t)'
        BY <1>1, <1>11, <1>14, <1>15, <1>17, <2>1, <2>2, Zenon DEF Mine, CausalInv
      <3> QED
        BY <1>14, <2>2, <2>3, <2>5, <3>1, MineFetching, Zenon
    <2> QED
      BY <2>1, <2>4, <2>5, Zenon
  <1>19. World({t})
    <2>1. \A x \in Stores : GenStep(x)
      <3>1. Acked(s)
        BY <1>2, <1>6, <1>7, <1>9, <1>10, Zenon DEF Acked
      <3> QED
        BY <1>2, <1>10, <3>1, Zenon DEF GenStep
    <2>2. \A x \in Stores : CoverStep(x)
      <3>1. s \in unasked => s \in unasked' \/ reader'[s].seq >= committed
        BY <1>2, <1>6, <1>7, <1>9, Zenon
      <3>2. \A x \in Stores \ {s} : x \in unasked => x \in unasked'
        BY <1>2, Zenon
      <3> QED
        BY <1>2, <3>1, <3>2, Zenon DEF CoverStep, OwnersSame, HandleSame
    <2>3. HandleStep
      BY <1>1, <1>2, HandleStays, Zenon DEF HandleSame
    <2>4. op'[t].at # "pulled"
      BY <1>12, Zenon
    <2> QED
      BY <1>9, <1>11, <1>14, <2>1, <2>2, <2>3, <2>4, Zenon DEF World, OnlyCall
  <1>20. OwnedInv'
    <2>1. s \in attached \cup retiring /\ ~Closing(t)
      BY <1>1, <1>2, <1>12, Zenon DEF OwnedInv, Closing
    <2>2. GateKept(t)
      BY <1>1, <1>2, <1>12, Zenon DEF GateKept, OwnedInv, HandleSame
    <2>3. CloserKept(t)
      BY <1>2, <1>12, <2>1, Zenon DEF CloserKept, HandleSame
    <2> QED
      BY <1>1, <1>2, <1>9, <1>11, <1>14, <2>1, <2>2, <2>3, OwnedKeeps, Zenon
  <1>21. Ordered'
    <2>1. OrderedStores'
      BY <1>1, <1>2, <1>5, <1>9, <1>10, Zenon DEF Ordered, OrderedStores, CellSame
    <2>2. OrderedCalls'
      <3>1. \A u \in Callers : /\ op'[u].min = op[u].min /\ op'[u].floor = op[u].floor
                               /\ op'[u].need = op[u].need /\ StoreOf(u)' = StoreOf(u)
                               /\ op'[u].at = "pulled" => op[u].at = "pulled" /\ op'[u].got = op[u].got
        BY <1>11, <1>12, <1>14, Zenon DEF SameOrder, OnlyCall
      <3> QED
        BY <1>1, <1>2, <3>1, Zenon DEF Ordered, OrderedCalls, CellSame
    <2> QED
      BY <1>9, <2>1, <2>2, Zenon DEF Ordered
  <1> QED
    BY <1>13, <1>18, <1>19, <1>20, <1>21, StepKeeps, Zenon

-----------------------------------------------------------------------------
(* Steps of no call.                                                       *)

\* A step that changes the world for no call keeps FreshInv with the rest.
LEMMA QuietKeeps ==
  ASSUME Inv, Typed', Ordered', OwnedInv', World({})
  PROVE  Inv'
  <1>1. \A u \in Callers : Mine(u)'
    <2> SUFFICES ASSUME NEW u \in Callers PROVE Mine(u)'
      BY Zenon
    <2> DEFINE none == {}
    <2>1. Typed /\ Ordered /\ OwnedInv /\ FreshInv /\ World(none) /\ u \notin none
      BY Zenon DEF Inv
    <2> HIDE DEF none
    <2> QED
      BY <2>1, WorldKeeps, Zenon
  <1> QED
    BY <1>1, Zenon DEF Inv, FreshInv

\* A step of no call keeps the order of every call's numbers.
LEMMA CallsStay ==
  ASSUME Typed, Typed', OrderedCalls, setup' = setup, op' = op, committed' >= committed,
         lossGen' = lossGen
  PROVE  OrderedCalls'
  <1> SUFFICES ASSUME NEW u \in Callers
               PROVE  /\ op'[u].min <= committed' /\ op'[u].floor <= committed'
                      /\ op'[u].need <= lossGen'[StoreOf(u)]
                      /\ op'[u].at = "pulled" => op'[u].got <= committed'
    BY Zenon DEF OrderedCalls, StoreOf
  <1> DEFINE a == op[u].min
             b == op[u].floor
             g == op[u].got
  <1>1. a \in Nat /\ b \in Nat /\ g \in Nat /\ committed \in Nat /\ committed' \in Nat
    BY Numbers, Zenon DEF Typed
  <1>2. /\ a <= committed /\ b <= committed /\ op[u].need <= lossGen[StoreOf(u)]
        /\ op[u].at = "pulled" => g <= committed
    BY Zenon DEF OrderedCalls
  <1> HIDE DEF a, b, g
  <1>3. a <= committed' /\ b <= committed' /\ (g <= committed => g <= committed')
    BY <1>1, <1>2
  <1> QED
    BY <1>2, <1>3, Zenon DEF a, b, g

\* A step of no call that keeps the owners keeps OwnedInv.
LEMMA OwnedStays ==
  ASSUME OwnedInv, setup' = setup, op' = op, OwnersSame, closing' = closing, openGate' = openGate,
         \A s \in retiring : ~reader'[s].open, handle' # NoHandle => handle # NoHandle
  PROVE  OwnedInv'
  <1>1. \A u \in Callers : Closing(u)' <=> Closing(u)
    BY Zenon DEF Closing, Kind
  <1> QED
    BY <1>1, Zenon DEF OwnedInv, OwnersSame, StoreOf

\* ReaderPolls: a reader that reads the manifest by itself has all that is durable.
LEMMA ReaderPollsKeeps ==
  ASSUME Inv, NEW s \in Stores, ReaderPolls(s)
  PROVE  Inv'
  <1> DEFINE old == reader[s]
             r == [old EXCEPT !.seq = committed]
  <1>1. /\ Typed /\ Ordered /\ OwnedInv /\ committed \in Nat /\ old \in ReaderStates
    BY Zenon DEF Inv, Typed
  <1>2. /\ CellSame /\ OwnersSame /\ HandleSame /\ bookmark' = bookmark /\ lossGen' = lossGen
        /\ old.open /\ unasked' = unasked \ {s} /\ ackGen' = ackGen /\ refreshGate' = refreshGate
        /\ op' = op
    BY Zenon DEF ReaderPolls, HandleState, CellSame, OwnersSame, HandleSame
  <1>3. reader' = [reader EXCEPT ![s] = r]
    BY Zenon DEF ReaderPolls
  <1>4. r \in ReaderStates /\ r.open = old.open /\ r.seq = committed
    <2> HIDE DEF old
    <2> QED
      BY <1>1, Zenon DEF ReaderStates
  <1>5. committed >= committed /\ committed <= committed
    BY <1>1
  <1> HIDE DEF r
  <1>6. ReaderBecomes(s, r)
    <2>1. s \notin retiring /\ epoch # 0
      BY <1>1, <1>2, Zenon DEF OwnedInv, Ordered, OrderedCell
    <2> QED
      BY <1>2, <1>3, <1>4, <1>5, <2>1, Zenon DEF ReaderBecomes
  <1>7. /\ reader' \in [Stores -> ReaderStates] /\ reader'[s] = r
        /\ \A x \in Stores : ReaderGrows(x) /\ reader'[x].seq <= committed
        /\ \A x \in retiring : ~reader'[x].open
        /\ OrderedCell' /\ OrderedHandle'
    BY <1>1, <1>2, <1>6, ReaderMoves, Zenon
  <1>8. Typed'
    <2>1. unasked' \subseteq Stores
      BY <1>1, <1>2, Zenon DEF Typed
    <2> QED
      BY <1>1, <1>2, <1>7, <2>1, Zenon DEF Typed, CellSame, OwnersSame, HandleSame
  <1>9. World({})
    <2>1. \A x \in Stores : GenStep(x)
      BY <1>2, GenStays, Zenon
    <2>2. \A x \in Stores : CoverStep(x)
      BY <1>2, <1>4, <1>5, <1>7, Zenon DEF CoverStep, OwnersSame, HandleSame
    <2>3. HandleStep
      BY <1>1, <1>2, HandleStays, Zenon DEF HandleSame
    <2> QED
      BY <1>2, <1>7, <2>1, <2>2, <2>3, Zenon DEF World, CellSame
  <1>10. OwnedInv'
    BY <1>1, <1>2, <1>7, OwnedStays, Zenon DEF CellSame, HandleSame
  <1>11. Ordered'
    <2>1. OrderedStores'
      BY <1>1, <1>2, <1>7, Zenon DEF Ordered, OrderedStores, CellSame
    <2>2. OrderedCalls'
      BY <1>1, <1>2, <1>5, <1>8, CallsStay, Zenon DEF Ordered, CellSame
    <2> QED
      BY <1>7, <2>1, <2>2, Zenon DEF Ordered
  <1> QED
    BY <1>8, <1>9, <1>10, <1>11, QuietKeeps, Zenon

\* The other node, and SlateDB's own poll, leave the stores and the calls alone.
LEMMA WorldOfNone ==
  ASSUME Typed, setup' = setup, op' = op, OwnersSame, ReaderSame, closing' = closing,
         handle # NoHandle => handle' # NoHandle, HandleStep
  PROVE  World({})
  <1>1. \A s \in Stores : ReaderGrows(s)
    BY ReaderStays, Zenon DEF ReaderSame
  <1>2. \A s \in Stores : GenStep(s)
    BY GenStays, Zenon DEF ReaderSame
  <1>3. \A s \in Stores : CoverStep(s)
    BY CoverStays, Zenon DEF ReaderSame, OwnersSame
  <1> QED
    BY <1>1, <1>2, <1>3, Zenon DEF World

\* The other node's open (RivalOpens) keeps the invariant.
LEMMA RivalOpensKeeps ==
  ASSUME Inv, RivalOpens
  PROVE  Inv'
  <1>1. /\ Typed /\ Ordered /\ OwnedInv /\ epoch \in Nat /\ MaxEpoch \in Nat /\ rival \in Nat
    BY StoreAssumption, Zenon DEF Inv, Typed
  <1>2. /\ setup' = setup /\ committed' = committed /\ handle' = handle /\ closing' = closing
        /\ OwnersSame /\ openGate' = openGate /\ ReaderSame /\ refreshGate' = refreshGate
        /\ op' = op /\ bookmark' = bookmark
        /\ epoch < MaxEpoch /\ epoch' = epoch + 1 /\ rival' = epoch + 1
    BY Zenon DEF RivalOpens, ReaderState, OwnersSame, ReaderSame
  <1>3. epoch' \in Nat /\ rival' \in Nat /\ epoch' <= MaxEpoch /\ rival' <= epoch' /\ epoch' # 0
    BY <1>1, <1>2
  <1>4. Typed'
    BY <1>1, <1>2, <1>3, Zenon DEF Typed, OwnersSame, ReaderSame
  <1>5. OrderedCell'
    BY <1>1, <1>2, <1>3, Zenon DEF Ordered, OrderedCell
  <1>6. OrderedHandle'
    <2> SUFFICES ASSUME handle # NoHandle PROVE OrderedHandle'
      BY <1>2, Zenon DEF OrderedHandle
    <2> DEFINE e == handle.epoch
    <2>1. e \in Nat /\ 1 <= e /\ e <= epoch /\ handle.seq <= committed
      BY <1>1, Zenon DEF Ordered, OrderedHandle, Typed, Handles
    <2>2. e <= epoch' /\ e # rival' /\ e # epoch'
      <3> HIDE DEF e
      <3> QED
        BY <1>1, <1>2, <2>1
    <2> QED
      BY <1>2, <2>1, <2>2, Zenon DEF OrderedHandle
  <1>7. OrderedStores' /\ OrderedCalls'
    BY <1>1, <1>2, Zenon DEF Ordered, OrderedStores, OrderedCalls, ReaderSame, StoreOf
  <1>8. World({})
    <2>1. HandleStep
      BY <1>1, <1>2, HandleStays, Zenon
    <2> QED
      BY <1>1, <1>2, <2>1, WorldOfNone, Zenon
  <1>9. OwnedInv'
    <2>1. \A s \in retiring : ~reader'[s].open
      BY <1>1, <1>2, Zenon DEF OwnedInv, ReaderSame
    <2> QED
      BY <1>1, <1>2, <2>1, OwnedStays, Zenon
  <1> QED
    BY <1>4, <1>5, <1>6, <1>7, <1>8, <1>9, QuietKeeps, Zenon DEF Ordered

\* RivalCommits: the rival's epoch is the newest, so no handle here has it.
LEMMA RivalCommitsKeeps ==
  ASSUME Inv, RivalCommits
  PROVE  Inv'
  <1>1. /\ Typed /\ Ordered /\ OwnedInv /\ committed \in Nat /\ MaxSeq \in Nat
    BY StoreAssumption, Zenon DEF Inv, Typed
  <1>2. /\ setup' = setup /\ epoch' = epoch /\ rival' = rival /\ handle' = handle
        /\ closing' = closing /\ OwnersSame /\ openGate' = openGate /\ ReaderSame
        /\ refreshGate' = refreshGate /\ op' = op
        /\ committed < MaxSeq /\ committed' = committed + 1 /\ bookmark' = committed + 1
        /\ rival = epoch /\ rival # 0
    BY Zenon DEF RivalCommits, ReaderState, OwnersSame, ReaderSame
  <1>3. /\ committed' \in Nat /\ bookmark' \in Nat /\ committed' <= MaxSeq /\ bookmark' <= committed'
        /\ committed' >= committed /\ \A n \in Nat : n <= committed => n <= committed'
    BY <1>1, <1>2
  <1>4. Typed'
    BY <1>1, <1>2, <1>3, Zenon DEF Typed, OwnersSame, ReaderSame
  <1>5. OrderedCell'
    BY <1>1, <1>2, <1>3, Zenon DEF Ordered, OrderedCell
  <1>6. OrderedHandle'
    <2>1. handle.seq \in Nat
      BY <1>1, Zenon DEF Typed, Handles
    <2> QED
      BY <1>1, <1>2, <1>3, <2>1, Zenon DEF Ordered, OrderedHandle
  <1>7. OrderedStores'
    <2>1. \A s \in Stores : reader[s].seq \in Nat
      BY <1>1, Zenon DEF Typed, ReaderStates
    <2> QED
      BY <1>1, <1>2, <1>3, <2>1, Zenon DEF Ordered, OrderedStores, ReaderSame
  <1>8. OrderedCalls'
    BY <1>1, <1>2, <1>3, <1>4, CallsStay, Zenon DEF Ordered, ReaderSame
  <1>9. World({})
    <2>1. HandleStep
      BY <1>1, <1>2, HandleStays, Zenon
    <2> QED
      BY <1>1, <1>2, <2>1, WorldOfNone, Zenon
  <1>10. OwnedInv'
    <2>1. \A s \in retiring : ~reader'[s].open
      BY <1>1, <1>2, Zenon DEF OwnedInv, ReaderSame
    <2> QED
      BY <1>1, <1>2, <2>1, OwnedStays, Zenon
  <1> QED
    BY <1>4, <1>5, <1>6, <1>7, <1>8, <1>9, <1>10, QuietKeeps, Zenon DEF Ordered

\* A handle that is marked fenced keeps its epoch and its sequence.
LEMMA FenceSets ==
  ASSUME Typed, handle' = [handle EXCEPT !.fenced = TRUE]
  PROVE  /\ handle' \in Handles /\ handle'.epoch = handle.epoch /\ handle'.seq = handle.seq
         /\ handle' # NoHandle
  <1> DEFINE h == handle
             g == [h EXCEPT !.fenced = TRUE]
  <1>1. h \in Handles
    BY Zenon DEF Typed
  <1> HIDE DEF h
  <1>2. g \in Handles /\ g.epoch = h.epoch /\ g.seq = h.seq /\ g.fenced = TRUE
    BY <1>1, Zenon DEF Handles
  <1>3. NoHandle.fenced = FALSE
    BY Zenon DEF NoHandle
  <1>4. handle' = g
    BY Zenon DEF h
  <1> HIDE DEF g
  <1> QED
    BY <1>2, <1>3, <1>4, Zenon DEF h

\* SlateDB's close of a fenced handle (NoticeFence) keeps the invariant.
LEMMA NoticeFenceKeeps ==
  ASSUME Inv, NoticeFence
  PROVE  Inv'
  <1>1. Typed /\ Ordered /\ OwnedInv
    BY Zenon DEF Inv
  <1>2. /\ CellSame /\ closing' = closing /\ OwnersSame /\ openGate' = openGate /\ ReaderSame
        /\ refreshGate' = refreshGate /\ op' = op /\ bookmark' = bookmark /\ handle # NoHandle
        /\ handle' = [handle EXCEPT !.fenced = TRUE]
    BY Zenon DEF NoticeFence, ReaderState, CellSame, OwnersSame, ReaderSame
  <1>3. /\ handle' \in Handles /\ handle'.epoch = handle.epoch /\ handle'.seq = handle.seq
        /\ handle' # NoHandle
    BY <1>1, <1>2, FenceSets, Zenon
  <1>4. Typed'
    BY <1>1, <1>2, <1>3, Zenon DEF Typed, OwnersSame, ReaderSame, CellSame
  <1>5. Ordered'
    <2>1. OrderedCell' /\ OrderedStores' /\ OrderedCalls'
      BY <1>1, <1>2, Zenon
         DEF Ordered, OrderedCell, OrderedStores, OrderedCalls, ReaderSame, CellSame, StoreOf
    <2>2. OrderedHandle'
      BY <1>1, <1>2, <1>3, Zenon DEF Ordered, OrderedHandle, CellSame
    <2> QED
      BY <2>1, <2>2, Zenon DEF Ordered
  <1>6. World({})
    <2>1. handle.seq \in Nat
      BY <1>1, Zenon DEF Typed, Handles
    <2>2. handle.seq >= handle.seq
      BY <2>1
    <2>3. HandleStep
      BY <1>2, <1>3, <2>2, Zenon DEF HandleStep
    <2> QED
      BY <1>1, <1>2, <1>3, <2>3, WorldOfNone, Zenon DEF CellSame
  <1>7. OwnedInv'
    <2>1. \A s \in retiring : ~reader'[s].open
      BY <1>1, <1>2, Zenon DEF OwnedInv, ReaderSame
    <2> QED
      BY <1>1, <1>2, <2>1, OwnedStays, Zenon DEF CellSame
  <1> QED
    BY <1>4, <1>5, <1>6, <1>7, QuietKeeps, Zenon

-----------------------------------------------------------------------------
(* The writer handle and its gate.                                         *)

\* Nobody installs or drains while the gate is free, and nobody else while t does.
LEMMA GateFree ==
  ASSUME OwnedInv, openGate = Free, NEW u \in Callers
  PROVE  op[u].at \notin {"install", "drain"}
  BY StoreAssumption, Zenon DEF OwnedInv

\* Two calls are never both inside the open_gate.
LEMMA GateHeld ==
  ASSUME OwnedInv, NEW t \in Callers, op[t].at \in {"install", "drain"}, NEW u \in Callers \ {t}
  PROVE  op[u].at \notin {"install", "drain"}
  BY Zenon DEF OwnedInv

\* A step that moves a call, its gate and the closing flag, and may take the handle.
LEMMA WriterStep ==
  ASSUME Inv, NEW t \in Callers, CellSame, OwnersSame, refreshGate' = refreshGate,
         bookmark' = bookmark, reader' = reader, lossGen' = lossGen, ackGen' = ackGen,
         handle' # NoHandle => handle' = handle, closing' \in BOOLEAN,
         openGate' \in Callers \cup {Free}, unasked' \subseteq Stores, unasked \subseteq unasked',
         \A x \in attached : handle # NoHandle /\ ~closing =>
                                 (handle' # NoHandle /\ ~closing') \/ x \in unasked',
         OnlyCall(t), SameOrder(op'[t], op[t]), op'[t].at # "pulled",
         StoreOf(t) \in attached \cup retiring, GateKept(t), CloserKept(t), Mine(t)'
  PROVE  Inv'
  <1>1. Typed /\ Ordered /\ OwnedInv
    BY Zenon DEF Inv
  <1>2. Typed'
    <2>1. handle' \in Handles
      BY <1>1, Blanks, Zenon DEF Typed
    <2> QED
      BY <1>1, <2>1, Zenon DEF Typed, CellSame, OwnersSame, OnlyCall
  <1>3. World({t})
    <2>1. \A x \in Stores : ReaderGrows(x)
      BY <1>1, ReaderStays, Zenon
    <2>2. \A x \in Stores : GenStep(x)
      BY GenStays, Zenon
    <2>3. \A x \in Stores : CoverStep(x)
      BY Zenon DEF CoverStep, OwnersSame
    <2>4. HandleStep
      BY <1>1, HandleStays, Zenon
    <2> QED
      BY <2>1, <2>2, <2>3, <2>4, Zenon DEF World, OnlyCall, CellSame
  <1>4. OwnedInv'
    <2>1. \A s \in retiring : ~reader'[s].open
      BY <1>1, Zenon DEF OwnedInv
    <2> QED
      BY <1>1, <2>1, OwnedKeeps, Zenon DEF CellSame
  <1>5. Ordered'
    <2>1. bookmark' <= committed
      BY <1>1, Zenon DEF Ordered, OrderedCell
    <2>2. OrderedCell' /\ OrderedHandle' /\ OrderedStores'
      BY <1>1, <2>1, RestOrdered, Zenon
    <2>3. \A u \in Callers : /\ op'[u].min = op[u].min /\ op'[u].floor = op[u].floor
                             /\ op'[u].need = op[u].need /\ StoreOf(u)' = StoreOf(u)
                             /\ op'[u].at = "pulled" => op[u].at = "pulled" /\ op'[u].got = op[u].got
      BY Zenon DEF SameOrder, OnlyCall, StoreOf, CellSame
    <2>4. OrderedCalls'
      BY <1>1, <2>3, Zenon DEF Ordered, OrderedCalls, CellSame
    <2> QED
      BY <2>2, <2>4, Zenon DEF Ordered
  <1> QED
    BY <1>2, <1>3, <1>4, <1>5, StepKeeps, Zenon

\* Queueing on the open_gate (BeginGated) keeps the invariant.
LEMMA BeginGatedKeeps ==
  ASSUME Inv, NEW t \in Callers, BeginGated(t)
  PROVE  Inv'
  <1>1. Typed /\ Ordered
    BY Zenon DEF Inv
  <1>2. /\ CellSame /\ OwnersSame /\ HandleSame /\ ReaderSame
        /\ refreshGate' = refreshGate /\ bookmark' = bookmark
        /\ op[t].at = "idle" /\ StoreOf(t) \in attached \cup retiring
        /\ Kind(t) \in {"promote", "retire", "fence"}
    BY Zenon DEF BeginGated, Ready, HandleState, ReaderState, CellSame, OwnersSame, HandleSame, ReaderSame
  <1>3. \E step \in {"failed", "done", "gate"} : Goto(t, step)
    BY Zenon DEF BeginGated, Fail
  <1>4. PICK step \in {"failed", "done", "gate"} : Goto(t, step)
    BY <1>3, Zenon
  <1>5. step \in Steps
    BY StepNames, Zenon
  <1>6. OnlyCall(t) /\ op'[t].at = step /\ SameOrder(op'[t], op[t])
    BY <1>1, <1>4, <1>5, GotoSets, Zenon
  <1>7. Kind(t)' \in {"promote", "retire", "fence"}
    BY <1>2, Zenon DEF CellSame, Kind
  <1>8. Mine(t)'
    <2>1. /\ op'[t].at \in {"gate", "install", "drain", "done", "failed"}
          /\ Kind(t)' \in {"promote", "retire", "close", "fence"}
          /\ Kind(t)' \notin {"read", "write", "strong"}
      BY <1>6, <1>7, Zenon
    <2> QED
      BY <2>1, MineQuiet, Zenon
  <1>9. /\ op'[t].min <= committed /\ op'[t].floor <= committed /\ op'[t].need <= lossGen[StoreOf(t)]
        /\ bookmark' \in Nat /\ bookmark' <= committed
        /\ refreshGate' \in [Stores -> Callers \cup {Free}]
    BY <1>1, <1>2, <1>6, Zenon DEF Ordered, OrderedCalls, OrderedCell, Typed, SameOrder
  <1>10. /\ op[t].at \notin {"install", "drain"} /\ ~Closing(t)
         /\ op'[t].at \notin {"install", "drain"} /\ op'[t].at # "pulled"
    BY <1>2, <1>6, Zenon DEF Closing
  <1> QED
    BY <1>2, <1>6, <1>8, <1>9, <1>10, CallOnly, Zenon

\* PromoteLocked: a store that retires installs no writer.
LEMMA PromoteLockedKeeps ==
  ASSUME Inv, NEW t \in Callers, PromoteLocked(t)
  PROVE  Inv'
  <1>1. Typed /\ Ordered /\ OwnedInv
    BY Zenon DEF Inv
  <1>2. /\ CellSame /\ OwnersSame /\ ReaderSame /\ handle' = handle /\ closing' = closing
        /\ refreshGate' = refreshGate /\ bookmark' = bookmark
        /\ op[t].at = "gate" /\ Kind(t) = "promote" /\ openGate = Free
    BY Zenon DEF PromoteLocked, ReaderState, CellSame, OwnersSame, ReaderSame
  <1>3. /\ ~Closing(t) /\ op[t].at \notin {"idle", "install", "drain"} /\ Kind(t)' = "promote"
        /\ refreshGate' \in [Stores -> Callers \cup {Free}] /\ StoreOf(t) \in attached \cup retiring
    BY <1>1, <1>2, Zenon DEF Closing, CellSame, Kind, Typed, OwnedInv
  <1>4. CASE Fail(t) /\ openGate' = openGate
    <2>1. HandleSame
      BY <1>2, <1>4, Zenon DEF HandleSame
    <2> QED
      BY <1>2, <1>3, <1>4, <2>1, FailOnly, Zenon
  <1>5. CASE Goto(t, "done") /\ openGate' = openGate
    <2>1. OnlyCall(t) /\ op'[t].at = "done" /\ SameOrder(op'[t], op[t])
      BY <1>1, <1>5, GotoSets, StepNames, Zenon
    <2>2. Mine(t)'
      BY <1>3, <2>1, MineQuiet, Zenon
    <2>3. HandleSame /\ op'[t].at \notin {"install", "drain", "pulled"}
      BY <1>2, <1>5, <2>1, Zenon DEF HandleSame
    <2> QED
      BY <1>2, <1>3, <2>1, <2>2, <2>3, CallMoves, Zenon
  <1>6. CASE StoreOf(t) \notin retiring /\ Goto(t, "install") /\ openGate' = t
    <2>1. OnlyCall(t) /\ op'[t].at = "install" /\ SameOrder(op'[t], op[t])
      BY <1>1, <1>6, GotoSets, StepNames, Zenon
    <2>2. Mine(t)'
      BY <1>3, <2>1, MineQuiet, Zenon
    <2>3. GateKept(t)
      BY <1>1, <1>2, <1>6, GateFree, Zenon DEF GateKept
    <2>4. CloserKept(t)
      BY <1>2, <1>3, <1>6, <2>1, Zenon DEF CloserKept
    <2>5. closing' \in BOOLEAN /\ openGate' \in Callers \cup {Free} /\ unasked' \subseteq Stores
      BY <1>1, <1>2, <1>6, Zenon DEF Typed, ReaderSame
    <2>6. op'[t].at # "pulled"
      BY <2>1, Zenon
    <2> QED
      BY <1>2, <1>3, <2>1, <2>2, <2>3, <2>4, <2>5, <2>6, WriterStep, Zenon DEF ReaderSame
  <1> QED
    BY <1>4, <1>5, <1>6, Zenon DEF PromoteLocked

\* An open that fails and releases the gate (OpenFails) keeps the invariant.
LEMMA OpenFailsKeeps ==
  ASSUME Inv, NEW t \in Callers, OpenFails(t)
  PROVE  Inv'
  <1>1. Typed /\ OwnedInv
    BY Zenon DEF Inv
  <1>2. /\ CellSame /\ OwnersSame /\ ReaderSame /\ handle' = handle /\ closing' = closing
        /\ refreshGate' = refreshGate /\ bookmark' = bookmark
        /\ op[t].at = "install" /\ openGate' = Free /\ Goto(t, "failed")
    BY Zenon DEF OpenFails, ReaderState, CellSame, OwnersSame, ReaderSame, Fail
  <1>3. OnlyCall(t) /\ op'[t].at = "failed" /\ SameOrder(op'[t], op[t])
    BY <1>1, <1>2, GotoSets, StepNames, Zenon
  <1>4. Mine(t)' /\ op'[t].at # "pulled"
    BY <1>3, MineQuiet, Zenon
  <1>5. GateKept(t)
    <2>1. op[t].at \in {"install", "drain"}
      BY <1>2, Zenon
    <2> QED
      BY <1>1, <1>3, <2>1, GateHeld, Zenon DEF GateKept
  <1>6. CloserKept(t)
    BY <1>2, <1>3, Zenon DEF CloserKept, Closing
  <1>7. /\ closing' \in BOOLEAN /\ openGate' \in Callers \cup {Free} /\ unasked' \subseteq Stores
        /\ StoreOf(t) \in attached \cup retiring
    BY <1>1, <1>2, Zenon DEF Typed, ReaderSame, OwnedInv
  <1> QED
    BY <1>2, <1>3, <1>4, <1>5, <1>6, <1>7, WriterStep, Zenon DEF ReaderSame

\* The end of close_final_owner_writer (Released) keeps the invariant.
LEMMA ReleasedKeeps ==
  ASSUME Inv, NEW t \in Callers, Released(t)
  PROVE  Inv'
  <1>1. Typed /\ OwnedInv
    BY Zenon DEF Inv
  <1>2. /\ CellSame /\ OwnersSame /\ ReaderSame /\ handle' = handle /\ closing' = FALSE
        /\ refreshGate' = refreshGate /\ bookmark' = bookmark
        /\ op[t].at = "drain" /\ Kind(t) = "close" /\ openGate' = Free /\ Goto(t, "done")
    BY Zenon DEF Released, ReaderState, CellSame, OwnersSame, ReaderSame
  <1>3. OnlyCall(t) /\ op'[t].at = "done" /\ SameOrder(op'[t], op[t]) /\ Kind(t)' = "close"
    BY <1>1, <1>2, GotoSets, StepNames, Zenon DEF CellSame, Kind
  <1>4. Mine(t)' /\ op'[t].at # "pulled"
    BY <1>3, MineQuiet, Zenon
  <1>5. GateKept(t)
    <2>1. op[t].at \in {"install", "drain"}
      BY <1>2, Zenon
    <2> QED
      BY <1>1, <1>3, <2>1, GateHeld, Zenon DEF GateKept
  <1>6. CloserKept(t)
    BY <1>2, <1>3, Zenon DEF CloserKept, Closing
  <1>7. /\ closing' \in BOOLEAN /\ openGate' \in Callers \cup {Free} /\ unasked' \subseteq Stores
        /\ StoreOf(t) \in attached \cup retiring
    BY <1>1, <1>2, Zenon DEF Typed, ReaderSame, OwnedInv
  <1> QED
    BY <1>2, <1>3, <1>4, <1>5, <1>6, <1>7, WriterStep, Zenon DEF ReaderSame

\* RetireLocked and ReleaseLocked: the handle is taken, and no reader was asked yet.
LEMMA TakesHandle ==
  ASSUME Inv, NEW t \in Callers, CellSame, OwnersSame, refreshGate' = refreshGate,
         bookmark' = bookmark, reader' = reader, lossGen' = lossGen, ackGen' = ackGen,
         op[t].at = "gate", Kind(t) \in {"retire", "close"}, openGate = Free, openGate' = t,
         handle' = NoHandle, closing' \in BOOLEAN,
         unasked' = IF handle = NoHandle THEN unasked ELSE unasked \cup attached,
         OnlyCall(t), SameOrder(op'[t], op[t]), op'[t].at = "drain"
  PROVE  Inv'
  <1>1. Typed /\ OwnedInv
    BY Zenon DEF Inv
  <1>2. Kind(t)' \in {"promote", "retire", "close", "fence"}
    BY Zenon DEF CellSame, Kind
  <1>3. Mine(t)' /\ op'[t].at # "pulled"
    BY <1>2, MineQuiet, Zenon
  <1>4. GateKept(t)
    BY <1>1, GateFree, Zenon DEF GateKept
  <1>5. CloserKept(t)
    <2>1. \A u \in Callers : op'[u].at # "install"
      BY <1>1, GateFree, Zenon DEF OnlyCall
    <2> QED
      BY <2>1, Zenon DEF CloserKept
  <1>6. /\ openGate' \in Callers \cup {Free} /\ unasked' \subseteq Stores /\ unasked \subseteq unasked'
        /\ StoreOf(t) \in attached \cup retiring
    BY <1>1, Zenon DEF Typed, OwnedInv
  <1>7. \A x \in attached : handle # NoHandle /\ ~closing =>
                                (handle' # NoHandle /\ ~closing') \/ x \in unasked'
    BY Zenon
  <1> QED
    BY <1>3, <1>4, <1>5, <1>6, <1>7, WriterStep, Zenon

\* retire_writer under the gate (RetireLocked) keeps the invariant.
LEMMA RetireLockedKeeps ==
  ASSUME Inv, NEW t \in Callers, RetireLocked(t)
  PROVE  Inv'
  <1>1. Typed
    BY Zenon DEF Inv
  <1>2. /\ CellSame /\ OwnersSame /\ reader' = reader /\ lossGen' = lossGen /\ ackGen' = ackGen
        /\ refreshGate' = refreshGate /\ bookmark' = bookmark
        /\ op[t].at = "gate" /\ Kind(t) \in {"retire", "close"} /\ openGate = Free /\ openGate' = t
        /\ handle' = NoHandle /\ closing' \in BOOLEAN
        /\ unasked' = (IF handle = NoHandle THEN unasked ELSE unasked \cup attached)
    BY Zenon DEF RetireLocked, CellSame, OwnersSame
  <1>3. Gets(t, "drain", handle.epoch)
    BY Zenon DEF RetireLocked, Gets
  <1>4. "drain" \in Steps /\ handle.epoch \in Nat
    BY <1>1, StepNames, Zenon DEF Typed, Handles
  <1>5. OnlyCall(t) /\ op'[t].at = "drain" /\ SameOrder(op'[t], op[t])
    BY <1>1, <1>3, <1>4, GotSets, Zenon
  <1> QED
    BY <1>2, <1>5, TakesHandle, Zenon

\* close_final_owner_writer taking the handle (ReleaseLocked) keeps the invariant.
LEMMA ReleaseLockedKeeps ==
  ASSUME Inv, NEW t \in Callers, ReleaseLocked(t)
  PROVE  Inv'
  <1>1. Typed
    BY Zenon DEF Inv
  <1>2. /\ CellSame /\ OwnersSame /\ reader' = reader /\ lossGen' = lossGen /\ ackGen' = ackGen
        /\ refreshGate' = refreshGate /\ bookmark' = bookmark
        /\ op[t].at = "gate" /\ Kind(t) \in {"retire", "close"} /\ openGate = Free /\ openGate' = t
        /\ handle' = NoHandle /\ closing' = closing /\ Goto(t, "drain")
        /\ unasked' = (IF handle = NoHandle THEN unasked ELSE unasked \cup attached)
    BY Zenon DEF ReleaseLocked, CellSame, OwnersSame
  <1>3. closing' \in BOOLEAN
    BY <1>1, <1>2, Zenon DEF Typed
  <1>4. OnlyCall(t) /\ op'[t].at = "drain" /\ SameOrder(op'[t], op[t])
    BY <1>1, <1>2, GotoSets, StepNames, Zenon
  <1> QED
    BY <1>2, <1>3, <1>4, TakesHandle, Zenon

\* Retired with a writer that closed: the store's own reader is asked.
LEMMA RetiredAsks ==
  ASSUME Inv, NEW t \in Callers, CellSame, OwnersSame, refreshGate' = refreshGate,
         bookmark' = bookmark, reader' = reader, ackGen' = ackGen, handle' = handle,
         op[t].at = "drain", Kind(t) = "retire", openGate' = Free, closing' = FALSE,
         lossGen' = [lossGen EXCEPT ![StoreOf(t)] = @ + 1], unasked' = unasked \ {StoreOf(t)},
         Goto(t, "done")
  PROVE  Inv'
  <1> DEFINE s == StoreOf(t)
  <1>1. Typed /\ Ordered /\ OwnedInv /\ s \in Stores
    BY SetupTyped, Zenon DEF Inv
  <1>2. /\ OnlyCall(t) /\ op'[t].at = "done" /\ SameOrder(op'[t], op[t]) /\ Kind(t)' = "retire"
        /\ setup' = setup
    BY <1>1, GotoSets, StepNames, Zenon DEF CellSame, Kind
  <1>3. /\ lossGen' \in [Stores -> Nat] /\ lossGen'[s] = lossGen[s] + 1
        /\ \A x \in Stores \ {s} : lossGen'[x] = lossGen[x]
        /\ \A x \in Stores : lossGen'[x] >= lossGen[x]
    BY <1>1, BumpSets, Zenon
  <1>4. Typed'
    <2>1. unasked' \subseteq Stores /\ closing' \in BOOLEAN /\ openGate' \in Callers \cup {Free}
      BY <1>1, Zenon DEF Typed
    <2> QED
      BY <1>1, <1>2, <1>3, <2>1, Zenon DEF Typed, CellSame, OwnersSame, OnlyCall
  <1>5. Ordered'
    <2>1. OrderedCell' /\ OrderedHandle'
      BY <1>1, Zenon DEF Ordered, OrderedCell, OrderedHandle, CellSame
    <2>2. OrderedStores'
      BY <1>1, <1>3, <1>4, BumpedStores, Zenon DEF Ordered, CellSame
    <2>3. OrderedCalls'
      <3>1. /\ op[t].min <= committed /\ op[t].floor <= committed /\ op[t].need <= lossGen[s]
            /\ lossGen[s] \in Nat /\ op[t].need \in Nat /\ committed \in Nat
        BY <1>1, Numbers, Zenon DEF Ordered, OrderedCalls
      <3>2. op[t].need <= lossGen'[s] /\ committed >= committed
        BY <1>3, <3>1
      <3>3. /\ op'[t].min <= committed' /\ op'[t].floor <= committed' /\ op'[t].need <= lossGen'[s]
            /\ committed' >= committed /\ op'[t].at # "pulled"
        BY <1>2, <3>1, <3>2, Zenon DEF SameOrder, CellSame
      <3>4. OrderedCalls
        BY <1>1, Zenon DEF Ordered
      <3> QED
        BY <1>1, <1>2, <1>3, <1>4, <3>3, <3>4, CallsOrdered, Zenon
    <2> QED
      BY <2>1, <2>2, <2>3, Zenon DEF Ordered
  <1>6. OwnedInv'
    <2>1. \A x \in retiring : ~reader'[x].open
      BY <1>1, Zenon DEF OwnedInv
    <2>2. op[t].at \in {"install", "drain"}
      BY Zenon
    <2>3. GateKept(t)
      BY <1>1, <1>2, <2>2, GateHeld, Zenon DEF GateKept
    <2>4. CloserKept(t)
      BY <1>2, Zenon DEF CloserKept, Closing
    <2>5. s \in attached \cup retiring
      BY <1>1, Zenon DEF OwnedInv
    <2> QED
      BY <1>1, <1>2, <2>1, <2>3, <2>4, <2>5, OwnedKeeps, Zenon
  <1>7. World({t})
    <2>1. \A x \in Stores : ReaderGrows(x)
      BY <1>1, ReaderStays, Zenon
    <2>2. Bumped(s)
      BY <1>3, Zenon DEF Bumped
    <2>3. \A x \in Stores : GenStep(x)
      BY <1>3, <2>2, Zenon DEF GenStep
    <2>4. \A x \in Stores : CoverStep(x)
      BY <2>2, Zenon DEF CoverStep, OwnersSame
    <2>5. HandleStep
      BY <1>1, HandleStays, Zenon
    <2>6. op'[t].at # "pulled"
      BY <1>2, Zenon
    <2> QED
      BY <1>2, <2>1, <2>3, <2>4, <2>5, <2>6, Zenon DEF World, OnlyCall
  <1>8. Mine(t)'
    BY <1>2, MineQuiet, Zenon
  <1> QED
    BY <1>4, <1>5, <1>6, <1>7, <1>8, StepKeeps, Zenon

\* The end of retire_writer (Retired) keeps the invariant.
LEMMA RetiredKeeps ==
  ASSUME Inv, NEW t \in Callers, Retired(t)
  PROVE  Inv'
  <1>1. Typed /\ OwnedInv
    BY Zenon DEF Inv
  <1>2. /\ CellSame /\ OwnersSame /\ reader' = reader /\ ackGen' = ackGen /\ handle' = handle
        /\ refreshGate' = refreshGate /\ bookmark' = bookmark
        /\ op[t].at = "drain" /\ Kind(t) = "retire" /\ openGate' = Free /\ closing' = FALSE
    BY Zenon DEF Retired, CellSame, OwnersSame
  <1>3. ASSUME NEW step \in {"done", "failed"}, Goto(t, step), lossGen' = lossGen, unasked' = unasked
        PROVE  Inv'
    <2>1. step \in Steps
      BY StepNames, Zenon
    <2>2. OnlyCall(t) /\ op'[t].at = step /\ SameOrder(op'[t], op[t]) /\ Kind(t)' = "retire"
      BY <1>1, <1>2, <1>3, <2>1, GotoSets, Zenon DEF CellSame, Kind
    <2>3. Mine(t)' /\ op'[t].at # "pulled"
      BY <2>2, MineQuiet, Zenon
    <2>4. op[t].at \in {"install", "drain"} /\ op'[t].at \notin {"install", "drain"}
      BY <1>2, <2>2, Zenon
    <2>5. GateKept(t)
      BY <1>1, <2>4, GateHeld, Zenon DEF GateKept
    <2>6. CloserKept(t)
      BY <1>2, <2>4, Zenon DEF CloserKept, Closing
    <2>7. /\ closing' \in BOOLEAN /\ openGate' \in Callers \cup {Free} /\ unasked' \subseteq Stores
          /\ StoreOf(t) \in attached \cup retiring
      BY <1>1, <1>2, <1>3, Zenon DEF Typed, OwnedInv
    <2> QED
      BY <1>2, <1>3, <2>2, <2>3, <2>5, <2>6, <2>7, WriterStep, Zenon
  <1>4. CASE /\ Goto(t, "done") /\ lossGen' = [lossGen EXCEPT ![StoreOf(t)] = @ + 1]
             /\ unasked' = unasked \ {StoreOf(t)}
    BY <1>2, <1>4, RetiredAsks, Zenon
  <1>5. \/ Goto(t, "done") /\ lossGen' = lossGen /\ unasked' = unasked
        \/ /\ Goto(t, "done") /\ lossGen' = [lossGen EXCEPT ![StoreOf(t)] = @ + 1]
           /\ unasked' = unasked \ {StoreOf(t)}
        \/ Goto(t, "failed") /\ lossGen' = lossGen /\ unasked' = unasked
    BY Zenon DEF Retired, Fail
  <1> QED
    BY <1>3, <1>4, <1>5, Zenon

\* CheckFence: a handle an older epoch than the manifest's is dropped.
LEMMA CheckFenceKeeps ==
  ASSUME Inv, NEW t \in Callers, CheckFence(t)
  PROVE  Inv'
  <1>1. Typed /\ OwnedInv
    BY Zenon DEF Inv
  <1>2. /\ CellSame /\ OwnersSame /\ closing' = closing /\ openGate' = openGate /\ reader' = reader
        /\ ackGen' = ackGen /\ refreshGate' = refreshGate /\ bookmark' = bookmark
        /\ op[t].at = "gate" /\ Kind(t) = "fence"
    BY Zenon DEF CheckFence, CellSame, OwnersSame
  <1>3. /\ ~Closing(t) /\ op[t].at \notin {"idle", "install", "drain"} /\ Kind(t)' = "fence"
        /\ refreshGate' \in [Stores -> Callers \cup {Free}]
    BY <1>1, <1>2, Zenon DEF Closing, CellSame, Kind, Typed
  <1>4. CASE OpenWriter(StoreOf(t)) /\ ClearClosedWriter(StoreOf(t)) /\ Goto(t, "failed")
    <2>1. Clears(t)
      BY <1>2, <1>4, Zenon DEF Clears
    <2>2. OnlyCall(t) /\ op'[t].at = "failed" /\ SameOrder(op'[t], op[t])
      BY <1>1, <1>4, GotoSets, StepNames, Zenon
    <2>3. op'[t].at \notin {"install", "drain", "pulled"}
      BY <2>2, Zenon
    <2>4. Typed' /\ Ordered' /\ OwnedInv' /\ World({t})
      BY <1>3, <2>1, <2>2, <2>3, ClearWorld, Zenon
    <2>5. Mine(t)'
      BY <2>2, MineQuiet, Zenon
    <2> QED
      BY <2>4, <2>5, StepKeeps, Zenon
  <1>5. ASSUME NEW step \in {"done", "failed"}, Goto(t, step), handle' = handle, lossGen' = lossGen,
               unasked' = unasked
        PROVE  Inv'
    <2>1. step \in Steps
      BY StepNames, Zenon
    <2>2. OnlyCall(t) /\ op'[t].at = step /\ SameOrder(op'[t], op[t])
      BY <1>1, <1>5, <2>1, GotoSets, Zenon
    <2>3. op'[t].at \notin {"install", "drain", "pulled"} /\ HandleSame /\ ReaderSame
      BY <1>2, <1>5, <2>2, Zenon DEF HandleSame, ReaderSame
    <2>4. Mine(t)'
      BY <1>3, <2>2, MineQuiet, Zenon
    <2> QED
      BY <1>2, <1>3, <2>2, <2>3, <2>4, CallMoves, Zenon
  <1>6. \/ OpenWriter(StoreOf(t)) /\ ClearClosedWriter(StoreOf(t)) /\ Goto(t, "failed")
        \/ \E step \in {"done", "failed"} :
              Goto(t, step) /\ handle' = handle /\ lossGen' = lossGen /\ unasked' = unasked
    BY Zenon DEF CheckFence, Fail
  <1> QED
    BY <1>4, <1>5, <1>6, Zenon

\* InstallWriter: the new handle has the newest epoch and knows every commit.
LEMMA InstallWriterKeeps ==
  ASSUME Inv, NEW t \in Callers, InstallWriter(t)
  PROVE  Inv'
  <1> DEFINE h == [epoch |-> epoch + 1, seq |-> committed, fenced |-> FALSE]
  <1>1. /\ Typed /\ Ordered /\ OwnedInv /\ Mine(t) /\ epoch \in Nat /\ MaxEpoch \in Nat
        /\ committed \in Nat /\ rival \in Nat
    BY StoreAssumption, Zenon DEF Inv, FreshInv, Typed
  <1>2. /\ setup' = setup /\ committed' = committed /\ rival' = rival /\ closing' = closing
        /\ OwnersSame /\ ReaderSame /\ refreshGate' = refreshGate /\ bookmark' = bookmark
        /\ op[t].at = "install" /\ epoch < MaxEpoch /\ epoch' = epoch + 1 /\ handle' = h
        /\ openGate' = Free /\ Goto(t, "done")
    BY Zenon DEF InstallWriter, ReaderState, OwnersSame, ReaderSame
  <1>3. OnlyCall(t) /\ op'[t].at = "done" /\ SameOrder(op'[t], op[t])
    BY <1>1, <1>2, GotoSets, StepNames, Zenon
  <1>4. /\ epoch + 1 \in Nat /\ epoch + 1 <= MaxEpoch /\ epoch + 1 # 0 /\ 1 <= epoch + 1
        /\ epoch + 1 <= epoch + 1 /\ committed >= committed /\ committed <= committed
    BY <1>1, <1>2
  <1>5. rival <= epoch + 1 /\ epoch + 1 # rival
    <2>1. rival <= epoch
      BY <1>1, Zenon DEF Ordered, OrderedCell
    <2> QED
      BY <1>1, <2>1
  <1>6. h \in Handles /\ h.epoch = epoch + 1 /\ h.seq = committed
    BY <1>1, <1>4, Zenon DEF Handles
  <1> HIDE DEF h
  <1>7. h # NoHandle
    BY <1>4, <1>6, Blanks, Zenon
  <1>8. Typed'
    BY <1>1, <1>2, <1>3, <1>4, <1>6, Zenon DEF Typed, OwnersSame, ReaderSame, OnlyCall
  <1>9. Ordered'
    <2>1. OrderedCell'
      BY <1>1, <1>2, <1>4, <1>5, Zenon DEF Ordered, OrderedCell
    <2>2. OrderedHandle'
      BY <1>2, <1>4, <1>5, <1>6, Zenon DEF OrderedHandle
    <2>3. OrderedStores'
      BY <1>1, <1>2, Zenon DEF Ordered, OrderedStores, ReaderSame
    <2>4. OrderedCalls'
      <3>1. \A u \in Callers : /\ op'[u].min = op[u].min /\ op'[u].floor = op[u].floor
                               /\ op'[u].need = op[u].need /\ StoreOf(u)' = StoreOf(u)
                               /\ op'[u].at = "pulled" => op[u].at = "pulled" /\ op'[u].got = op[u].got
        BY <1>2, <1>3, Zenon DEF SameOrder, OnlyCall, StoreOf
      <3> QED
        BY <1>1, <1>2, <3>1, Zenon DEF Ordered, OrderedCalls, ReaderSame
    <2> QED
      BY <2>1, <2>2, <2>3, <2>4, Zenon DEF Ordered
  <1>10. World({t})
    <2>1. \A x \in Stores : ReaderGrows(x)
      BY <1>1, <1>2, ReaderStays, Zenon DEF ReaderSame
    <2>2. \A x \in Stores : GenStep(x)
      BY <1>2, GenStays, Zenon DEF ReaderSame
    <2>3. \A x \in Stores : CoverStep(x)
      BY <1>2, <1>7, CoverStays, Zenon DEF ReaderSame, OwnersSame
    <2>4. HandleStep
      BY <1>2, <1>4, <1>6, Zenon DEF HandleStep
    <2>5. op'[t].at # "pulled"
      BY <1>3, Zenon
    <2> QED
      BY <1>2, <1>3, <2>1, <2>2, <2>3, <2>4, <2>5, Zenon DEF World, OnlyCall
  <1>11. OwnedInv'
    <2>1. \A s \in retiring : ~reader'[s].open
      BY <1>1, <1>2, Zenon DEF OwnedInv, ReaderSame
    <2>2. op[t].at \in {"install", "drain"}
      BY <1>2, Zenon
    <2>3. GateKept(t)
      BY <1>1, <1>3, <2>2, GateHeld, Zenon DEF GateKept
    <2>4. CloserKept(t)
      BY <1>2, <1>3, Zenon DEF CloserKept, Closing
    <2>5. StoreOf(t) \in attached \cup retiring
      BY <1>1, <1>2, Zenon DEF OwnedInv
    <2> QED
      BY <1>1, <1>2, <1>3, <2>1, <2>3, <2>4, <2>5, OwnedKeeps, Zenon
  <1>12. Mine(t)'
    <2>1. Kind(t)' \in {"promote", "retire", "close", "fence"}
      BY <1>1, <1>2, Zenon DEF Mine, Shape, Kind
    <2> QED
      BY <1>3, <2>1, MineQuiet, Zenon
  <1> QED
    BY <1>8, <1>9, <1>10, <1>11, <1>12, StepKeeps, Zenon

\* A mutation that commits: the handle of the newest epoch knows it at once.
LEMMA CommitsKeeps ==
  ASSUME Inv, NEW t \in Callers, setup' = setup, epoch' = epoch, rival' = rival, closing' = closing,
         openGate' = openGate, OwnersSame, ReaderSame, refreshGate' = refreshGate,
         bookmark' = bookmark, op[t].at = "idle", StoreOf(t) \in attached \cup retiring,
         Kind(t) = "write", committed < MaxSeq, handle # NoHandle, ~closing, handle.epoch = epoch,
         committed' = committed + 1, handle' = [handle EXCEPT !.seq = committed + 1],
         Floors(t, "mark", committed + 1)
  PROVE  Inv'
  <1> DEFINE h == handle
             g == [h EXCEPT !.seq = committed + 1]
  <1>1. /\ Typed /\ Ordered /\ OwnedInv /\ MaxSeq \in Nat /\ committed \in Nat /\ h \in Handles
        /\ bookmark \in Nat /\ h.epoch \in Nat /\ h.seq \in Nat /\ StoreOf(t) \in Stores
    BY StoreAssumption, SetupTyped, Zenon DEF Inv, Typed, Handles
  <1>2. /\ committed + 1 \in Nat /\ committed + 1 <= MaxSeq /\ committed + 1 <= committed + 1
        /\ committed + 1 >= committed /\ committed + 1 >= committed + 1
        /\ \A n \in Nat : n <= committed => n <= committed + 1
    BY <1>1
  <1>3. "mark" \in Steps
    BY StepNames, Zenon
  <1>4. /\ OnlyCall(t) /\ op'[t].at = "mark" /\ op'[t].floor = committed + 1
        /\ op'[t].min = op[t].min /\ op'[t].need = op[t].need
    BY <1>1, <1>2, <1>3, FloorSets, Zenon
  <1>5. handle' = g
    BY Zenon
  <1>6. 1 <= h.epoch /\ h.epoch <= epoch /\ h.epoch # rival /\ h.seq <= committed
    BY <1>1, Zenon DEF Ordered, OrderedHandle
  <1>7. g \in Handles /\ g.epoch = h.epoch /\ g.seq = committed + 1
    <2> HIDE DEF h
    <2> QED
      BY <1>1, <1>2, Zenon DEF Handles
  <1>8. g # NoHandle
    <2>1. h.epoch # 0
      <3> HIDE DEF h
      <3> QED
        BY <1>1, <1>6
    <2> HIDE DEF g
    <2> QED
      BY <1>7, <2>1, Blanks, Zenon
  <1> HIDE DEF g
  <1>9. Typed'
    BY <1>1, <1>2, <1>4, <1>5, <1>7, Zenon DEF Typed, OwnersSame, ReaderSame, OnlyCall
  <1>10. Ordered'
    <2>1. OrderedCell'
      <3>1. epoch # 0
        <4> HIDE DEF h
        <4>1. epoch \in Nat
          BY <1>1, Zenon DEF Typed
        <4> QED
          BY <1>1, <1>6, <4>1
      <3> QED
        BY <1>1, <1>2, <3>1, Zenon DEF Ordered, OrderedCell
    <2>2. OrderedHandle'
      BY <1>2, <1>5, <1>6, <1>7, Zenon DEF OrderedHandle
    <2>3. OrderedStores'
      <3>1. \A s \in Stores : reader[s].seq \in Nat
        BY <1>1, Zenon DEF Typed, ReaderStates
      <3> QED
        BY <1>1, <1>2, <3>1, Zenon DEF Ordered, OrderedStores, ReaderSame
    <2>4. OrderedCalls'
      <3>1. /\ op[t].min <= committed /\ op[t].need <= lossGen[StoreOf(t)] /\ op[t].min \in Nat
            /\ \A s \in Stores : lossGen[s] \in Nat
        BY <1>1, Numbers, Zenon DEF Ordered, OrderedCalls, Typed
      <3>2. \A n \in Nat : n >= n
        OBVIOUS
      <3>3. /\ op'[t].min <= committed' /\ op'[t].floor <= committed'
            /\ op'[t].need <= lossGen'[StoreOf(t)] /\ op'[t].at # "pulled"
            /\ committed' >= committed /\ \A s \in Stores : lossGen'[s] >= lossGen[s]
        BY <1>2, <1>4, <3>1, <3>2, Zenon DEF ReaderSame
      <3>4. OrderedCalls
        BY <1>1, Zenon DEF Ordered
      <3> QED
        BY <1>1, <1>4, <1>9, <3>3, <3>4, CallsOrdered, Zenon
    <2> QED
      BY <2>1, <2>2, <2>3, <2>4, Zenon DEF Ordered
  <1>11. World({t})
    <2>1. \A x \in Stores : ReaderGrows(x)
      BY <1>1, ReaderStays, Zenon DEF ReaderSame
    <2>2. \A x \in Stores : GenStep(x)
      BY GenStays, Zenon DEF ReaderSame
    <2>3. \A x \in Stores : CoverStep(x)
      BY <1>5, <1>8, CoverStays, Zenon DEF ReaderSame, OwnersSame
    <2>4. HandleStep
      BY <1>2, <1>5, <1>7, Zenon DEF HandleStep
    <2>5. op'[t].at # "pulled"
      BY <1>4, Zenon
    <2> QED
      BY <1>4, <2>1, <2>2, <2>3, <2>4, <2>5, Zenon DEF World, OnlyCall
  <1>12. OwnedInv'
    <2>1. \A s \in retiring : ~reader'[s].open
      BY <1>1, Zenon DEF OwnedInv, ReaderSame
    <2>2. GateKept(t)
      BY <1>1, <1>4, Zenon DEF GateKept, OwnedInv
    <2>3. CloserKept(t)
      BY <1>4, Zenon DEF CloserKept, Closing
    <2> QED
      BY <1>1, <1>4, <2>1, <2>2, <2>3, OwnedKeeps, Zenon
  <1>13. Mine(t)'
    <2>1. Kind(t)' = "write" /\ Want(t)' = committed + 1
      BY <1>4, Zenon DEF Want, Kind
    <2>2. /\ op'[t].at \notin {"sequence", "snapshot", "gate", "install", "drain", "use", "pulled", "done"}
          /\ op'[t].at \notin Fetching /\ op'[t].at \notin Fetching \cup {"use"}
      BY <1>4, Zenon DEF Fetching
    <2>3. Shape(t)'
      BY <2>1, <2>2, Zenon DEF Shape
    <2>4. StrongInv(t)'
      BY <2>1, Zenon DEF StrongInv
    <2>5. Covered(t)' /\ handle'.seq >= Want(t)'
      BY <1>2, <1>5, <1>7, <1>8, <2>1, Zenon DEF Covered
    <2>6. CausalInv(t)'
      BY <2>2, <2>5, Zenon DEF CausalInv
    <2> QED
      BY <2>3, <2>4, <2>6, Zenon DEF Mine
  <1> QED
    BY <1>9, <1>10, <1>11, <1>12, <1>13, StepKeeps, Zenon

\* A mutation that reaches the handle (CommitStarts) keeps the invariant.
LEMMA CommitStartsKeeps ==
  ASSUME Inv, NEW t \in Callers, CommitStarts(t)
  PROVE  Inv'
  <1>1. Typed /\ Ordered /\ OwnedInv
    BY Zenon DEF Inv
  <1>2. /\ setup' = setup /\ epoch' = epoch /\ rival' = rival /\ closing' = closing
        /\ openGate' = openGate /\ OwnersSame /\ ReaderSame /\ refreshGate' = refreshGate
        /\ bookmark' = bookmark /\ op[t].at = "idle" /\ StoreOf(t) \in attached \cup retiring
        /\ Kind(t) = "write" /\ committed < MaxSeq
    BY Zenon DEF CommitStarts, Ready, ReaderState, OwnersSame, ReaderSame
  <1>3. /\ op[t].at \notin {"install", "drain"} /\ ~Closing(t)
        /\ refreshGate' \in [Stores -> Callers \cup {Free}] /\ bookmark' \in Nat
        /\ bookmark' <= committed
    BY <1>1, <1>2, Zenon DEF Closing, Typed, Ordered, OrderedCell
  <1>4. Goto(t, "failed") => /\ OnlyCall(t) /\ op'[t].at = "failed" /\ SameOrder(op'[t], op[t])
                             /\ Mine(t)' /\ op'[t].at \notin {"install", "drain", "pulled"}
    <2> SUFFICES ASSUME Goto(t, "failed")
                 PROVE  /\ OnlyCall(t) /\ op'[t].at = "failed" /\ SameOrder(op'[t], op[t])
                        /\ Mine(t)' /\ op'[t].at \notin {"install", "drain", "pulled"}
      BY Zenon
    <2>1. OnlyCall(t) /\ op'[t].at = "failed" /\ SameOrder(op'[t], op[t])
      BY <1>1, GotoSets, StepNames, Zenon
    <2> QED
      BY <2>1, MineQuiet, Zenon
  <1>5. CASE Goto(t, "failed") /\ committed' = committed /\ handle' = handle
    <2>1. CellSame /\ HandleSame
      BY <1>2, <1>5, Zenon DEF CellSame, HandleSame
    <2>2. /\ op'[t].min <= committed /\ op'[t].floor <= committed
          /\ op'[t].need <= lossGen[StoreOf(t)] /\ op'[t].at \notin {"install", "drain"}
          /\ op'[t].at # "pulled"
      BY <1>1, <1>4, <1>5, Zenon DEF Ordered, OrderedCalls, SameOrder
    <2> QED
      BY <1>2, <1>3, <1>4, <1>5, <2>1, <2>2, CallOnly, Zenon
  <1>6. CASE /\ OpenWriter(StoreOf(t)) /\ handle.epoch = epoch /\ committed' = committed + 1
             /\ handle' = [handle EXCEPT !.seq = committed + 1]
             /\ op' = [op EXCEPT ![t].at = "mark", ![t].floor = committed + 1]
    <2>1. handle # NoHandle /\ ~closing /\ Floors(t, "mark", committed + 1)
      BY <1>6, Zenon DEF OpenWriter, Floors
    <2> QED
      BY <1>2, <1>6, <2>1, CommitsKeeps, Zenon
  <1>7. CASE /\ OpenWriter(StoreOf(t)) /\ handle' = [handle EXCEPT !.fenced = TRUE]
             /\ Goto(t, "failed") /\ committed' = committed
    <2>1. /\ handle' \in Handles /\ handle'.epoch = handle.epoch /\ handle'.seq = handle.seq
          /\ handle' # NoHandle /\ handle # NoHandle /\ handle.seq \in Nat
      BY <1>1, <1>7, FenceSets, Zenon DEF OpenWriter, Typed, Handles
    <2>2. Typed'
      BY <1>1, <1>2, <1>4, <1>7, <2>1, Zenon DEF Typed, OwnersSame, ReaderSame, OnlyCall
    <2>3. Ordered'
      <3>1. OrderedCell' /\ OrderedStores'
        BY <1>1, <1>2, <1>7, Zenon DEF Ordered, OrderedCell, OrderedStores, ReaderSame
      <3>2. OrderedHandle'
        BY <1>1, <1>2, <1>7, <2>1, Zenon DEF Ordered, OrderedHandle
      <3>3. \A u \in Callers : /\ op'[u].min = op[u].min /\ op'[u].floor = op[u].floor
                               /\ op'[u].need = op[u].need /\ StoreOf(u)' = StoreOf(u)
                               /\ op'[u].at = "pulled" => op[u].at = "pulled" /\ op'[u].got = op[u].got
        BY <1>2, <1>4, <1>7, Zenon DEF SameOrder, OnlyCall, StoreOf
      <3>4. OrderedCalls'
        BY <1>1, <1>2, <1>7, <3>3, Zenon DEF Ordered, OrderedCalls, ReaderSame
      <3> QED
        BY <3>1, <3>2, <3>4, Zenon DEF Ordered
    <2>4. World({t})
      <3>1. \A x \in Stores : ReaderGrows(x)
        BY <1>1, <1>2, ReaderStays, Zenon DEF ReaderSame
      <3>2. \A x \in Stores : GenStep(x)
        BY <1>2, GenStays, Zenon DEF ReaderSame
      <3>3. \A x \in Stores : CoverStep(x)
        BY <1>2, <2>1, CoverStays, Zenon DEF ReaderSame, OwnersSame
      <3>4. handle.seq >= handle.seq
        BY <2>1
      <3>5. HandleStep /\ op'[t].at # "pulled"
        BY <1>4, <1>7, <2>1, <3>4, Zenon DEF HandleStep
      <3> QED
        BY <1>2, <1>4, <1>7, <3>1, <3>2, <3>3, <3>5, Zenon DEF World, OnlyCall
    <2>5. OwnedInv'
      <3>1. \A s \in retiring : ~reader'[s].open
        BY <1>1, <1>2, Zenon DEF OwnedInv, ReaderSame
      <3>2. GateKept(t)
        BY <1>1, <1>2, <1>4, <1>7, Zenon DEF GateKept, OwnedInv
      <3>3. CloserKept(t)
        BY <1>2, <1>3, <1>4, <1>7, <2>1, Zenon DEF CloserKept
      <3> QED
        BY <1>1, <1>2, <1>4, <1>7, <3>1, <3>2, <3>3, OwnedKeeps, Zenon
    <2> QED
      BY <1>4, <1>7, <2>2, <2>3, <2>4, <2>5, StepKeeps, Zenon
  <1> QED
    BY <1>5, <1>6, <1>7, Zenon DEF CommitStarts, Fail

-----------------------------------------------------------------------------
(* Stores that join and leave, counted.                                    *)

\* How the sets of stores are counted; CountedHolds proves it.
Counted ==
    \A S \in SUBSET Stores :
        /\ Cardinality(S) = 0 => S = {}
        /\ \A s \in Stores : /\ s \notin S => Cardinality(S \cup {s}) = Cardinality(S) + 1
                             /\ s \in S => Cardinality(S \ {s}) = Cardinality(S) - 1
                             /\ s \in S => (S = {s} <=> Cardinality(S) = 1)

\* Attach: a store joins, so somebody owns the writer state.
LEMMA AttachKeeps ==
  ASSUME Inv, Counted, NEW s \in Stores, Attach(s)
  PROVE  Inv'
  <1>1. Typed /\ Ordered /\ OwnedInv
    BY Zenon DEF Inv
  <1>2. /\ CellSame /\ HandleSame /\ ReaderSame /\ refreshGate' = refreshGate /\ op' = op
        /\ bookmark' = bookmark /\ retiring' = retiring /\ s \notin attached /\ s \notin retiring
        /\ attached' = attached \cup {s} /\ owners' = owners + 1
    BY Zenon DEF Attach, ReaderState, CellSame, HandleSame, ReaderSame
  <1>3. Typed'
    <2>1. attached' \subseteq Stores
      BY <1>1, <1>2, Zenon DEF Typed
    <2> QED
      BY <1>1, <1>2, <2>1, Zenon DEF Typed, ReaderSame, CellSame, HandleSame
  <1>4. Ordered'
    BY <1>1, <1>2, Zenon DEF Ordered, OrderedCell, OrderedHandle, OrderedStores, OrderedCalls,
                             ReaderSame, CellSame, HandleSame, StoreOf
  <1>5. World({})
    <2>1. \A x \in Stores : ReaderGrows(x)
      BY <1>1, <1>2, ReaderStays, Zenon DEF ReaderSame
    <2>2. \A x \in Stores : GenStep(x)
      BY <1>2, GenStays, Zenon DEF ReaderSame
    <2>3. \A x \in Stores : CoverStep(x)
      BY <1>2, CoverStays, Zenon DEF ReaderSame, HandleSame
    <2>4. HandleStep
      BY <1>1, <1>2, HandleStays, Zenon DEF HandleSame
    <2> QED
      BY <1>2, <2>1, <2>2, <2>3, <2>4, Zenon DEF World, CellSame
  <1>6. OwnedInv'
    <2>1. owners' = Cardinality(attached')
      <3>1. attached \in SUBSET Stores
        BY <1>1, Zenon DEF Typed
      <3>2. Cardinality(attached \cup {s}) = Cardinality(attached) + 1
        BY <1>2, <3>1, Zenon DEF Counted
      <3> QED
        BY <1>1, <1>2, <3>2, Zenon DEF OwnedInv
    <2>2. attached' # {} /\ attached' \cap retiring' = {}
      BY <1>1, <1>2, Zenon DEF OwnedInv
    <2>3. \A u \in Callers : Closing(u)' <=> Closing(u)
      BY <1>2, Zenon DEF Closing, Kind, CellSame
    <2>4. \A u \in Callers : op'[u].at # "idle" => StoreOf(u)' \in attached' \cup retiring'
      BY <1>1, <1>2, Zenon DEF OwnedInv, StoreOf, CellSame
    <2>5. /\ \A x \in retiring' : ~reader'[x].open
          /\ \A u \in Callers : op'[u].at \in {"install", "drain"} => openGate' = u
          /\ closing' => \E u \in Callers : op'[u].at = "drain" \/ Closing(u)'
      BY <1>1, <1>2, <2>3, Zenon DEF OwnedInv, ReaderSame, HandleSame
    <2> QED
      BY <2>1, <2>2, <2>4, <2>5, Zenon DEF OwnedInv
  <1> QED
    BY <1>3, <1>4, <1>5, <1>6, QuietKeeps, Zenon

\* CloseStore: the last owner leaves the close to a task, which it is from now on.
LEMMA CloseStoreKeeps ==
  ASSUME Inv, Counted, NEW t \in Callers, CloseStore(t)
  PROVE  Inv'
  <1> DEFINE s == StoreOf(t)
             final == s \in attached /\ owners = 1
             step == IF final THEN "gate" ELSE "done"
  <1>1. Typed /\ Ordered /\ OwnedInv /\ s \in Stores
    BY SetupTyped, Zenon DEF Inv
  <1>2. /\ CellSame /\ handle' = handle /\ openGate' = openGate /\ lossGen' = lossGen
        /\ ackGen' = ackGen /\ refreshGate' = refreshGate /\ unasked' = unasked
        /\ bookmark' = bookmark /\ op[t].at = "idle" /\ s \in attached \cup retiring
        /\ Kind(t) = "close" /\ retiring' = retiring \cup {s} /\ attached' = attached \ {s}
        /\ reader' = [reader EXCEPT ![s] = NoReader]
        /\ owners' = (IF s \in attached THEN owners - 1 ELSE owners)
        /\ closing' = (closing \/ final) /\ Goto(t, step)
    BY Zenon DEF CloseStore, Ready, CellSame
  <1>3. step \in Steps /\ step \in {"gate", "done"} /\ (final => step = "gate")
    BY StepNames, Zenon
  <1> HIDE DEF step
  <1>4. OnlyCall(t) /\ op'[t].at = step /\ SameOrder(op'[t], op[t]) /\ Kind(t)' = "close"
    BY <1>1, <1>2, <1>3, GotoSets, Zenon DEF CellSame, Kind
  <1>5. /\ op'[t].at \notin {"install", "drain", "pulled"} /\ Mine(t)'
    <2>1. op'[t].at \in {"gate", "install", "drain", "done", "failed"}
      BY <1>3, <1>4, Zenon
    <2> QED
      BY <1>3, <1>4, <2>1, MineQuiet, Zenon
  <1>6. /\ reader' \in [Stores -> ReaderStates] /\ reader'[s] = NoReader
        /\ \A x \in Stores \ {s} : reader'[x] = reader[x]
    BY <1>1, <1>2, Blanks, Zenon DEF Typed
  <1>7. attached \in SUBSET Stores /\ owners = Cardinality(attached)
    BY <1>1, Zenon DEF Typed, OwnedInv
  <1>8. owners' = Cardinality(attached')
    <2>1. CASE s \in attached
      <3>1. Cardinality(attached \ {s}) = Cardinality(attached) - 1
        BY <1>1, <1>7, <2>1, Zenon DEF Counted
      <3> QED
        BY <1>2, <1>7, <2>1, <3>1, Zenon
    <2>2. CASE s \notin attached
      <3>1. attached \ {s} = attached
        BY <2>2, Zenon
      <3> QED
        BY <1>2, <1>7, <2>2, <3>1, Zenon
    <2> QED
      BY <2>1, <2>2, Zenon
  <1>9. final => attached = {s}
    BY <1>1, <1>7, Zenon DEF Counted
  <1>10. s \in attached /\ attached \ {s} = {} => final
    <2> SUFFICES ASSUME s \in attached, attached \ {s} = {} PROVE final
      BY Zenon
    <2>1. attached = {s}
      BY Zenon
    <2> QED
      BY <1>1, <1>7, <2>1, Zenon DEF Counted
  <1>11. Typed'
    <2>1. attached' \subseteq Stores /\ retiring' \subseteq Stores /\ closing' \in BOOLEAN
      BY <1>1, <1>2, Zenon DEF Typed
    <2> QED
      BY <1>1, <1>2, <1>4, <1>6, <2>1, Zenon DEF Typed, CellSame, OnlyCall
  <1>12. Ordered'
    <2>1. OrderedCell'
      BY <1>1, <1>2, <1>6, Blanks, Zenon DEF Ordered, OrderedCell, CellSame
    <2>2. OrderedHandle'
      BY <1>1, <1>2, Zenon DEF Ordered, OrderedHandle, CellSame
    <2>3. OrderedStores'
      <3>1. committed \in Nat
        BY <1>1, Zenon DEF Typed
      <3>2. 0 <= committed
        BY <3>1
      <3> QED
        BY <1>1, <1>2, <1>6, <3>2, Blanks, Zenon DEF Ordered, OrderedStores, CellSame
    <2>4. OrderedCalls'
      <3>1. \A u \in Callers : /\ op'[u].min = op[u].min /\ op'[u].floor = op[u].floor
                               /\ op'[u].need = op[u].need /\ StoreOf(u)' = StoreOf(u)
                               /\ op'[u].at = "pulled" => op[u].at = "pulled" /\ op'[u].got = op[u].got
        BY <1>2, <1>4, <1>5, Zenon DEF SameOrder, OnlyCall, StoreOf, CellSame
      <3> QED
        BY <1>1, <1>2, <3>1, Zenon DEF Ordered, OrderedCalls, CellSame
    <2> QED
      BY <2>1, <2>2, <2>3, <2>4, Zenon DEF Ordered
  <1>13. World({t})
    <2>1. \A x \in Stores : ReaderGrows(x)
      <3> SUFFICES ASSUME NEW x \in Stores PROVE ReaderGrows(x)
        BY Zenon
      <3>1. CASE x = s
        BY <1>6, <3>1, Blanks, Zenon DEF ReaderGrows
      <3>2. CASE x # s
        BY <1>1, <1>6, <3>2, ReaderStays, Zenon
      <3> QED
        BY <3>1, <3>2, Zenon
    <2>2. \A x \in Stores : GenStep(x)
      BY <1>2, GenStays, Zenon
    <2>3. \A x \in Stores : CoverStep(x)
      <3> HIDE DEF final
      <3> QED
        BY <1>2, <1>9, Zenon DEF CoverStep
    <2>4. HandleStep
      BY <1>1, <1>2, HandleStays, Zenon
    <2>5. op'[t].at # "pulled"
      BY <1>5, Zenon
    <2> QED
      BY <1>2, <1>4, <2>1, <2>2, <2>3, <2>4, <2>5, Zenon DEF World, OnlyCall, CellSame
  <1>14. OwnedInv'
    <2> HIDE DEF final
    <2>1. attached' \cap retiring' = {} /\ \A x \in retiring' : ~reader'[x].open
      <3>1. \A x \in retiring : ~reader[x].open /\ x \in Stores
        BY <1>1, Zenon DEF OwnedInv, Typed
      <3>2. \A x \in retiring' : ~reader'[x].open
        BY <1>2, <1>6, <3>1, Blanks, Zenon
      <3>3. attached' \cap retiring' = {}
        BY <1>1, <1>2, Zenon DEF OwnedInv
      <3> QED
        BY <3>2, <3>3, Zenon
    <2>2. \A u \in Callers : op'[u].at # "idle" => StoreOf(u)' \in attached' \cup retiring'
      <3>1. \A u \in Callers : StoreOf(u)' = StoreOf(u)
        BY <1>2, Zenon DEF CellSame, StoreOf
      <3> QED
        BY <1>1, <1>2, <1>4, <3>1, Zenon DEF OwnedInv, OnlyCall
    <2>3. \A u \in Callers : op'[u].at \in {"install", "drain"} => openGate' = u
      BY <1>1, <1>2, <1>4, <1>5, Zenon DEF OwnedInv, OnlyCall
    <2>4. \A u \in Callers : Closing(u) => Closing(u)'
      BY <1>2, <1>4, Zenon DEF Closing, Kind, CellSame, OnlyCall
    <2>5. final => Closing(t)'
      BY <1>3, <1>4, Zenon DEF Closing
    <2>6. ASSUME attached' = {}, handle' # NoHandle \/ \E u \in Callers : op'[u].at = "install"
          PROVE  \E u \in Callers : Closing(u)'
      <3>1. CASE s \in attached
        BY <1>2, <1>10, <2>5, <2>6, <3>1, Zenon
      <3>2. CASE s \notin attached
        <4>1. attached = {}
          BY <1>2, <2>6, <3>2, Zenon
        <4>2. handle # NoHandle \/ \E u \in Callers : op[u].at = "install"
          BY <1>2, <1>4, <1>5, <2>6, Zenon DEF OnlyCall
        <4> QED
          BY <1>1, <2>4, <4>1, <4>2, Zenon DEF OwnedInv
      <3> QED
        BY <3>1, <3>2, Zenon
    <2>7. ASSUME closing'
          PROVE  \E u \in Callers : op'[u].at = "drain" \/ Closing(u)'
      <3>1. CASE final
        BY <2>5, <3>1, Zenon
      <3>2. CASE ~final
        <4>1. PICK u \in Callers : op[u].at = "drain" \/ Closing(u)
          BY <1>1, <1>2, <2>7, <3>2, Zenon DEF OwnedInv
        <4>2. op[u].at = "drain" => op'[u] = op[u]
          BY <1>2, <1>4, Zenon DEF OnlyCall
        <4> QED
          BY <2>4, <4>1, <4>2, Zenon
      <3> QED
        BY <3>1, <3>2, Zenon
    <2> QED
      BY <1>8, <2>1, <2>2, <2>3, <2>6, <2>7, Zenon DEF OwnedInv
  <1> QED
    BY <1>5, <1>11, <1>12, <1>13, <1>14, StepKeeps, Zenon

-----------------------------------------------------------------------------
(* The first state, every step, and what the invariant implies.            *)

\* Where a behaviour starts: no call, no generation, and a handle only at epoch 1.
LEMMA InitInv ==
  ASSUME StoreInit
  PROVE  Inv
  <1>1. /\ setup \in Setups /\ epoch \in {0, 1} /\ (epoch = 0 => ~setup.writer)
        /\ committed = epoch /\ rival = 0 /\ bookmark = epoch /\ unasked = {}
        /\ handle = (IF setup.writer THEN [epoch |-> 1, seq |-> 1, fenced |-> FALSE] ELSE NoHandle)
        /\ closing = FALSE /\ openGate = Free /\ retiring = {}
        /\ attached = Stores \ setup.late /\ owners = Cardinality(attached)
        /\ reader = [s \in Stores |-> IF s \in setup.late \/ epoch = 0 THEN NoReader
                                      ELSE [open |-> TRUE, seq |-> 0]]
        /\ lossGen = [s \in Stores |-> 0] /\ ackGen = [s \in Stores |-> 0]
        /\ refreshGate = [s \in Stores |-> Free] /\ op = [t \in Callers |-> NotCalled]
    BY Zenon DEF StoreInit
  <1>2. 0 \in Nat /\ 1 \in Nat /\ 0 <= 0 /\ 0 <= 1 /\ 1 <= 1 /\ 0 # 1
    OBVIOUS
  <1>3. 1 <= MaxSeq /\ 0 <= MaxSeq /\ 1 <= MaxEpoch /\ 0 <= MaxEpoch
    BY StoreAssumption
  <1>4. /\ setup.kind \in [Callers -> Kinds] /\ setup.store \in [Callers -> Stores]
        /\ setup.late \subseteq Stores /\ (setup.writer => setup.late # Stores)
    BY <1>1, StoreAssumption, Zenon
  <1>5. ASSUME NEW s \in Stores
        PROVE  /\ reader[s] \in ReaderStates /\ reader[s].seq = 0 /\ (epoch = 0 => ~reader[s].open)
               /\ lossGen[s] = 0 /\ ackGen[s] = 0
    <2> DEFINE r == [open |-> TRUE, seq |-> 0]
    <2>1. r \in ReaderStates /\ r.seq = 0
      BY <1>2, Zenon DEF ReaderStates
    <2>2. reader[s] = IF s \in setup.late \/ epoch = 0 THEN NoReader ELSE r
      BY <1>1, Zenon
    <2> HIDE DEF r
    <2>3. reader[s] \in ReaderStates /\ reader[s].seq = 0 /\ (epoch = 0 => ~reader[s].open)
      BY <2>1, <2>2, Blanks, Zenon
    <2> QED
      BY <1>1, <2>3, Zenon
  <1>6. \A t \in Callers : op[t] = NotCalled
    BY <1>1, Zenon
  <1>7. handle # NoHandle => /\ setup.writer /\ epoch = 1 /\ handle.epoch = 1 /\ handle.seq = 1
    <2>1. handle # NoHandle => setup.writer /\ handle = [epoch |-> 1, seq |-> 1, fenced |-> FALSE]
      BY <1>1, Zenon
    <2>2. handle # NoHandle => epoch = 1
      BY <1>1, <2>1, Zenon
    <2>3. handle # NoHandle => handle.epoch = 1 /\ handle.seq = 1
      <3> DEFINE h == [epoch |-> 1, seq |-> 1, fenced |-> FALSE]
      <3>1. h.epoch = 1 /\ h.seq = 1 /\ (handle # NoHandle => handle = h)
        BY <2>1, Zenon
      <3> HIDE DEF h
      <3> QED
        BY <3>1, Zenon
    <2> QED
      BY <2>1, <2>2, <2>3, Zenon
  <1>8. Typed
    <2>1. handle \in Handles
      <3> DEFINE h == [epoch |-> 1, seq |-> 1, fenced |-> FALSE]
      <3>1. h \in Handles
        BY <1>2, Zenon DEF Handles
      <3>2. handle = h \/ handle = NoHandle
        BY <1>1, Zenon
      <3> QED
        BY <3>1, <3>2, Blanks, Zenon
    <2>2. /\ reader \in [Stores -> ReaderStates] /\ lossGen \in [Stores -> Nat]
          /\ ackGen \in [Stores -> Nat] /\ refreshGate \in [Stores -> Callers \cup {Free}]
      <3>1. lossGen \in [Stores -> Nat] /\ ackGen \in [Stores -> Nat]
        BY <1>1, <1>2, Zenon
      <3>2. refreshGate \in [Stores -> Callers \cup {Free}]
        BY <1>1, Zenon
      <3>3. reader \in [Stores -> ReaderStates]
        <4>1. reader = [s \in Stores |-> reader[s]]
          BY <1>1, Zenon
        <4> QED
          BY <1>5, <4>1, Zenon
      <3> QED
        BY <3>1, <3>2, <3>3, Zenon
    <2>3. op \in [Callers -> Ops]
      BY <1>1, Blanks, Zenon
    <2>4. attached \subseteq Stores /\ retiring \subseteq Stores /\ unasked \subseteq Stores
      BY <1>1, Zenon
    <2>5. committed \in Nat /\ epoch \in Nat /\ rival \in Nat /\ bookmark \in Nat
      BY <1>1, <1>2, Zenon
    <2> QED
      BY <1>1, <2>1, <2>2, <2>3, <2>4, <2>5, Zenon DEF Typed
  <1>9. Ordered
    <2>1. /\ committed <= MaxSeq /\ epoch <= MaxEpoch /\ rival <= epoch /\ bookmark <= committed
          /\ 0 <= committed
      BY <1>1, <1>2, <1>3, Zenon
    <2>2. OrderedCell
      BY <1>1, <1>5, <2>1, Zenon DEF OrderedCell
    <2>3. OrderedHandle
      BY <1>1, <1>2, <1>7, Zenon DEF OrderedHandle
    <2>4. OrderedStores
      BY <1>2, <1>5, <2>1, Zenon DEF OrderedStores
    <2>5. OrderedCalls
      <3> SUFFICES ASSUME NEW t \in Callers
                   PROVE  /\ op[t].min <= committed /\ op[t].floor <= committed
                          /\ op[t].need <= lossGen[StoreOf(t)]
                          /\ op[t].at = "pulled" => op[t].got <= committed
        BY Zenon DEF OrderedCalls
      <3>1. StoreOf(t) \in Stores
        BY <1>8, SetupTyped, Zenon
      <3>2. lossGen[StoreOf(t)] = 0
        BY <1>5, <3>1, Zenon
      <3>3. op[t].min = 0 /\ op[t].floor = 0 /\ op[t].need = 0 /\ op[t].at # "pulled"
        BY <1>6, Blanks, Zenon
      <3> QED
        BY <1>2, <2>1, <3>2, <3>3, Zenon
    <2> QED
      BY <2>2, <2>3, <2>4, <2>5, Zenon DEF Ordered
  <1>10. OwnedInv
    <2>1. \A t \in Callers : op[t].at = "idle"
      BY <1>6, Blanks, Zenon
    <2>2. attached = {} => handle = NoHandle
      <3>1. attached = {} => setup.late = Stores
        <4> SUFFICES ASSUME attached = {} PROVE Stores \subseteq setup.late
          BY <1>4, Zenon
        <4> QED
          BY <1>1, Zenon
      <3> QED
        BY <1>4, <1>7, <3>1, Zenon
    <2> QED
      BY <1>1, <2>1, <2>2, Zenon DEF OwnedInv
  <1>11. FreshInv
    <2> SUFFICES ASSUME NEW t \in Callers PROVE Mine(t)
      BY Zenon DEF FreshInv
    <2>1. op[t].at = "idle"
      BY <1>6, Blanks, Zenon
    <2>2. /\ op[t].at \notin Fetching \cup {"use"} /\ op[t].at \notin Fetching
          /\ op[t].at \notin {"sequence", "snapshot", "mark", "gate", "install", "drain", "use",
                              "pulled", "done"}
      BY <2>1, Zenon DEF Fetching
    <2> QED
      BY <2>2, Zenon DEF Mine, Shape, StrongInv, CausalInv
  <1> QED
    BY <1>8, <1>9, <1>10, <1>11, Zenon DEF Inv

\* Stuttering.
LEMMA StutterKeeps ==
  ASSUME Inv, UNCHANGED storeVars
  PROVE  Inv'
  <1>1. /\ setup' = setup /\ committed' = committed /\ epoch' = epoch /\ rival' = rival
        /\ handle' = handle /\ closing' = closing /\ owners' = owners /\ openGate' = openGate
        /\ attached' = attached /\ retiring' = retiring /\ reader' = reader /\ lossGen' = lossGen
        /\ ackGen' = ackGen /\ refreshGate' = refreshGate /\ unasked' = unasked /\ op' = op
        /\ bookmark' = bookmark
    BY Zenon DEF storeVars
  <1>2. Typed /\ Ordered /\ OwnedInv
    BY Zenon DEF Inv
  <1>3. Typed'
    BY <1>1, <1>2, Zenon DEF Typed
  <1>4. Ordered'
    BY <1>1, <1>2, Zenon DEF Ordered, OrderedCell, OrderedHandle, OrderedStores, OrderedCalls, StoreOf
  <1>5. OwnersSame /\ ReaderSame
    BY <1>1, Zenon DEF OwnersSame, ReaderSame
  <1>6. OwnedInv'
    <2>1. \A s \in retiring : ~reader'[s].open
      BY <1>1, <1>2, Zenon DEF OwnedInv
    <2> QED
      BY <1>1, <1>2, <1>5, <2>1, OwnedStays, Zenon
  <1>7. HandleStep
    BY <1>1, <1>2, HandleStays, Zenon
  <1>8. World({})
    BY <1>1, <1>2, <1>5, <1>7, WorldOfNone, Zenon
  <1> QED
    BY <1>3, <1>4, <1>6, <1>8, QuietKeeps, Zenon

\* Every step keeps the invariant.
LEMMA NextKeeps ==
  ASSUME Inv, Counted, StoreNext
  PROVE  Inv'
  <1>1. ASSUME NEW t \in Callers, CallStep(t)
        PROVE  Inv'
    BY <1>1, BeginKeeps, DurableSequenceKeeps, SnapshotKeeps, OpenReaderKeeps, LockRefreshKeeps,
       RefreshLoopKeeps, ReadManifestKeeps, RefreshedKeeps, RefreshFailsKeeps, UseReaderKeeps,
       CommitStartsKeeps, BeginGatedKeeps, PromoteLockedKeeps, InstallWriterKeeps, OpenFailsKeeps,
       CheckFenceKeeps, RetireLockedKeeps, RetiredKeeps, CloseStoreKeeps, ReleaseLockedKeeps,
       ReleasedKeeps, Zenon DEF CallStep
  <1>2. ASSUME NEW s \in Stores, Attach(s) \/ ReaderPolls(s)
        PROVE  Inv'
    BY <1>2, AttachKeeps, ReaderPollsKeeps, Zenon
  <1>3. CASE RivalOpens \/ RivalCommits \/ NoticeFence
    BY <1>3, RivalOpensKeeps, RivalCommitsKeeps, NoticeFenceKeeps, Zenon
  <1> QED
    BY <1>1, <1>2, <1>3, Zenon DEF StoreNext

\* The numbers of StoreTypeOK are the ordered ones of the invariant.
LEMMA TypeFollows ==
  ASSUME Inv
  PROVE  StoreTypeOK
  <1>1. Typed /\ Ordered /\ OwnedInv
    BY Zenon DEF Inv
  <1>2. \A m \in Nat : \A n \in Nat : n <= m => n \in 0 .. m
    OBVIOUS
  <1>3. /\ committed \in Nat /\ epoch \in Nat /\ rival \in Nat /\ bookmark \in Nat
        /\ MaxSeq \in Nat /\ MaxEpoch \in Nat
    BY <1>1, StoreAssumption, Zenon DEF Typed
  <1>4. /\ committed \in 0 .. MaxSeq /\ epoch \in 0 .. MaxEpoch /\ rival \in 0 .. epoch
        /\ bookmark \in 0 .. committed
    BY <1>1, <1>2, <1>3, Zenon DEF Ordered, OrderedCell
  <1>5. handle = NoHandle \/ handle \in [epoch : 1 .. epoch, seq : 0 .. committed, fenced : BOOLEAN]
    <2> SUFFICES ASSUME handle # NoHandle
                 PROVE  handle \in [epoch : 1 .. epoch, seq : 0 .. committed, fenced : BOOLEAN]
      BY Zenon
    <2> DEFINE e == handle.epoch
               n == handle.seq
    <2>1. handle \in Handles /\ e \in Nat /\ n \in Nat
      BY <1>1, Zenon DEF Typed, Handles
    <2>2. 1 <= e /\ e <= epoch /\ n <= committed
      BY <1>1, Zenon DEF Ordered, OrderedHandle
    <2>3. e \in 1 .. epoch /\ n \in 0 .. committed
      <3> HIDE DEF e, n
      <3> QED
        BY <1>3, <2>1, <2>2
    <2> QED
      BY <2>1, <2>3, Zenon DEF Handles
  <1>6. reader \in [Stores -> [open : BOOLEAN, seq : 0 .. committed]]
    <2>1. \A s \in Stores : reader[s] \in [open : BOOLEAN, seq : 0 .. committed]
      <3> SUFFICES ASSUME NEW s \in Stores
                   PROVE  reader[s] \in [open : BOOLEAN, seq : 0 .. committed]
        BY Zenon
      <3>1. reader[s] \in ReaderStates /\ reader[s].seq <= committed
        BY <1>1, Zenon DEF Typed, Ordered, OrderedStores
      <3>2. reader[s].seq \in Nat
        BY <3>1, Zenon DEF ReaderStates
      <3>3. reader[s].seq \in 0 .. committed
        BY <1>2, <1>3, <3>1, <3>2, Zenon
      <3> QED
        BY <3>1, <3>3, Zenon DEF ReaderStates
    <2> QED
      BY <1>1, <2>1, Zenon DEF Typed
  <1>7. \A s \in Stores : ackGen[s] \in 0 .. lossGen[s] /\ refreshGate[s] \in Callers \cup {Free}
    BY <1>1, <1>2, Zenon DEF Typed, Ordered, OrderedStores
  <1>8. \A t \in Callers : op[t].at \in Steps /\ op[t].then \in Uses /\ op[t].min \in 0 .. committed
    <2> SUFFICES ASSUME NEW t \in Callers
                 PROVE  op[t].at \in Steps /\ op[t].then \in Uses /\ op[t].min \in 0 .. committed
      BY Zenon
    <2>1. op[t].at \in Steps /\ op[t].then \in Uses /\ op[t].min \in Nat /\ op[t].min <= committed
      BY <1>1, Numbers, Zenon DEF Ordered, OrderedCalls
    <2> QED
      BY <1>2, <1>3, <2>1, Zenon
  <1> QED
    BY <1>1, <1>4, <1>5, <1>6, <1>7, <1>8, Zenon DEF StoreTypeOK, Typed, OwnedInv

\* With no owner and no call under way nobody is left to close the handle, so it
\* is closed.
LEMMA NoneLeft ==
  ASSUME Inv, Counted
  PROVE  NoWriterLeftOpen
  <1> SUFFICES ASSUME owners = 0, \A t \in Callers : Settled(t)
               PROVE  handle = NoHandle /\ ~closing
    BY Zenon DEF NoWriterLeftOpen
  <1>1. Typed /\ OwnedInv
    BY Zenon DEF Inv
  <1>2. attached = {}
    <2>1. attached \in SUBSET Stores /\ Cardinality(attached) = 0
      BY <1>1, Zenon DEF Typed, OwnedInv
    <2> QED
      BY <2>1, Zenon DEF Counted
  <1>3. \A t \in Callers : op[t].at # "drain" /\ ~Closing(t)
    BY Zenon DEF Settled, Closing
  <1> QED
    BY <1>1, <1>2, <1>3, Zenon DEF OwnedInv

\* A call that is done has what it wanted, or is marked stale.
LEMMA FreshFollows ==
  ASSUME Inv
  PROVE  ReadsAreFresh
  <1>1. Typed /\ FreshInv
    BY Zenon DEF Inv
  <1>2. StrongReadIsFresh
    <2> SUFFICES ASSUME NEW t \in Callers, Kind(t) = "strong", op[t].at = "done"
                 PROVE  op[t].got >= op[t].floor
      BY Zenon DEF StrongReadIsFresh
    <2>1. op[t].got >= Want(t)
      BY <1>1, Zenon DEF FreshInv, Mine, StrongInv
    <2>2. Want(t) = op[t].floor
      BY Zenon DEF Want
    <2> QED
      BY <2>1, <2>2, Zenon
  <1>3. BehindOnlyIfUnasked
    <2> SUFFICES ASSUME NEW t \in Callers, op[t].at = "done"
                 PROVE  /\ Kind(t) = "read" /\ op[t].got < op[t].min => op[t].stale
                        /\ Kind(t) = "write" /\ op[t].got < op[t].floor => op[t].stale
      BY Zenon DEF BehindOnlyIfUnasked
    <2>1. Kind(t) \in {"read", "write"} /\ ~op[t].stale => op[t].got >= Want(t)
      BY <1>1, Zenon DEF FreshInv, Mine, CausalInv
    <2>2. /\ Kind(t) = "read" => Want(t) = op[t].min
          /\ Kind(t) = "write" => Want(t) = op[t].floor
      BY Zenon DEF Want
    <2>3. \A m \in Nat : \A n \in Nat : ~(n >= m /\ n < m)
      OBVIOUS
    <2>4. op[t].got \in Nat /\ op[t].min \in Nat /\ op[t].floor \in Nat
      BY <1>1, Numbers, Zenon
    <2> QED
      BY <2>1, <2>2, <2>3, <2>4, Zenon
  <1> QED
    BY <1>2, <1>3, Zenon DEF ReadsAreFresh

-----------------------------------------------------------------------------
(* The theorems.                                                           *)

INSTANCE FiniteSetTheorems

\* The stores of a process are finitely many.
LEMMA CountedHolds == Counted
  <1> SUFFICES ASSUME NEW S \in SUBSET Stores
               PROVE  /\ Cardinality(S) = 0 => S = {}
                      /\ \A s \in Stores :
                            /\ s \notin S => Cardinality(S \cup {s}) = Cardinality(S) + 1
                            /\ s \in S => Cardinality(S \ {s}) = Cardinality(S) - 1
                            /\ s \in S => (S = {s} <=> Cardinality(S) = 1)
    BY Zenon DEF Counted
  <1>1. IsFiniteSet(S)
    BY StoreAssumption, FS_Subset, Zenon
  <1>2. Cardinality(S) = 0 => S = {}
    BY <1>1, FS_EmptySet
  <1>3. ASSUME NEW s \in Stores
        PROVE  /\ s \notin S => Cardinality(S \cup {s}) = Cardinality(S) + 1
               /\ s \in S => Cardinality(S \ {s}) = Cardinality(S) - 1
               /\ s \in S => (S = {s} <=> Cardinality(S) = 1)
    <2>1. s \notin S => Cardinality(S \cup {s}) = Cardinality(S) + 1
      BY <1>1, FS_AddElement
    <2>2. s \in S => Cardinality(S \ {s}) = Cardinality(S) - 1
      BY <1>1, FS_RemoveElement
    <2>3. s \in S => (S = {s} <=> Cardinality(S) = 1)
      <3>1. Cardinality(S) = 1 => \E x : S = {x}
        BY <1>1, FS_Singleton, Zenon
      <3>2. Cardinality({s}) = 1
        BY FS_Singleton, Zenon
      <3> QED
        BY <3>1, <3>2, Zenon
    <2> QED
      BY <2>1, <2>2, <2>3, Zenon
  <1> QED
    BY <1>2, <1>3, Zenon

\* The invariant holds in every state of every behaviour.
LEMMA InvHolds == StoreSpec => []Inv
  <1>1. StoreInit => Inv
    BY InitInv
  <1>2. Inv /\ [StoreNext]_storeVars => Inv'
    BY NextKeeps, StutterKeeps, CountedHolds
  <1> QED
    BY <1>1, <1>2, PTL DEF StoreSpec

\* The writer state is owned by exactly the stores that joined it
\* (ProcessWriterState::owners), and goes with the last of them: however
\* promotions, retirements, failed opens and closes interleave, and whichever
\* store closes last, no writer handle and no closing flag is left behind.
THEOREM WriterIsOwnedTheorem == StoreSpec => []WriterIsOwned
  <1>1. Inv => WriterIsOwned
    BY TypeFollows, NoneLeft, CountedHolds DEF WriterIsOwned
  <1> QED
    BY <1>1, InvHolds, PTL

\* A strong read observes every write that was durable when it was called, and a
\* causal read or a mutation's bookmark falls behind only where the handle was
\* fenced unnoticed or taken from a store that was not asked to refresh: the
\* generation a refresh acknowledges (readable_reader, refresh_durable_reader) is
\* read before the manifest, so no refresh that began too early counts.
THEOREM ReadsAreFreshTheorem == StoreSpec => []ReadsAreFresh
  <1>1. Inv => ReadsAreFresh
    BY FreshFollows
  <1> QED
    BY <1>1, InvHolds, PTL
=============================================================================
