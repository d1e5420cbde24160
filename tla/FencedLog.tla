----------------------------- MODULE FencedLog -----------------------------
(***************************************************************************)
(* What the storage of one cell promises, whoever asks to write: every     *)
(* opening of the writer takes a new epoch, and only the process that took *)
(* the latest epoch appends to the log.  CellWriter, with its leases,      *)
(* placement answers, cancelled requests and late openers, implements it.  *)
(***************************************************************************)
EXTENDS Naturals, Sequences

CONSTANT Procs

VARIABLES
  openers,  \* openers[e] took epoch e
  log       \* the commits, each with its process and epoch

TakeEpoch(p) ==
  /\ openers' = Append(openers, p)
  /\ UNCHANGED log

Append1(p) ==
  /\ openers # <<>> /\ openers[Len(openers)] = p
  /\ log' = Append(log, [proc |-> p, epoch |-> Len(openers)])
  /\ UNCHANGED openers

Init == openers = <<>> /\ log = <<>>

Next == \E p \in Procs : TakeEpoch(p) \/ Append1(p)

Spec == Init /\ [][Next]_<<openers, log>>
=============================================================================
