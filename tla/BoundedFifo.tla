----------------------------- MODULE BoundedFifo -----------------------------
(***************************************************************************)
(* What osal_msg_queue and the receive ring of the network device promise  *)
(* their users: a first-in first-out queue of at most Cap messages.        *)
(* MsgQueue and NetifBridge implement it.                                  *)
(***************************************************************************)
EXTENDS Integers, Sequences

CONSTANTS Message, Cap, None

VARIABLES contents, last   \* the queue; the message taken last

vars == <<contents, last>>

Init == contents = <<>> /\ last = None

Put(m) == Len(contents) < Cap /\ contents' = Append(contents, m) /\ UNCHANGED last

Get == contents # <<>> /\ last' = Head(contents) /\ contents' = Tail(contents)

Next == (\E m \in Message : Put(m)) \/ Get

Spec == Init /\ [][Next]_vars
=============================================================================
