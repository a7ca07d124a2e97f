---------------------------- MODULE MCSlotQueue ----------------------------
(* TLC instance of SlotQueue: two callback contexts, a queue of two slots. *)
EXTENDS SlotQueue

CONSTANTS p1, p2
=============================================================================
