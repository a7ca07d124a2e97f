--------------------------- MODULE MCTimerService ---------------------------
(* TLC instance of TimerService.                                           *)
EXTENDS TimerService

CONSTANTS t1, t2, w1, w2

(* The first timer is armed again, in its slot or in a second one; the     *)
(* other one competes for the slots.                                       *)
OwnArms == [t \in Timers |-> IF t = t1 THEN 2 ELSE 0]
=============================================================================
