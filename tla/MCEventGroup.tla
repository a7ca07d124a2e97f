---------------------------- MODULE MCEventGroup ----------------------------
(* Small instances of EventGroup: readers whose calls overlap on a bit,    *)
(* consume it, or need both.                                               *)
EXTENDS EventGroup

CONSTANTS r1, r2, r3

Any == [mask |-> {0, 1}, all |-> FALSE, clr |-> FALSE]
TakeAny == [mask |-> {1}, all |-> FALSE, clr |-> TRUE]
TakeAll == [mask |-> {0, 1}, all |-> TRUE, clr |-> TRUE]

(* Threads that wait in their own ways, two of them in competition for a   *)
(* bit.                                                                    *)
OwnRequest ==
  [r \in Readers |-> IF r = r1 THEN {TakeAny, Any} ELSE IF r = r2 THEN {TakeAll} ELSE {Any}]
=============================================================================
