--------------------------- MODULE MCNetifBridge ---------------------------
(* TLC instance of NetifBridge.                                            *)
EXTENDS NetifBridge, TLC

CONSTANTS u1, u2

UserSymmetry == Permutations(Users)
=============================================================================
