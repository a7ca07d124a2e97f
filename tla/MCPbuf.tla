------------------------------- MODULE MCPbuf -------------------------------
(* TLC instance of Pbuf: scaled-down sizes, negative header moves.         *)
EXTENDS Pbuf

CONSTANTS b1, b2, n1, n2

MCMoves == {-3, -1, 1, 2}
=============================================================================
