CONSTANTS
  b1 = b1
  b2 = b2
  n1 = n1
  n2 = n2
  Bufs = {b1, b2}
  Netifs = {n1, n2}
  U16 = 16
  Hdr = 2
  Reserve = 2
  Tailroom = 1
  Pad = 1
  MTU = 3
  Lengths = {0, 6, 11}
  Moves <- MCMoves
  CounterMod = 2
SPECIFICATION PbFairSpec
INVARIANTS
  RefCountExact
  PayloadInside
PROPERTY EventuallyFreed
