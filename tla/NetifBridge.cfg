CONSTANTS
  u1 = u1
  u2 = u2
  Users = {u1, u2}
  RxDepth = 3
  MaxFrames = 5
SPECIFICATION Spec
SYMMETRY UserSymmetry
INVARIANTS
  BridgeSound
PROPERTIES
  ImplementsFifo
