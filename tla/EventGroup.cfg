CONSTANTS
  r1 = r1
  r2 = r2
  r3 = r3
  Readers = {r1, r2, r3}
  Writers = {w1}
  Bits = {0, 1}
  Requests <- OwnRequest
  Masks = {{0}, {1}}
  MAX_EVENT_WAITERS = 2
  Timeouts = {r1}
  MaxWrites = 3
  Nobody = Nobody
  Dead = Dead
SPECIFICATION EGFairSpec
INVARIANTS WakesOrAbandons ReadersAccounted
PROPERTY ReaderReleased
