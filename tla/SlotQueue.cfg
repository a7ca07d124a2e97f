CONSTANTS
  p1 = p1
  p2 = p2
  Producers = {p1, p2}
  Depth = 2
  SeqMod = 4
  MaxCalls = 6
  MaxRejects = 1
SPECIFICATION FairSpec
INVARIANTS
  SlotOwnership
  NoTornMessage
  MessagesAccounted
  OldestOfSnapshot
PROPERTY EventuallyDelivered
