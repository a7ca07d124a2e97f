CONSTANTS
  Depth = 1
  Budget = 2
  Window = 1
  CounterMod = 2
  MaxEvents = 3
  MaxFrames = 2
  MaxPollFailures = 1
SPECIFICATION RPFairSpec
INVARIANT PollSound
PROPERTY EventsConsumed
