CONSTANTS
  MaxUnread = 24
  Options <- MCOptions
SPECIFICATION FairSpec
INVARIANTS ResetReleased OneGeneration PasskeyOfThisRun BondPersists PairProven NothingLost
PROPERTY CaptureReturns
CHECK_DEADLOCK FALSE
