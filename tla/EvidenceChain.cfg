SPECIFICATION FairSpec
CONSTANTS
  Options <- MCOptions
  Attempts = 2
INVARIANTS
  SummaryBacked
  PublishedBacked
  PublishedProven
  SumsOfOneCollection
  ReceiptProven
PROPERTIES
  CaptureEnds
CHECK_DEADLOCK FALSE
