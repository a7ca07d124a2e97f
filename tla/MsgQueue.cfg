CONSTANTS
  cap = 3
  MaxWrites = 8
  MaxReaders = 3
  MaxUpFailures = 1
SPECIFICATION FairSpec
INVARIANTS
  NeverEmptyAfterDown
PROPERTIES
  ImplementsFifo
  ReaderServed
