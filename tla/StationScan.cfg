CONSTANTS
  MAX_SCAN_RESULTS = 1
  SCAN_EVENT_QUEUE_DEPTH = 2
  MaxEmitted = 2
  MaxScans = 2
  OddResults = 1
  MaxFailures = 1
SPECIFICATION FairSpec
INVARIANT ScanSound
PROPERTY ScansEnd
