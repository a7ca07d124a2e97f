CONSTANTS
  Word = 8
  MaxUnread = 5
  Options <- MCOptions
  Scripts <- MCScripts
  PeerScripts <- MCPeerScripts
SPECIFICATION FairSpec
INVARIANTS FreshLog ContractProven SummaryFaithful ExitHonest
PROPERTY CaptureReturns
CHECK_DEADLOCK FALSE
