CONSTANTS
  Word = 8
  MaxUnread = 5
  Options <- MCOptions
  Scripts <- MCScripts
  PeerScripts <- MCPeerScripts
SPECIFICATION FairSpec
INVARIANT StaleNeverPasses
CHECK_DEADLOCK FALSE
