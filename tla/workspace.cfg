SPECIFICATION Spec
CONSTANTS
  Home <- MCHome
  Alias <- MCAlias
  Places <- MCPlaces
  Data <- MCData
  MaxLinks = 3
  Skipped <- MCSkipped
  OnlyName = "x"
  Repo <- MCRepo
  Names <- MCNames
  InitAuthor = {}
  Outside <- MCOutside
  Requests <- MCRequests
  Writes <- MCWrites
  Deletes <- MCDeletes
  LinkPlace <- MCLinkPlace
  Targets <- MCTargets
  Scheme = "https"
  Auth <- MCAuth
  CommitCalls <- MCCommitCalls
  Samples <- MCSamples
  Origin <- MCOrigin
  PeerTree <- MCPeerTree
  MaxCommits = 2
CHECK_DEADLOCK FALSE
INVARIANTS TreeOK CallsAgree GrepAgrees  CommitRetries PushSafe
PROPERTY OutsideUntouched
