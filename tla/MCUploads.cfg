SPECIFICATION FairSpec
CONSTANTS
  r1 = r1
  r2 = r2
  Requests <- MCRequests
  FileCount = 2
  MaxPosts = 2
  Lifetime = 1
  Slack = 1
  CacheTime = 1
  FaultHorizon = 1
  MaxClock = 2
INVARIANT VerifiedIsReadable
INVARIANT RejectedIsRemoved
INVARIANT BatchSettledTogether
PROPERTY VerdictIsFinal
PROPERTY BatchSettles
