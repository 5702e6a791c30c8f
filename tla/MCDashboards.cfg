SPECIFICATION Spec
CONSTANTS
  d1 = d1
  d2 = d2
  t1 = t1
  j1 = j1
  j2 = j2
  r1 = r1
  r2 = r2
  Boards <- MCBoards
  Titles <- MCTitles
  Jobs <- MCJobs
  Requests <- MCRequests
  Limits <- MCLimits
  MaxVersion = 2
  MaxRev = 2
  NoInsight = NoInsight
  NoSnapshot = NoSnapshot
  NoLimit = NoLimit
SYMMETRY Symmetry
INVARIANT OneAnalysis
PROPERTY LimitRespected
PROPERTY ImplementsLog
