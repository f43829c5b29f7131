CONSTANTS
  t1 = t1
  t2 = t2
  t3 = t3
  v1 = v1
  v2 = v2
  None = None
  Blank = Blank
  Pairs <- MCPairs
  Values <- MCValues
  MaxCrashes = 2
SPECIFICATION FairSpec
INVARIANTS ResultsMatchActions ArtifactAccountsForPlan
PROPERTIES ResultsStick CompletesUnlessStuck
