CONSTANTS
  s1 = s1
  s2 = s2
  s3 = s3
  None = None
  Cut = Cut
  Groups <- MCGroups
  Lengths <- MCLengths
  Forced = FALSE
  MaxCrashes = 1
  MaxIndex = 4
SPECIFICATION FairSpec
PROPERTY SkippedCanBeOpened
