CONSTANTS
  s1 = s1
  s2 = s2
  s3 = s3
  None = None
  Cut = Cut
  Groups <- MCGroups
  Lengths <- MCLengths
  Forced = FALSE
  MaxCrashes = 3
  MaxIndex = 5
SPECIFICATION FairSpec
INVARIANTS ReferencesLead
PROPERTIES SkippedAreWhole ReferencesStay CapturedUnlessStuck
