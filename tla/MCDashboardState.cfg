CONSTANTS
    s1 = s1
    l1 = l1
    Suites = {s1}
    Labelers = {l1}
    NoOne = NoOne
    MaxCrashes = 1
    MaxPosts = 1
SPECIFICATION Spec
INVARIANTS TypeOK SignatureVouches ReadYourWrites
PROPERTIES LockedSavesKeepRows CatchesUp
