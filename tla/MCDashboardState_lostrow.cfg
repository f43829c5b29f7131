CONSTANTS
    s1 = s1
    l1 = l1
    Suites = {s1}
    Labelers = {l1}
    NoOne = NoOne
    MaxCrashes = 0
    MaxPosts = 1
SPECIFICATION Spec
PROPERTY RowsStay
