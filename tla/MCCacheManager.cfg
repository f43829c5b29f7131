CONSTANTS
    w1 = w1
    w2 = w2
    Workers = {w1, w2}
    Pruner = Pruner
    NoOne = NoOne
    MaxSource = 1
    MaxBuilds = 3
    MaxTouches = 1
    MaxCrashes = 2
SPECIFICATION Spec
SYMMETRY Symmetry
INVARIANTS TypeOK FreshRead BuildsOnce
PROPERTIES ImplementsCopy
