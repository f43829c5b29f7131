SPECIFICATION FairSpec
CONSTANTS
    Drivers = {d1, d2}
    NumTrials = 2
    RolloutCap = 3
    MaxCrashes = 2
    MaxLaunchFailures = 1
    None = None
INVARIANTS
    OneRollout
    RolloutIsLedgered
    CompletedOnce
PROPERTIES
    TraceKept
    CompletesUnlessStuck
