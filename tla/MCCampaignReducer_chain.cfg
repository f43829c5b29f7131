SPECIFICATION Spec
CONSTANTS
    Source = source
    Successor = successor
    Studies = {source, successor}
    Instances = {i1, i2, i3}
    Reservations = {r1, r2, r3}
    Attempts = {a1, a2, a3}
    Trials = {t1}
    LockAudits = {"design"}
    ResultOutcomes = {"positive", "invalid"}
    HardwareLimit = 1
    HardwareKinds = {FALSE}
    MaxLocks = 3
    None = None
    RequiresAll <- ChainRequiresAll
    RequiresAnyPositive <- ChainRequiresAnyPositive
    AllTerminal <- ChainAllTerminal
    AllActivated <- ChainAllActivated
    LockBefore <- ChainLockBefore
    ReservationBudgets <- SmallOnly
    AttemptBudgets <- UseOnly
    ProgramCap <- AmpleCap
    StudyCap <- EveryStudyAmple
SYMMETRY Symmetry
INVARIANTS
    TypeOK
    ResultStandsOnAccess
    ChargedLockIsCurrent
    TerminalOnlyByRelease
    RunsOnCitedPredecessors
PROPERTY ImplementsLifecycle
CHECK_DEADLOCK FALSE
