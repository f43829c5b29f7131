SPECIFICATION Spec
CONSTANTS
    Source = source
    Successor = successor
    Studies = {source, successor}
    Instances = {i1, i2}
    Reservations = {r1, r2, r3}
    Attempts = {a1, a2}
    Trials = {t1}
    LockAudits = {"design"}
    ResultOutcomes = {"positive"}
    HardwareLimit = 2
    HardwareKinds = {TRUE}
    MaxLocks = 2
    None = None
    RequiresAll <- Free
    RequiresAnyPositive <- Free
    AllTerminal <- Free
    AllActivated <- Free
    LockBefore <- Free
    ReservationBudgets <- SmallOrLarge
    AttemptBudgets <- UseOrNothing
    ProgramCap <- TightCap
    StudyCap <- EveryStudyAmple
SYMMETRY Symmetry
INVARIANTS
    AttemptsWithinReservation
    TrialHistoryPreserved
PROPERTY ImplementsBudget
CHECK_DEADLOCK FALSE
