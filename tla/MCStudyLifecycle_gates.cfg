SPECIFICATION FairSpec
CONSTANTS
    Picked = {"foundation", "geometry_discovery", "binding_discovery", "semantic_discovery", "geometry_confirmation", "binding_confirmation", "geometry_internal_discovery"}
    ResultOutcomes = {"positive", "negative", "invalid"}
    OnHardware = {"foundation", "geometry_confirmation", "binding_confirmation"}
    Reservations = {r1, r2}
    HardwareKinds = {TRUE, FALSE}
    ProgramCap <- StorageForTwo
    HardwareLimit = 1
    None = None
    ReservationBudgets <- OneStorageUnit
    StudyCap <- NoCap
    Studies <- MCStudies
    RequiresAll <- MCRequiresAll
    RequiresAnyPositive <- MCRequiresAnyPositive
    AllTerminal <- MCAllTerminal
    AllActivated <- MCAllActivated
    LockBefore <- MCLockBefore
INVARIANTS
    EntryNeverLapses
    DiscoverySealed
    BehaviorSealed
PROPERTIES
    ValidResultIsFinal
    EveryEntryFinishes
CHECK_DEADLOCK FALSE
