SPECIFICATION Spec
CONSTANTS
    Picked = {"foundation", "geometry_discovery", "binding_discovery", "semantic_discovery", "geometry_confirmation", "binding_confirmation", "geometry_internal_discovery", "binding_internal_discovery", "geometry_causal_discovery", "binding_causal_discovery", "semantic_confirmation", "geometry_causal_confirmation", "binding_causal_confirmation"}
    ResultOutcomes = {"positive"}
    OnHardware = {}
    Reservations = {r1, r2, r3}
    HardwareKinds = {FALSE}
    ProgramCap <- StorageForThree
    HardwareLimit = 1
    None = None
    ReservationBudgets <- OneStorageUnit
    StudyCap <- NoCap
    Studies <- MCStudies
    RequiresAll <- MCRequiresAll
    RequiresAnyPositive <- MCRequiresAnyPositive
    AllTerminal <- MCAllTerminal
    AllActivated <- MCAllActivated
    LockBefore <- MCLockBefore
INVARIANT PhaseTwoLockedTogether
CHECK_DEADLOCK FALSE
