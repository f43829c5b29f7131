--------------------------- MODULE MCStudyLifecycle ---------------------------
(***************************************************************************)
(* StudyLifecycle on the decision graph of                                 *)
(* configs/campaigns/rq024_controlled_scene_to_behavior.yaml.  Each .cfg   *)
(* picks some of its studies; a rule about a study left out is dropped     *)
(* with it.  RELIABILITY-DESIGN and the two rollout studies are leaves     *)
(* that no gate names, and are left out of every instance.                 *)
(***************************************************************************)
EXTENDS StudyLifecycle

CONSTANTS
    Picked,     \* the studies of the instance
    OnHardware  \* those whose agents always reserve with `hardware`

Foundation == "foundation"
GeometryDiscovery == "geometry_discovery"
BindingDiscovery == "binding_discovery"
SemanticDiscovery == "semantic_discovery"
GeometryConfirmation == "geometry_confirmation"
BindingConfirmation == "binding_confirmation"
GeometryInternal == "geometry_internal_discovery"
BindingInternal == "binding_internal_discovery"
GeometryCausal == "geometry_causal_discovery"
BindingCausal == "binding_causal_discovery"
SemanticConfirmation == "semantic_confirmation"
GeometryCausalConfirmation == "geometry_causal_confirmation"
BindingCausalConfirmation == "binding_causal_confirmation"

\* requires_all_completed of each study.
Sources(s) ==
    CASE s \in {GeometryDiscovery, BindingDiscovery} -> {Foundation}
      [] s = GeometryConfirmation -> {GeometryDiscovery}
      [] s = BindingConfirmation -> {BindingDiscovery}
      [] s = SemanticDiscovery -> {GeometryDiscovery, BindingDiscovery}
      [] s = GeometryInternal -> {GeometryConfirmation}
      [] s = BindingInternal -> {BindingConfirmation}
      [] s = GeometryCausal -> {GeometryInternal}
      [] s = BindingCausal -> {BindingInternal}
      [] s = SemanticConfirmation -> {SemanticDiscovery}
      [] s = GeometryCausalConfirmation -> {GeometryCausal}
      [] s = BindingCausalConfirmation -> {BindingCausal}
      [] OTHER -> {}

BehaviorConfirmations == {GeometryConfirmation, BindingConfirmation}
CausalDiscoveries == {GeometryCausal, BindingCausal}
InternalStudies == {GeometryInternal, BindingInternal} \cup CausalDiscoveries
PhaseTwo ==
    {SemanticConfirmation, GeometryCausalConfirmation, BindingCausalConfirmation}

\* An instance has the three behavior discoveries, and with a study its sources.
ASSUME PickedAssumption ==
    /\ {GeometryDiscovery, BindingDiscovery, SemanticDiscovery} \subseteq Picked
    /\ \A s \in Picked : Sources(s) \subseteq Picked

\* One lock_before_next_pool_access record per confirmation, keyed by its source.
LockRules(confirmations) ==
    {[child |-> c, source |-> CHOOSE p \in Sources(c) : TRUE, outcome |-> "positive"] :
        c \in confirmations \cap Picked}

\* A study with one source repeats it in requires_any_positive;
\* SEMANTIC-DISCOVERY requires no positive result.
MCStudies == Picked
MCRequiresAll == [s \in Picked |-> Sources(s) \cap Picked]
MCRequiresAnyPositive ==
    [s \in Picked |-> IF s = SemanticDiscovery THEN {} ELSE Sources(s) \cap Picked]
MCAllTerminal ==
    [s \in Picked |-> IF s \in BehaviorConfirmations
                      THEN {GeometryDiscovery, BindingDiscovery, SemanticDiscovery}
                      ELSE {}]
MCAllActivated ==
    [s \in Picked |-> IF s \in InternalStudies THEN BehaviorConfirmations \cap Picked
                      ELSE IF s \in PhaseTwo THEN CausalDiscoveries \cap Picked
                      ELSE {}]
MCLockBefore ==
    [s \in Picked |-> IF s \in BehaviorConfirmations THEN LockRules(BehaviorConfirmations)
                      ELSE IF s \in PhaseTwo THEN LockRules(PhaseTwo)
                      ELSE {}]

\* The confirmation t was activated by its source, and was never locked.
ActivatedUnlocked(t) ==
    /\ BranchActivated(t, outcome)
    /\ t \notin locked
    /\ outcome[t] = NoResult

\* discovery_sealed: before the first behavior-confirmation pool is opened, every
\* confirmation activated by a positive behavior discovery is locked.  A discovery
\* that finishes, or is revised, after the gate opened must not activate another.
DiscoverySealed ==
    \A s \in BehaviorConfirmations \cap Picked : s \in accessed =>
        \A t \in BehaviorConfirmations \cap Picked : ~ActivatedUnlocked(t)

\* behavior_results_sealed: internal work reads discovery pools only when every
\* behavior confirmation that will ever be activated has its result.
BehaviorSealed ==
    \A s \in InternalStudies \cap Picked : s \in accessed =>
        \A t \in BehaviorConfirmations \cap Picked :
            BranchActivated(t, outcome) => outcome[t] # NoResult

\* phase_two_locked: all activated semantic and causal confirmations are locked
\* before any of them opens its confirmation pool.
PhaseTwoLockedTogether ==
    \A s \in PhaseTwo \cap Picked : s \in accessed =>
        \A t \in PhaseTwo \cap Picked : ~ActivatedUnlocked(t)

-----------------------------------------------------------------------------
(* Liveness.  The ledger refuses events and asks for none, so what happens  *)
(* next is up to the agents.  Of them the fairness assumes the least that   *)
(* lets a campaign end: while a study without reservation or lock can be    *)
(* reserved, or some study can be locked or open its pool, one of these     *)
(* events is appended; and results do not stay invalid for ever.            *)

NoCap == [s \in Picked |-> ProgramCap]
OneStorageUnit == {[cumulative |-> 0, ephemeral |-> 1]}
StorageForTwo == [cumulative |-> 0, ephemeral |-> 2]
StorageForThree == [cumulative |-> 0, ephemeral |-> 3]

\* Nothing was begun for the study, or its last result was invalid.
Idle(s) ==
    /\ s \notin locked
    /\ \A r \in Active : active[r].study # s

\* A study's agents make its reservations for the hardware or not, as it needs.
ReserveAsNeeded(s) ==
    \E r \in Reservations, b \in ReservationBudgets : Reserve(r, s, s \in OnHardware, b)

Fairness ==
    /\ WF_vars(\E s \in Studies :
            \/ Idle(s) /\ ReserveAsNeeded(s)
            \/ \E r \in Reservations : Lock(s, r)
            \/ Access(s) /\ s \notin accessed)
    /\ SF_vars(\E s \in Studies, r \in Reservations, o \in ResultOutcomes \cap ValidOutcomes :
            Finish(s, o, r))

FairSpec == Spec /\ Fairness

\* The study was locked again on the reservation of its invalid result, and can
\* neither be authorized nor locked on another one.
LockedInVain(s) == s \in locked /\ paidBy[s] = None /\ outcome[s] = "invalid"

\* The study could begin, had the program a hardware slot and budget for it.
Starved(s) ==
    /\ Idle(s)
    /\ EntrySatisfied(s, outcome)
    /\ \A b \in ReservationBudgets : ~HasRoom(s \in OnHardware, b)

\* A reservation made for a study that has its valid result is never released.
FinishedHoldsRoom == \E r \in Active : outcome[active[r].study] \in ValidOutcomes

\* A reservation is not released before its study passes its gate.
GateHoldsRoom == \E r \in Active : ~GateOpen(active[r].study, outcome, locked)

\* No gate waits for a study that waits for it: every study whose entry
\* conditions hold ends with a valid result, but for two dead ends the handlers
\* leave open.  A study may be locked in vain; and a study may lack the hardware
\* slot or the budget that is held where no result releases it, by a finished
\* study or by one that waits at its gate, perhaps for the very lock of the first.
EveryEntryFinishes ==
    \/ \A s \in Studies : EntrySatisfied(s, outcome) ~> outcome[s] \in ValidOutcomes
    \/ <>[](\E s \in Studies :
               \/ LockedInVain(s)
               \/ Starved(s) /\ (FinishedHoldsRoom \/ GateHoldsRoom))

=============================================================================
