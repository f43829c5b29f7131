------------------------ MODULE StudyLifecycle_proofs ------------------------
(***************************************************************************)
(* Theorems about StudyLifecycle: for every program graph, and about the   *)
(* seals of the decision graph of RQ-024.                                  *)
(***************************************************************************)
EXTENDS MCStudyLifecycle, TLAPS

\* The lock of a study stands on a reservation of its own, while that is active.
LockIsPaid ==
    \A s \in Studies : paidBy[s] # None =>
        /\ s \in locked
        /\ active[paidBy[s]] # None
        /\ active[paidBy[s]].study = s

\* Reservations and results are made for admitted studies only.
OnlyAdmitted ==
    /\ \A r \in Active : active[r].study \in admitted
    /\ \A s \in Studies : outcome[s] # NoResult => s \in admitted

\* The inductive invariant.  Entry is stable only because the outcomes entry
\* reads are valid, and a valid outcome is never replaced; AccessHoldsLock is
\* what keeps an invalid result from leaving access behind.
LifecycleInvariant ==
    /\ TypeOK
    /\ LockIsPaid
    /\ OnlyAdmitted
    /\ AccessHoldsLock
    /\ EntryNeverLapses

\* A step that keeps every valid outcome keeps every satisfied entry condition
\* (_entry_is_satisfied of research_state.py).
LEMMA EntryStable ==
    ASSUME NEW s \in Studies, NEW before, NEW after,
           EntrySatisfied(s, before),
           \A p \in Studies : before[p] \in ValidOutcomes => after[p] = before[p]
    PROVE  EntrySatisfied(s, after)
<1>1. RequiresAll[s] \subseteq Studies /\ RequiresAnyPositive[s] \subseteq Studies
  BY ProgramAssumption
<1>2. \A p \in RequiresAll[s] : after[p] \in ValidOutcomes
  BY <1>1 DEF EntrySatisfied
<1>3. BranchActivated(s, after)
  <2>1. CASE RequiresAnyPositive[s] = {}
    BY <2>1 DEF BranchActivated
  <2>2. CASE RequiresAnyPositive[s] # {}
    <3>1. PICK p \in RequiresAnyPositive[s] : before[p] = "positive"
      BY <2>2 DEF EntrySatisfied, BranchActivated
    <3>2. before[p] \in ValidOutcomes
      BY <3>1 DEF ValidOutcomes, Outcomes
    <3>3. after[p] = "positive"
      BY <1>1, <3>1, <3>2
    <3>. QED BY <3>3 DEF BranchActivated
  <2>. QED BY <2>1, <2>2
<1>. QED BY <1>2, <1>3 DEF EntrySatisfied

\* The steps that give no result.
Quiet ==
    \E s \in Studies :
        \/ \E r \in Reservations :
              \/ \E hw \in HardwareKinds, b \in ReservationBudgets : Reserve(r, s, hw, b)
              \/ Lock(s, r)
        \/ LockReleased(s)
        \/ Access(s)

\* No event replaces a valid outcome: the step form of ValidResultIsFinal.
LEMMA ValidOutcomeKept ==
    ASSUME TypeOK, [Next]_vars
    PROVE  \A p \in Studies : outcome[p] \in ValidOutcomes => outcome'[p] = outcome[p]
<1>1. SUFFICES ASSUME NEW p \in Studies, outcome[p] \in ValidOutcomes
               PROVE  outcome'[p] = outcome[p]
  OBVIOUS
<1>2. Quiet => outcome'[p] = outcome[p]
  BY DEF Quiet, Reserve, Lock, LockReleased, Access
<1>3. ASSUME NEW s \in Studies, NEW o \in ResultOutcomes, NEW r \in Reservations, Finish(s, o, r)
      PROVE  outcome'[p] = outcome[p]
  BY <1>1, <1>3 DEF Finish, TypeOK
<1>4. CASE UNCHANGED vars
  BY <1>4 DEF vars
<1>. QED BY <1>2, <1>3, <1>4 DEF Next, Quiet

\* No study has begun.
LEMMA LifecycleInit == Init => LifecycleInvariant
<1>1. Init => Active = {}
  BY DEF Init, Active
<1>. QED
  BY <1>1 DEF Init, LifecycleInvariant, TypeOK, LockIsPaid, OnlyAdmitted, AccessHoldsLock,
              EntryNeverLapses

\* A reservation is added for a study that is entitled to it (_apply_budget_reserved).
LEMMA ReserveKeeps ==
    ASSUME LifecycleInvariant, NEW r \in Reservations, NEW s \in Studies, NEW hw \in HardwareKinds,
           NEW b \in ReservationBudgets, Reserve(r, s, hw, b)
    PROVE  LifecycleInvariant'
<1>. DEFINE new == [study |-> s, hardware |-> hw, budget |-> b]
<1>1. new \in Reservation /\ new # None
  BY ReservationAssumption DEF Reservation
<1>2. /\ active[r] = None
      /\ active' = [active EXCEPT ![r] = new]
      /\ active'[r] = new
      /\ new.study = s
      /\ \A q \in Reservations : q # r => active'[q] = active[q]
      /\ EntrySatisfied(s, outcome)
      /\ admitted' = admitted \cup {s}
      /\ UNCHANGED <<spent, locked, paidBy, accessed, outcome>>
  BY DEF Reserve, LifecycleInvariant, TypeOK
<1>. HIDE DEF new
<1>3. TypeOK'
  BY <1>1, <1>2 DEF LifecycleInvariant, TypeOK
<1>4. LockIsPaid'
  <2>1. ASSUME NEW x \in Studies, paidBy[x] # None
        PROVE  /\ x \in locked
               /\ active'[paidBy[x]] # None
               /\ active'[paidBy[x]].study = x
    BY <1>2, <2>1 DEF LifecycleInvariant, TypeOK, LockIsPaid
  <2>. QED BY <1>2, <2>1 DEF LockIsPaid
<1>5. OnlyAdmitted'
  BY <1>1, <1>2 DEF LifecycleInvariant, OnlyAdmitted, Active
<1>6. AccessHoldsLock' /\ EntryNeverLapses'
  BY <1>2 DEF LifecycleInvariant, AccessHoldsLock, EntryNeverLapses
<1>. QED BY <1>3, <1>4, <1>5, <1>6 DEF LifecycleInvariant

\* A lock is taken by an admitted study, on an active reservation or on one that
\* was released with its invalid result (_apply_child_locked).
LEMMA LockKeeps ==
    ASSUME LifecycleInvariant, NEW s \in Studies,
           LockReleased(s) \/ \E r \in Reservations : Lock(s, r)
    PROVE  LifecycleInvariant'
<1>. USE DEF LifecycleInvariant
<1>1. /\ s \in admitted
      /\ locked' = locked \cup {s}
      /\ UNCHANGED <<admitted, active, spent, accessed, outcome>>
  BY DEF Lock, LockReleased, OnlyAdmitted, Active
<1>2. paidBy' \in [Studies -> Reservations \cup {None}]
  BY DEF Lock, LockReleased, TypeOK
<1>3. LockIsPaid'
  <2>1. CASE LockReleased(s)
    BY <2>1 DEF LockReleased, LockIsPaid
  <2>2. ASSUME NEW r \in Reservations, Lock(s, r)
        PROVE  LockIsPaid'
    BY <2>2 DEF Lock, LockIsPaid, TypeOK
  <2>. QED BY <2>1, <2>2
<1>4. TypeOK' /\ OnlyAdmitted' /\ AccessHoldsLock' /\ EntryNeverLapses'
  BY <1>1, <1>2 DEF TypeOK, OnlyAdmitted, Active, AccessHoldsLock, EntryNeverLapses
<1>. QED BY <1>3, <1>4

\* Access is taken under a paid lock (_apply_pool_accessed).
LEMMA AccessKeeps ==
    ASSUME LifecycleInvariant, NEW s \in Studies, Access(s)
    PROVE  LifecycleInvariant'
<1>. USE DEF LifecycleInvariant
<1>1. s \in locked
  BY DEF Access, LockIsPaid
<1>2. accessed' = accessed \cup {s} /\ UNCHANGED <<admitted, active, spent, locked, paidBy, outcome>>
  BY DEF Access
<1>. QED
  BY <1>1, <1>2 DEF TypeOK, LockIsPaid, OnlyAdmitted, Active, AccessHoldsLock, EntryNeverLapses

\* A result gives the reservation of the lock back, and no other lock stands on
\* it (_apply_budget_released).
LEMMA FinishKeeps ==
    ASSUME LifecycleInvariant, NEW s \in Studies, NEW o \in ResultOutcomes, NEW r \in Reservations,
           Finish(s, o, r), \A x \in Studies : EntrySatisfied(x, outcome) => EntrySatisfied(x, outcome')
    PROVE  LifecycleInvariant'
<1>. USE DEF LifecycleInvariant
<1>1. /\ s \in accessed
      /\ paidBy[s] = r
      /\ active' = [active EXCEPT ![r] = None]
      /\ paidBy' = [paidBy EXCEPT ![s] = None]
      /\ outcome' = [outcome EXCEPT ![s] = o]
      /\ admitted' = admitted
  BY DEF Finish
<1>2. \/ o = "invalid" /\ locked' = locked \ {s} /\ accessed' = accessed \ {s}
      \/ UNCHANGED <<locked, accessed>>
  BY DEF Finish
<1>3. r # None /\ active[r] # None /\ active[r].study = s
  BY <1>1, ReservationAssumption DEF LockIsPaid
<1>4. TypeOK'
  <2>1. active[r].budget.cumulative \in Nat
    BY <1>3, ReservationAssumption DEF TypeOK, Reservation, Budget
  <2>2. spent' \in Nat
    BY <2>1 DEF Finish, TypeOK
  <2>. QED BY <1>1, <1>2, <2>2, ProgramAssumption DEF TypeOK
<1>5. LockIsPaid'
  <2>1. ASSUME NEW x \in Studies, paidBy'[x] # None
        PROVE  /\ x \in locked'
               /\ active'[paidBy'[x]] # None
               /\ active'[paidBy'[x]].study = x
    <3>1. x # s /\ paidBy'[x] = paidBy[x] /\ paidBy[x] \in Reservations
      BY <1>1, <2>1 DEF TypeOK
    <3>2. x \in locked /\ active[paidBy[x]] # None /\ active[paidBy[x]].study = x
      BY <2>1, <3>1 DEF LockIsPaid
    <3>3. paidBy[x] # r
      BY <1>3, <3>1, <3>2
    <3>. QED BY <1>1, <1>2, <3>1, <3>2, <3>3 DEF TypeOK
  <2>. QED BY <2>1 DEF LockIsPaid
<1>6. OnlyAdmitted'
  BY <1>1 DEF OnlyAdmitted, AccessHoldsLock, Active, TypeOK
<1>7. AccessHoldsLock' /\ EntryNeverLapses'
  BY <1>1, <1>2 DEF AccessHoldsLock, EntryNeverLapses, TypeOK
<1>. QED BY <1>4, <1>5, <1>6, <1>7

\* The invariant is inductive over the steps of a study.
LEMMA LifecycleStep == LifecycleInvariant /\ [Next]_vars => LifecycleInvariant'
<1>1. SUFFICES ASSUME LifecycleInvariant, [Next]_vars
               PROVE  LifecycleInvariant'
  OBVIOUS
<1>2. \A p \in Studies : outcome[p] \in ValidOutcomes => outcome'[p] = outcome[p]
  BY <1>1, ValidOutcomeKept DEF LifecycleInvariant
<1>3. \A s \in Studies : EntrySatisfied(s, outcome) => EntrySatisfied(s, outcome')
  BY <1>2, EntryStable, Zenon
<1>4. CASE UNCHANGED vars
  BY <1>1, <1>4 DEF vars, LifecycleInvariant, TypeOK, LockIsPaid, OnlyAdmitted, Active,
                    AccessHoldsLock, EntryNeverLapses
<1>. QED
  BY <1>1, <1>3, <1>4, ReserveKeeps, LockKeeps, AccessKeeps, FinishKeeps DEF Next

\* What studies have begun is typed, entitled and held in order.
THEOREM LifecycleInvariantHolds == Spec => []LifecycleInvariant
BY LifecycleInit, LifecycleStep, PTL DEF Spec

\* Every state of the study lifecycle is well typed.
THEOREM LifecycleTypeCorrect == Spec => []TypeOK
<1>1. LifecycleInvariant => TypeOK
  BY DEF LifecycleInvariant
<1>. QED BY <1>1, LifecycleInvariantHolds, PTL

\* A study admitted by budget_reserved keeps its entry conditions for ever, so
\* child_locked and pool_accessed need not evaluate them again.
THEOREM EntryNeverLapsesHolds == Spec => []EntryNeverLapses
<1>1. LifecycleInvariant => EntryNeverLapses
  BY DEF LifecycleInvariant
<1>. QED BY <1>1, LifecycleInvariantHolds, PTL

\* Pool access is never held without the child lock, nor a lock without admission.
THEOREM AccessHoldsLockHolds == Spec => []AccessHoldsLock
<1>1. LifecycleInvariant => AccessHoldsLock
  BY DEF LifecycleInvariant
<1>. QED BY <1>1, LifecycleInvariantHolds, PTL

\* No event, of this or another study, replaces a valid result.
THEOREM ValidResultIsFinalHolds == Spec => ValidResultIsFinal
<1>1. LifecycleInvariant /\ [Next]_vars =>
        [\A s \in Studies : outcome[s] \in ValidOutcomes => outcome'[s] = outcome[s]]_vars
  BY ValidOutcomeKept DEF LifecycleInvariant
<1>. QED BY <1>1, LifecycleInvariantHolds, PTL DEF Spec, ValidResultIsFinal

-----------------------------------------------------------------------------
(* The seals of the RQ-024 graph                                           *)

\* The program is the decision graph MCStudyLifecycle writes down.
Rq024Graph ==
    /\ Studies = MCStudies
    /\ RequiresAll = MCRequiresAll
    /\ RequiresAnyPositive = MCRequiresAnyPositive
    /\ AllTerminal = MCAllTerminal
    /\ AllActivated = MCAllActivated
    /\ LockBefore = MCLockBefore

DiscoveriesValid ==
    /\ outcome[GeometryDiscovery] \in ValidOutcomes
    /\ outcome[BindingDiscovery] \in ValidOutcomes

\* Once a behavior confirmation has read its pool, both discoveries that can
\* activate one are valid, and so final: its gate waits for SEMANTIC-DISCOVERY,
\* which is admitted only on valid results of the two.
DiscoveriesSettled ==
    \A s \in BehaviorConfirmations \cap Picked :
        s \in accessed \/ outcome[s] # NoResult => DiscoveriesValid

SealInvariant ==
    /\ LifecycleInvariant
    /\ DiscoveriesSettled
    /\ DiscoverySealed
    /\ BehaviorSealed

\* The edges of the graph the two gates depend on.
LEMMA Edges ==
    /\ Sources(SemanticDiscovery) = {GeometryDiscovery, BindingDiscovery}
    /\ Sources(GeometryConfirmation) = {GeometryDiscovery}
    /\ Sources(BindingConfirmation) = {BindingDiscovery}
    /\ Sources(GeometryInternal) = {GeometryConfirmation}
    /\ Sources(BindingInternal) = {BindingConfirmation}
    /\ Sources(GeometryCausal) = {GeometryInternal}
    /\ Sources(BindingCausal) = {BindingInternal}
BY DEF Sources, Foundation, GeometryDiscovery, BindingDiscovery, SemanticDiscovery,
   GeometryConfirmation, BindingConfirmation, GeometryInternal, BindingInternal,
   GeometryCausal, BindingCausal, SemanticConfirmation, GeometryCausalConfirmation,
   BindingCausalConfirmation

\* A behavior confirmation has one source, which activates it and whose positive
\* result asks for its lock at the gate of either.
LEMMA ConfirmationSource ==
    ASSUME Rq024Graph, NEW t \in BehaviorConfirmations \cap Picked
    PROVE  \E p \in {GeometryDiscovery, BindingDiscovery} :
              /\ p \in Picked
              /\ RequiresAnyPositive[t] = {p}
              /\ \A s \in BehaviorConfirmations \cap Picked :
                    [child |-> t, source |-> p, outcome |-> "positive"] \in LockBefore[s]
<1>1. PICK p \in {GeometryDiscovery, BindingDiscovery} : Sources(t) = {p}
  BY Edges DEF BehaviorConfirmations
<1>2. t \in Picked /\ p \in Picked
  BY <1>1, PickedAssumption
<1>3. t # SemanticDiscovery
  BY DEF BehaviorConfirmations, GeometryConfirmation, BindingConfirmation, SemanticDiscovery
<1>4. RequiresAnyPositive[t] = {p}
  BY <1>1, <1>2, <1>3 DEF Rq024Graph, MCRequiresAnyPositive
<1>5. (CHOOSE q \in Sources(t) : TRUE) = p
  BY <1>1
<1>6. [child |-> t, source |-> p, outcome |-> "positive"] \in LockRules(BehaviorConfirmations)
  BY <1>5 DEF LockRules
<1>7. ASSUME NEW s \in BehaviorConfirmations \cap Picked
      PROVE  LockBefore[s] = LockRules(BehaviorConfirmations)
  BY <1>7 DEF Rq024Graph, MCLockBefore
<1>. QED BY <1>1, <1>2, <1>4, <1>6, <1>7

\* The gate discovery_sealed waits for the three discoveries.
LEMMA ConfirmationGate ==
    ASSUME Rq024Graph, NEW s \in BehaviorConfirmations \cap Picked,
           GateOpen(s, outcome, locked)
    PROVE  outcome[SemanticDiscovery] # NoResult
<1>1. SemanticDiscovery \in AllTerminal[s]
  BY DEF Rq024Graph, MCAllTerminal
<1>. QED BY <1>1 DEF GateOpen

\* A result of SEMANTIC-DISCOVERY, valid or not, stands on both discoveries.
LEMMA SemanticStandsOnDiscoveries ==
    ASSUME Rq024Graph, LifecycleInvariant,
           outcome[SemanticDiscovery] # NoResult
    PROVE  DiscoveriesValid
<1>1. /\ SemanticDiscovery \in Studies /\ SemanticDiscovery \in Picked
      /\ {GeometryDiscovery, BindingDiscovery} \subseteq Picked
  BY PickedAssumption DEF Rq024Graph, MCStudies
<1>2. EntrySatisfied(SemanticDiscovery, outcome)
  BY <1>1 DEF LifecycleInvariant, OnlyAdmitted, EntryNeverLapses
<1>3. Sources(SemanticDiscovery) = {GeometryDiscovery, BindingDiscovery}
  BY Edges
<1>4. RequiresAll[SemanticDiscovery] = {GeometryDiscovery, BindingDiscovery}
  BY <1>1, <1>3 DEF Rq024Graph, MCRequiresAll
<1>. QED BY <1>2, <1>4 DEF EntrySatisfied, DiscoveriesValid

\* An internal study that was admitted stands on a confirmation, directly or
\* through the internal study before it, and so on both discoveries.
LEMMA InternalStandsOnDiscoveries ==
    ASSUME Rq024Graph, LifecycleInvariant, DiscoveriesSettled,
           NEW s \in InternalStudies \cap Picked, s \in admitted
    PROVE  DiscoveriesValid
<1>1. ASSUME NEW x \in Picked, x \in admitted
      PROVE  \A p \in Sources(x) : p \in Picked /\ outcome[p] \in ValidOutcomes
  <2>1. Sources(x) \subseteq Picked /\ x \in Studies
    BY <1>1, PickedAssumption DEF Rq024Graph, MCStudies
  <2>2. RequiresAll[x] = Sources(x)
    BY <1>1, <2>1 DEF Rq024Graph, MCRequiresAll
  <2>3. EntrySatisfied(x, outcome)
    BY <1>1, <2>1 DEF LifecycleInvariant, EntryNeverLapses
  <2>. QED BY <2>1, <2>2, <2>3 DEF EntrySatisfied
<1>2. ASSUME NEW x \in Picked, outcome[x] \in ValidOutcomes PROVE x \in admitted
  BY <1>2 DEF Rq024Graph, MCStudies, LifecycleInvariant, OnlyAdmitted, ValidOutcomes, Outcomes, NoResult
<1>3. ASSUME NEW x \in {GeometryInternal, BindingInternal} \cap Picked, x \in admitted
      PROVE  DiscoveriesValid
  <2>1. PICK c \in BehaviorConfirmations : Sources(x) = {c}
    BY Edges DEF BehaviorConfirmations
  <2>2. c \in Picked /\ outcome[c] \in ValidOutcomes
    BY <1>1, <1>3, <2>1
  <2>3. outcome[c] # NoResult
    BY <2>2 DEF ValidOutcomes, Outcomes, NoResult
  <2>. QED BY <2>1, <2>2, <2>3 DEF DiscoveriesSettled
<1>4. CASE s \in {GeometryInternal, BindingInternal}
  BY <1>3, <1>4
<1>5. CASE s \in CausalDiscoveries
  <2>1. PICK x \in {GeometryInternal, BindingInternal} : Sources(s) = {x}
    BY <1>5, Edges DEF CausalDiscoveries
  <2>2. x \in Picked /\ x \in admitted
    BY <1>1, <1>2, <2>1
  <2>. QED BY <1>3, <2>1, <2>2
<1>. QED BY <1>4, <1>5 DEF InternalStudies

\* With both discoveries valid, no step activates a behavior confirmation.
LEMMA ActivationFixed ==
    ASSUME Rq024Graph, LifecycleInvariant, [Next]_vars, DiscoveriesValid,
           NEW t \in BehaviorConfirmations \cap Picked
    PROVE  /\ DiscoveriesValid'
           /\ BranchActivated(t, outcome') <=> BranchActivated(t, outcome)
<1>1. PICK p \in {GeometryDiscovery, BindingDiscovery} : RequiresAnyPositive[t] = {p}
  BY ConfirmationSource
<1>2. \A q \in {GeometryDiscovery, BindingDiscovery} : outcome'[q] = outcome[q]
  BY ValidOutcomeKept, PickedAssumption DEF LifecycleInvariant, DiscoveriesValid,
     Rq024Graph, MCStudies
<1>. QED BY <1>1, <1>2 DEF BranchActivated, DiscoveriesValid

\* A result may be revised, and is never withdrawn.
LEMMA ResultsStay ==
    ASSUME LifecycleInvariant, [Next]_vars, NEW s \in Studies, outcome[s] # NoResult
    PROVE  outcome'[s] # NoResult
<1>1. ASSUME NEW x \in Studies, NEW o \in ResultOutcomes, NEW r \in Reservations, Finish(x, o, r)
      PROVE  outcome'[s] # NoResult
  BY <1>1, ProgramAssumption DEF Finish, LifecycleInvariant, TypeOK, Outcomes, NoResult
<1>2. ASSUME Quiet
      PROVE  outcome'[s] # NoResult
  BY <1>2 DEF Quiet, Reserve, Lock, LockReleased, Access
<1>. QED BY <1>1, <1>2 DEF Next, vars, Quiet

\* A lock is given up only by a result.
LEMMA LocksStay ==
    ASSUME LifecycleInvariant, [Next]_vars, NEW s \in Studies, s \in locked
    PROVE  s \in locked' \/ outcome'[s] # NoResult
<1>1. ASSUME NEW x \in Studies, NEW o \in ResultOutcomes, NEW r \in Reservations, Finish(x, o, r)
      PROVE  s \in locked' \/ outcome'[s] # NoResult
  BY <1>1, ProgramAssumption DEF Finish, LifecycleInvariant, TypeOK, Outcomes, NoResult
<1>2. ASSUME Quiet
      PROVE  s \in locked'
  BY <1>2 DEF Quiet, Reserve, Lock, LockReleased, Access
<1>. QED BY <1>1, <1>2 DEF Next, vars, Quiet

\* Access is new only to the study that takes the step, through its gate.
LEMMA AccessThroughGate ==
    ASSUME LifecycleInvariant, [Next]_vars, NEW s \in Studies,
           s \in accessed', s \notin accessed
    PROVE  s \in locked /\ GateOpen(s, outcome, locked) /\ UNCHANGED <<locked, outcome>>
<1>1. ASSUME NEW x \in Studies, NEW o \in ResultOutcomes, NEW r \in Reservations, Finish(x, o, r)
      PROVE  FALSE
  BY <1>1 DEF Finish
<1>2. ASSUME NEW x \in Studies, Access(x)
      PROVE  s \in locked /\ GateOpen(s, outcome, locked) /\ UNCHANGED <<locked, outcome>>
  BY <1>2 DEF Access, LifecycleInvariant, LockIsPaid
<1>. QED BY <1>1, <1>2 DEF Next, vars, Reserve, Lock, LockReleased

\* A first result is given to a study that has access.
LEMMA ResultNeedsAccess ==
    ASSUME LifecycleInvariant, [Next]_vars, NEW s \in Studies,
           outcome'[s] # NoResult, outcome[s] = NoResult
    PROVE  s \in accessed
<1>1. ASSUME NEW x \in Studies, NEW o \in ResultOutcomes, NEW r \in Reservations, Finish(x, o, r)
      PROVE  s \in accessed
  BY <1>1 DEF Finish, LifecycleInvariant, TypeOK
<1>. QED BY <1>1 DEF Next, vars, Reserve, Lock, LockReleased, Access

LEMMA SealInit ==
    ASSUME Rq024Graph, Init
    PROVE  SealInvariant
<1>1. LifecycleInvariant
  BY LifecycleInit
<1>2. Picked = Studies /\ BehaviorConfirmations \cap Picked \subseteq Studies
  BY DEF Rq024Graph, MCStudies
<1>. QED BY <1>1, <1>2 DEF Init, SealInvariant, DiscoveriesSettled,
            DiscoverySealed, BehaviorSealed

LEMMA SealStep ==
    ASSUME Rq024Graph, SealInvariant, [Next]_vars
    PROVE  SealInvariant'
<1>. USE DEF SealInvariant
<1>1. LifecycleInvariant'
  BY LifecycleStep
<1>2. Studies = Picked
  BY DEF Rq024Graph, MCStudies
<1>4. ASSUME NEW s \in BehaviorConfirmations \cap Picked,
             s \in accessed' \/ outcome'[s] # NoResult
      PROVE  DiscoveriesValid
  <2>1. CASE s \in accessed \/ outcome[s] # NoResult
    BY <2>1 DEF DiscoveriesSettled
  <2>2. CASE s \notin accessed /\ outcome[s] = NoResult
    <3>1. s \in accessed'
      BY <1>2, <1>4, <2>2, ResultNeedsAccess
    <3>2. GateOpen(s, outcome, locked)
      BY <1>2, <2>2, <3>1, AccessThroughGate
    <3>. QED BY <3>2, ConfirmationGate, SemanticStandsOnDiscoveries
  <2>. QED BY <2>1, <2>2
<1>5. DiscoveriesSettled'
  BY <1>4, ActivationFixed DEF DiscoveriesSettled
<1>6. ASSUME NEW s \in BehaviorConfirmations \cap Picked, s \in accessed',
             NEW t \in BehaviorConfirmations \cap Picked,
             BranchActivated(t, outcome'), outcome'[t] = NoResult
      PROVE  t \in locked'
  <2>1. BranchActivated(t, outcome)
    BY <1>4, <1>6, ActivationFixed
  <2>2. outcome[t] = NoResult
    BY <1>2, <1>6, ResultsStay
  <2>3. t \in locked
    <3>1. CASE s \in accessed
      BY <2>1, <2>2, <3>1 DEF DiscoverySealed, ActivatedUnlocked
    <3>2. CASE s \notin accessed
      <4>1. GateOpen(s, outcome, locked)
        BY <1>2, <1>6, <3>2, AccessThroughGate
      <4>2. PICK p \in {GeometryDiscovery, BindingDiscovery} :
              /\ RequiresAnyPositive[t] = {p}
              /\ [child |-> t, source |-> p, outcome |-> "positive"] \in LockBefore[s]
        BY ConfirmationSource
      <4>3. outcome[p] = "positive"
        BY <2>1, <4>2 DEF BranchActivated
      <4>. QED BY <4>1, <4>2, <4>3 DEF GateOpen
    <3>. QED BY <3>1, <3>2
  <2>. QED BY <1>2, <1>6, <2>3, LocksStay
<1>7. DiscoverySealed'
  BY <1>6 DEF DiscoverySealed, ActivatedUnlocked
<1>8. ASSUME NEW s \in InternalStudies \cap Picked, s \in accessed',
             NEW t \in BehaviorConfirmations \cap Picked,
             BranchActivated(t, outcome')
      PROVE  outcome'[t] # NoResult
  <2>1. s \in admitted
    BY <1>2, <1>8, AccessThroughGate DEF LifecycleInvariant, AccessHoldsLock
  <2>2. BranchActivated(t, outcome)
    BY <1>8, <2>1, InternalStandsOnDiscoveries, ActivationFixed
  <2>3. outcome[t] # NoResult
    <3>1. CASE s \in accessed
      BY <2>2, <3>1 DEF BehaviorSealed
    <3>2. CASE s \notin accessed
      <4>1. GateOpen(s, outcome, locked)
        BY <1>2, <1>8, <3>2, AccessThroughGate
      <4>2. t \in AllActivated[s]
        BY DEF Rq024Graph, MCAllActivated
      <4>. QED BY <2>2, <4>1, <4>2 DEF GateOpen
    <3>. QED BY <3>1, <3>2
  <2>. QED BY <1>2, <2>3, ResultsStay
<1>9. BehaviorSealed'
  BY <1>8 DEF BehaviorSealed
<1>. QED BY <1>1, <1>5, <1>7, <1>9

\* On the RQ-024 graph, with any of its studies left out that no other needs and
\* for any outcomes: what the two gates seal stays sealed.
THEOREM SealInvariantHolds ==
    ASSUME Rq024Graph
    PROVE  Spec => []SealInvariant
<1>1. Init => SealInvariant
  BY SealInit
<1>2. SealInvariant /\ [Next]_vars => SealInvariant'
  BY SealStep
<1>. QED BY <1>1, <1>2, PTL DEF Spec

\* discovery_sealed (rq024_controlled_scene_to_behavior.yaml): no behavior
\* confirmation is activated without a lock after one has opened its pool,
\* although the gate is evaluated only at that moment.
THEOREM DiscoverySealedHolds ==
    ASSUME Rq024Graph
    PROVE  Spec => []DiscoverySealed
<1>1. SealInvariant => DiscoverySealed
  BY DEF SealInvariant
<1>. QED BY <1>1, SealInvariantHolds, PTL

\* behavior_results_sealed: internal work never reads a discovery pool while a
\* behavior confirmation that is, or will be, activated has no result.
THEOREM BehaviorSealedHolds ==
    ASSUME Rq024Graph
    PROVE  Spec => []BehaviorSealed
<1>1. SealInvariant => BehaviorSealed
  BY DEF SealInvariant
<1>. QED BY <1>1, SealInvariantHolds, PTL

=============================================================================
