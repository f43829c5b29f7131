---------------------------- MODULE StudyLifecycle ----------------------------
(***************************************************************************)
(* What the campaign ledger promises about studies, with everything the    *)
(* reducer keeps to enforce it left out: no child plans, receipts, audits  *)
(* or attempts.  A study whose entry conditions hold takes a reservation   *)
(* while the program has budget and a hardware slot for it, is locked on   *)
(* one, opens its data pool when its gate is open, and finishes with an    *)
(* outcome, which gives the reservation back.  An invalid outcome takes    *)
(* the lock and the access away, and the study is locked again; a valid    *)
(* one is never replaced.  CampaignReducer implements this specification.  *)
(***************************************************************************)
EXTENDS CampaignProgram, Functions

CONSTANTS
    Reservations,        \* identities of reservations that are active at a time
    ReservationBudgets,  \* budgets a reservation may hold
    HardwareKinds,       \* bound: the values of `hardware` reservations are made with
    None

VARIABLES
    admitted,  \* studies for which a budget reservation was ever accepted
    active,    \* reservations that hold budget, or None
    spent,     \* cumulative resources charged by released reservations
    locked,    \* studies that hold a child lock
    paidBy,    \* the active reservation the lock of a study stands on, or None
    accessed,  \* studies that opened their data pool under the current lock
    outcome    \* terminal outcome of each study, or NoResult

vars == <<admitted, active, spent, locked, paidBy, accessed, outcome>>

-----------------------------------------------------------------------------
(* Types and derived state *)

Reservation == [study : Studies, hardware : BOOLEAN, budget : ReservationBudgets]

TypeOK ==
    /\ admitted \in SUBSET Studies
    /\ active \in [Reservations -> Reservation \cup {None}]
    /\ spent \in Nat
    /\ locked \in SUBSET Studies
    /\ paidBy \in [Studies -> Reservations \cup {None}]
    /\ accessed \in SUBSET Studies
    /\ outcome \in [Studies -> Outcomes \cup {NoResult}]

ASSUME ReservationAssumption ==
    /\ ReservationBudgets \subseteq Budget
    /\ HardwareKinds \subseteq BOOLEAN
    /\ None \notin Reservations
    /\ None \notin Reservation

Active == {r \in Reservations : active[r] # None}
HardwareActive == {r \in Active : active[r].hardware}
Held(f) == SumFunction([r \in Active |-> active[r].budget[f]])

-----------------------------------------------------------------------------
(* Initial state and steps *)

Init ==
    /\ admitted = {}
    /\ active = [r \in Reservations |-> None]
    /\ spent = 0
    /\ locked = {}
    /\ paidBy = [s \in Studies |-> None]
    /\ accessed = {}
    /\ outcome = [s \in Studies |-> NoResult]

\* Cumulative resources stay charged; ephemeral storage is free again on release.
HasRoom(hw, b) ==
    /\ hw => Cardinality(HardwareActive) < HardwareLimit
    /\ spent + Held("cumulative") + b.cumulative <= ProgramCap.cumulative
    /\ Held("ephemeral") + b.ephemeral <= ProgramCap.ephemeral

\* A study may hold several reservations, also when it is locked or finished.
Reserve(r, s, hw, b) ==
    /\ active[r] = None
    /\ EntrySatisfied(s, outcome)
    /\ Within(b, StudyCap[s])
    /\ HasRoom(hw, b)
    /\ admitted' = admitted \cup {s}
    /\ active' = [active EXCEPT ![r] = [study |-> s, hardware |-> hw, budget |-> b]]
    /\ UNCHANGED <<spent, locked, paidBy, accessed, outcome>>

\* Fault: a lock waits for the gate, which waits for the other locks.
LockBehindGate(s, r) ==
    /\ s \notin locked
    /\ GateOpen(s, outcome, locked)
    /\ active[r] # None
    /\ active[r].study = s
    /\ locked' = locked \cup {s}
    /\ paidBy' = [paidBy EXCEPT ![s] = r]
    /\ UNCHANGED <<admitted, active, spent, accessed, outcome>>

\* A child plan of the study is locked; entry is not checked again.
Lock(s, r) ==
    /\ s \notin locked
    /\ active[r] # None
    /\ active[r].study = s
    /\ locked' = locked \cup {s}
    /\ paidBy' = [paidBy EXCEPT ![s] = r]
    /\ UNCHANGED <<admitted, active, spent, accessed, outcome>>

\* Nothing checks that the reservation a child is locked on is still active.
LockReleased(s) ==
    /\ s \notin locked
    /\ outcome[s] # NoResult
    /\ locked' = locked \cup {s}
    /\ UNCHANGED <<admitted, active, spent, paidBy, accessed, outcome>>

\* The preflight checks the reservation of the lock and, like the access, the gate.
Access(s) ==
    /\ paidBy[s] # None
    /\ GateOpen(s, outcome, locked)
    /\ accessed' = accessed \cup {s}
    /\ UNCHANGED <<admitted, active, spent, locked, paidBy, outcome>>

\* Fault: a result is accepted for a study that already finished.
FinishAgain(s, o, r) ==
    /\ s \in accessed
    /\ active[r] # None
    /\ active[r].study = s
    /\ \E use \in 0..active[r].budget.cumulative : spent' = spent + use
    /\ active' = [active EXCEPT ![r] = None]
    /\ paidBy' = [paidBy EXCEPT ![s] = None]
    /\ outcome' = [outcome EXCEPT ![s] = o]
    /\ IF o = "invalid"
       THEN /\ locked' = locked \ {s}
            /\ accessed' = accessed \ {s}
       ELSE UNCHANGED <<locked, accessed>>
    /\ UNCHANGED admitted

\* The reservation of the lock is released with a result of the study.
Finish(s, o, r) ==
    /\ s \in accessed
    /\ outcome[s] \notin ValidOutcomes
    /\ paidBy[s] = r
    /\ \E use \in 0..active[r].budget.cumulative : spent' = spent + use
    /\ active' = [active EXCEPT ![r] = None]
    /\ paidBy' = [paidBy EXCEPT ![s] = None]
    /\ outcome' = [outcome EXCEPT ![s] = o]
    /\ IF o = "invalid"
       THEN /\ locked' = locked \ {s}
            /\ accessed' = accessed \ {s}
       ELSE UNCHANGED <<locked, accessed>>
    /\ UNCHANGED admitted

Next ==
    \E s \in Studies :
        \/ \E r \in Reservations :
              \/ \E hw \in HardwareKinds, b \in ReservationBudgets : Reserve(r, s, hw, b)
              \/ Lock(s, r)
              \/ \E o \in ResultOutcomes : Finish(s, o, r)
        \/ LockReleased(s)
        \/ Access(s)

Spec == Init /\ [][Next]_vars

-----------------------------------------------------------------------------
(* Safety *)

\* Entry conditions that admitted a study never lapse.  The lock, the data
\* access and the attempts of a study rely on this: only the reservation and
\* the preflight evaluate them.
EntryNeverLapses == \A s \in admitted : EntrySatisfied(s, outcome)

\* A study that opened its pool still holds the lock it opened it under, and
\* every study that was ever locked was admitted.
AccessHoldsLock ==
    /\ accessed \subseteq locked
    /\ locked \subseteq admitted

\* A valid result is final: no later event of any study replaces or removes it,
\* so a successor locked on it keeps its predecessor.
ValidResultIsFinal ==
    [][\A s \in Studies : outcome[s] \in ValidOutcomes => outcome'[s] = outcome[s]]_vars

=============================================================================
