---------------------------- MODULE CampaignBudget ----------------------------
(***************************************************************************)
(* What the campaign ledger promises about resources: a reservation holds  *)
(* its whole budget until it is released, a release charges at most what   *)
(* was held, and holding never passes a program ceiling.  Whose budget is  *)
(* held is left out.  CampaignReducer implements this specification.       *)
(***************************************************************************)
EXTENDS Integers

CONSTANTS
    ReservationBudgets,  \* budgets a reservation may hold
    ProgramCap,          \* program_budget ceilings
    HardwareLimit        \* max_concurrent_hardware_children

Budget == [cumulative : Nat, ephemeral : Nat]

VARIABLES
    charged,  \* resources charged by released reservations
    held,     \* resources held by active reservations
    hardware  \* active reservations of hardware children

vars == <<charged, held, hardware>>

TypeOK ==
    /\ charged \in Budget
    /\ held \in Budget
    /\ hardware \in Nat

Init ==
    /\ charged = [cumulative |-> 0, ephemeral |-> 0]
    /\ held = charged
    /\ hardware = 0

Plus(a, b) == [cumulative |-> a.cumulative + b.cumulative, ephemeral |-> a.ephemeral + b.ephemeral]
Minus(a, b) == [cumulative |-> a.cumulative - b.cumulative, ephemeral |-> a.ephemeral - b.ephemeral]
UpTo(b) == [cumulative : 0..b.cumulative, ephemeral : 0..b.ephemeral]

\* Cumulative resources stay charged; ephemeral storage is free again on release.
Hold(b, isHardware) ==
    /\ charged.cumulative + held.cumulative + b.cumulative <= ProgramCap.cumulative
    /\ held.ephemeral + b.ephemeral <= ProgramCap.ephemeral
    /\ isHardware => hardware < HardwareLimit
    /\ held' = Plus(held, b)
    /\ hardware' = IF isHardware THEN hardware + 1 ELSE hardware
    /\ UNCHANGED charged

Release(b, use, isHardware) ==
    /\ b \in UpTo(held)
    /\ isHardware => hardware > 0
    /\ held' = Minus(held, b)
    /\ charged' = Plus(charged, use)
    /\ hardware' = IF isHardware THEN hardware - 1 ELSE hardware

Next ==
    \E b \in ReservationBudgets, isHardware \in BOOLEAN :
        \/ Hold(b, isHardware)
        \/ \E use \in UpTo(b) : Release(b, use, isHardware)

Spec == Init /\ [][Next]_vars

\* What was charged and what is still held never pass the program's ceilings.
WithinCap ==
    /\ charged.cumulative + held.cumulative <= ProgramCap.cumulative
    /\ held.ephemeral <= ProgramCap.ephemeral
    /\ hardware <= HardwareLimit

\* A charge is never taken back.
ChargesOnlyGrow ==
    [][/\ charged.cumulative <= charged'.cumulative
       /\ charged.ephemeral <= charged'.ephemeral]_vars

=============================================================================
