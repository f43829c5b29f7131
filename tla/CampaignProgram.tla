--------------------------- MODULE CampaignProgram ---------------------------
(***************************************************************************)
(* The locked research program: the decision graph every reader of the     *)
(* campaign ledger consults, and the two questions asked of it.  A program *)
(* is immutable, so its fields are constants.  The operators take the      *)
(* outcome of every study (NoResult while it has no terminal result) and   *)
(* the set of studies that hold a child lock.                              *)
(***************************************************************************)
EXTENDS FiniteSets, Integers

CONSTANTS
    Studies,             \* study ids of the program
    RequiresAll,         \* entry_conditions.requires_all_completed, per study
    RequiresAnyPositive, \* entry_conditions.requires_any_positive, per study
    AllTerminal,         \* gate of the study: all_terminal
    AllActivated,        \* gate: all_activated_terminal and all_activated_discovery_terminal
    LockBefore,          \* gate: lock_before_next_pool_access records
    ProgramCap,          \* program_budget ceilings
    StudyCap,            \* budget ceilings of each study
    HardwareLimit,       \* max_concurrent_hardware_children
    ResultOutcomes       \* bound: the outcomes results are given in an instance

NoResult == "none"

\* The values of OUTCOME_BY_VERDICT.
Outcomes == {"positive", "negative", "inconclusive", "not_applicable", "invalid"}

\* Outcomes that count as a completed study; an invalid one must be revised.
ValidOutcomes == Outcomes \ {"invalid"}

LockRule == [child : Studies, source : Studies, outcome : Outcomes]

\* The six cumulative fields behave alike and are one here; ephemeral_gb is
\* charged only while a reservation is active.
Budget == [cumulative : Nat, ephemeral : Nat]
Fields == {"cumulative", "ephemeral"}
NoUse == [cumulative |-> 0, ephemeral |-> 0]

Within(b, cap) == \A f \in Fields : b[f] <= cap[f]

ASSUME ProgramAssumption ==
    /\ RequiresAll \in [Studies -> SUBSET Studies]
    /\ RequiresAnyPositive \in [Studies -> SUBSET Studies]
    /\ AllTerminal \in [Studies -> SUBSET Studies]
    /\ AllActivated \in [Studies -> SUBSET Studies]
    /\ LockBefore \in [Studies -> SUBSET LockRule]
    /\ ResultOutcomes \subseteq Outcomes

ASSUME ProgramBudgetAssumption ==
    /\ ProgramCap \in Budget
    /\ StudyCap \in [Studies -> Budget]
    /\ HardwareLimit \in Nat

Dependencies(s) == RequiresAll[s] \cup RequiresAnyPositive[s]

BranchActivated(s, outcome) ==
    \/ RequiresAnyPositive[s] = {}
    \/ \E p \in RequiresAnyPositive[s] : outcome[p] = "positive"

EntrySatisfied(s, outcome) ==
    /\ \A p \in RequiresAll[s] : outcome[p] \in ValidOutcomes
    /\ BranchActivated(s, outcome)

\* Fault: the lock_before_next_pool_access rules are not evaluated.
GateOpenWithoutLocks(s, outcome, locked) ==
    /\ \A p \in AllTerminal[s] : outcome[p] # NoResult
    /\ \A p \in AllActivated[s] :
          BranchActivated(p, outcome) => outcome[p] # NoResult

\* Fault: only the lock rules are evaluated, not the terminal results.
GateOpenWithoutResults(s, outcome, locked) ==
    \A rule \in LockBefore[s] :
        outcome[rule.source] = rule.outcome => rule.child \in locked

\* The gate a study's data_scope.requires_gate names; "none" is the gate
\* with three empty sets.
GateOpen(s, outcome, locked) ==
    /\ \A p \in AllTerminal[s] : outcome[p] # NoResult
    /\ \A p \in AllActivated[s] :
          BranchActivated(p, outcome) => outcome[p] # NoResult
    /\ \A rule \in LockBefore[s] :
          outcome[rule.source] = rule.outcome => rule.child \in locked

=============================================================================
