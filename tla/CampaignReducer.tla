--------------------------- MODULE CampaignReducer ---------------------------
(***************************************************************************)
(* The campaign state that research_state.py derives from the event        *)
(* ledger, one action per event type.  Any agent may append any event the  *)
(* reducer accepts: nothing here follows the advised order.                *)
(*                                                                         *)
(* Events are accepted with verify_artifacts, the mode the event script    *)
(* uses, so the fields a loaded child, lock receipt or preflight snapshot  *)
(* must agree on are guards.  Fields that only identify a document (hashes,*)
(* paths, fingerprints) are abstracted to the identity of what they name:  *)
(* a study instance stands for its child plan, a position of lockLog for   *)
(* an accepted child_locked event and its receipt, a reservation for the   *)
(* one result accounted against it.  Events that only extend the ledger    *)
(* (deviation_recorded, study_advanced, study_superseded, blocker_recorded *)
(* and an audit that did not pass cleanly) change none of these variables. *)
(***************************************************************************)
EXTENDS CampaignProgram, Functions, Sequences

CONSTANTS
    Instances,         \* study_instance_id values, one child plan each
    Reservations,      \* reservation_id values
    Attempts,          \* attempt_id values
    Trials,            \* trial_id values
    LockAudits,        \* BASE_LOCK_AUDITS and the study's required_audits
    ReservationBudgets,\* budgets a child plan may declare
    AttemptBudgets,    \* budgets an attempt may request or use
    HardwareKinds,     \* bound: the values of `hardware` reservations are made with
    MaxLocks,          \* bound: child_locked events per behaviour
    None

ASSUME BudgetAssumption ==
    /\ ReservationBudgets \subseteq Budget
    /\ AttemptBudgets \subseteq Budget
    /\ HardwareKinds \subseteq BOOLEAN
    /\ MaxLocks \in Nat
    /\ IsFiniteSet(Attempts) /\ IsFiniteSet(Reservations)

VARIABLES
    programLocked, \* program_locked
    prepared,      \* prepared: the child plan of each study instance
    audits,        \* audits: clean passing audits, by type and subject
    reservations,  \* reservations
    released,      \* released_reservations
    spent,         \* spent
    lockLog,       \* the accepted child_locked events, oldest first
    locked,        \* locked: position in lockLog of each study's lock, or 0
    authorized,    \* authorizations: position of the cited lock, or 0
    accessed,      \* keys of pool_access
    attempts,      \* open_attempts and closed_attempts
    recorded,      \* recorded_results
    used,          \* budget_used of the result accounted to each reservation
    terminal,      \* terminal_results
    written        \* children whose claimed output directory holds outputs

planVars == <<programLocked, prepared, audits>>
budgetVars == <<reservations, released, spent, used>>
lockVars == <<lockLog, locked, authorized, accessed>>
runVars == <<attempts, written>>
resultVars == <<recorded, terminal>>
vars == <<planVars, budgetVars, lockVars, runVars, resultVars>>

-----------------------------------------------------------------------------
(* Types *)

ChildPlan == [study : Studies, budget : ReservationBudgets,
              predecessors : SUBSET Reservations]
Reservation == [instance : Instances, study : Studies, hardware : BOOLEAN,
                budget : ReservationBudgets]
LockEvent == [study : Studies, instance : Instances, reservation : Reservations]
Attempt == [status : {"open", "completed", "failed"}, reservation : Reservations,
            trial : Trials, ordinal : Nat \ {0}, requested : AttemptBudgets,
            actual : AttemptBudgets \cup {NoUse}]
Result == [reservation : Reservations, outcome : ResultOutcomes]
Audit == [type : LockAudits, subject : Instances] \cup [type : {"result"}, subject : Nat]

Hold == [study : Studies, hardware : BOOLEAN, budget : ReservationBudgets]

ASSUME NoneAssumption ==
    /\ None \notin Reservations
    /\ None \notin Hold
    /\ None \notin ChildPlan
    /\ None \notin Reservation
    /\ None \notin Attempt
    /\ None \notin Result

LockIds == 0..Len(lockLog)

ControlTypeOK ==
    /\ programLocked \in BOOLEAN
    /\ prepared \in [Instances -> ChildPlan \cup {None}]
    /\ audits \in SUBSET Audit
    /\ reservations \in [Reservations -> Reservation \cup {None}]
    /\ released \in SUBSET Reservations
    /\ lockLog \in Seq(LockEvent)
    /\ locked \in [Studies -> LockIds]
    /\ authorized \in [Studies -> LockIds]
    /\ accessed \in SUBSET Studies
    /\ attempts \in [Attempts -> Attempt \cup {None}]
    /\ recorded \in [Studies -> Result \cup {None}]
    /\ terminal \in [Studies -> Result \cup {None}]
    /\ written \in SUBSET Instances

TypeOK ==
    /\ ControlTypeOK
    /\ spent \in Budget
    /\ used \in [Reservations -> Budget]

-----------------------------------------------------------------------------
(* Derived state *)

Outcome == [s \in Studies |-> IF terminal[s] = None THEN NoResult ELSE terminal[s].outcome]
LockedStudies == {s \in Studies : locked[s] # 0}

\* The results a child of study s must name: the terminal results of its
\* dependencies at this moment, an invalid one included.
PredecessorResults(s) ==
    {terminal[p].reservation : p \in {d \in Dependencies(s) : terminal[d] # None}}

Active == {r \in Reservations : reservations[r] # None /\ r \notin released}
ReservedTotal(f) == SumFunction([r \in Active |-> reservations[r].budget[f]])

AttemptsOf(r) == {a \in Attempts : attempts[a] # None /\ attempts[a].reservation = r}
OpenAttempts(r) == {a \in AttemptsOf(r) : attempts[a].status = "open"}
ClosedAttempts(r) == AttemptsOf(r) \ OpenAttempts(r)
TrialAttempts(r, t) == {a \in AttemptsOf(r) : attempts[a].trial = t}

\* An open attempt commits what it requested, a closed one what it used.
Commitment(r, f, excluded) ==
    SumFunction([a \in AttemptsOf(r) \ excluded |->
                    IF attempts[a].status = "open" THEN attempts[a].requested[f]
                                                   ELSE attempts[a].actual[f]])
UsedBy(r) ==
    [f \in Fields |-> SumFunction([a \in ClosedAttempts(r) |-> attempts[a].actual[f]])]

-----------------------------------------------------------------------------
(* Initial state and events *)

Init ==
    /\ programLocked = FALSE
    /\ prepared = [i \in Instances |-> None]
    /\ audits = {}
    /\ reservations = [r \in Reservations |-> None]
    /\ released = {}
    /\ spent = NoUse
    /\ lockLog = <<>>
    /\ locked = [s \in Studies |-> 0]
    /\ authorized = [s \in Studies |-> 0]
    /\ accessed = {}
    /\ attempts = [a \in Attempts |-> None]
    /\ recorded = [s \in Studies |-> None]
    /\ used = [r \in Reservations |-> NoUse]
    /\ terminal = [s \in Studies |-> None]
    /\ written = {}

ProgramLocked ==
    /\ ~programLocked
    /\ programLocked' = TRUE
    /\ UNCHANGED <<budgetVars, lockVars, runVars, resultVars, prepared, audits>>

\* The child names the predecessor results known when it is prepared, an invalid
\* one included; nothing checks them yet.
ChildPrepared(i, s, b) ==
    /\ prepared[i] = None
    /\ prepared' = [prepared EXCEPT ![i] =
          [study |-> s, budget |-> b, predecessors |-> PredecessorResults(s)]]
    /\ UNCHANGED <<budgetVars, lockVars, runVars, resultVars, programLocked, audits>>

\* Fault: what released reservations spent is forgotten.
BudgetAvailableUnspent(b) ==
    /\ ReservedTotal("cumulative") + b.cumulative <= ProgramCap.cumulative
    /\ ReservedTotal("ephemeral") + b.ephemeral <= ProgramCap.ephemeral

BudgetAvailable(b) ==
    /\ spent.cumulative + ReservedTotal("cumulative") + b.cumulative <= ProgramCap.cumulative
    /\ ReservedTotal("ephemeral") + b.ephemeral <= ProgramCap.ephemeral

\* Fault: a reservation needs no satisfied entry condition once one exists.
MayReserveAnyway(s) ==
    Active # {} \/ EntrySatisfied(s, Outcome)

MayReserve(s) == EntrySatisfied(s, Outcome)

HardwareActive == {r \in Active : reservations[r].hardware}

\* A study may hold several reservations, also when it is locked or terminal.
BudgetReserved(r, i, hw, b) ==
    /\ reservations[r] = None
    /\ prepared[i] # None
    /\ MayReserve(prepared[i].study)
    /\ Within(b, StudyCap[prepared[i].study])
    /\ hw => Cardinality(HardwareActive) < HardwareLimit
    /\ BudgetAvailable(b)
    /\ reservations' = [reservations EXCEPT ![r] =
          [instance |-> i, study |-> prepared[i].study, hardware |-> hw, budget |-> b]]
    /\ UNCHANGED <<planVars, lockVars, runVars, resultVars, released, spent, used>>

\* An audit that warns or fails can be cited by no other event, so only the
\* clean passing ones are kept.
AuditCompleted(audit) ==
    /\ audits' = audits \cup {audit}
    /\ UNCHANGED <<budgetVars, lockVars, runVars, resultVars, programLocked, prepared>>

\* A child must cite one result event per predecessor study, whether or not the
\* branch of every requires_any_positive predecessor was ever activated.
CitesEveryPredecessor(s, predecessors) ==
    Cardinality(predecessors) = Cardinality(Dependencies(s))

\* Fault: a study may be locked again while it holds a lock.
ChildLockedAgain(r) ==
    /\ Len(lockLog) < MaxLocks
    /\ reservations[r] # None
    /\ LET s == reservations[r].study
           i == reservations[r].instance
       IN /\ \A type \in LockAudits : [type |-> type, subject |-> i] \in audits
          /\ CitesEveryPredecessor(s, prepared[i].predecessors)
          /\ reservations[r].budget = prepared[i].budget
          /\ lockLog' = Append(lockLog, [study |-> s, instance |-> i, reservation |-> r])
          /\ locked' = [locked EXCEPT ![s] = Len(lockLog) + 1]
    /\ UNCHANGED <<planVars, budgetVars, runVars, resultVars, authorized, accessed>>

\* Checked are neither the entry conditions, nor the release of the reservation,
\* nor which results the child document cites.
ChildLocked(r) ==
    /\ Len(lockLog) < MaxLocks
    /\ reservations[r] # None
    /\ LET s == reservations[r].study
           i == reservations[r].instance
       IN /\ locked[s] = 0
          /\ \A type \in LockAudits : [type |-> type, subject |-> i] \in audits
          /\ CitesEveryPredecessor(s, prepared[i].predecessors)
          /\ reservations[r].budget = prepared[i].budget
          /\ lockLog' = Append(lockLog, [study |-> s, instance |-> i, reservation |-> r])
          /\ locked' = [locked EXCEPT ![s] = Len(lockLog) + 1]
    /\ UNCHANGED <<planVars, budgetVars, runVars, resultVars, authorized, accessed>>

\* Fault: the predecessors the child cites are not compared.
ChildAuthorizableUncompared(l) ==
    LET s == lockLog[l].study
    IN /\ EntrySatisfied(s, Outcome)
       /\ locked[s] # 0
       /\ lockLog[locked[s]].instance = lockLog[l].instance
       /\ lockLog[locked[s]].reservation \notin released
       /\ GateOpen(s, Outcome, LockedStudies)

\* child_authorization_issues is empty for the child of lock event l.
ChildAuthorizable(l) ==
    LET s == lockLog[l].study
        i == lockLog[l].instance
    IN /\ EntrySatisfied(s, Outcome)
       /\ locked[s] # 0
       /\ lockLog[locked[s]].instance = i
       /\ lockLog[locked[s]].reservation \notin released
       /\ GateOpen(s, Outcome, LockedStudies)
       /\ prepared[i].predecessors = PredecessorResults(s)

\* The preflight ran at this ledger tip and claimed the output directory of
\* the child, which must hold nothing but the claim marker.
ExecutionAuthorized(l) ==
    /\ authorized[lockLog[l].study] = 0
    /\ ChildAuthorizable(l)
    /\ lockLog[l].instance \notin written
    /\ authorized' = [authorized EXCEPT ![lockLog[l].study] = l]
    /\ UNCHANGED <<planVars, budgetVars, runVars, resultVars, lockLog, locked, accessed>>

PoolAccessed(l) ==
    LET s == lockLog[l].study
    IN /\ authorized[s] # 0
       /\ GateOpen(s, Outcome, LockedStudies)
       /\ accessed' = accessed \cup {s}
       /\ UNCHANGED <<planVars, budgetVars, runVars, resultVars, lockLog, locked, authorized>>

\* Fault: a request is compared with the reservation, not with what is left of it.
AttemptFitsAlone(r, requested) ==
    \A f \in Fields : requested[f] <= reservations[r].budget[f]

AttemptFits(r, requested) ==
    \A f \in Fields : Commitment(r, f, {}) + requested[f] <= reservations[r].budget[f]

\* Fault: attempts of a trial are numbered from zero.
NextOrdinalFromZero(r, t) == Cardinality(TrialAttempts(r, t))

NextOrdinal(r, t) == Cardinality(TrialAttempts(r, t)) + 1

\* Fault: a trial may have two open attempts.
TrialIsOpenable(r, t) == TRUE

TrialIsIdle(r, t) == TrialAttempts(r, t) \cap OpenAttempts(r) = {}

\* Any accepted lock of the study may be cited, and its reservation used,
\* whether or not a result is recorded or the reservation is released.
TrialAttemptStarted(a, l, t, requested) ==
    LET s == lockLog[l].study
        r == lockLog[l].reservation
    IN /\ authorized[s] # 0
       /\ s \in accessed
       /\ attempts[a] = None
       /\ TrialIsIdle(r, t)
       /\ AttemptFits(r, requested)
       /\ attempts' = [attempts EXCEPT ![a] =
             [status |-> "open", reservation |-> r, trial |-> t,
              ordinal |-> NextOrdinal(r, t),
              requested |-> requested, actual |-> NoUse]]
       /\ UNCHANGED <<planVars, budgetVars, lockVars, resultVars, written>>

\* A completed attempt names an output and a status the current lock allows;
\* a failed one may have left outputs behind.
CloseAttempt(a, completed, actual, wrote) ==
    /\ attempts[a] # None
    /\ attempts[a].status = "open"
    /\ LET r == attempts[a].reservation
       IN /\ completed => locked[reservations[r].study] # 0 /\ wrote
          /\ Within(actual, attempts[a].requested)
          /\ \A f \in Fields :
                Commitment(r, f, {a}) + actual[f] <= reservations[r].budget[f]
          /\ written' = IF wrote THEN written \cup {reservations[r].instance} ELSE written
    /\ attempts' = [attempts EXCEPT ![a].status = IF completed THEN "completed" ELSE "failed",
                                    ![a].actual = actual]
    /\ UNCHANGED <<planVars, budgetVars, lockVars, resultVars>>

ResultRecorded(l, o) ==
    LET s == lockLog[l].study
        r == lockLog[l].reservation
    IN /\ authorized[s] # 0
       /\ recorded[s] = None
       /\ OpenAttempts(r) = {}
       /\ r \in Active
       /\ ClosedAttempts(r) # {}
       /\ o # "invalid" => [type |-> "result", subject |-> l] \in audits
       /\ recorded' = [recorded EXCEPT ![s] =
             [reservation |-> r, outcome |-> o]]
       /\ used' = [used EXCEPT ![r] = UsedBy(r)]
       /\ UNCHANGED <<planVars, lockVars, runVars, reservations, released, spent, terminal>>

\* Fault: the recorded result of the study is kept.
ClearButResult(s) ==
    /\ locked' = [locked EXCEPT ![s] = 0]
    /\ authorized' = [authorized EXCEPT ![s] = 0]
    /\ accessed' = accessed \ {s}
    /\ UNCHANGED recorded

\* An invalid result clears the study for a replacement child.
ClearStudy(s) ==
    /\ locked' = [locked EXCEPT ![s] = 0]
    /\ authorized' = [authorized EXCEPT ![s] = 0]
    /\ accessed' = accessed \ {s}
    /\ recorded' = [recorded EXCEPT ![s] = None]

\* Fault: a reservation is released before the result it paid for is terminal.
SettleLater(s, r) ==
    /\ released' = released \cup {r}
    /\ spent' = [f \in Fields |-> spent[f] + used[r][f]]
    /\ UNCHANGED terminal

\* The reservation is released, its use charged and its result terminal.
Settle(s, r) ==
    /\ released' = released \cup {r}
    /\ spent' = [f \in Fields |-> spent[f] + used[r][f]]
    /\ terminal' = [terminal EXCEPT ![s] = recorded[s]]

\* The cited result of an unreleased reservation is always still in recorded.
BudgetReleased(s) ==
    /\ recorded[s] # None
    /\ LET r == recorded[s].reservation
       IN /\ r \in Active
          /\ Within(used[r], reservations[r].budget)
          /\ Settle(s, r)
    /\ IF recorded[s].outcome = "invalid"
       THEN ClearStudy(s)
       ELSE UNCHANGED <<locked, authorized, accessed, recorded>>
    /\ UNCHANGED <<planVars, runVars, reservations, lockLog, used>>

Next ==
    \/ ProgramLocked
    \/ /\ programLocked
       /\ \/ \E i \in Instances, s \in Studies, b \in ReservationBudgets : ChildPrepared(i, s, b)
          \/ \E r \in Reservations, i \in Instances, hw \in HardwareKinds, b \in ReservationBudgets :
                BudgetReserved(r, i, hw, b)
          \/ \E i \in Instances, type \in LockAudits :
                AuditCompleted([type |-> type, subject |-> i])
          \/ \E l \in DOMAIN lockLog : AuditCompleted([type |-> "result", subject |-> l])
          \/ \E r \in Reservations : ChildLocked(r)
          \/ \E l \in DOMAIN lockLog :
                \/ ExecutionAuthorized(l)
                \/ PoolAccessed(l)
                \/ \E a \in Attempts, t \in Trials, b \in AttemptBudgets :
                      TrialAttemptStarted(a, l, t, b)
                \/ \E o \in ResultOutcomes : ResultRecorded(l, o)
          \/ \E a \in Attempts, completed \in BOOLEAN, b \in AttemptBudgets, wrote \in BOOLEAN :
                CloseAttempt(a, completed, b, wrote)
          \/ \E s \in Studies : BudgetReleased(s)

Spec == Init /\ [][Next]_vars

-----------------------------------------------------------------------------
(* Safety *)

\* What the attempts of a reservation used or may still use fits in it.
AttemptsWithinReservation ==
    \A r \in Reservations : AttemptsOf(r) # {} =>
        \A f \in Fields : Commitment(r, f, {}) <= reservations[r].budget[f]

\* The attempts of a trial form one history without gaps, and only its last
\* attempt may be open.
TrialHistoryPreserved ==
    \A r \in Reservations, t \in Trials :
        LET history == TrialAttempts(r, t)
        IN /\ {attempts[a].ordinal : a \in history} = 1..Cardinality(history)
           /\ \A a \in history : attempts[a].status = "open" =>
                 attempts[a].ordinal = Cardinality(history)

\* A recorded result stands on executed work: its study still holds the lock,
\* the preflight receipt and the pool access, although result_recorded checks
\* only the receipt.
ResultStandsOnAccess ==
    \A s \in Studies : recorded[s] # None =>
        /\ locked[s] # 0
        /\ authorized[s] # 0
        /\ s \in accessed

\* A child_locked event whose reservation is still charged is the lock its study
\* holds: an older lock left behind by an invalid result has lost its budget, so
\* citing it cannot record a second result or clear the study again.
ChargedLockIsCurrent ==
    \A l \in DOMAIN lockLog : lockLog[l].reservation \notin released =>
        LET current == locked[lockLog[l].study]
        IN current # 0 /\ lockLog[current].reservation = lockLog[l].reservation

\* A result becomes a predecessor only after release, and a reservation is
\* released only by a result: every terminal result has its reservation
\* released, and a recorded result whose reservation is released is terminal.
TerminalOnlyByRelease ==
    \A s \in Studies :
        /\ terminal[s] # None => terminal[s].reservation \in released
        /\ recorded[s] # None /\ recorded[s].reservation \in released => recorded[s] = terminal[s]

\* Work runs on the predecessor results the child cites.  Only the preflight
\* compares them with the ledger, and the study may be redone later; no
\* predecessor that requires_all_completed names changes under an authorized child.
RunsOnCitedPredecessors ==
    \A s \in Studies : authorized[s] # 0 /\ RequiresAnyPositive[s] \subseteq RequiresAll[s] =>
        prepared[lockLog[locked[s]].instance].predecessors = PredecessorResults(s)

-----------------------------------------------------------------------------
(* Refinement *)

\* What a reservation holds while it is active.
HoldOf(r) ==
    IF r \in Active
    THEN [study |-> reservations[r].study, hardware |-> reservations[r].hardware,
          budget |-> reservations[r].budget]
    ELSE None

\* The active reservation the lock of a study stands on.
PaidBy(s) ==
    IF locked[s] # 0 /\ lockLog[locked[s]].reservation \notin released
    THEN lockLog[locked[s]].reservation
    ELSE None

\* Refinement: the reducer gives studies exactly the life StudyLifecycle describes.
Lifecycle == INSTANCE StudyLifecycle WITH
    admitted <- {reservations[r].study : r \in {x \in Reservations : reservations[x] # None}},
    active <- [r \in Reservations |-> HoldOf(r)],
    spent <- spent.cumulative,
    locked <- LockedStudies,
    paidBy <- [s \in Studies |-> PaidBy(s)],
    outcome <- Outcome

ImplementsLifecycle == Lifecycle!Spec

\* Refinement: reservations and releases keep the accounts CampaignBudget describes.
Accounts == INSTANCE CampaignBudget WITH
    charged <- spent,
    held <- [cumulative |-> ReservedTotal("cumulative"), ephemeral |-> ReservedTotal("ephemeral")],
    hardware <- Cardinality(HardwareActive)

ImplementsBudget == Accounts!Spec

=============================================================================
