------------------------ MODULE CampaignReducer_proofs ------------------------
(***************************************************************************)
(* Theorems about CampaignReducer, for every program graph and every set   *)
(* of instances, reservations and attempts.                                *)
(***************************************************************************)
EXTENDS CampaignReducer, FiniteSetTheorems, WellFoundedInduction, TLAPS

-----------------------------------------------------------------------------
(* The inductive invariant *)

\* A lock event and its reservation name the same study and instance.
EventsMatch ==
    \A l \in DOMAIN lockLog :
        /\ reservations[lockLog[l].reservation] # None
        /\ reservations[lockLog[l].reservation].study = lockLog[l].study

WorkIsReserved ==
    \A a \in Attempts : attempts[a] # None => reservations[attempts[a].reservation] # None

\* The lock a study holds is one of its own.
LockIsOwn ==
    \A s \in Studies : locked[s] # 0 => lockLog[locked[s]].study = s

\* Lock, preflight receipt, pool access and result are acquired in this order
\* and lost together.
HeldInOrder ==
    \A s \in Studies :
        /\ authorized[s] # 0 => locked[s] # 0
        /\ s \in accessed => authorized[s] # 0
        /\ recorded[s] # None => s \in accessed

\* A result is accounted to a reservation of its study, and until its release
\* to the one of the lock the study holds.
ResultOfLock ==
    \A s \in Studies : recorded[s] # None =>
        LET r == recorded[s].reservation
        IN /\ reservations[r] # None
           /\ reservations[r].study = s
           /\ r \notin released => lockLog[locked[s]].reservation = r

\* Charged work was started under the lock and the access its study still holds.
WorkHoldsAccess ==
    \A a \in Attempts :
        attempts[a] # None /\ attempts[a].reservation \notin released =>
            LET s == reservations[attempts[a].reservation].study
            IN /\ s \in accessed
               /\ lockLog[locked[s]].reservation = attempts[a].reservation

\* Only an invalid terminal result makes room for another recorded result.
ValidTerminalKept ==
    \A s \in Studies :
        terminal[s] # None /\ terminal[s].outcome # "invalid" => recorded[s] = terminal[s]

Bookkeeping ==
    /\ EventsMatch
    /\ WorkIsReserved
    /\ LockIsOwn
    /\ HeldInOrder
    /\ ResultOfLock
    /\ WorkHoldsAccess
    /\ ChargedLockIsCurrent
    /\ TerminalOnlyByRelease
    /\ ValidTerminalKept

ReducerInvariant == ControlTypeOK /\ Bookkeeping

-----------------------------------------------------------------------------
(* Types *)

\* The empty ledger is typed (CampaignState.initial).
LEMMA InitTyped == Init => ControlTypeOK
<1>1. ASSUME Init PROVE lockLog \in Seq(LockEvent) /\ LockIds = 0..0
  <2>1. lockLog = <<>>
    BY <1>1 DEF Init
  <2>. QED BY <2>1 DEF LockIds
<1>2. ASSUME Init PROVE locked \in [Studies -> LockIds] /\ authorized \in [Studies -> LockIds]
  <2>1. 0 \in LockIds
    BY <1>1, <1>2
  <2>. QED BY <1>2, <2>1 DEF Init
<1>. QED BY <1>1, <1>2 DEF Init, ControlTypeOK

\* An attempt is numbered from one, because a trial has finitely many attempts
\* (_apply_trial_attempt_started).
LEMMA OrdinalPositive ==
    ASSUME NEW r, NEW t
    PROVE  NextOrdinal(r, t) \in Nat \ {0}
<1>1. TrialAttempts(r, t) \subseteq Attempts
  BY DEF TrialAttempts, AttemptsOf
<1>2. IsFiniteSet(TrialAttempts(r, t))
  BY <1>1, FS_Subset, BudgetAssumption
<1>. QED BY <1>2, FS_CardinalityType DEF NextOrdinal

\* A lock appended to the log is the last position, and every older one stays
\* (_apply_child_locked).
LEMMA LogGrows ==
    ASSUME lockLog \in Seq(LockEvent), NEW e \in LockEvent, lockLog' = Append(lockLog, e)
    PROVE  /\ lockLog' \in Seq(LockEvent)
           /\ LockIds' = 0..(Len(lockLog) + 1)
           /\ DOMAIN lockLog' = (DOMAIN lockLog) \cup {Len(lockLog) + 1}
           /\ Len(lockLog) \in Nat
           /\ lockLog'[Len(lockLog) + 1] = e
           /\ \A l \in DOMAIN lockLog : lockLog'[l] = lockLog[l]
BY DEF LockIds

\* The accepted lock events are typed, and their positions are those a study's
\* lock or preflight receipt may point to (_resolve_event_ref).
LEMMA LockEventTyped ==
    ASSUME ControlTypeOK, NEW l \in DOMAIN lockLog
    PROVE  /\ l \in LockIds \ {0}
           /\ lockLog[l] \in LockEvent
<1>1. lockLog \in Seq(LockEvent)
  BY DEF ControlTypeOK
<1>. HIDE DEF LockEvent
<1>2. DOMAIN lockLog = 1..Len(lockLog) /\ Len(lockLog) \in Nat
  BY <1>1
<1>. QED BY <1>1, <1>2 DEF LockIds

\* Holding no lock is always allowed.
LEMMA LockZero == ControlTypeOK => 0 \in LockIds
BY DEF ControlTypeOK, LockIds

\* Every event handler keeps the types (_apply_event).
LEMMA TypesStep ==
    ASSUME ControlTypeOK, WorkIsReserved, [Next]_vars
    PROVE  ControlTypeOK'
<1>. USE DEF planVars, budgetVars, lockVars, runVars, resultVars
<1>1. CASE ProgramLocked
  BY <1>1 DEF ProgramLocked, ControlTypeOK, LockIds
<1>2. ASSUME NEW i \in Instances, NEW s \in Studies, NEW b \in ReservationBudgets,
             ChildPrepared(i, s, b)
      PROVE  ControlTypeOK'
  <2>1. PredecessorResults(s) \in SUBSET Reservations
    <3>1. Dependencies(s) \subseteq Studies
      BY ProgramAssumption DEF Dependencies
    <3>2. \A p \in Studies : terminal[p] # None => terminal[p].reservation \in Reservations
      BY DEF ControlTypeOK, Result
    <3>. QED BY <3>1, <3>2 DEF PredecessorResults
  <2>2. [study |-> s, budget |-> b, predecessors |-> PredecessorResults(s)] \in ChildPlan
    BY <2>1 DEF ChildPlan
  <2>. QED BY <1>2, <2>2 DEF ChildPrepared, ControlTypeOK, LockIds
<1>3. ASSUME NEW r \in Reservations, NEW i \in Instances, NEW hw \in HardwareKinds,
             NEW b \in ReservationBudgets, BudgetReserved(r, i, hw, b)
      PROVE  ControlTypeOK'
  <2>1. prepared[i].study \in Studies
    BY <1>3 DEF BudgetReserved, ControlTypeOK, ChildPlan
  <2>2. [instance |-> i, study |-> prepared[i].study, hardware |-> hw, budget |-> b] \in Reservation
    BY <2>1, BudgetAssumption DEF Reservation
  <2>. QED BY <1>3, <2>2 DEF BudgetReserved, ControlTypeOK, LockIds
<1>4. ASSUME NEW audit \in Audit, AuditCompleted(audit)
      PROVE  ControlTypeOK'
  BY <1>4 DEF AuditCompleted, ControlTypeOK, LockIds
<1>5. ASSUME NEW r \in Reservations, ChildLocked(r)
      PROVE  ControlTypeOK'
  <2>. DEFINE s == reservations[r].study
              e == [study |-> s, instance |-> reservations[r].instance, reservation |-> r]
  <2>1. s \in Studies /\ e \in LockEvent
    BY <1>5 DEF ChildLocked, ControlTypeOK, Reservation, LockEvent
  <2>2. lockLog' = Append(lockLog, e) /\ locked' = [locked EXCEPT ![s] = Len(lockLog) + 1]
    BY <1>5 DEF ChildLocked
  <2>3. /\ lockLog' \in Seq(LockEvent)
        /\ LockIds' = 0..(Len(lockLog) + 1)
        /\ Len(lockLog) \in Nat
    BY <2>1, <2>2, LogGrows DEF ControlTypeOK
  <2>4. LockIds \subseteq LockIds' /\ Len(lockLog) + 1 \in LockIds'
    BY <2>3 DEF LockIds
  <2>. HIDE DEF e
  <2>5. locked' \in [Studies -> LockIds'] /\ authorized' \in [Studies -> LockIds']
    BY <1>5, <2>1, <2>2, <2>4 DEF ChildLocked, ControlTypeOK
  <2>. QED BY <1>5, <2>3, <2>5 DEF ChildLocked, ControlTypeOK
<1>6. ASSUME NEW l \in DOMAIN lockLog, ExecutionAuthorized(l)
      PROVE  ControlTypeOK'
  <2>1. l \in LockIds /\ lockLog[l].study \in Studies
    BY LockEventTyped DEF LockEvent
  <2>. QED BY <1>6, <2>1 DEF ExecutionAuthorized, ControlTypeOK, LockIds
<1>7. ASSUME NEW l \in DOMAIN lockLog, PoolAccessed(l)
      PROVE  ControlTypeOK'
  <2>1. lockLog[l].study \in Studies
    BY LockEventTyped DEF LockEvent
  <2>. QED BY <1>7, <2>1 DEF PoolAccessed, ControlTypeOK, LockIds
<1>8. ASSUME NEW l \in DOMAIN lockLog, NEW a \in Attempts, NEW t \in Trials,
             NEW b \in AttemptBudgets, TrialAttemptStarted(a, l, t, b)
      PROVE  ControlTypeOK'
  <2>. DEFINE r == lockLog[l].reservation
              new == [status |-> "open", reservation |-> r, trial |-> t,
                      ordinal |-> NextOrdinal(r, t), requested |-> b, actual |-> NoUse]
  <2>1. r \in Reservations
    BY LockEventTyped DEF LockEvent
  <2>2. new \in Attempt
    BY <2>1, OrdinalPositive DEF Attempt
  <2>3. attempts' = [attempts EXCEPT ![a] = new]
    BY <1>8 DEF TrialAttemptStarted
  <2>. HIDE DEF new
  <2>4. attempts' \in [Attempts -> Attempt \cup {None}]
    BY <2>2, <2>3 DEF ControlTypeOK
  <2>. QED BY <1>8, <2>4 DEF TrialAttemptStarted, ControlTypeOK, LockIds
<1>9. ASSUME NEW a \in Attempts, NEW completed \in BOOLEAN, NEW b \in AttemptBudgets,
             NEW wrote \in BOOLEAN, CloseAttempt(a, completed, b, wrote)
      PROVE  ControlTypeOK'
  <2>. DEFINE closed == [attempts[a] EXCEPT
                  !.status = IF completed THEN "completed" ELSE "failed", !.actual = b]
  <2>1. attempts[a] \in Attempt
    BY <1>9 DEF CloseAttempt, ControlTypeOK
  <2>2. closed \in Attempt
    BY <2>1 DEF Attempt
  <2>3. attempts' = [attempts EXCEPT ![a] = closed]
    BY <1>9 DEF CloseAttempt, ControlTypeOK
  <2>4. written' \in SUBSET Instances
    <3>1. reservations[attempts[a].reservation] \in Reservation
      BY <1>9, <2>1 DEF CloseAttempt, ControlTypeOK, Attempt, WorkIsReserved
    <3>2. CASE ~wrote
      BY <1>9, <3>2 DEF CloseAttempt, ControlTypeOK
    <3>3. reservations[attempts[a].reservation].instance \in Instances
      BY <3>1 DEF Reservation
    <3>. QED BY <1>9, <3>2, <3>3 DEF CloseAttempt, ControlTypeOK
  <2>. HIDE DEF closed
  <2>5. attempts' \in [Attempts -> Attempt \cup {None}]
    BY <2>2, <2>3 DEF ControlTypeOK
  <2>. QED BY <1>9, <2>4, <2>5 DEF CloseAttempt, ControlTypeOK, LockIds
<1>10. ASSUME NEW l \in DOMAIN lockLog, NEW o \in ResultOutcomes, ResultRecorded(l, o)
       PROVE  ControlTypeOK'
  <2>1. [reservation |-> lockLog[l].reservation, outcome |-> o] \in Result
    BY LockEventTyped DEF LockEvent, Result
  <2>. QED BY <1>10, <2>1 DEF ResultRecorded, ControlTypeOK, LockIds
<1>11. ASSUME NEW s \in Studies, BudgetReleased(s)
       PROVE  ControlTypeOK'
  <2>1. recorded[s] \in Result
    BY <1>11 DEF BudgetReleased, ControlTypeOK
  <2>2. terminal' \in [Studies -> Result \cup {None}] /\ released' \in SUBSET Reservations
    BY <1>11, <2>1 DEF BudgetReleased, Settle, ControlTypeOK, Active
  <2>3. CASE recorded[s].outcome = "invalid"
    <3>1. 0 \in LockIds
      BY LockZero
    <3>. QED BY <1>11, <2>2, <2>3, <3>1 DEF BudgetReleased, ClearStudy, ControlTypeOK, LockIds
  <2>4. CASE recorded[s].outcome # "invalid"
    BY <1>11, <2>2, <2>4 DEF BudgetReleased, ControlTypeOK, LockIds
  <2>. QED BY <2>3, <2>4
<1>12. CASE UNCHANGED vars
  BY <1>12 DEF vars, ControlTypeOK, LockIds
<1>13. \A i \in Instances, type \in LockAudits : [type |-> type, subject |-> i] \in Audit
  BY DEF Audit
<1>14. \A l \in DOMAIN lockLog : [type |-> "result", subject |-> l] \in Audit
  BY DEF Audit, ControlTypeOK
<1>. HIDE DEF planVars, budgetVars, lockVars, runVars, resultVars
<1>. QED
  BY <1>1, <1>2, <1>3, <1>4, <1>5, <1>6, <1>7, <1>8, <1>9, <1>10, <1>11, <1>12, <1>13, <1>14
  DEF Next

-----------------------------------------------------------------------------
(* The bookkeeping is preserved *)

\* The empty ledger holds nothing.
LEMMA InitBookkeeping == Init => Bookkeeping
<1>. USE DEF Init
<1>1. Init => DOMAIN lockLog = {}
  OBVIOUS
<1>2. Init => EventsMatch /\ ChargedLockIsCurrent
  BY <1>1 DEF EventsMatch, ChargedLockIsCurrent
<1>3. Init => WorkIsReserved /\ WorkHoldsAccess
  BY DEF WorkIsReserved, WorkHoldsAccess
<1>4. Init => LockIsOwn /\ HeldInOrder /\ ResultOfLock /\ TerminalOnlyByRelease /\ ValidTerminalKept
  BY DEF LockIsOwn, HeldInOrder, ResultOfLock, TerminalOnlyByRelease, ValidTerminalKept
<1>. QED BY <1>2, <1>3, <1>4 DEF Bookkeeping

\* A new reservation replaces none, so whatever is reserved stays as it was
\* (_apply_budget_reserved).
LEMMA ReserveKeepsBookkeeping ==
    ASSUME ReducerInvariant, NEW r \in Reservations, NEW i \in Instances, NEW hw, NEW b,
           BudgetReserved(r, i, hw, b)
    PROVE  Bookkeeping'
<1>. USE DEF ReducerInvariant, Bookkeeping, lockVars, runVars, resultVars
<1>1. \A x \in Reservations : reservations[x] # None => reservations'[x] = reservations[x]
  BY DEF BudgetReserved, ControlTypeOK
<1>2. UNCHANGED <<released, lockLog, locked, authorized, accessed, attempts, recorded, terminal>>
  BY DEF BudgetReserved
<1>3. EventsMatch'
  <2>1. \A l \in DOMAIN lockLog : lockLog[l].reservation \in Reservations
    BY LockEventTyped DEF LockEvent
  <2>. QED BY <1>1, <1>2, <2>1 DEF EventsMatch
<1>4. WorkIsReserved' /\ WorkHoldsAccess'
  <2>1. \A a \in Attempts : attempts[a] # None => attempts[a].reservation \in Reservations
    BY DEF ControlTypeOK, Attempt
  <2>. QED BY <1>1, <1>2, <2>1 DEF WorkIsReserved, WorkHoldsAccess
<1>5. ResultOfLock'
  <2>1. \A s \in Studies : recorded[s] # None => recorded[s].reservation \in Reservations
    BY DEF ControlTypeOK, Result
  <2>. QED BY <1>1, <1>2, <2>1 DEF ResultOfLock
<1>6. LockIsOwn' /\ HeldInOrder'
  BY <1>2 DEF LockIsOwn, HeldInOrder
<1>7. ChargedLockIsCurrent' /\ TerminalOnlyByRelease' /\ ValidTerminalKept'
  BY <1>2 DEF ChargedLockIsCurrent, TerminalOnlyByRelease, ValidTerminalKept
<1>. QED BY <1>3, <1>4, <1>5, <1>6, <1>7

\* The new lock is the only one of its study that may still be charged: an older
\* charged lock would be the lock the study holds, and it holds none
\* (_apply_child_locked).
LEMMA LockKeepsBookkeeping ==
    ASSUME ReducerInvariant, NEW r \in Reservations, ChildLocked(r)
    PROVE  Bookkeeping'
<1>. USE DEF ReducerInvariant, Bookkeeping, planVars, budgetVars, runVars, resultVars
<1>. DEFINE s == reservations[r].study
            e == [study |-> s, instance |-> reservations[r].instance, reservation |-> r]
            n == Len(lockLog) + 1
<1>1. /\ UNCHANGED <<reservations, released, authorized, accessed, attempts, recorded, terminal>>
      /\ reservations[r] # None
      /\ locked[s] = 0
      /\ lockLog' = Append(lockLog, e)
      /\ locked' = [locked EXCEPT ![s] = n]
  BY DEF ChildLocked
<1>2. s \in Studies /\ e \in LockEvent
  BY <1>1 DEF ControlTypeOK, Reservation, LockEvent
<1>3. /\ DOMAIN lockLog' = DOMAIN lockLog \cup {n}
      /\ n \in Nat \ {0}
      /\ lockLog'[n] = e
      /\ \A l \in DOMAIN lockLog : lockLog'[l] = lockLog[l]
  BY <1>1, <1>2, LogGrows DEF ControlTypeOK
<1>4. e.study = s /\ e.reservation = r
  OBVIOUS
<1>. HIDE DEF e, n
<1>5. \A x \in Studies : locked[x] # 0 => locked[x] \in DOMAIN lockLog
  BY DEF ControlTypeOK, LockIds
<1>6. locked'[s] = n /\ \A x \in Studies : x # s => locked'[x] = locked[x]
  BY <1>1, <1>2 DEF ControlTypeOK
<1>. HIDE DEF s
<1>7. EventsMatch'
  <2>1. reservations[r].study = s
    BY DEF s
  <2>. QED BY <1>1, <1>3, <1>4, <2>1 DEF EventsMatch
<1>8. WorkIsReserved'
  BY <1>1 DEF WorkIsReserved
<1>9. LockIsOwn'
  BY <1>2, <1>3, <1>4, <1>5, <1>6 DEF LockIsOwn
<1>10. HeldInOrder'
  BY <1>1, <1>3, <1>6 DEF HeldInOrder
<1>11. s \notin accessed /\ recorded[s] = None
  BY <1>1, <1>2 DEF HeldInOrder
<1>12. ResultOfLock'
  BY <1>1, <1>3, <1>5, <1>6, <1>11 DEF ResultOfLock, HeldInOrder
<1>13. WorkHoldsAccess'
  BY <1>1, <1>3, <1>5, <1>6, <1>11 DEF WorkHoldsAccess, HeldInOrder, ControlTypeOK
<1>14. ChargedLockIsCurrent'
  <2>1. ASSUME NEW l \in DOMAIN lockLog', lockLog'[l].reservation \notin released'
        PROVE  LET current == locked'[lockLog'[l].study]
               IN current # 0 /\ lockLog'[current].reservation = lockLog'[l].reservation
    <3>1. CASE l = n
      BY <1>3, <1>4, <1>6, <3>1
    <3>2. CASE l # n
      <4>1. l \in DOMAIN lockLog /\ lockLog'[l] = lockLog[l] /\ lockLog[l].study \in Studies
        BY <1>3, <3>2, LockEventTyped DEF LockEvent
      <4>2. /\ locked[lockLog[l].study] # 0
            /\ lockLog[locked[lockLog[l].study]].reservation = lockLog[l].reservation
        BY <1>1, <2>1, <4>1 DEF ChargedLockIsCurrent
      <4>3. lockLog[l].study # s
        BY <1>1, <4>2 DEF s
      <4>. QED BY <1>3, <1>5, <1>6, <4>1, <4>2, <4>3
    <3>. QED BY <3>1, <3>2
  <2>. QED BY <2>1 DEF ChargedLockIsCurrent
<1>15. TerminalOnlyByRelease' /\ ValidTerminalKept'
  BY <1>1 DEF TerminalOnlyByRelease, ValidTerminalKept
<1>. QED BY <1>7, <1>8, <1>9, <1>10, <1>12, <1>13, <1>14, <1>15

\* The preflight is recorded for the study whose lock it checked
\* (_apply_execution_authorized).
LEMMA AuthorizeKeepsBookkeeping ==
    ASSUME ReducerInvariant, NEW l \in DOMAIN lockLog, ExecutionAuthorized(l)
    PROVE  Bookkeeping'
<1>. USE DEF ReducerInvariant, Bookkeeping, planVars, budgetVars, runVars, resultVars
<1>1. UNCHANGED <<reservations, released, lockLog, locked, accessed, attempts, recorded, terminal>>
  BY DEF ExecutionAuthorized
<1>2. HeldInOrder'
  <2>1. l # 0 /\ lockLog[l].study \in Studies
    BY LockEventTyped DEF LockEvent
  <2>2. locked[lockLog[l].study] # 0
    BY DEF ExecutionAuthorized, ChildAuthorizable
  <2>3. authorized' = [authorized EXCEPT ![lockLog[l].study] = l]
    BY DEF ExecutionAuthorized
  <2>. QED BY <1>1, <2>1, <2>2, <2>3 DEF HeldInOrder, ControlTypeOK
<1>3. EventsMatch' /\ WorkIsReserved' /\ LockIsOwn' /\ ResultOfLock' /\ WorkHoldsAccess'
  BY <1>1 DEF EventsMatch, WorkIsReserved, LockIsOwn, ResultOfLock, WorkHoldsAccess
<1>4. ChargedLockIsCurrent' /\ TerminalOnlyByRelease' /\ ValidTerminalKept'
  BY <1>1 DEF ChargedLockIsCurrent, TerminalOnlyByRelease, ValidTerminalKept
<1>. QED BY <1>2, <1>3, <1>4

\* Pool access follows the preflight receipt (_apply_pool_accessed).
LEMMA AccessKeepsBookkeeping ==
    ASSUME ReducerInvariant, NEW l \in DOMAIN lockLog, PoolAccessed(l)
    PROVE  Bookkeeping'
<1>. USE DEF ReducerInvariant, Bookkeeping, planVars, budgetVars, runVars, resultVars
<1>1. /\ UNCHANGED <<reservations, released, lockLog, locked, authorized, attempts, recorded, terminal>>
      /\ authorized[lockLog[l].study] # 0
      /\ accessed' = accessed \cup {lockLog[l].study}
  BY DEF PoolAccessed
<1>2. HeldInOrder' /\ WorkHoldsAccess'
  BY <1>1 DEF HeldInOrder, WorkHoldsAccess
<1>3. EventsMatch' /\ WorkIsReserved' /\ LockIsOwn' /\ ResultOfLock'
  BY <1>1 DEF EventsMatch, WorkIsReserved, LockIsOwn, ResultOfLock
<1>4. ChargedLockIsCurrent' /\ TerminalOnlyByRelease' /\ ValidTerminalKept'
  BY <1>1 DEF ChargedLockIsCurrent, TerminalOnlyByRelease, ValidTerminalKept
<1>. QED BY <1>2, <1>3, <1>4

\* An attempt cites a lock; if that lock is still charged, it is the current one
\* (_apply_trial_attempt_started).
LEMMA StartKeepsBookkeeping ==
    ASSUME ReducerInvariant, NEW l \in DOMAIN lockLog, NEW a \in Attempts, NEW t, NEW b,
           TrialAttemptStarted(a, l, t, b)
    PROVE  Bookkeeping'
<1>. USE DEF ReducerInvariant, Bookkeeping, planVars, budgetVars, lockVars, resultVars
<1>. DEFINE new == attempts'[a]
<1>1. /\ UNCHANGED <<reservations, released, lockLog, locked, authorized, accessed, recorded, terminal>>
      /\ lockLog[l].study \in accessed
      /\ new.reservation = lockLog[l].reservation
      /\ \A x \in Attempts : x # a => attempts'[x] = attempts[x]
  BY DEF TrialAttemptStarted, ControlTypeOK
<1>. HIDE DEF new
<1>2. WorkIsReserved'
  BY <1>1 DEF WorkIsReserved, EventsMatch, new
<1>3. WorkHoldsAccess'
  BY <1>1 DEF WorkHoldsAccess, EventsMatch, ChargedLockIsCurrent, new
<1>4. EventsMatch' /\ LockIsOwn' /\ HeldInOrder' /\ ResultOfLock'
  BY <1>1 DEF EventsMatch, LockIsOwn, HeldInOrder, ResultOfLock
<1>5. ChargedLockIsCurrent' /\ TerminalOnlyByRelease' /\ ValidTerminalKept'
  BY <1>1 DEF ChargedLockIsCurrent, TerminalOnlyByRelease, ValidTerminalKept
<1>. QED BY <1>2, <1>3, <1>4, <1>5

\* Closing an attempt moves no work to another study (_close_attempt).
LEMMA CloseKeepsBookkeeping ==
    ASSUME ReducerInvariant, NEW a \in Attempts, NEW completed, NEW b, NEW wrote,
           CloseAttempt(a, completed, b, wrote)
    PROVE  Bookkeeping'
<1>. USE DEF ReducerInvariant, Bookkeeping, planVars, budgetVars, lockVars, resultVars
<1>1. UNCHANGED <<reservations, released, lockLog, locked, authorized, accessed, recorded, terminal>>
  BY DEF CloseAttempt
<1>2. \A x \in Attempts :
         attempts'[x] # None => attempts[x] # None /\ attempts'[x].reservation = attempts[x].reservation
  <2>1. attempts[a] \in Attempt /\ attempts[a] # None
    BY DEF CloseAttempt, ControlTypeOK
  <2>2. attempts'[a].reservation = attempts[a].reservation
    BY <2>1 DEF CloseAttempt, ControlTypeOK, Attempt
  <2>3. \A x \in Attempts : x # a => attempts'[x] = attempts[x]
    BY DEF CloseAttempt, ControlTypeOK
  <2>. QED BY <2>1, <2>2, <2>3
<1>3. WorkIsReserved' /\ WorkHoldsAccess'
  BY <1>1, <1>2 DEF WorkIsReserved, WorkHoldsAccess
<1>4. EventsMatch' /\ LockIsOwn' /\ HeldInOrder' /\ ResultOfLock'
  BY <1>1 DEF EventsMatch, LockIsOwn, HeldInOrder, ResultOfLock
<1>5. ChargedLockIsCurrent' /\ TerminalOnlyByRelease' /\ ValidTerminalKept'
  BY <1>1 DEF ChargedLockIsCurrent, TerminalOnlyByRelease, ValidTerminalKept
<1>. QED BY <1>3, <1>4, <1>5

\* The attempts of the active reservation show that its study has pool access,
\* and no other result of the study stands (_apply_result_recorded).
LEMMA RecordKeepsBookkeeping ==
    ASSUME ReducerInvariant, NEW l \in DOMAIN lockLog, NEW o, ResultRecorded(l, o)
    PROVE  Bookkeeping'
<1>. USE DEF ReducerInvariant, Bookkeeping, planVars, lockVars, runVars
<1>. DEFINE s == lockLog[l].study
            r == lockLog[l].reservation
<1>1. /\ UNCHANGED <<reservations, released, lockLog, locked, authorized, accessed, attempts, terminal>>
      /\ recorded[s] = None
      /\ r \in Active
      /\ ClosedAttempts(r) # {}
      /\ recorded' = [recorded EXCEPT ![s] = [reservation |-> r, outcome |-> o]]
  BY DEF ResultRecorded
<1>2. s \in Studies /\ r \in Reservations /\ r \notin released
  BY <1>1, LockEventTyped DEF LockEvent, Active
<1>3. recorded'[s].reservation = r /\ \A x \in Studies : x # s => recorded'[x] = recorded[x]
  BY <1>1, <1>2 DEF ControlTypeOK
<1>4. reservations[r] # None /\ reservations[r].study = s
  BY DEF EventsMatch
<1>. HIDE DEF s, r
<1>5. s \in accessed /\ lockLog[locked[s]].reservation = r
  <2>1. PICK a \in Attempts : attempts[a] # None /\ attempts[a].reservation = r
    BY <1>1 DEF ClosedAttempts, AttemptsOf
  <2>. QED BY <1>2, <1>4, <2>1 DEF WorkHoldsAccess
<1>6. HeldInOrder'
  BY <1>1, <1>3, <1>5 DEF HeldInOrder
<1>7. ResultOfLock'
  BY <1>1, <1>3, <1>4, <1>5 DEF ResultOfLock
<1>8. TerminalOnlyByRelease'
  BY <1>1, <1>2, <1>3 DEF TerminalOnlyByRelease
<1>9. ValidTerminalKept'
  BY <1>1, <1>3 DEF ValidTerminalKept
<1>10. EventsMatch' /\ WorkIsReserved' /\ LockIsOwn' /\ WorkHoldsAccess' /\ ChargedLockIsCurrent'
  BY <1>1 DEF EventsMatch, WorkIsReserved, LockIsOwn, WorkHoldsAccess, ChargedLockIsCurrent
<1>. QED BY <1>6, <1>7, <1>8, <1>9, <1>10

\* A release charges the reservation of the lock its study holds; when the
\* result is invalid the study loses that lock, and no charged lock, charged
\* work or result of the study is left (_apply_budget_released).
LEMMA ReleaseKeepsBookkeeping ==
    ASSUME ReducerInvariant, NEW s \in Studies, BudgetReleased(s)
    PROVE  Bookkeeping'
<1>. USE DEF ReducerInvariant, Bookkeeping, planVars, runVars
<1>. DEFINE r == recorded[s].reservation
<1>1. /\ UNCHANGED <<reservations, lockLog, attempts>>
      /\ recorded[s] # None
      /\ r \notin released
      /\ released' = released \cup {r}
      /\ terminal' = [terminal EXCEPT ![s] = recorded[s]]
  BY DEF BudgetReleased, Settle, Active
<1>2. /\ terminal'[s] = recorded[s]
      /\ \A x \in Studies : x # s => /\ terminal'[x] = terminal[x]
                                     /\ locked'[x] = locked[x]
                                     /\ authorized'[x] = authorized[x]
                                     /\ recorded'[x] = recorded[x]
                                     /\ x \in accessed' <=> x \in accessed
  BY <1>1 DEF BudgetReleased, ClearStudy, ControlTypeOK
<1>3. \/ UNCHANGED <<locked, authorized, accessed, recorded>> /\ recorded[s].outcome # "invalid"
      \/ /\ locked'[s] = 0
         /\ authorized'[s] = 0
         /\ s \notin accessed'
         /\ recorded'[s] = None
         /\ terminal'[s].outcome = "invalid"
  BY <1>2 DEF BudgetReleased, ClearStudy, ControlTypeOK
<1>4. /\ reservations[r].study = s
      /\ lockLog[locked[s]].reservation = r
  BY <1>1 DEF ResultOfLock
<1>. HIDE DEF r
<1>5. \A x \in Studies : recorded[x] # None /\ recorded[x].reservation = r => x = s
  BY <1>4 DEF ResultOfLock
<1>6. EventsMatch' /\ WorkIsReserved'
  BY <1>1 DEF EventsMatch, WorkIsReserved
<1>7. LockIsOwn' /\ HeldInOrder'
  BY <1>1, <1>2, <1>3 DEF LockIsOwn, HeldInOrder
<1>8. ResultOfLock'
  BY <1>1, <1>2, <1>3 DEF ResultOfLock
<1>9. WorkHoldsAccess'
  <2>1. ASSUME NEW a \in Attempts, attempts'[a] # None, attempts'[a].reservation \notin released'
        PROVE  LET x == reservations'[attempts'[a].reservation].study
               IN x \in accessed' /\ lockLog'[locked'[x]].reservation = attempts'[a].reservation
    <3>. DEFINE x == reservations[attempts[a].reservation].study
    <3>1. x \in accessed /\ lockLog[locked[x]].reservation = attempts[a].reservation
      BY <1>1, <2>1 DEF WorkHoldsAccess
    <3>2. x # s /\ x \in Studies
      BY <1>1, <1>4, <2>1, <3>1 DEF ControlTypeOK
    <3>. QED BY <1>1, <1>2, <3>1, <3>2
  <2>. QED BY <2>1 DEF WorkHoldsAccess
<1>10. ChargedLockIsCurrent'
  <2>1. ASSUME NEW l \in DOMAIN lockLog, lockLog[l].reservation \notin released'
        PROVE  /\ locked'[lockLog[l].study] # 0
               /\ lockLog[locked'[lockLog[l].study]].reservation = lockLog[l].reservation
    <3>1. /\ locked[lockLog[l].study] # 0
          /\ lockLog[locked[lockLog[l].study]].reservation = lockLog[l].reservation
      BY <1>1, <2>1 DEF ChargedLockIsCurrent
    <3>2. lockLog[l].study # s /\ lockLog[l].study \in Studies
      BY <1>1, <1>4, <2>1, <3>1, LockEventTyped DEF LockEvent
    <3>. QED BY <1>2, <3>1, <3>2
  <2>. QED BY <1>1, <2>1 DEF ChargedLockIsCurrent
<1>11. TerminalOnlyByRelease'
  <2>1. ASSUME NEW x \in Studies
        PROVE  /\ terminal'[x] # None => terminal'[x].reservation \in released'
               /\ recorded'[x] # None /\ recorded'[x].reservation \in released' =>
                     recorded'[x] = terminal'[x]
    <3>1. CASE x = s
      BY <1>1, <1>2, <1>3, <3>1 DEF r
    <3>2. CASE x # s
      BY <1>1, <1>2, <1>5, <3>2 DEF TerminalOnlyByRelease
    <3>. QED BY <3>1, <3>2
  <2>. QED BY <2>1 DEF TerminalOnlyByRelease
<1>12. ValidTerminalKept'
  BY <1>1, <1>2, <1>3 DEF ValidTerminalKept
<1>. QED BY <1>6, <1>7, <1>8, <1>9, <1>10, <1>11, <1>12

\* The other steps leave alone what the bookkeeping is about.
LEMMA UntouchedBookkeeping ==
    ASSUME Bookkeeping,
           UNCHANGED <<reservations, released, lockLog, locked, authorized, accessed, attempts,
                       recorded, terminal>>
    PROVE  Bookkeeping'
<1>1. EventsMatch' /\ WorkIsReserved' /\ LockIsOwn' /\ HeldInOrder' /\ ResultOfLock'
  BY DEF Bookkeeping, EventsMatch, WorkIsReserved, LockIsOwn, HeldInOrder, ResultOfLock
<1>2. WorkHoldsAccess' /\ ChargedLockIsCurrent' /\ TerminalOnlyByRelease' /\ ValidTerminalKept'
  BY DEF Bookkeeping, WorkHoldsAccess, ChargedLockIsCurrent, TerminalOnlyByRelease, ValidTerminalKept
<1>. QED BY <1>1, <1>2 DEF Bookkeeping

\* The invariant is inductive: one lemma per event that can disturb it.
LEMMA InvariantStep == ReducerInvariant /\ [Next]_vars => ReducerInvariant'
<1>. SUFFICES ASSUME ReducerInvariant, [Next]_vars
              PROVE  ReducerInvariant'
  OBVIOUS
<1>1. ControlTypeOK'
  BY TypesStep DEF ReducerInvariant, Bookkeeping
<1>2. Bookkeeping'
  <2>. DEFINE Untouched ==
         UNCHANGED <<reservations, released, lockLog, locked, authorized, accessed, attempts,
                     recorded, terminal>>
  <2>1. CASE ProgramLocked \/ UNCHANGED vars
    <3>1. Untouched
      BY <2>1 DEF ProgramLocked, vars, planVars, budgetVars, lockVars, runVars, resultVars
    <3>. QED BY <3>1, UntouchedBookkeeping DEF ReducerInvariant
  <2>2. ASSUME NEW i, NEW s, NEW b, ChildPrepared(i, s, b)
        PROVE  Bookkeeping'
    <3>1. Untouched
      BY <2>2 DEF ChildPrepared, budgetVars, lockVars, runVars, resultVars
    <3>. QED BY <3>1, UntouchedBookkeeping DEF ReducerInvariant
  <2>3. ASSUME NEW audit, AuditCompleted(audit)
        PROVE  Bookkeeping'
    <3>1. Untouched
      BY <2>3 DEF AuditCompleted, budgetVars, lockVars, runVars, resultVars
    <3>. QED BY <3>1, UntouchedBookkeeping DEF ReducerInvariant
  <2>. QED
    BY <2>1, <2>2, <2>3, ReserveKeepsBookkeeping, LockKeepsBookkeeping, AuthorizeKeepsBookkeeping,
       AccessKeepsBookkeeping, StartKeepsBookkeeping, CloseKeepsBookkeeping,
       RecordKeepsBookkeeping, ReleaseKeepsBookkeeping
    DEF Next
<1>. QED BY <1>1, <1>2 DEF ReducerInvariant

\* Lock, receipt, access, work and result stay consistent in every ledger the
\* reducer accepts (reduce_campaign_events).
THEOREM ReducerInvariantHolds == Spec => []ReducerInvariant
<1>1. Init => ReducerInvariant
  BY InitTyped, InitBookkeeping DEF ReducerInvariant
<1>. QED BY <1>1, InvariantStep, PTL DEF Spec

\* Every variable but the two budget totals keeps its type.
THEOREM ControlTypeCorrect == Spec => []ControlTypeOK
<1>1. ReducerInvariant => ControlTypeOK
  BY DEF ReducerInvariant
<1>. QED BY <1>1, ReducerInvariantHolds, PTL

\* A recorded result stands on the lock, the preflight receipt and the pool
\* access of its study, which result_recorded does not check itself.
THEOREM ResultStandsOnAccessHolds == Spec => []ResultStandsOnAccess
<1>1. ReducerInvariant => ResultStandsOnAccess
  BY DEF ReducerInvariant, Bookkeeping, HeldInOrder, ResultStandsOnAccess
<1>. QED BY <1>1, ReducerInvariantHolds, PTL

\* The only charged lock of a study is the one it holds, so no event that cites
\* an older lock can record or clear anything.
THEOREM ChargedLockIsCurrentHolds == Spec => []ChargedLockIsCurrent
<1>1. ReducerInvariant => ChargedLockIsCurrent
  BY DEF ReducerInvariant, Bookkeeping
<1>. QED BY <1>1, ReducerInvariantHolds, PTL

\* Results become terminal exactly when the reservation they account for is
\* released.
THEOREM TerminalOnlyByReleaseHolds == Spec => []TerminalOnlyByRelease
<1>1. ReducerInvariant => TerminalOnlyByRelease
  BY DEF ReducerInvariant, Bookkeeping
<1>. QED BY <1>1, ReducerInvariantHolds, PTL

-----------------------------------------------------------------------------
(* A valid terminal result is final *)

\* A release replaces no valid outcome: the result of the released reservation
\* would have to be that outcome, whose reservation is released already
\* (_apply_budget_released).
LEMMA ReleaseKeepsValid ==
    ASSUME ReducerInvariant, NEW s \in Studies, BudgetReleased(s)
    PROVE  /\ Outcome[s] \notin ValidOutcomes
           /\ Outcome' = [Outcome EXCEPT ![s] = recorded[s].outcome]
           /\ \A p \in Studies : p # s => terminal'[p] = terminal[p]
<1>. USE DEF ReducerInvariant, Bookkeeping
<1>1. /\ recorded[s] # None
      /\ recorded[s].reservation \notin released
      /\ terminal' = [terminal EXCEPT ![s] = recorded[s]]
  BY DEF BudgetReleased, Settle, Active
<1>2. Outcome[s] \notin ValidOutcomes
  <2>1. CASE terminal[s] = None
    BY <2>1 DEF Outcome, ValidOutcomes, Outcomes, NoResult
  <2>2. CASE terminal[s] # None
    <3>1. terminal[s].outcome = "invalid"
      BY <1>1, <2>2 DEF ValidTerminalKept, TerminalOnlyByRelease
    <3>. QED BY <2>2, <3>1 DEF Outcome, ValidOutcomes
  <2>. QED BY <2>1, <2>2
<1>3. Outcome' = [Outcome EXCEPT ![s] = recorded[s].outcome]
  BY <1>1 DEF Outcome, ControlTypeOK
<1>. QED BY <1>1, <1>2, <1>3 DEF ControlTypeOK

-----------------------------------------------------------------------------
(* Authorized work runs on the predecessor results its child cites *)

PlansArePrepared ==
    /\ \A r \in Reservations : reservations[r] # None => prepared[reservations[r].instance] # None
    /\ \A l \in DOMAIN lockLog : prepared[lockLog[l].instance] # None

\* Entry conditions are part of it: they are what makes the cited results final.
AuthorizedIsEntitled ==
    \A s \in Studies : authorized[s] # 0 => EntrySatisfied(s, Outcome)

CitedInvariant ==
    /\ ReducerInvariant
    /\ PlansArePrepared
    /\ AuthorizedIsEntitled
    /\ RunsOnCitedPredecessors

\* The results a child must cite do not change when those of its dependencies
\* do not (_dependency_ids).
LEMMA SamePredecessors ==
    ASSUME NEW s \in Studies, \A p \in Dependencies(s) : terminal'[p] = terminal[p]
    PROVE  PredecessorResults(s)' = PredecessorResults(s)
<1>1. Dependencies(s)' = Dependencies(s)
  BY DEF Dependencies
<1>2. {d \in Dependencies(s) : terminal'[d] # None} = {d \in Dependencies(s) : terminal[d] # None}
  OBVIOUS
<1>. QED BY <1>1, <1>2 DEF PredecessorResults

\* Reservations and locks name children that were prepared
\* (_apply_budget_reserved, _apply_child_locked).
LEMMA PlansStayPrepared ==
    ASSUME ReducerInvariant, PlansArePrepared, [Next]_vars
    PROVE  PlansArePrepared'
<1>. USE DEF ReducerInvariant, planVars, budgetVars, lockVars, runVars, resultVars
<1>. DEFINE Untouched == UNCHANGED <<prepared, reservations, lockLog>>
<1>1. Untouched => PlansArePrepared'
  BY DEF PlansArePrepared
<1>2. ASSUME NEW i \in Instances, NEW s \in Studies, NEW b \in ReservationBudgets,
             ChildPrepared(i, s, b)
      PROVE  PlansArePrepared'
  <2>1. \A x \in Instances : prepared[x] # None => prepared'[x] = prepared[x]
    BY <1>2 DEF ChildPrepared, ControlTypeOK
  <2>2. /\ \A r \in Reservations : reservations[r] # None => reservations[r].instance \in Instances
        /\ \A l \in DOMAIN lockLog : lockLog[l].instance \in Instances
    BY LockEventTyped DEF LockEvent, ControlTypeOK, Reservation
  <2>. QED BY <1>2, <2>1, <2>2 DEF ChildPrepared, PlansArePrepared
<1>3. ASSUME NEW r \in Reservations, NEW i \in Instances, NEW hw \in HardwareKinds,
             NEW b \in ReservationBudgets, BudgetReserved(r, i, hw, b)
      PROVE  PlansArePrepared'
  <2>1. /\ reservations'[r].instance = i
        /\ \A x \in Reservations : x # r => reservations'[x] = reservations[x]
    BY <1>3 DEF BudgetReserved, ControlTypeOK
  <2>2. prepared[i] # None /\ UNCHANGED <<prepared, lockLog>>
    BY <1>3 DEF BudgetReserved
  <2>. QED BY <2>1, <2>2 DEF PlansArePrepared
<1>4. ASSUME NEW r \in Reservations, ChildLocked(r)
      PROVE  PlansArePrepared'
  <2>. DEFINE e == [study |-> reservations[r].study, instance |-> reservations[r].instance,
                    reservation |-> r]
  <2>1. e \in LockEvent /\ e.instance = reservations[r].instance /\ reservations[r] # None
    BY <1>4 DEF ChildLocked, ControlTypeOK, Reservation, LockEvent
  <2>2. lockLog' = Append(lockLog, e) /\ UNCHANGED <<prepared, reservations>>
    BY <1>4 DEF ChildLocked
  <2>. HIDE DEF e
  <2>3. /\ DOMAIN lockLog' = DOMAIN lockLog \cup {Len(lockLog) + 1}
        /\ lockLog'[Len(lockLog) + 1] = e
        /\ \A l \in DOMAIN lockLog : lockLog'[l] = lockLog[l]
    BY <2>1, <2>2, LogGrows DEF ControlTypeOK
  <2>. QED BY <2>1, <2>2, <2>3 DEF PlansArePrepared
<1>5. ASSUME NEW audit, AuditCompleted(audit) PROVE PlansArePrepared'
  BY <1>1, <1>5 DEF AuditCompleted
<1>6. ASSUME NEW l, ExecutionAuthorized(l) PROVE PlansArePrepared'
  BY <1>1, <1>6 DEF ExecutionAuthorized
<1>7. ASSUME NEW l, PoolAccessed(l) PROVE PlansArePrepared'
  BY <1>1, <1>7 DEF PoolAccessed
<1>8. ASSUME NEW a, NEW l, NEW t, NEW b, TrialAttemptStarted(a, l, t, b) PROVE PlansArePrepared'
  BY <1>1, <1>8 DEF TrialAttemptStarted
<1>9. ASSUME NEW a, NEW completed, NEW b, NEW wrote, CloseAttempt(a, completed, b, wrote)
      PROVE  PlansArePrepared'
  BY <1>1, <1>9 DEF CloseAttempt
<1>10. ASSUME NEW l, NEW o, ResultRecorded(l, o) PROVE PlansArePrepared'
  BY <1>1, <1>10 DEF ResultRecorded
<1>11. ASSUME NEW s, BudgetReleased(s) PROVE PlansArePrepared'
  BY <1>1, <1>11 DEF BudgetReleased
<1>12. CASE ProgramLocked \/ UNCHANGED vars
  <2>1. Untouched
    BY <1>12 DEF ProgramLocked, vars
  <2>. QED BY <1>1, <2>1
<1>. HIDE DEF planVars, budgetVars, lockVars, runVars, resultVars
<1>. QED
  BY <1>2, <1>3, <1>4, <1>5, <1>6, <1>7, <1>8, <1>9, <1>10, <1>11, <1>12 DEF Next

\* What an authorized child cites and is entitled by stays as long as its
\* receipt, the lock and the results of its dependencies stay.
LEMMA CitedIsKept ==
    ASSUME CitedInvariant, NEW s \in Studies,
           authorized[s] # 0,
           locked'[s] = locked[s],
           lockLog'[locked[s]] = lockLog[locked[s]],
           prepared'[lockLog[locked[s]].instance] = prepared[lockLog[locked[s]].instance],
           \A p \in Dependencies(s) : terminal'[p] = terminal[p]
    PROVE  RequiresAnyPositive[s] \subseteq RequiresAll[s] =>
              prepared'[lockLog'[locked'[s]].instance].predecessors = PredecessorResults(s)'
BY SamePredecessors DEF CitedInvariant, RunsOnCitedPredecessors

\* An accepted lock event and the child plan it locks are never changed.
LEMMA EventsStay ==
    ASSUME ReducerInvariant, PlansArePrepared, [Next]_vars
    PROVE  \A l \in DOMAIN lockLog :
              /\ lockLog'[l] = lockLog[l]
              /\ prepared'[lockLog[l].instance] = prepared[lockLog[l].instance]
<1>. USE DEF ReducerInvariant, planVars, budgetVars, lockVars, runVars, resultVars
<1>. DEFINE Stay == \A l \in DOMAIN lockLog :
                       /\ lockLog'[l] = lockLog[l]
                       /\ prepared'[lockLog[l].instance] = prepared[lockLog[l].instance]
<1>1. UNCHANGED <<lockLog, prepared>> => Stay
  OBVIOUS
<1>2. ASSUME NEW i \in Instances, NEW s, NEW b, ChildPrepared(i, s, b)
      PROVE  Stay
  BY <1>2, LockEventTyped DEF ChildPrepared, PlansArePrepared, LockEvent, ControlTypeOK
<1>3. ASSUME NEW r \in Reservations, ChildLocked(r)
      PROVE  Stay
  <2>. DEFINE e == [study |-> reservations[r].study, instance |-> reservations[r].instance,
                    reservation |-> r]
  <2>1. e \in LockEvent /\ lockLog' = Append(lockLog, e) /\ prepared' = prepared
    BY <1>3 DEF ChildLocked, ControlTypeOK, Reservation, LockEvent
  <2>. QED BY <2>1, LogGrows DEF ControlTypeOK
<1>4. ASSUME NEW r, NEW i, NEW hw, NEW b, BudgetReserved(r, i, hw, b) PROVE Stay
  BY <1>1, <1>4 DEF BudgetReserved
<1>5. ASSUME NEW audit, AuditCompleted(audit) PROVE Stay
  BY <1>1, <1>5 DEF AuditCompleted
<1>6. ASSUME NEW l, ExecutionAuthorized(l) PROVE Stay
  BY <1>1, <1>6 DEF ExecutionAuthorized
<1>7. ASSUME NEW l, PoolAccessed(l) PROVE Stay
  BY <1>1, <1>7 DEF PoolAccessed
<1>8. ASSUME NEW a, NEW l, NEW t, NEW b, TrialAttemptStarted(a, l, t, b) PROVE Stay
  BY <1>1, <1>8 DEF TrialAttemptStarted
<1>9. ASSUME NEW a, NEW completed, NEW b, NEW wrote, CloseAttempt(a, completed, b, wrote)
      PROVE  Stay
  BY <1>1, <1>9 DEF CloseAttempt
<1>10. ASSUME NEW l, NEW o, ResultRecorded(l, o) PROVE Stay
  BY <1>1, <1>10 DEF ResultRecorded
<1>11. ASSUME NEW s, BudgetReleased(s) PROVE Stay
  BY <1>1, <1>11 DEF BudgetReleased
<1>12. CASE ProgramLocked \/ UNCHANGED vars
  <2>1. UNCHANGED <<lockLog, prepared>>
    BY <1>12 DEF ProgramLocked, vars
  <2>. QED BY <1>1, <2>1
<1>. HIDE DEF planVars, budgetVars, lockVars, runVars, resultVars
<1>. QED
  BY <1>2, <1>3, <1>4, <1>5, <1>6, <1>7, <1>8, <1>9, <1>10, <1>11, <1>12 DEF Next

\* A step that keeps every valid outcome keeps every satisfied entry condition
\* (_entry_is_satisfied of research_state.py).
LEMMA EntryStable ==
    ASSUME NEW s \in Studies, NEW before, NEW after,
           EntrySatisfied(s, before),
           \A p \in Studies : before[p] \in ValidOutcomes => after[p] = before[p]
    PROVE  EntrySatisfied(s, after)
<1>1. RequiresAll[s] \subseteq Studies /\ RequiresAnyPositive[s] \subseteq Studies
  BY ProgramAssumption
<1>2. \A p \in RequiresAll[s] : after[p] \in ValidOutcomes
  BY <1>1 DEF EntrySatisfied
<1>3. BranchActivated(s, after)
  <2>1. CASE RequiresAnyPositive[s] = {}
    BY <2>1 DEF BranchActivated
  <2>2. CASE RequiresAnyPositive[s] # {}
    <3>1. PICK p \in RequiresAnyPositive[s] : before[p] = "positive"
      BY <2>2 DEF EntrySatisfied, BranchActivated
    <3>2. before[p] \in ValidOutcomes
      BY <3>1 DEF ValidOutcomes, Outcomes
    <3>3. after[p] = "positive"
      BY <1>1, <3>1, <3>2
    <3>. QED BY <3>3 DEF BranchActivated
  <2>. QED BY <2>1, <2>2
<1>. QED BY <1>2, <1>3 DEF EntrySatisfied

\* A step that leaves authorizations, the locks of authorized studies and
\* terminal results alone keeps every authorized study entitled.
LEMMA EntitlementKept ==
    ASSUME CitedInvariant, [Next]_vars,
           authorized' = authorized, terminal' = terminal,
           \A s \in Studies : authorized[s] # 0 => locked'[s] = locked[s]
    PROVE  AuthorizedIsEntitled' /\ RunsOnCitedPredecessors'
<1>. USE DEF CitedInvariant
<1>1. Outcome' = Outcome
  BY DEF Outcome
<1>2. AuthorizedIsEntitled'
  BY <1>1 DEF AuthorizedIsEntitled, EntrySatisfied, BranchActivated
<1>3. \A s \in Studies : authorized[s] # 0 => locked[s] \in DOMAIN lockLog
  BY DEF ReducerInvariant, Bookkeeping, HeldInOrder, ControlTypeOK, LockIds
<1>4. RunsOnCitedPredecessors'
  BY <1>3, EventsStay, CitedIsKept DEF RunsOnCitedPredecessors
<1>. QED BY <1>2, <1>4

\* The release that ends a study's invalid result takes its authorization away;
\* the studies it leaves authorized do not depend on it, because what they
\* require is validly terminal and stays so (_apply_budget_released).
LEMMA ReleaseKeepsEntitlement ==
    ASSUME CitedInvariant, NEW p \in Studies, BudgetReleased(p)
    PROVE  AuthorizedIsEntitled' /\ RunsOnCitedPredecessors'
<1>. USE DEF CitedInvariant
<1>1. /\ Outcome[p] \notin ValidOutcomes
      /\ Outcome' = [Outcome EXCEPT ![p] = recorded[p].outcome]
      /\ \A x \in Studies : x # p => terminal'[x] = terminal[x]
  BY ReleaseKeepsValid
<1>2. \A x \in Studies : Outcome[x] \in ValidOutcomes => Outcome'[x] = Outcome[x]
  BY <1>1 DEF Outcome
<1>3. \A x \in Studies : authorized'[x] # 0 => /\ authorized[x] # 0
                                               /\ locked'[x] = locked[x]
  BY DEF BudgetReleased, ClearStudy, ReducerInvariant, ControlTypeOK
<1>4. UNCHANGED <<lockLog, prepared>>
  BY DEF BudgetReleased, planVars
<1>5. ASSUME NEW s \in Studies, authorized'[s] # 0
      PROVE  EntrySatisfied(s, Outcome')
  BY <1>2, <1>3, <1>5, EntryStable DEF AuthorizedIsEntitled
<1>6. ASSUME NEW s \in Studies, authorized'[s] # 0, RequiresAnyPositive[s] \subseteq RequiresAll[s]
      PROVE  prepared'[lockLog'[locked'[s]].instance].predecessors = PredecessorResults(s)'
  <2>1. \A x \in Dependencies(s) : Outcome[x] \in ValidOutcomes
    BY <1>3, <1>6 DEF AuthorizedIsEntitled, EntrySatisfied, Dependencies
  <2>2. \A x \in Dependencies(s) : terminal'[x] = terminal[x]
    BY <1>1, <2>1, ProgramAssumption DEF Dependencies
  <2>. QED BY <1>3, <1>4, <1>6, <2>2, CitedIsKept
<1>7. AuthorizedIsEntitled'
  BY <1>5 DEF AuthorizedIsEntitled, EntrySatisfied, BranchActivated
<1>. QED BY <1>6, <1>7 DEF RunsOnCitedPredecessors

\* The preflight compares what the child cites with the ledger
\* (child_authorization_issues).
LEMMA AuthorizeEntitles ==
    ASSUME CitedInvariant, [Next]_vars, NEW l \in DOMAIN lockLog, ExecutionAuthorized(l)
    PROVE  AuthorizedIsEntitled' /\ RunsOnCitedPredecessors'
<1>. USE DEF CitedInvariant
<1>. DEFINE e == lockLog[l].study
<1>1. /\ UNCHANGED <<locked, lockLog, prepared, terminal>>
      /\ authorized' = [authorized EXCEPT ![e] = l]
      /\ EntrySatisfied(e, Outcome)
      /\ lockLog[locked[e]].instance = lockLog[l].instance
      /\ prepared[lockLog[l].instance].predecessors = PredecessorResults(e)
  BY DEF ExecutionAuthorized, ChildAuthorizable, planVars, resultVars
<1>2. e \in Studies
  BY LockEventTyped DEF LockEvent, ReducerInvariant
<1>3. Outcome' = Outcome
  BY <1>1 DEF Outcome
<1>4. AuthorizedIsEntitled'
  BY <1>1, <1>2, <1>3
  DEF AuthorizedIsEntitled, EntrySatisfied, BranchActivated, ReducerInvariant, ControlTypeOK
<1>. HIDE DEF e
<1>5. \A s \in Studies : s # e => authorized'[s] = authorized[s]
  BY <1>1 DEF ReducerInvariant, ControlTypeOK
<1>6. ASSUME NEW s \in Studies, authorized'[s] # 0, RequiresAnyPositive[s] \subseteq RequiresAll[s]
      PROVE  prepared'[lockLog'[locked'[s]].instance].predecessors = PredecessorResults(s)'
  <2>1. CASE s = e
    <3>1. PredecessorResults(s)' = PredecessorResults(s)
      BY <1>1, SamePredecessors
    <3>2. prepared[lockLog[locked[s]].instance].predecessors = PredecessorResults(s)
      BY <1>1, <2>1
    <3>. QED BY <1>1, <3>1, <3>2
  <2>2. CASE s # e
    BY <1>1, <1>5, <1>6, <2>2, CitedIsKept
  <2>. QED BY <2>1, <2>2
<1>. QED BY <1>4, <1>6 DEF RunsOnCitedPredecessors

\* Nothing is authorized in the empty ledger.
LEMMA InitCited == Init => CitedInvariant
<1>1. Init => ReducerInvariant
  BY InitTyped, InitBookkeeping DEF ReducerInvariant
<1>2. ASSUME Init PROVE PlansArePrepared /\ AuthorizedIsEntitled /\ RunsOnCitedPredecessors
  BY <1>2 DEF Init, PlansArePrepared, AuthorizedIsEntitled, RunsOnCitedPredecessors
<1>. QED BY <1>1, <1>2 DEF CitedInvariant

\* Every event keeps authorized studies entitled and on the results they cite.
LEMMA CitedStep == CitedInvariant /\ [Next]_vars => CitedInvariant'
<1>. SUFFICES ASSUME CitedInvariant, [Next]_vars
              PROVE  CitedInvariant'
  OBVIOUS
<1>. DEFINE Entitled == AuthorizedIsEntitled' /\ RunsOnCitedPredecessors'
<1>1. ReducerInvariant' /\ PlansArePrepared'
  BY InvariantStep, PlansStayPrepared DEF CitedInvariant
<1>2. UNCHANGED <<locked, authorized, terminal>> => Entitled
  BY EntitlementKept
<1>3. ASSUME NEW l \in DOMAIN lockLog, ExecutionAuthorized(l) PROVE Entitled
  BY <1>3, AuthorizeEntitles
<1>4. ASSUME NEW s \in Studies, BudgetReleased(s) PROVE Entitled
  BY <1>4, ReleaseKeepsEntitlement
<1>5. ASSUME NEW r \in Reservations, ChildLocked(r) PROVE Entitled
  <2>1. UNCHANGED <<authorized, terminal>>
    BY <1>5 DEF ChildLocked, resultVars
  <2>2. \A s \in Studies : locked[s] # 0 => locked'[s] = locked[s]
    BY <1>5 DEF ChildLocked, CitedInvariant, ReducerInvariant, ControlTypeOK
  <2>3. \A s \in Studies : authorized[s] # 0 => locked[s] # 0
    BY DEF CitedInvariant, ReducerInvariant, Bookkeeping, HeldInOrder
  <2>. QED BY <2>1, <2>2, <2>3, EntitlementKept
<1>. HIDE DEF Entitled
<1>. USE DEF planVars, budgetVars, lockVars, runVars, resultVars
<1>6. ASSUME ProgramLocked \/ UNCHANGED vars PROVE Entitled
  <2>1. UNCHANGED <<locked, authorized, terminal>>
    BY <1>6 DEF ProgramLocked, vars
  <2>. QED BY <1>2, <2>1
<1>7. ASSUME NEW i, NEW s, NEW b, ChildPrepared(i, s, b) PROVE Entitled
  BY <1>2, <1>7 DEF ChildPrepared
<1>8. ASSUME NEW r, NEW i, NEW hw, NEW b, BudgetReserved(r, i, hw, b) PROVE Entitled
  BY <1>2, <1>8 DEF BudgetReserved
<1>9. ASSUME NEW audit, AuditCompleted(audit) PROVE Entitled
  BY <1>2, <1>9 DEF AuditCompleted
<1>10. ASSUME NEW l, PoolAccessed(l) PROVE Entitled
  BY <1>2, <1>10 DEF PoolAccessed
<1>11. ASSUME NEW a, NEW l, NEW t, NEW b, TrialAttemptStarted(a, l, t, b) PROVE Entitled
  BY <1>2, <1>11 DEF TrialAttemptStarted
<1>12. ASSUME NEW a, NEW completed, NEW b, NEW wrote, CloseAttempt(a, completed, b, wrote)
       PROVE  Entitled
  BY <1>2, <1>12 DEF CloseAttempt
<1>13. ASSUME NEW l, NEW o, ResultRecorded(l, o) PROVE Entitled
  BY <1>2, <1>13 DEF ResultRecorded
<1>. HIDE DEF planVars, budgetVars, lockVars, runVars, resultVars
<1>14. Entitled
  BY <1>3, <1>4, <1>5, <1>6, <1>7, <1>8, <1>9, <1>10, <1>11, <1>12, <1>13 DEF Next
<1>. QED BY <1>1, <1>14 DEF CitedInvariant, Entitled

\* No predecessor that requires_all_completed names changes under an authorized
\* child: the comparison the preflight makes once holds until the study is
\* cleared (child_authorization_issues, _apply_budget_released).
THEOREM RunsOnCitedPredecessorsHolds == Spec => []RunsOnCitedPredecessors
<1>1. CitedInvariant => RunsOnCitedPredecessors
  BY DEF CitedInvariant
<1>. QED BY <1>1, InitCited, CitedStep, PTL DEF Spec

-----------------------------------------------------------------------------
(* The history of a trial *)

\* A trial has finitely many attempts (CampaignState.closed_attempts).
LEMMA TrialAttemptsFinite ==
    ASSUME NEW r, NEW t
    PROVE  /\ IsFiniteSet(TrialAttempts(r, t))
           /\ Cardinality(TrialAttempts(r, t)) \in Nat
<1>1. TrialAttempts(r, t) \subseteq Attempts
  BY DEF TrialAttempts, AttemptsOf
<1>. QED BY <1>1, FS_Subset, FS_CardinalityType, BudgetAssumption

\* A started attempt takes the next number of its trial and is its last
\* (_apply_trial_attempt_started).
LEMMA StartExtendsHistory ==
    ASSUME ReducerInvariant, TrialHistoryPreserved,
           NEW b \in Attempts, NEW l \in DOMAIN lockLog, NEW u \in Trials,
           NEW requested \in AttemptBudgets, TrialAttemptStarted(b, l, u, requested)
    PROVE  TrialHistoryPreserved'
<1>. DEFINE q == lockLog[l].reservation
            new == [status |-> "open", reservation |-> q, trial |-> u, ordinal |-> NextOrdinal(q, u),
                    requested |-> requested, actual |-> NoUse]
<1>1. /\ attempts[b] = None
      /\ attempts'[b] = new
      /\ \A a \in Attempts : a # b => attempts'[a] = attempts[a]
      /\ TrialIsIdle(q, u)
  BY DEF TrialAttemptStarted, ReducerInvariant, ControlTypeOK
<1>2. q \in Reservations
  BY LockEventTyped DEF LockEvent, ReducerInvariant
<1>3. /\ new # None
      /\ new.status = "open" /\ new.reservation = q /\ new.trial = u
      /\ new.ordinal = Cardinality(TrialAttempts(q, u)) + 1
  <2>1. new \in Attempt
    BY <1>2, OrdinalPositive DEF Attempt
  <2>. QED BY <2>1, NoneAssumption DEF NextOrdinal
<1>. HIDE DEF q, new
<1>. SUFFICES ASSUME NEW r \in Reservations, NEW t \in Trials
              PROVE  LET history == TrialAttempts(r, t)'
                     IN /\ {attempts'[a].ordinal : a \in history} = 1..Cardinality(history)
                        /\ \A a \in history : attempts'[a].status = "open" =>
                              attempts'[a].ordinal = Cardinality(history)
  BY DEF TrialHistoryPreserved, TrialAttempts, AttemptsOf
<1>. DEFINE old == TrialAttempts(r, t)
            n == Cardinality(old)
<1>4. /\ old \subseteq Attempts /\ b \notin old
      /\ n \in Nat /\ IsFiniteSet(old)
      /\ {attempts[a].ordinal : a \in old} = 1..n
      /\ \A a \in old : attempts[a].status = "open" => attempts[a].ordinal = n
  <2>1. old \subseteq Attempts /\ b \notin old
    BY <1>1 DEF TrialAttempts, AttemptsOf
  <2>2. n \in Nat /\ IsFiniteSet(old)
    BY TrialAttemptsFinite
  <2>3. /\ {attempts[a].ordinal : a \in old} = 1..n
        /\ \A a \in old : attempts[a].status = "open" => attempts[a].ordinal = n
    BY DEF TrialHistoryPreserved
  <2>. QED BY <2>1, <2>2, <2>3
<1>5. CASE r = q /\ t = u
  <2>1. TrialAttempts(r, t)' = old \cup {b}
    BY <1>1, <1>3, <1>5 DEF TrialAttempts, AttemptsOf
  <2>2. Cardinality(old \cup {b}) = n + 1
    BY <1>4, FS_AddElement
  <2>3. {attempts'[a].ordinal : a \in old \cup {b}} = 1..(n + 1)
    <3>1. {attempts'[a].ordinal : a \in old} = 1..n
      BY <1>1, <1>4
    <3>2. attempts'[b].ordinal = n + 1
      BY <1>1, <1>3, <1>5
    <3>3. {attempts'[a].ordinal : a \in old \cup {b}} = (1..n) \cup {n + 1}
      BY <3>1, <3>2
    <3>. QED BY <3>3, <1>4
  <2>4. \A a \in old : attempts'[a].status # "open"
    BY <1>1, <1>4, <1>5 DEF TrialIsIdle, TrialAttempts, OpenAttempts
  <2>. QED BY <1>1, <1>3, <1>5, <2>1, <2>2, <2>3, <2>4
<1>6. CASE ~(r = q /\ t = u)
  <2>1. TrialAttempts(r, t)' = old
    BY <1>1, <1>3, <1>6 DEF TrialAttempts, AttemptsOf
  <2>2. {attempts'[a].ordinal : a \in old} = 1..n
    BY <1>1, <1>4
  <2>. QED BY <1>1, <1>4, <2>1, <2>2
<1>. QED BY <1>5, <1>6

\* A closed attempt keeps its trial and its number (_close_attempt).
LEMMA CloseKeepsHistory ==
    ASSUME ReducerInvariant, TrialHistoryPreserved,
           NEW b \in Attempts, NEW completed, NEW actual \in AttemptBudgets, NEW wrote,
           CloseAttempt(b, completed, actual, wrote)
    PROVE  TrialHistoryPreserved'
<1>. DEFINE closed == [attempts[b] EXCEPT !.status = IF completed THEN "completed" ELSE "failed",
                                          !.actual = actual]
<1>1. \A a \in Attempts : /\ (attempts'[a] = None) <=> (attempts[a] = None)
                          /\ attempts[a] # None =>
                               /\ attempts'[a].reservation = attempts[a].reservation
                               /\ attempts'[a].trial = attempts[a].trial
                               /\ attempts'[a].ordinal = attempts[a].ordinal
                               /\ attempts'[a].status = "open" => attempts[a].status = "open"
  <2>1. attempts[b] \in Attempt /\ attempts[b] # None /\ attempts[b].status = "open"
    BY DEF CloseAttempt, ReducerInvariant, ControlTypeOK
  <2>2. /\ attempts'[b] = closed
        /\ \A a \in Attempts : a # b => attempts'[a] = attempts[a]
    BY DEF CloseAttempt, ReducerInvariant, ControlTypeOK
  <2>3. /\ closed \in Attempt
        /\ closed.reservation = attempts[b].reservation
        /\ closed.trial = attempts[b].trial
        /\ closed.ordinal = attempts[b].ordinal
    BY <2>1 DEF Attempt
  <2>. HIDE DEF closed
  <2>. QED BY <2>1, <2>2, <2>3, NoneAssumption
<1>2. ASSUME NEW r \in Reservations, NEW t \in Trials
      PROVE  /\ TrialAttempts(r, t)' = TrialAttempts(r, t)
             /\ {attempts'[a].ordinal : a \in TrialAttempts(r, t)} =
                {attempts[a].ordinal : a \in TrialAttempts(r, t)}
  BY <1>1 DEF TrialAttempts, AttemptsOf
<1>. SUFFICES ASSUME NEW r \in Reservations, NEW t \in Trials
              PROVE  LET history == TrialAttempts(r, t)'
                     IN /\ {attempts'[a].ordinal : a \in history} = 1..Cardinality(history)
                        /\ \A a \in history : attempts'[a].status = "open" =>
                              attempts'[a].ordinal = Cardinality(history)
  BY DEF TrialHistoryPreserved, TrialAttempts, AttemptsOf
<1>3. /\ TrialAttempts(r, t) \subseteq Attempts
      /\ \A a \in TrialAttempts(r, t) : attempts[a] # None
  BY DEF TrialAttempts, AttemptsOf
<1>. QED BY <1>1, <1>2, <1>3 DEF TrialHistoryPreserved

\* The other events touch no attempt.
LEMMA HistoryUntouched ==
    ASSUME TrialHistoryPreserved, attempts' = attempts
    PROVE  TrialHistoryPreserved'
BY DEF TrialHistoryPreserved, TrialAttempts, AttemptsOf

\* Only a start and an end of an attempt concern the history of its trial.
LEMMA HistoryStep ==
    ReducerInvariant /\ TrialHistoryPreserved /\ [Next]_vars => TrialHistoryPreserved'
<1>. SUFFICES ASSUME ReducerInvariant, TrialHistoryPreserved, [Next]_vars
              PROVE  TrialHistoryPreserved'
  OBVIOUS
<1>1. ASSUME NEW i, NEW s, NEW b, ChildPrepared(i, s, b) PROVE attempts' = attempts
  BY <1>1 DEF ChildPrepared, runVars
<1>2. ASSUME NEW r, NEW i, NEW hw, NEW b, BudgetReserved(r, i, hw, b) PROVE attempts' = attempts
  BY <1>2 DEF BudgetReserved, runVars
<1>3. ASSUME NEW audit, AuditCompleted(audit) PROVE attempts' = attempts
  BY <1>3 DEF AuditCompleted, runVars
<1>4. ASSUME NEW r, ChildLocked(r) PROVE attempts' = attempts
  BY <1>4 DEF ChildLocked, runVars
<1>5. ASSUME NEW l, ExecutionAuthorized(l) PROVE attempts' = attempts
  BY <1>5 DEF ExecutionAuthorized, runVars
<1>6. ASSUME NEW l, PoolAccessed(l) PROVE attempts' = attempts
  BY <1>6 DEF PoolAccessed, runVars
<1>7. ASSUME NEW l, NEW o, ResultRecorded(l, o) PROVE attempts' = attempts
  BY <1>7 DEF ResultRecorded, runVars
<1>8. ASSUME NEW s, BudgetReleased(s) PROVE attempts' = attempts
  BY <1>8 DEF BudgetReleased, runVars
<1>9. ProgramLocked \/ UNCHANGED vars => attempts' = attempts
  BY DEF ProgramLocked, vars, runVars
<1>. QED
  BY <1>1, <1>2, <1>3, <1>4, <1>5, <1>6, <1>7, <1>8, <1>9, StartExtendsHistory,
     CloseKeepsHistory, HistoryUntouched
  DEF Next

\* However many attempts of however many trials are open at once, those of one
\* trial are numbered without gaps and only the last may be open.
THEOREM TrialHistoryPreservedHolds == Spec => []TrialHistoryPreserved
<1>1. Init => TrialHistoryPreserved
  <2>. SUFFICES ASSUME Init PROVE TrialHistoryPreserved
    OBVIOUS
  <2>1. \A r \in Reservations, t \in Trials : TrialAttempts(r, t) = {}
    BY DEF Init, TrialAttempts, AttemptsOf
  <2>. QED BY <2>1, FS_EmptySet DEF TrialHistoryPreserved
<1>. QED BY <1>1, HistoryStep, ReducerInvariantHolds, PTL DEF Spec

-----------------------------------------------------------------------------
(* Sums.  SumFunctionOnSet is a fold over a set, which takes its elements   *)
(* in an order nobody knows.  Induction is over the subsets of the set: a   *)
(* collection of them that is not empty has a smallest member.              *)

\* A collection of subsets of a finite set has one of which it holds no
\* smaller by one element.
LEMMA SmallestSet ==
    ASSUME NEW S, IsFiniteSet(S), NEW C \in SUBSET (SUBSET S), C # {}
    PROVE  \E m \in C : \A x \in m : m \ {x} \notin C
<1>1. IsWellFoundedOn(StrictSubsetOrdering(S), FiniteSubsetsOf(S))
  BY FS_StrictSubsetOrderingWellFounded
<1>2. C \subseteq FiniteSubsetsOf(S)
  BY FS_Subset DEF FiniteSubsetsOf
<1>3. PICK m \in C : \A y \in C : ~(<<y, m>> \in StrictSubsetOrdering(S))
  BY <1>1, <1>2, WFMin
<1>4. ASSUME NEW x \in m, m \ {x} \in C PROVE FALSE
  <2>1. <<m \ {x}, m>> \in StrictSubsetOrdering(S)
    BY <1>4 DEF StrictSubsetOrdering
  <2>. QED BY <1>3, <1>4, <2>1
<1>. QED BY <1>3, <1>4

\* A set of naturals has a member that is 0 or whose predecessor it lacks.
LEMMA SmallestNat ==
    ASSUME NEW T \in SUBSET Nat, T # {}
    PROVE  \E n \in T : n = 0 \/ (n - 1 \in Nat /\ n - 1 \notin T)
<1>. DEFINE R == OpToRel(<, Nat)
<1>1. IsWellFoundedOn(R, Nat)
  BY NatLessThanWellFounded
<1>2. R = {ss \in Nat \X Nat : ss[1] < ss[2]}
  BY DEF OpToRel
<1>. HIDE DEF R
<1>3. PICK n \in T : \A k \in T : ~(<<k, n>> \in R)
  BY <1>1, WFMin
<1>4. ASSUME n # 0, n - 1 \in T PROVE FALSE
  <2>1. n - 1 \in Nat /\ n \in Nat /\ n - 1 < n
    BY <1>4
  <2>2. <<n - 1, n>> \in R
    BY <2>1, <1>2
  <2>. QED BY <1>3, <1>4, <2>2
<1>5. n # 0 => n - 1 \in Nat
  OBVIOUS
<1>. QED BY <1>3, <1>4, <1>5

\* One step of the fold, and the function it defines on the subsets of S.
FoldStep(w, g, s) ==
    IF s = {} THEN 0 ELSE w[CHOOSE x \in s : TRUE] + g[s \ {CHOOSE x \in s : TRUE}]
IsFold(w, g, S) == g = [s \in SUBSET S |-> FoldStep(w, g, s)]

\* g folds the subsets with at most n elements.
SmallSets(S, n) == {s \in SUBSET S : Cardinality(s) <= n}
FoldsUpTo(w, g, S, n) == \A s \in SmallSets(S, n) : g[s] = FoldStep(w, g, s)

\* The fold of a finite set is defined.
LEMMA FoldExists ==
    ASSUME NEW w, NEW S, IsFiniteSet(S)
    PROVE  \E g : IsFold(w, g, S)
<1>0. \A s \in SUBSET S : IsFiniteSet(s) /\ Cardinality(s) \in Nat /\ Cardinality(s) <= Cardinality(S)
  BY FS_Subset, FS_CardinalityType
<1>. DEFINE Bad == {n \in Nat : ~ \E g : FoldsUpTo(w, g, S, n)}
<1>1. Bad = {}
  <2> SUFFICES ASSUME Bad # {} PROVE FALSE
    OBVIOUS
  <2>1. PICK n \in Bad : n = 0 \/ (n - 1 \in Nat /\ n - 1 \notin Bad)
    <3> HIDE DEF Bad
    <3>1. Bad \in SUBSET Nat BY DEF Bad
    <3>. QED BY <3>1, SmallestNat
  <2>2. CASE n = 0
    <3> DEFINE g == [t \in SUBSET S |-> 0]
    <3>1. \A t \in SmallSets(S, 0) : t = {}
      BY <1>0, FS_EmptySet DEF SmallSets
    <3>2. FoldsUpTo(w, g, S, 0)
      BY <3>1 DEF FoldsUpTo, SmallSets, FoldStep
    <3>. QED BY <3>2, <2>2
  <2>3. CASE n # 0
    <3>1. PICK g : FoldsUpTo(w, g, S, n - 1)
      BY <2>1, <2>3
    <3> DEFINE h == [t \in SUBSET S |-> FoldStep(w, g, t)]
    <3>2. \A t \in SmallSets(S, n - 1) : h[t] = g[t]
      BY <3>1 DEF FoldsUpTo, SmallSets
    <3>3. ASSUME NEW t \in SmallSets(S, n), t # {} 
          PROVE  t \ {CHOOSE x \in t : TRUE} \in SmallSets(S, n - 1)
      <4>1. t \in SUBSET S /\ IsFiniteSet(t) /\ Cardinality(t) \in Nat /\ Cardinality(t) <= n /\ n \in Nat
        BY <1>0, <2>1 DEF SmallSets
      <4> DEFINE c == CHOOSE x \in t : TRUE
      <4>2. c \in t
        BY <3>3
      <4> HIDE DEF c
      <4>3. Cardinality(t \ {c}) = Cardinality(t) - 1
        BY <4>1, <4>2, FS_RemoveElement
      <4>4. t \ {c} \in SmallSets(S, n - 1)
        BY <4>1, <4>3 DEF SmallSets
      <4>. QED BY <4>4 DEF c
    <3>4. FoldsUpTo(w, h, S, n)
      <4> SUFFICES ASSUME NEW t \in SmallSets(S, n) PROVE h[t] = FoldStep(w, h, t)
        BY DEF FoldsUpTo
      <4>1. h[t] = FoldStep(w, g, t)
        BY DEF SmallSets
      <4>2. CASE t = {}
        BY <4>1, <4>2 DEF FoldStep
      <4>3. CASE t # {}
        <5>1. h[t \ {CHOOSE x \in t : TRUE}] = g[t \ {CHOOSE x \in t : TRUE}]
          BY <3>2, <3>3, <4>3
        <5>. QED BY <4>1, <4>3, <5>1 DEF FoldStep
      <4>. QED BY <4>2, <4>3
    <3>. QED BY <3>4
  <2>. QED BY <2>2, <2>3
<1>2. Cardinality(S) \in Nat
  BY FS_CardinalityType
<1>3. PICK g : FoldsUpTo(w, g, S, Cardinality(S))
  BY <1>1, <1>2
<1>. DEFINE h == [t \in SUBSET S |-> g[t]]
<1>4. \A t \in SUBSET S : g[t] = FoldStep(w, g, t)
  BY <1>3, <1>0 DEF FoldsUpTo, SmallSets
<1>5. \A t \in SUBSET S : FoldStep(w, g, t) = FoldStep(w, h, t)
  BY DEF FoldStep
<1>6. h = [t \in SUBSET S |-> FoldStep(w, h, t)]
  BY <1>4, <1>5
<1>. QED BY <1>6 DEF IsFold


\* A sum is the value of such a function.
LEMMA SumIsFold ==
    ASSUME NEW w, NEW S, IsFiniteSet(S)
    PROVE  \E g : IsFold(w, g, S) /\ SumFunctionOnSet(w, S) = g[S]
<1>. DEFINE g == CHOOSE h : IsFold(w, h, S)
<1>1. IsFold(w, g, S)
  BY FoldExists
<1>2. SumFunctionOnSet(w, S) = g[S]
  BY DEF SumFunctionOnSet, FoldFunctionOnSet, MapThenFoldSet, IsFold, FoldStep
<1>. QED BY <1>1, <1>2

\* Two folds agree on the sets both have, if their summands do.
LEMMA FoldsAgree ==
    ASSUME NEW S, IsFiniteSet(S), NEW T \in SUBSET S, NEW v, NEW w, NEW g, NEW h,
           \A x \in T : v[x] = w[x], IsFold(v, g, T), IsFold(w, h, S)
    PROVE  g[T] = h[T]
<1>. DEFINE Bad == {s \in SUBSET T : g[s] # h[s]}
<1>1. SUFFICES ASSUME Bad # {} PROVE FALSE
  OBVIOUS
<1>2. PICK m \in Bad : \A x \in m : m \ {x} \notin Bad
  <2>1. Bad \in SUBSET (SUBSET T) /\ IsFiniteSet(T)
    BY FS_Subset
  <2>. HIDE DEF Bad
  <2>. QED BY <1>1, <2>1, SmallestSet
<1>. DEFINE c == CHOOSE x \in m : TRUE
<1>3. g[m] = FoldStep(v, g, m) /\ h[m] = FoldStep(w, h, m)
  BY <1>2 DEF IsFold
<1>4. CASE m = {}
  BY <1>2, <1>3, <1>4 DEF FoldStep
<1>5. CASE m # {}
  <2>1. c \in m
    BY <1>5
  <2>2. g[m \ {c}] = h[m \ {c}] /\ v[c] = w[c]
    BY <1>2, <2>1
  <2>. QED BY <1>2, <1>3, <1>5, <2>2 DEF FoldStep
<1>. QED BY <1>4, <1>5

\* A fold of naturals is a natural on every set.
LEMMA FoldTyped ==
    ASSUME NEW S, NEW w, NEW g, IsFiniteSet(S), IsFold(w, g, S), \A x \in S : w[x] \in Nat
    PROVE  \A s \in SUBSET S : g[s] \in Nat
<1>. DEFINE Bad == {s \in SUBSET S : g[s] \notin Nat}
<1>1. SUFFICES ASSUME Bad # {} PROVE FALSE
  OBVIOUS
<1>2. PICK m \in Bad : \A x \in m : m \ {x} \notin Bad
  <2>1. Bad \in SUBSET (SUBSET S)
    OBVIOUS
  <2>. HIDE DEF Bad
  <2>. QED BY <1>1, <2>1, SmallestSet
<1>. DEFINE c == CHOOSE x \in m : TRUE
<1>3. g[m] = FoldStep(w, g, m)
  BY <1>2 DEF IsFold
<1>4. CASE m = {}
  BY <1>2, <1>3, <1>4 DEF FoldStep
<1>5. CASE m # {}
  <2>1. c \in m
    BY <1>5
  <2>2. g[m \ {c}] \in Nat /\ w[c] \in Nat
    BY <1>2, <2>1
  <2>. QED BY <1>2, <1>3, <1>5, <2>2 DEF FoldStep
<1>. QED BY <1>4, <1>5

\* The order does not matter: any element may be added last.
LEMMA AnyElementLast ==
    ASSUME NEW S, NEW w, NEW g, IsFiniteSet(S), \A x \in S : w[x] \in Nat, IsFold(w, g, S)
    PROVE  \A x \in S : g[S] = w[x] + g[S \ {x}]
<1>1. \A s \in SUBSET S : g[s] \in Nat
  BY FoldTyped
<1>. DEFINE Good(s) == \A x \in s : g[s] = w[x] + g[s \ {x}]
            Bad == {s \in SUBSET S : ~Good(s)}
<1>2. SUFFICES ASSUME Bad # {} PROVE FALSE
  <2>1. S \in SUBSET S
    OBVIOUS
  <2>. QED BY <2>1
<1>3. PICK m \in Bad : \A x \in m : m \ {x} \notin Bad
  <2>1. Bad \in SUBSET (SUBSET S)
    OBVIOUS
  <2>. HIDE DEF Bad
  <2>. QED BY <1>2, <2>1, SmallestSet
<1>4. PICK x \in m : g[m] # w[x] + g[m \ {x}]
  BY <1>3
<1>. DEFINE c == CHOOSE y \in m : TRUE
<1>5. c \in m /\ g[m] = w[c] + g[m \ {c}]
  <2>1. m \in SUBSET S /\ m # {}
    BY <1>3, <1>4
  <2>. QED BY <2>1 DEF IsFold, FoldStep
<1>. HIDE DEF c
<1>6. x # c
  BY <1>4, <1>5
<1>7. Good(m \ {x}) /\ Good(m \ {c})
  BY <1>3, <1>4, <1>5
<1>8. g[m \ {x}] = w[c] + g[(m \ {x}) \ {c}]
  BY <1>5, <1>6, <1>7
<1>9. g[m \ {c}] = w[x] + g[(m \ {x}) \ {c}]
  <2>1. (m \ {c}) \ {x} = (m \ {x}) \ {c}
    OBVIOUS
  <2>. QED BY <1>4, <1>6, <1>7, <2>1
<1>10. w[x] \in Nat /\ w[c] \in Nat /\ g[(m \ {x}) \ {c}] \in Nat
  BY <1>1, <1>3, <1>4, <1>5
<1>. QED BY <1>4, <1>5, <1>8, <1>9, <1>10

\* A sum of naturals is a natural.
LEMMA SumNat ==
    ASSUME NEW S, IsFiniteSet(S), NEW w \in [S -> Nat]
    PROVE  SumFunction(w) \in Nat
<1>1. PICK g : IsFold(w, g, S) /\ SumFunctionOnSet(w, S) = g[S]
  BY SumIsFold
<1>2. g[S] \in Nat
  BY <1>1, FoldTyped
<1>. QED BY <1>1, <1>2 DEF SumFunction

\* The sum of nothing is 0.
LEMMA SumNothing == ASSUME NEW w, DOMAIN w = {} PROVE SumFunction(w) = 0
<1>1. PICK g : IsFold(w, g, {}) /\ SumFunctionOnSet(w, {}) = g[{}]
  BY FS_EmptySet, SumIsFold
<1>. QED BY <1>1 DEF IsFold, FoldStep, SumFunction

\* One more summand adds itself to the sum.
LEMMA SumAdd ==
    ASSUME NEW S, NEW a, NEW T, NEW v, NEW w,
           IsFiniteSet(S), a \notin S, T = S \cup {a},
           v \in [S -> Nat], w \in [T -> Nat], \A x \in S : w[x] = v[x]
    PROVE  SumFunction(w) = SumFunction(v) + w[a]
<1>1. IsFiniteSet(T) /\ S = T \ {a} /\ a \in T /\ \A x \in T : w[x] \in Nat
  BY FS_AddElement
<1>2. DOMAIN w = T /\ DOMAIN v = S
  OBVIOUS
<1>3. PICK g : IsFold(v, g, S) /\ SumFunctionOnSet(v, S) = g[S]
  BY SumIsFold
<1>4. PICK h : IsFold(w, h, T) /\ SumFunctionOnSet(w, T) = h[T]
  BY <1>1, SumIsFold
<1>5. g[S] = h[S]
  <2>1. \A x \in S : v[x] = w[x]
    OBVIOUS
  <2>. QED BY <1>1, <1>3, <1>4, <2>1, FoldsAgree
<1>6. h[T] = w[a] + h[T \ {a}]
  <2>1. IsFiniteSet(T) /\ (\A x \in T : w[x] \in Nat) /\ IsFold(w, h, T)
    BY <1>1, <1>4
  <2>2. \A x \in T : h[T] = w[x] + h[T \ {x}]
    BY <2>1, AnyElementLast
  <2>. QED BY <1>1, <2>2
<1>7. g[S] \in Nat /\ w[a] \in Nat
  BY <1>1, <1>3, FoldTyped
<1>8. SumFunction(w) = h[T] /\ SumFunction(v) = g[S]
  BY <1>2, <1>3, <1>4 DEF SumFunction
<1>9. S = T \ {a}
  BY <1>1
<1>. QED BY <1>5, <1>6, <1>7, <1>8, <1>9

-----------------------------------------------------------------------------
(* The accounts *)

\* Two budgets are equal if they agree on every resource.
LEMMA SameBudget ==
    ASSUME NEW b \in Budget, NEW c \in Budget,
           b.cumulative = c.cumulative, b.ephemeral = c.ephemeral
    PROVE  b = c
BY DEF Budget

\* An amount for every resource is a budget (_apply_budget_released sums per field).
LEMMA BudgetOfFields ==
    ASSUME NEW b \in Budget, NEW c \in Budget
    PROVE  /\ [f \in Fields |-> b[f] + c[f]] \in Budget
           /\ [f \in Fields |-> b[f] + c[f]] =
              [cumulative |-> b.cumulative + c.cumulative, ephemeral |-> b.ephemeral + c.ephemeral]
<1>. DEFINE d == [f \in Fields |-> b[f] + c[f]]
            e == [cumulative |-> b.cumulative + c.cumulative, ephemeral |-> b.ephemeral + c.ephemeral]
<1>1. d \in Budget /\ e \in Budget
  BY DEF Budget, Fields
<1>2. d["cumulative"] = b.cumulative + c.cumulative /\ d["ephemeral"] = b.ephemeral + c.ephemeral
  BY DEF Fields
<1>3. d.cumulative = e.cumulative /\ d.ephemeral = e.ephemeral
  BY <1>2
<1>. HIDE DEF d, e
<1>4. d = e
  BY <1>1, <1>3, SameBudget
<1>. QED BY <1>1, <1>4 DEF d, e

\* What an attempt requested, and what it used, are budgets.
LEMMA AttemptBudgeted ==
    ASSUME ControlTypeOK, NEW a \in Attempts, attempts[a] # None, NEW f \in Fields
    PROVE  attempts[a].requested[f] \in Nat /\ attempts[a].actual[f] \in Nat
<1>1. attempts[a] \in Attempt
  BY DEF ControlTypeOK
<1>2. attempts[a].requested \in Budget /\ attempts[a].actual \in Budget
  BY <1>1, BudgetAssumption DEF Attempt, Budget, NoUse
<1>. QED BY <1>2 DEF Budget, Fields

\* What an attempt commits of its reservation (_attempt_budget_commitment).
Committed(a, f) ==
    IF attempts[a].status = "open" THEN attempts[a].requested[f] ELSE attempts[a].actual[f]

\* The use a result accounts for is a budget (_apply_result_recorded).
LEMMA UseTyped ==
    ASSUME ControlTypeOK, NEW r
    PROVE  UsedBy(r) \in Budget
<1>1. ASSUME NEW f \in Fields
      PROVE  SumFunction([a \in ClosedAttempts(r) |-> attempts[a].actual[f]]) \in Nat
  <2>1. ClosedAttempts(r) \subseteq Attempts /\ \A a \in ClosedAttempts(r) : attempts[a] # None
    BY DEF ClosedAttempts, AttemptsOf
  <2>2. IsFiniteSet(ClosedAttempts(r))
    BY <2>1, FS_Subset, BudgetAssumption
  <2>3. [a \in ClosedAttempts(r) |-> attempts[a].actual[f]] \in [ClosedAttempts(r) -> Nat]
    BY <2>1, AttemptBudgeted
  <2>. QED BY <2>2, <2>3, SumNat
<1>. QED BY <1>1 DEF UsedBy, Fields, Budget

\* The sum of what attempts commit is a natural (_attempt_budget_commitment).
LEMMA CommitmentTyped ==
    ASSUME NEW r, NEW excluded, NEW f \in Fields, ControlTypeOK
    PROVE  /\ IsFiniteSet(AttemptsOf(r) \ excluded)
           /\ [a \in AttemptsOf(r) \ excluded |-> Committed(a, f)]
                 \in [AttemptsOf(r) \ excluded -> Nat]
           /\ Commitment(r, f, excluded) =
                 SumFunction([a \in AttemptsOf(r) \ excluded |-> Committed(a, f)])
           /\ Commitment(r, f, excluded) \in Nat
<1>1. AttemptsOf(r) \ excluded \subseteq Attempts /\ \A a \in AttemptsOf(r) : attempts[a] # None
  BY DEF AttemptsOf
<1>2. IsFiniteSet(AttemptsOf(r) \ excluded)
  BY <1>1, FS_Subset, BudgetAssumption
<1>3. [a \in AttemptsOf(r) \ excluded |-> Committed(a, f)] \in [AttemptsOf(r) \ excluded -> Nat]
  BY <1>1, AttemptBudgeted DEF Committed
<1>4. Commitment(r, f, excluded) =
         SumFunction([a \in AttemptsOf(r) \ excluded |-> Committed(a, f)])
  BY DEF Commitment, Committed
<1>. QED BY <1>2, <1>3, <1>4, SumNat

\* An open attempt adds its request to what is committed (_apply_trial_attempt_started).
LEMMA StartCommits ==
    ASSUME ReducerInvariant, AttemptsWithinReservation, NEW b \in Attempts, NEW l \in DOMAIN lockLog,
           NEW t \in Trials, NEW requested \in AttemptBudgets, TrialAttemptStarted(b, l, t, requested)
    PROVE  AttemptsWithinReservation'
<1>. DEFINE q == lockLog[l].reservation
            new == [status |-> "open", reservation |-> q, trial |-> t, ordinal |-> NextOrdinal(q, t),
                    requested |-> requested, actual |-> NoUse]
<1>1. /\ attempts[b] = None
      /\ attempts'[b] = new
      /\ \A a \in Attempts : a # b => attempts'[a] = attempts[a]
      /\ AttemptFits(q, requested)
      /\ reservations' = reservations
  BY DEF TrialAttemptStarted, ReducerInvariant, ControlTypeOK, budgetVars
<1>2. q \in Reservations
  BY LockEventTyped DEF LockEvent, ReducerInvariant
<1>3. /\ new # None
      /\ new.status = "open" /\ new.reservation = q /\ new.requested = requested
  <2>1. new \in Attempt
    BY <1>2, OrdinalPositive DEF Attempt
  <2>. QED BY <2>1, NoneAssumption
<1>. HIDE DEF q, new
<1>4. ControlTypeOK
  BY DEF ReducerInvariant
<1>. SUFFICES ASSUME NEW r \in Reservations, (AttemptsOf(r) # {})', NEW f \in Fields
              PROVE  Commitment(r, f, {})' <= reservations'[r].budget[f]
  BY DEF AttemptsWithinReservation
<1>5. CASE r = q
  <2>. DEFINE S == AttemptsOf(r)
              v == [a \in S |-> Committed(a, f)]
              w == [a \in S \cup {b} |-> Committed(a, f)']
  <2>1. AttemptsOf(r)' = S \cup {b} /\ b \notin S
    BY <1>1, <1>3, <1>5 DEF AttemptsOf
  <2>2. IsFiniteSet(S) /\ v \in [S -> Nat] /\ Commitment(r, f, {}) = SumFunction(v)
        /\ Commitment(r, f, {}) \in Nat
    <3>1. S \ {} = S
      OBVIOUS
    <3>2. /\ IsFiniteSet(S \ {})
          /\ [a \in S \ {} |-> Committed(a, f)] \in [S \ {} -> Nat]
          /\ Commitment(r, f, {}) = SumFunction([a \in S \ {} |-> Committed(a, f)])
          /\ Commitment(r, f, {}) \in Nat
      BY <1>4, CommitmentTyped, Zenon
    <3>. QED BY <3>1, <3>2
  <2>3. Commitment(r, f, {})' = SumFunction(w)
    BY <2>1 DEF Commitment, Committed
  <2>4. \A x \in S : w[x] = v[x] /\ w[x] \in Nat
    BY <1>1, <2>1, <2>2 DEF Committed, AttemptsOf
  <2>5. w[b] = requested[f] /\ requested[f] \in Nat
    <3>1. requested \in Budget
      BY BudgetAssumption
    <3>. QED BY <1>1, <1>3, <3>1 DEF Committed, Budget, Fields
  <2>6. w \in [S \cup {b} -> Nat]
    BY <2>4, <2>5
  <2>. HIDE DEF S, v, w
  <2>7. SumFunction(w) = SumFunction(v) + w[b]
    <3>1. /\ IsFiniteSet(S) /\ b \notin S
          /\ v \in [S -> Nat] /\ w \in [S \cup {b} -> Nat]
          /\ \A x \in S : w[x] = v[x]
      BY <2>1, <2>2, <2>4, <2>6
    <3>2. PICK T : T = S \cup {b}
      OBVIOUS
    <3>3. w \in [T -> Nat]
      BY <3>1, <3>2
    <3>. QED BY <3>1, <3>2, <3>3, SumAdd
  <2>. QED BY <1>1, <1>5, <2>2, <2>3, <2>5, <2>7 DEF AttemptFits
<1>6. CASE r # q
  <2>1. AttemptsOf(r)' = AttemptsOf(r)
    BY <1>1, <1>3, <1>6 DEF AttemptsOf
  <2>2. \A a \in AttemptsOf(r) : attempts'[a] = attempts[a]
    BY <1>1 DEF AttemptsOf
  <2>3. Commitment(r, f, {})' = Commitment(r, f, {})
    BY <2>1, <2>2 DEF Commitment
  <2>. QED BY <1>1, <2>1, <2>3 DEF AttemptsWithinReservation
<1>. QED BY <1>5, <1>6

\* A closed attempt commits what it used, which still fits (_close_attempt).
LEMMA CloseCommits ==
    ASSUME ReducerInvariant, AttemptsWithinReservation,
           NEW b \in Attempts, NEW completed \in BOOLEAN, NEW actual \in AttemptBudgets,
           NEW wrote \in BOOLEAN, CloseAttempt(b, completed, actual, wrote)
    PROVE  AttemptsWithinReservation'
<1>. DEFINE q == attempts[b].reservation
            closed == [attempts[b] EXCEPT !.status = IF completed THEN "completed" ELSE "failed",
                                          !.actual = actual]
<1>1. /\ attempts[b] # None /\ attempts[b] \in Attempt
      /\ attempts'[b] = closed
      /\ \A a \in Attempts : a # b => attempts'[a] = attempts[a]
      /\ \A f \in Fields : Commitment(q, f, {b}) + actual[f] <= reservations[q].budget[f]
      /\ reservations' = reservations
  BY DEF CloseAttempt, ReducerInvariant, ControlTypeOK, budgetVars
<1>2. /\ closed # None
      /\ closed.status # "open" /\ closed.reservation = q /\ closed.actual = actual
  <2>1. closed \in Attempt
    BY <1>1 DEF Attempt
  <2>. QED BY <1>1, <2>1, NoneAssumption DEF Attempt
<1>. HIDE DEF q, closed
<1>3. ControlTypeOK
  BY DEF ReducerInvariant
<1>4. ASSUME NEW r PROVE AttemptsOf(r)' = AttemptsOf(r)
  BY <1>1, <1>2 DEF AttemptsOf, q
<1>. SUFFICES ASSUME NEW r \in Reservations, (AttemptsOf(r) # {})', NEW f \in Fields
              PROVE  Commitment(r, f, {})' <= reservations'[r].budget[f]
  BY DEF AttemptsWithinReservation
<1>5. CASE r = q
  <2>. DEFINE S == AttemptsOf(r) \ {b}
              v == [a \in S |-> Committed(a, f)]
              w == [a \in S \cup {b} |-> Committed(a, f)']
  <2>1. AttemptsOf(r)' = S \cup {b} /\ b \notin S
    BY <1>1, <1>4, <1>5 DEF AttemptsOf, q
  <2>2. IsFiniteSet(S) /\ v \in [S -> Nat] /\ Commitment(r, f, {b}) = SumFunction(v)
        /\ Commitment(r, f, {b}) \in Nat
    <3>1. /\ IsFiniteSet(AttemptsOf(r) \ {b})
          /\ [a \in AttemptsOf(r) \ {b} |-> Committed(a, f)] \in [AttemptsOf(r) \ {b} -> Nat]
          /\ Commitment(r, f, {b}) = SumFunction([a \in AttemptsOf(r) \ {b} |-> Committed(a, f)])
          /\ Commitment(r, f, {b}) \in Nat
      BY <1>3, CommitmentTyped, Zenon
    <3>. QED BY <3>1
  <2>3. Commitment(r, f, {})' = SumFunction(w)
    BY <2>1 DEF Commitment, Committed
  <2>4. \A x \in S : w[x] = v[x] /\ w[x] \in Nat
    BY <1>1, <2>1, <2>2 DEF Committed, AttemptsOf
  <2>5. w[b] = actual[f] /\ actual[f] \in Nat
    <3>1. actual \in Budget
      BY BudgetAssumption
    <3>. QED BY <1>1, <1>2, <3>1 DEF Committed, Budget, Fields
  <2>6. w \in [S \cup {b} -> Nat]
    BY <2>4, <2>5
  <2>. HIDE DEF S, v, w
  <2>7. SumFunction(w) = SumFunction(v) + w[b]
    <3>1. /\ IsFiniteSet(S) /\ b \notin S
          /\ v \in [S -> Nat] /\ w \in [S \cup {b} -> Nat]
          /\ \A x \in S : w[x] = v[x]
      BY <2>1, <2>2, <2>4, <2>6
    <3>2. PICK T : T = S \cup {b}
      OBVIOUS
    <3>3. w \in [T -> Nat]
      BY <3>1, <3>2
    <3>. QED BY <3>1, <3>2, <3>3, SumAdd
  <2>. QED BY <1>1, <1>5, <2>2, <2>3, <2>5, <2>7
<1>6. CASE r # q
  <2>1. \A a \in AttemptsOf(r) : attempts'[a] = attempts[a]
    BY <1>1, <1>6 DEF AttemptsOf, q
  <2>2. Commitment(r, f, {})' = Commitment(r, f, {})
    BY <1>4, <2>1 DEF Commitment
  <2>. QED BY <1>1, <1>4, <2>2 DEF AttemptsWithinReservation
<1>. QED BY <1>5, <1>6

\* Events that neither start nor close an attempt leave what it commits, and
\* the reservations with work on them.
LEMMA CommitmentsUntouched ==
    ASSUME AttemptsWithinReservation, attempts' = attempts,
           \A r \in Reservations : AttemptsOf(r) # {} => reservations'[r] = reservations[r]
    PROVE  AttemptsWithinReservation'
<1>1. ASSUME NEW r PROVE AttemptsOf(r)' = AttemptsOf(r)
  BY DEF AttemptsOf
<1>2. ASSUME NEW r, NEW f PROVE Commitment(r, f, {})' = Commitment(r, f, {})
  BY <1>1 DEF Commitment
<1>. QED BY <1>1, <1>2 DEF AttemptsWithinReservation

\* A reservation is made under an unused id, on which there is no work yet
\* (_apply_budget_reserved).
LEMMA ReserveCommitsNothing ==
    ASSUME NEW r \in Reservations, NEW i \in Instances, NEW hw \in HardwareKinds,
           NEW b \in ReservationBudgets,
           ReducerInvariant, AttemptsWithinReservation, BudgetReserved(r, i, hw, b)
    PROVE  AttemptsWithinReservation'
<1>1. attempts' = attempts
  BY DEF BudgetReserved, runVars
<1>2. AttemptsOf(r) = {}
  BY DEF BudgetReserved, AttemptsOf, ReducerInvariant, Bookkeeping, WorkIsReserved
<1>3. \A q \in Reservations : AttemptsOf(q) # {} => reservations'[q] = reservations[q]
  BY <1>2 DEF BudgetReserved, ReducerInvariant, ControlTypeOK
<1>. QED BY <1>1, <1>3, CommitmentsUntouched

\* Every event keeps the work of a reservation within it.
LEMMA CommitmentStep ==
    ReducerInvariant /\ AttemptsWithinReservation /\ [Next]_vars => AttemptsWithinReservation'
<1>. SUFFICES ASSUME ReducerInvariant, AttemptsWithinReservation, [Next]_vars
              PROVE  AttemptsWithinReservation'
  OBVIOUS
<1>. DEFINE Untouched == UNCHANGED <<attempts, reservations>>
<1>1. Untouched => AttemptsWithinReservation'
  BY CommitmentsUntouched
<1>. USE DEF budgetVars, runVars
<1>2. ASSUME NEW i, NEW s, NEW b, ChildPrepared(i, s, b) PROVE Untouched
  BY <1>2 DEF ChildPrepared
<1>3. ASSUME NEW audit, AuditCompleted(audit) PROVE Untouched
  BY <1>3 DEF AuditCompleted
<1>4. ASSUME NEW r, ChildLocked(r) PROVE Untouched
  BY <1>4 DEF ChildLocked
<1>5. ASSUME NEW l, ExecutionAuthorized(l) PROVE Untouched
  BY <1>5 DEF ExecutionAuthorized
<1>6. ASSUME NEW l, PoolAccessed(l) PROVE Untouched
  BY <1>6 DEF PoolAccessed
<1>7. ASSUME NEW l, NEW o, ResultRecorded(l, o) PROVE Untouched
  BY <1>7 DEF ResultRecorded
<1>8. ASSUME NEW s, BudgetReleased(s) PROVE Untouched
  BY <1>8 DEF BudgetReleased
<1>9. ProgramLocked \/ UNCHANGED vars => Untouched
  BY DEF ProgramLocked, vars
<1>. HIDE DEF Untouched, budgetVars, runVars
<1>. QED
  BY <1>1, <1>2, <1>3, <1>4, <1>5, <1>6, <1>7, <1>8, <1>9, ReserveCommitsNothing, StartCommits,
     CloseCommits
  DEF Next

\* However many attempts are open at once, what they requested and what the
\* closed ones used fit in their reservation.
THEOREM AttemptsWithinReservationHolds == Spec => []AttemptsWithinReservation
<1>1. Init => AttemptsWithinReservation
  BY DEF Init, AttemptsWithinReservation, AttemptsOf
<1>. QED BY <1>1, CommitmentStep, ReducerInvariantHolds, PTL DEF Spec

-----------------------------------------------------------------------------
(* The reducer implements CampaignBudget *)

\* Only reservations that were made are released.
ReleasedWasReserved == \A r \in released : reservations[r] # None

AccountsInvariant == ReducerInvariant /\ TypeOK /\ ReleasedWasReserved

\* The totals of the empty ledger are budgets (CampaignState.initial).
LEMMA InitAccounts == Init => TypeOK /\ ReleasedWasReserved
<1>1. NoUse \in Budget
  BY DEF NoUse, Budget
<1>. QED BY <1>1, InitTyped DEF Init, TypeOK, ReleasedWasReserved

\* Every event keeps both totals budgets.
LEMMA AccountsStep == AccountsInvariant /\ [Next]_vars => AccountsInvariant'
<1>. SUFFICES ASSUME AccountsInvariant, [Next]_vars
              PROVE  AccountsInvariant'
  OBVIOUS
<1>. USE DEF AccountsInvariant
<1>1. ReducerInvariant'
  BY InvariantStep
<1>. DEFINE Totals == spent \in Budget /\ used \in [Reservations -> Budget] /\ ReleasedWasReserved
<1>2. Totals
  BY DEF TypeOK
<1>3. Totals'
  <2>. USE DEF budgetVars
  <2>1. UNCHANGED <<spent, used, reservations, released>> => Totals'
    BY <1>2 DEF ReleasedWasReserved
  <2>2. ASSUME NEW r \in Reservations, NEW i \in Instances, NEW hw \in HardwareKinds,
               NEW b \in ReservationBudgets, BudgetReserved(r, i, hw, b)
        PROVE  Totals'
    <3>1. reservations \in [Reservations -> Reservation \cup {None}]
      BY DEF ReducerInvariant, ControlTypeOK
    <3>2. UNCHANGED <<spent, used, released>> /\ \A q \in released : reservations'[q] = reservations[q]
      BY <1>2, <2>2, <3>1 DEF BudgetReserved, ReleasedWasReserved, ReducerInvariant, ControlTypeOK
    <3>. QED BY <1>2, <3>2 DEF ReleasedWasReserved
  <2>3. ASSUME NEW l \in DOMAIN lockLog, NEW o \in ResultOutcomes, ResultRecorded(l, o)
        PROVE  Totals'
    <3>. DEFINE r == lockLog[l].reservation
    <3>1. UsedBy(r) \in Budget
      BY UseTyped DEF ReducerInvariant
    <3>2. used' = [used EXCEPT ![r] = UsedBy(r)] /\ UNCHANGED <<spent, reservations, released>>
      BY <2>3 DEF ResultRecorded
    <3>. HIDE DEF r
    <3>. QED BY <1>2, <3>1, <3>2 DEF ReleasedWasReserved
  <2>4. ASSUME NEW s \in Studies, BudgetReleased(s)
        PROVE  Totals'
    <3>. DEFINE r == recorded[s].reservation
    <3>1. /\ r \in Reservations /\ reservations[r] # None
          /\ released' = released \cup {r}
          /\ spent' = [f \in Fields |-> spent[f] + used[r][f]]
          /\ UNCHANGED <<used, reservations>>
      BY <2>4 DEF BudgetReleased, Settle, Active
    <3>. HIDE DEF r
    <3>2. spent' \in Budget
      BY <1>2, <3>1, BudgetOfFields
    <3>. QED BY <1>2, <3>1, <3>2 DEF ReleasedWasReserved
  <2>5. CASE ProgramLocked \/ UNCHANGED vars
    BY <2>1, <2>5 DEF ProgramLocked, vars
  <2>6. ASSUME NEW i, NEW s, NEW b, ChildPrepared(i, s, b) PROVE Totals'
    BY <2>1, <2>6 DEF ChildPrepared
  <2>7. ASSUME NEW audit, AuditCompleted(audit) PROVE Totals'
    BY <2>1, <2>7 DEF AuditCompleted
  <2>8. ASSUME NEW r, ChildLocked(r) PROVE Totals'
    BY <2>1, <2>8 DEF ChildLocked
  <2>9. ASSUME NEW l, ExecutionAuthorized(l) PROVE Totals'
    BY <2>1, <2>9 DEF ExecutionAuthorized
  <2>10. ASSUME NEW l, PoolAccessed(l) PROVE Totals'
    BY <2>1, <2>10 DEF PoolAccessed
  <2>11. ASSUME NEW a, NEW l, NEW t, NEW b, TrialAttemptStarted(a, l, t, b) PROVE Totals'
    BY <2>1, <2>11 DEF TrialAttemptStarted
  <2>12. ASSUME NEW a, NEW completed, NEW b, NEW wrote, CloseAttempt(a, completed, b, wrote)
         PROVE  Totals'
    BY <2>1, <2>12 DEF CloseAttempt
  <2>. HIDE DEF Totals, budgetVars, AccountsInvariant
  <2>. QED
    BY <2>2, <2>3, <2>4, <2>5, <2>6, <2>7, <2>8, <2>9, <2>10, <2>11, <2>12 DEF Next
<1>. QED BY <1>1, <1>3 DEF TypeOK, ReducerInvariant

\* The accounts stay typed and only what was reserved is released
\* (reduce_campaign_events).
THEOREM AccountsInvariantHolds == Spec => []AccountsInvariant
<1>1. Init => AccountsInvariant
  BY InitAccounts, InitTyped, InitBookkeeping DEF AccountsInvariant, ReducerInvariant
<1>. QED BY <1>1, AccountsStep, PTL DEF Spec

\* Every variable keeps its type, the sums that research_state.py keeps of
\* budgets included.
THEOREM TypeCorrect == Spec => []TypeOK
<1>1. AccountsInvariant => TypeOK
  BY DEF AccountsInvariant
<1>. QED BY <1>1, AccountsInvariantHolds, PTL

\* What a reservation holds of a resource is a natural (_reserved_budget).
LEMMA HoldsNatural ==
    ASSUME NEW x \in Reservation, NEW f \in Fields
    PROVE  x.budget[f] \in Nat
<1>1. x.budget \in Budget
  BY BudgetAssumption DEF Reservation
<1>. QED BY <1>1 DEF Budget, Fields

\* A reservation holds its whole budget, within what the program ceilings leave
\* (_apply_budget_reserved).
LEMMA ReserveHolds ==
    ASSUME NEW r \in Reservations, NEW i \in Instances, NEW hw \in HardwareKinds,
           NEW b \in ReservationBudgets, AccountsInvariant, BudgetReserved(r, i, hw, b)
    PROVE  Accounts!Next
<1>. USE DEF AccountsInvariant
<1>. DEFINE new == [instance |-> i, study |-> prepared[i].study, hardware |-> hw, budget |-> b]
<1>1. new \in Reservation /\ new # None
  <2>1. prepared[i].study \in Studies
    BY DEF BudgetReserved, TypeOK, ControlTypeOK, ChildPlan
  <2>2. new \in Reservation
    BY <2>1, BudgetAssumption DEF Reservation
  <2>. QED BY <2>2, NoneAssumption
<1>2. new.hardware = hw /\ new.budget = b
  OBVIOUS
<1>3. /\ reservations[r] = None
      /\ reservations' = [reservations EXCEPT ![r] = new]
      /\ UNCHANGED <<spent, used, released>>
      /\ BudgetAvailable(b)
      /\ hw => Cardinality(HardwareActive) < HardwareLimit
  BY DEF BudgetReserved
<1>. HIDE DEF new
<1>4. /\ reservations' \in [Reservations -> Reservation \cup {None}]
      /\ reservations'[r] = new
      /\ \A q \in Reservations : q # r => reservations'[q] = reservations[q]
  BY <1>1, <1>3 DEF TypeOK, ControlTypeOK
<1>5. r \notin Active /\ Active' = Active \cup {r}
  BY <1>1, <1>3, <1>4 DEF Active, ReleasedWasReserved
<1>6. ASSUME NEW f \in Fields
      PROVE  /\ ReservedTotal(f) \in Nat
             /\ ReservedTotal(f)' = ReservedTotal(f) + b[f]
  <2>. DEFINE A == Active
              B == Active'
              v == [q \in A |-> reservations[q].budget[f]]
              w == [q \in B |-> reservations'[q].budget[f]]
  <2>1. IsFiniteSet(A) /\ r \notin A /\ B = A \cup {r} /\ B \subseteq Reservations
    BY <1>5, FS_Subset, BudgetAssumption DEF Active
  <2>2. ASSUME NEW q \in B PROVE reservations'[q].budget[f] \in Nat
    <3>1. reservations'[q] \in Reservation
      BY <1>4 DEF Active
    <3>. QED BY <3>1, HoldsNatural
  <2>3. \A q \in A : reservations'[q] = reservations[q] /\ q \in B
    BY <1>4, <2>1
  <2>4. v \in [A -> Nat] /\ w \in [B -> Nat] /\ \A q \in A : w[q] = v[q]
    BY <2>2, <2>3
  <2>5. w[r] = b[f]
    BY <1>2, <1>4, <2>1
  <2>6. ReservedTotal(f) = SumFunction(v) /\ ReservedTotal(f)' = SumFunction(w)
    BY DEF ReservedTotal
  <2>. HIDE DEF A, B, v, w
  <2>7. SumFunction(v) \in Nat
    BY <2>1, <2>4, SumNat
  <2>8. SumFunction(w) = SumFunction(v) + w[r]
    BY <2>1, <2>4, SumAdd
  <2>. QED BY <2>5, <2>6, <2>7, <2>8
<1>7. /\ IsFiniteSet(HardwareActive)
      /\ Cardinality(HardwareActive)' =
         IF hw THEN Cardinality(HardwareActive) + 1 ELSE Cardinality(HardwareActive)
  <2>1. IsFiniteSet(HardwareActive) /\ r \notin HardwareActive
    <3>1. HardwareActive \subseteq Reservations
      BY DEF HardwareActive, Active
    <3>. QED BY <1>5, <3>1, FS_Subset, BudgetAssumption DEF HardwareActive
  <2>2. HardwareActive' = IF hw THEN HardwareActive \cup {r} ELSE HardwareActive
    BY <1>2, <1>4, <1>5 DEF HardwareActive, Active
  <2>. QED BY <2>1, <2>2, FS_AddElement
<1>8. hw \in BOOLEAN
  BY BudgetAssumption
<1>9. Accounts!Hold(b, hw)
  <2>1. "cumulative" \in Fields /\ "ephemeral" \in Fields
    BY DEF Fields
  <2>2. /\ ReservedTotal("cumulative")' = ReservedTotal("cumulative") + b.cumulative
        /\ ReservedTotal("ephemeral")' = ReservedTotal("ephemeral") + b.ephemeral
    BY <1>6, <2>1
  <2>. QED BY <1>3, <1>7, <2>2 DEF Accounts!Hold, Accounts!Plus, BudgetAvailable
<1>. QED BY <1>8, <1>9 DEF Accounts!Next

\* A release gives the whole reservation back and charges the use its result
\* accounted for, which fits in it (_apply_budget_released).
LEMMA ReleaseCharges ==
    ASSUME NEW s \in Studies, AccountsInvariant, BudgetReleased(s)
    PROVE  Accounts!Next
<1>. USE DEF AccountsInvariant
<1>. DEFINE r == recorded[s].reservation
            b == reservations[r].budget
            hw == reservations[r].hardware
<1>1. /\ r \in Active /\ r \in Reservations
      /\ Within(used[r], b)
      /\ UNCHANGED <<reservations, used>>
      /\ released' = released \cup {r}
      /\ spent' = [f \in Fields |-> spent[f] + used[r][f]]
  BY DEF BudgetReleased, Settle, Active
<1>. HIDE DEF r
<1>2. reservations \in [Reservations -> Reservation \cup {None}]
  BY DEF TypeOK, ControlTypeOK
<1>3. b \in ReservationBudgets /\ b \in Budget /\ hw \in BOOLEAN
  <2>1. reservations[r] \in Reservation
    BY <1>1, <1>2 DEF Active
  <2>. QED BY <2>1, BudgetAssumption DEF Reservation
<1>4. r \notin Active' /\ Active = Active' \cup {r}
  BY <1>1 DEF Active
<1>5. ASSUME NEW f \in Fields
      PROVE  /\ ReservedTotal(f)' \in Nat
             /\ ReservedTotal(f) = ReservedTotal(f)' + b[f]
  <2>. DEFINE A == Active'
              B == Active
              v == [q \in A |-> reservations'[q].budget[f]]
              w == [q \in B |-> reservations[q].budget[f]]
  <2>1. IsFiniteSet(A) /\ r \notin A /\ B = A \cup {r} /\ B \subseteq Reservations
    BY <1>4, FS_Subset, BudgetAssumption DEF Active
  <2>2. ASSUME NEW q \in B PROVE reservations[q].budget[f] \in Nat
    <3>1. reservations[q] \in Reservation
      BY <1>2 DEF Active
    <3>. QED BY <3>1, HoldsNatural
  <2>3. \A q \in A : reservations'[q] = reservations[q] /\ q \in B
    BY <1>1, <2>1
  <2>4. v \in [A -> Nat] /\ w \in [B -> Nat] /\ \A q \in A : w[q] = v[q]
    BY <2>2, <2>3
  <2>5. w[r] = b[f]
    BY <2>1
  <2>6. ReservedTotal(f)' = SumFunction(v) /\ ReservedTotal(f) = SumFunction(w)
    BY DEF ReservedTotal
  <2>. HIDE DEF A, B, v, w
  <2>7. SumFunction(v) \in Nat
    BY <2>1, <2>4, SumNat
  <2>8. SumFunction(w) = SumFunction(v) + w[r]
    BY <2>1, <2>4, SumAdd
  <2>. QED BY <2>5, <2>6, <2>7, <2>8
<1>6. LET h == Cardinality(HardwareActive)
      IN h \in Nat /\ (hw => h > 0) /\ Cardinality(HardwareActive)' = IF hw THEN h - 1 ELSE h
  <2>1. IsFiniteSet(HardwareActive)
    <3>1. HardwareActive \subseteq Reservations
      BY DEF HardwareActive, Active
    <3>. QED BY <3>1, FS_Subset, BudgetAssumption
  <2>2. HardwareActive' = IF hw THEN HardwareActive \ {r} ELSE HardwareActive
    BY <1>1, <1>4 DEF HardwareActive, Active
  <2>3. hw => r \in HardwareActive
    BY <1>1 DEF HardwareActive
  <2>4. Cardinality(HardwareActive) \in Nat
    BY <2>1, FS_CardinalityType
  <2>5. hw => Cardinality(HardwareActive) # 0
    BY <2>1, <2>3, FS_EmptySet
  <2>. HIDE DEF hw
  <2>. QED BY <2>1, <2>2, <2>3, <2>4, <2>5, FS_RemoveElement
<1>7. /\ used[r] \in Budget /\ spent \in Budget
      /\ used[r].cumulative <= b.cumulative /\ used[r].ephemeral <= b.ephemeral
  BY <1>1 DEF TypeOK, Within, Fields
<1>8. spent' = Accounts!Plus(spent, used[r])
  <2>1. spent' = [cumulative |-> spent.cumulative + used[r].cumulative,
                  ephemeral |-> spent.ephemeral + used[r].ephemeral]
    BY <1>1, <1>7, BudgetOfFields
  <2>. QED BY <2>1 DEF Accounts!Plus
<1>. HIDE DEF b, hw
<1>9. used[r] \in Accounts!UpTo(b)
  BY <1>3, <1>7 DEF Accounts!UpTo, Budget
<1>10. Accounts!Release(b, used[r], hw)
  <2>. DEFINE held == [cumulative |-> ReservedTotal("cumulative"), ephemeral |-> ReservedTotal("ephemeral")]
  <2>1. "cumulative" \in Fields /\ "ephemeral" \in Fields
    BY DEF Fields
  <2>2. /\ ReservedTotal("cumulative")' \in Nat /\ ReservedTotal("ephemeral")' \in Nat
        /\ ReservedTotal("cumulative") = ReservedTotal("cumulative")' + b.cumulative
        /\ ReservedTotal("ephemeral") = ReservedTotal("ephemeral")' + b.ephemeral
    BY <1>5, <2>1
  <2>3. b \in Accounts!UpTo(held)
    BY <1>3, <2>2 DEF Accounts!UpTo, Budget
  <2>4. held' = Accounts!Minus(held, b)
    <3>1. b.cumulative \in Nat /\ b.ephemeral \in Nat
      BY <1>3 DEF Budget
    <3>2. /\ ReservedTotal("cumulative")' = ReservedTotal("cumulative") - b.cumulative
          /\ ReservedTotal("ephemeral")' = ReservedTotal("ephemeral") - b.ephemeral
      BY <2>2, <3>1
    <3>. QED BY <3>2 DEF Accounts!Minus
  <2>. QED BY <1>6, <1>8, <2>3, <2>4 DEF Accounts!Release
<1>. QED BY <1>3, <1>9, <1>10 DEF Accounts!Next

\* The empty ledger holds and has charged nothing.
LEMMA RefinesAccountsInit == Init => Accounts!Init
<1>. SUFFICES ASSUME Init PROVE Accounts!Init
  OBVIOUS
<1>1. Active = {} /\ HardwareActive = {}
  BY DEF Init, Active, HardwareActive
<1>2. ReservedTotal("cumulative") = 0 /\ ReservedTotal("ephemeral") = 0
  BY <1>1, SumNothing DEF ReservedTotal
<1>3. Cardinality(HardwareActive) = 0
  BY <1>1, FS_EmptySet
<1>. QED BY <1>2, <1>3 DEF Init, NoUse, Accounts!Init

\* Whatever agents append, resources are held and charged as CampaignBudget
\* describes.
THEOREM ImplementsBudgetHolds == Spec => ImplementsBudget
<1>1. AccountsInvariant /\ [Next]_vars => [Accounts!Next]_(Accounts!vars)
  <2>. SUFFICES ASSUME AccountsInvariant, [Next]_vars
                PROVE  [Accounts!Next]_(Accounts!vars)
    OBVIOUS
  <2>. DEFINE Untouched == UNCHANGED <<spent, reservations, released>>
  <2>1. Untouched => UNCHANGED Accounts!vars
    <3>. SUFFICES ASSUME Untouched PROVE UNCHANGED Accounts!vars
      OBVIOUS
    <3>1. Active' = Active
      BY DEF Active
    <3>2. HardwareActive' = HardwareActive
      BY <3>1 DEF HardwareActive
    <3>3. ReservedTotal("cumulative")' = ReservedTotal("cumulative")
          /\ ReservedTotal("ephemeral")' = ReservedTotal("ephemeral")
      BY <3>1 DEF ReservedTotal
    <3>. QED BY <3>2, <3>3 DEF Accounts!vars
  <2>. USE DEF budgetVars
  <2>2. CASE ProgramLocked \/ UNCHANGED vars
    BY <2>1, <2>2 DEF ProgramLocked, vars
  <2>3. ASSUME NEW i, NEW s, NEW b, ChildPrepared(i, s, b) PROVE UNCHANGED Accounts!vars
    BY <2>1, <2>3 DEF ChildPrepared
  <2>4. ASSUME NEW audit, AuditCompleted(audit) PROVE UNCHANGED Accounts!vars
    BY <2>1, <2>4 DEF AuditCompleted
  <2>5. ASSUME NEW r, ChildLocked(r) PROVE UNCHANGED Accounts!vars
    BY <2>1, <2>5 DEF ChildLocked
  <2>6. ASSUME NEW l, ExecutionAuthorized(l) PROVE UNCHANGED Accounts!vars
    BY <2>1, <2>6 DEF ExecutionAuthorized
  <2>7. ASSUME NEW l, PoolAccessed(l) PROVE UNCHANGED Accounts!vars
    BY <2>1, <2>7 DEF PoolAccessed
  <2>8. ASSUME NEW a, NEW l, NEW t, NEW b, TrialAttemptStarted(a, l, t, b)
        PROVE  UNCHANGED Accounts!vars
    BY <2>1, <2>8 DEF TrialAttemptStarted
  <2>9. ASSUME NEW a, NEW completed, NEW b, NEW wrote, CloseAttempt(a, completed, b, wrote)
        PROVE  UNCHANGED Accounts!vars
    BY <2>1, <2>9 DEF CloseAttempt
  <2>10. ASSUME NEW l, NEW o, ResultRecorded(l, o) PROVE UNCHANGED Accounts!vars
    BY <2>1, <2>10 DEF ResultRecorded
  <2>. HIDE DEF budgetVars, Untouched
  <2>. QED
    BY <2>2, <2>3, <2>4, <2>5, <2>6, <2>7, <2>8, <2>9, <2>10, ReserveHolds, ReleaseCharges
    DEF Next
<1>. QED
  BY <1>1, RefinesAccountsInit, AccountsInvariantHolds, PTL DEF Spec, ImplementsBudget, Accounts!Spec

-----------------------------------------------------------------------------
(* The reducer implements StudyLifecycle *)

\* The reservation of a lock is kept until the pool is accessed: only a result
\* releases it, and a result stands on access.
PaidUntilAccess ==
    \A s \in Studies : authorized[s] # 0 /\ s \notin accessed =>
        lockLog[locked[s]].reservation \notin released

\* A reservation is released only with a result of its study.
ReleasedHasResult == \A r \in released : terminal[reservations[r].study] # None

LifecycleInvariant == AccountsInvariant /\ PaidUntilAccess /\ ReleasedHasResult

\* Nothing is authorized or released in the empty ledger.
LEMMA InitPaid == Init => PaidUntilAccess /\ ReleasedHasResult
BY DEF Init, PaidUntilAccess, ReleasedHasResult

\* A new reservation is released by nobody (_apply_budget_reserved).
LEMMA ReserveKeepsPaid ==
    ASSUME LifecycleInvariant, NEW r \in Reservations, NEW i, NEW hw, NEW b,
           BudgetReserved(r, i, hw, b)
    PROVE  PaidUntilAccess' /\ ReleasedHasResult'
<1>1. /\ UNCHANGED <<released, lockLog, locked, authorized, accessed, terminal>>
      /\ reservations[r] = None
      /\ \A q \in Reservations : q # r => reservations'[q] = reservations[q]
  BY DEF BudgetReserved, lockVars, resultVars, LifecycleInvariant, AccountsInvariant,
         ReducerInvariant, ControlTypeOK
<1>2. r \notin released /\ released \subseteq Reservations
  BY <1>1 DEF LifecycleInvariant, AccountsInvariant, ReleasedWasReserved, ReducerInvariant,
              ControlTypeOK
<1>3. PaidUntilAccess'
  BY <1>1 DEF LifecycleInvariant, PaidUntilAccess
<1>4. ReleasedHasResult'
  BY <1>1, <1>2 DEF LifecycleInvariant, ReleasedHasResult
<1>. QED BY <1>3, <1>4

\* A study that takes a lock holds no preflight receipt (_apply_child_locked).
LEMMA LockKeepsPaid ==
    ASSUME LifecycleInvariant, NEW r \in Reservations, ChildLocked(r)
    PROVE  PaidUntilAccess' /\ ReleasedHasResult'
<1>. USE DEF LifecycleInvariant, AccountsInvariant, ReducerInvariant, Bookkeeping
<1>. DEFINE s == reservations[r].study
            e == [study |-> s, instance |-> reservations[r].instance, reservation |-> r]
<1>1. /\ UNCHANGED <<reservations, released, authorized, accessed, terminal>>
      /\ reservations[r] # None
      /\ locked[s] = 0
      /\ lockLog' = Append(lockLog, e)
      /\ locked' = [locked EXCEPT ![s] = Len(lockLog) + 1]
  BY DEF ChildLocked, budgetVars, resultVars
<1>2. s \in Studies /\ e \in LockEvent
  BY <1>1 DEF ControlTypeOK, Reservation, LockEvent
<1>3. \A l \in DOMAIN lockLog : lockLog'[l] = lockLog[l]
  BY <1>1, <1>2, LogGrows DEF ControlTypeOK
<1>4. \A x \in Studies : locked[x] # 0 => locked[x] \in DOMAIN lockLog
  BY DEF ControlTypeOK, LockIds
<1>. HIDE DEF e
<1>5. authorized[s] = 0 /\ \A x \in Studies : x # s => locked'[x] = locked[x]
  BY <1>1, <1>2 DEF HeldInOrder, ControlTypeOK
<1>. HIDE DEF s
<1>6. PaidUntilAccess'
  BY <1>1, <1>3, <1>4, <1>5 DEF PaidUntilAccess, HeldInOrder
<1>7. ReleasedHasResult'
  BY <1>1 DEF ReleasedHasResult
<1>. QED BY <1>6, <1>7

\* The preflight refuses a lock whose reservation is released
\* (child_authorization_issues).
LEMMA AuthorizeKeepsPaid ==
    ASSUME LifecycleInvariant, NEW l \in DOMAIN lockLog, ExecutionAuthorized(l)
    PROVE  PaidUntilAccess' /\ ReleasedHasResult'
<1>. USE DEF LifecycleInvariant, AccountsInvariant, ReducerInvariant
<1>1. PICK s \in Studies : s = lockLog[l].study
  BY LockEventTyped DEF LockEvent
<1>2. /\ UNCHANGED <<reservations, released, lockLog, locked, accessed, terminal>>
      /\ lockLog[locked[s]].reservation \notin released
      /\ authorized' = [authorized EXCEPT ![s] = l]
  BY <1>1 DEF ExecutionAuthorized, ChildAuthorizable, budgetVars, resultVars
<1>3. PaidUntilAccess'
  BY <1>2 DEF PaidUntilAccess, ControlTypeOK
<1>4. ReleasedHasResult'
  BY <1>2 DEF ReleasedHasResult
<1>. QED BY <1>3, <1>4

\* The released reservation is the one of a lock whose study opened its pool,
\* and its study gets a terminal result (_apply_budget_released).
LEMMA ReleaseKeepsPaid ==
    ASSUME LifecycleInvariant, NEW s \in Studies, BudgetReleased(s)
    PROVE  PaidUntilAccess' /\ ReleasedHasResult'
<1>. USE DEF LifecycleInvariant, AccountsInvariant, ReducerInvariant, Bookkeeping
<1>. DEFINE r == recorded[s].reservation
<1>1. /\ recorded[s] # None
      /\ released' = released \cup {r}
      /\ terminal' = [terminal EXCEPT ![s] = recorded[s]]
      /\ UNCHANGED <<reservations, lockLog>>
  BY DEF BudgetReleased, Settle
<1>2. s \in accessed /\ reservations[r].study = s
  BY <1>1 DEF HeldInOrder, ResultOfLock
<1>3. /\ \A x \in Studies : x # s =>
            authorized'[x] = authorized[x] /\ locked'[x] = locked[x]
      /\ \/ authorized'[s] = 0 /\ accessed' = accessed \ {s}
         \/ UNCHANGED <<authorized, locked, accessed>>
  BY DEF BudgetReleased, ClearStudy, ControlTypeOK
<1>. HIDE DEF r
<1>4. PaidUntilAccess'
  <2>1. ASSUME NEW x \in Studies, authorized'[x] # 0, x \notin accessed'
        PROVE  lockLog'[locked'[x]].reservation \notin released'
    <3>1. x # s
      BY <1>2, <1>3, <2>1
    <3>2. /\ authorized[x] # 0 /\ x \notin accessed /\ locked'[x] = locked[x]
      BY <1>3, <2>1, <3>1
    <3>3. lockLog[locked[x]].reservation \notin released
      BY <3>2 DEF PaidUntilAccess
    <3>4. locked[x] \in DOMAIN lockLog /\ lockLog[locked[x]].study = x
      BY <3>2 DEF HeldInOrder, LockIsOwn, ControlTypeOK, LockIds
    <3>5. lockLog[locked[x]].reservation # r
      BY <1>2, <3>1, <3>4 DEF EventsMatch
    <3>. QED BY <1>1, <3>2, <3>3, <3>5
  <2>. QED BY <2>1 DEF PaidUntilAccess
<1>5. ReleasedHasResult'
  BY <1>1, <1>2 DEF ReleasedHasResult, ControlTypeOK
<1>. QED BY <1>4, <1>5

\* The lifecycle invariant is inductive: the other events release nothing, give
\* no receipt and take no access away.
LEMMA LifecycleStep == LifecycleInvariant /\ [Next]_vars => LifecycleInvariant'
<1>. SUFFICES ASSUME LifecycleInvariant, [Next]_vars
              PROVE  LifecycleInvariant'
  OBVIOUS
<1>1. AccountsInvariant'
  BY AccountsStep DEF LifecycleInvariant
<1>. DEFINE Paid == PaidUntilAccess' /\ ReleasedHasResult'
            Untouched == /\ UNCHANGED <<reservations, released, lockLog, locked, authorized, terminal>>
                         /\ accessed \subseteq accessed'
<1>2. Untouched => Paid
  BY DEF LifecycleInvariant, PaidUntilAccess, ReleasedHasResult
<1>3. Paid
  <2>. USE DEF budgetVars, lockVars, resultVars
  <2>1. CASE ProgramLocked \/ UNCHANGED vars
    BY <1>2, <2>1 DEF ProgramLocked, vars
  <2>2. ASSUME NEW i, NEW s, NEW b, ChildPrepared(i, s, b) PROVE Paid
    BY <1>2, <2>2 DEF ChildPrepared
  <2>3. ASSUME NEW audit, AuditCompleted(audit) PROVE Paid
    BY <1>2, <2>3 DEF AuditCompleted
  <2>4. ASSUME NEW l, PoolAccessed(l) PROVE Paid
    BY <1>2, <2>4 DEF PoolAccessed
  <2>5. ASSUME NEW a, NEW l, NEW t, NEW b, TrialAttemptStarted(a, l, t, b) PROVE Paid
    BY <1>2, <2>5 DEF TrialAttemptStarted
  <2>6. ASSUME NEW a, NEW completed, NEW b, NEW wrote, CloseAttempt(a, completed, b, wrote)
        PROVE  Paid
    BY <1>2, <2>6 DEF CloseAttempt
  <2>7. ASSUME NEW l, NEW o, ResultRecorded(l, o) PROVE Paid
    BY <1>2, <2>7 DEF ResultRecorded
  <2>. HIDE DEF budgetVars, lockVars, resultVars, Untouched
  <2>. QED
    BY <2>1, <2>2, <2>3, <2>4, <2>5, <2>6, <2>7, ReserveKeepsPaid, LockKeepsPaid,
       AuthorizeKeepsPaid, ReleaseKeepsPaid
    DEF Next
<1>. QED BY <1>1, <1>3 DEF LifecycleInvariant

\* In every ledger a lock is paid for until its pool is accessed.
LEMMA LifecycleInvariantAlways == Spec => []LifecycleInvariant
<1>1. Init => LifecycleInvariant
  BY InitPaid, InitAccounts, InitTyped, InitBookkeeping
  DEF LifecycleInvariant, AccountsInvariant, ReducerInvariant
<1>. QED BY <1>1, LifecycleStep, PTL DEF Spec

\* A reservation is active in the lifecycle exactly when it is in the ledger,
\* and holds the same there (_reserved_budget).
LEMMA SameHolds ==
    ASSUME ControlTypeOK
    PROVE  /\ Lifecycle!Active = Active
           /\ Lifecycle!HardwareActive = HardwareActive
           /\ \A f : Lifecycle!Held(f) = ReservedTotal(f)
           /\ Lifecycle!Cardinality(HardwareActive) = Cardinality(HardwareActive)
<1>1. ASSUME NEW r \in Active
      PROVE  /\ HoldOf(r) = [study |-> reservations[r].study, hardware |-> reservations[r].hardware,
                             budget |-> reservations[r].budget]
             /\ HoldOf(r) # None
             /\ r \in Reservations
  <2>1. reservations[r] \in Reservation /\ r \in Reservations
    BY DEF Active, ControlTypeOK
  <2>2. [study |-> reservations[r].study, hardware |-> reservations[r].hardware,
         budget |-> reservations[r].budget] \in Hold
    BY <2>1 DEF Reservation, Hold
  <2>. QED BY <2>1, <2>2, NoneAssumption DEF HoldOf
<1>2. \A r \in Reservations : HoldOf(r) # None <=> r \in Active
  BY <1>1 DEF HoldOf
<1>3. Lifecycle!Active = Active
  BY <1>1, <1>2 DEF Lifecycle!Active
<1>4. Lifecycle!HardwareActive = HardwareActive
  BY <1>1, <1>3 DEF Lifecycle!HardwareActive, HardwareActive
<1>5. ASSUME NEW f
      PROVE  Lifecycle!Held(f) = ReservedTotal(f)
  <2>. DEFINE w == [r \in Active |-> reservations[r].budget[f]]
  <2>1. Lifecycle!Held(f) = Lifecycle!SumFunction(w)
    <3>1. [r \in Lifecycle!Active |-> [q \in Reservations |-> HoldOf(q)][r].budget[f]] = w
      BY <1>1, <1>3
    <3>. QED BY <3>1 DEF Lifecycle!Held
  <2>2. Lifecycle!SumFunction(w) = SumFunction(w)
    BY DEF SumFunction, SumFunctionOnSet, FoldFunctionOnSet, MapThenFoldSet,
           Lifecycle!SumFunction, Lifecycle!SumFunctionOnSet, Lifecycle!FoldFunctionOnSet,
           Lifecycle!MapThenFoldSet
  <2>. QED BY <2>1, <2>2 DEF ReservedTotal
<1>6. Lifecycle!Cardinality(HardwareActive) = Cardinality(HardwareActive)
  BY DEF Cardinality, Lifecycle!Cardinality
<1>. QED BY <1>3, <1>4, <1>5, <1>6

\* No study is admitted, locked or finished in the empty ledger, and no
\* reservation is active.
LEMMA RefinesInit == Init => Lifecycle!Init
<1>. SUFFICES ASSUME Init PROVE Lifecycle!Init
  OBVIOUS
<1>1. LockedStudies = {} /\ Outcome = [s \in Studies |-> NoResult]
  BY DEF Init, LockedStudies, Outcome
<1>2. {reservations[r].study : r \in {x \in Reservations : reservations[x] # None}} = {}
  BY DEF Init
<1>3. \A r \in Reservations : HoldOf(r) = None
  BY DEF Init, HoldOf, Active
<1>4. \A s \in Studies : PaidBy(s) = None
  BY DEF Init, PaidBy
<1>. QED
  BY <1>1, <1>2, <1>3, <1>4 DEF Init, NoUse, Lifecycle!Init, NoResult, Lifecycle!NoResult

\* The guards of a reservation are those of the lifecycle: entry, the ceilings
\* of the study, the hardware limit and the budget left (_apply_budget_reserved).
LEMMA ReserveRefines ==
    ASSUME LifecycleInvariant, NEW r \in Reservations, NEW i \in Instances,
           NEW hw \in HardwareKinds, NEW b \in ReservationBudgets, BudgetReserved(r, i, hw, b)
    PROVE  [Lifecycle!Next]_(Lifecycle!vars)
<1>. USE DEF LifecycleInvariant, AccountsInvariant, ReducerInvariant
<1>1. PICK s \in Studies : s = prepared[i].study /\ EntrySatisfied(s, Outcome)
  BY DEF BudgetReserved, MayReserve, ControlTypeOK, ChildPlan
<1>. DEFINE new == [instance |-> i, study |-> s, hardware |-> hw, budget |-> b]
            hold == [study |-> s, hardware |-> hw, budget |-> b]
<1>2. /\ reservations[r] = None
      /\ reservations' = [reservations EXCEPT ![r] = new]
      /\ UNCHANGED <<released, spent, lockLog, locked, accessed, terminal>>
  BY <1>1 DEF BudgetReserved, lockVars, resultVars
<1>3. new \in Reservation /\ new # None /\ new.study = s /\ new.hardware = hw /\ new.budget = b
  BY <1>1, BudgetAssumption, NoneAssumption DEF Reservation
<1>. HIDE DEF new
<1>4. /\ reservations'[r] = new
      /\ \A q \in Reservations : q # r => reservations'[q] = reservations[q]
      /\ r \notin released
  BY <1>2 DEF ControlTypeOK, ReleasedWasReserved
<1>5. Active' = Active \cup {r} /\ r \notin Active
  BY <1>2, <1>3, <1>4 DEF Active
<1>6. [q \in Reservations |-> HoldOf(q)]' = [[q \in Reservations |-> HoldOf(q)] EXCEPT ![r] = hold]
  <2>1. ASSUME NEW q \in Reservations
        PROVE  HoldOf(q)' = IF q = r THEN hold ELSE HoldOf(q)
    BY <1>3, <1>4, <1>5 DEF HoldOf
  <2>. QED BY <2>1
<1>7. HoldOf(r) = None
  BY <1>5 DEF HoldOf
<1>8. Lifecycle!HasRoom(hw, b)
  BY SameHolds DEF Lifecycle!HasRoom, BudgetReserved, BudgetAvailable
<1>9. Lifecycle!EntrySatisfied(s, Outcome) /\ Lifecycle!Within(b, StudyCap[s])
  BY <1>1
  DEF Lifecycle!EntrySatisfied, Lifecycle!BranchActivated, Lifecycle!ValidOutcomes,
      Lifecycle!Outcomes, EntrySatisfied, BranchActivated, ValidOutcomes, Outcomes,
      Lifecycle!Within, Lifecycle!Fields, Within, Fields, BudgetReserved
<1>10. {reservations[q].study : q \in {x \in Reservations : reservations[x] # None}}'
         = {reservations[q].study : q \in {x \in Reservations : reservations[x] # None}} \cup {s}
  BY <1>2, <1>3, <1>4
<1>11. /\ LockedStudies' = LockedStudies /\ Outcome' = Outcome
       /\ [x \in Studies |-> PaidBy(x)]' = [x \in Studies |-> PaidBy(x)]
  BY <1>2 DEF LockedStudies, Outcome, PaidBy
<1>12. Lifecycle!Reserve(r, s, hw, b)
  BY <1>2, <1>6, <1>7, <1>8, <1>9, <1>10, <1>11 DEF Lifecycle!Reserve
<1>. QED BY <1>12 DEF Lifecycle!Next

\* A child lock is a lock of the lifecycle, paid for by the reservation it cites
\* when that is active; a released one left a result behind (_apply_child_locked).
LEMMA LockRefines ==
    ASSUME LifecycleInvariant, NEW r \in Reservations, ChildLocked(r)
    PROVE  [Lifecycle!Next]_(Lifecycle!vars)
<1>. USE DEF LifecycleInvariant, AccountsInvariant, ReducerInvariant
<1>0. PICK s \in Studies : s = reservations[r].study /\ reservations[r] # None
  BY DEF ChildLocked, ControlTypeOK, Reservation
<1>. DEFINE e == [study |-> s, instance |-> reservations[r].instance, reservation |-> r]
            n == Len(lockLog) + 1
<1>1. /\ UNCHANGED <<reservations, released, spent, accessed, terminal>>
      /\ reservations[r] # None
      /\ locked[s] = 0
      /\ lockLog' = Append(lockLog, e)
      /\ locked' = [locked EXCEPT ![s] = n]
  BY <1>0 DEF ChildLocked, budgetVars, resultVars
<1>2. s \in Studies /\ e \in LockEvent
  BY <1>0 DEF ControlTypeOK, Reservation, LockEvent
<1>3. n # 0 /\ lockLog'[n] = e /\ \A l \in DOMAIN lockLog : lockLog'[l] = lockLog[l]
  BY <1>1, <1>2, LogGrows DEF ControlTypeOK
<1>4. e.reservation = r
  OBVIOUS
<1>5. \A x \in Studies : locked[x] # 0 => locked[x] \in DOMAIN lockLog
  BY DEF ControlTypeOK, LockIds
<1>. HIDE DEF e, n
<1>6. locked'[s] = n /\ \A x \in Studies : x # s => locked'[x] = locked[x]
  BY <1>1, <1>2 DEF ControlTypeOK
<1>7. LockedStudies' = LockedStudies \cup {s} /\ s \notin LockedStudies
  BY <1>1, <1>2, <1>3, <1>6 DEF LockedStudies
<1>8. /\ Outcome' = Outcome
      /\ [q \in Reservations |-> HoldOf(q)]' = [q \in Reservations |-> HoldOf(q)]
  BY <1>1 DEF Outcome, HoldOf, Active
<1>9. \A x \in Studies : x # s => PaidBy(x)' = PaidBy(x)
  BY <1>1, <1>3, <1>5, <1>6 DEF PaidBy
<1>10. PaidBy(s) = None
  BY <1>1 DEF PaidBy
<1>11. CASE r \notin released
  <2>1. HoldOf(r) # None /\ HoldOf(r).study = s
    <3>1. r \in Active
      BY <1>1, <1>11 DEF Active
    <3>2. [study |-> s, hardware |-> reservations[r].hardware,
           budget |-> reservations[r].budget] \in Hold
      BY <1>0 DEF ControlTypeOK, Reservation, Hold
    <3>. QED BY <1>0, <3>1, <3>2, NoneAssumption DEF HoldOf
  <2>2. PaidBy(s)' = r
    <3>1. lockLog'[locked'[s]].reservation = r /\ locked'[s] # 0
      BY <1>3, <1>4, <1>6
    <3>. QED BY <1>1, <1>11, <3>1 DEF PaidBy
  <2>3. [x \in Studies |-> PaidBy(x)]' = [[x \in Studies |-> PaidBy(x)] EXCEPT ![s] = r]
    BY <1>9, <2>2
  <2>4. Lifecycle!Lock(s, r)
    BY <1>0, <1>1, <1>7, <1>8, <2>1, <2>3 DEF Lifecycle!Lock
  <2>. QED BY <1>2, <2>4 DEF Lifecycle!Next
<1>12. CASE r \in released
  <2>1. PaidBy(s)' = None
    <3>1. lockLog'[locked'[s]].reservation = r
      BY <1>3, <1>4, <1>6
    <3>. QED BY <1>1, <1>12, <3>1 DEF PaidBy
  <2>2. terminal[s] \in Result
    BY <1>0, <1>12 DEF ReleasedHasResult, ControlTypeOK
  <2>3. Outcome[s] # NoResult
    BY <1>0, <2>2, <1>12, ProgramAssumption
    DEF ReleasedHasResult, Outcome, NoResult, Result, Outcomes
  <2>4. [x \in Studies |-> PaidBy(x)]' = [x \in Studies |-> PaidBy(x)]
    BY <1>9, <1>10, <2>1
  <2>5. Lifecycle!LockReleased(s)
    BY <1>1, <1>7, <1>8, <2>3, <2>4 DEF Lifecycle!LockReleased, NoResult, Lifecycle!NoResult
  <2>. QED BY <1>2, <2>5 DEF Lifecycle!Next
<1>. QED BY <1>11, <1>12

\* The first access of a study stands on a paid lock; a later one changes nothing
\* (_apply_pool_accessed).
LEMMA AccessRefines ==
    ASSUME LifecycleInvariant, NEW l \in DOMAIN lockLog, PoolAccessed(l)
    PROVE  [Lifecycle!Next]_(Lifecycle!vars)
<1>. USE DEF LifecycleInvariant, AccountsInvariant, ReducerInvariant
<1>1. PICK s \in Studies : s = lockLog[l].study
  BY LockEventTyped DEF LockEvent
<1>2. /\ UNCHANGED <<reservations, released, spent, lockLog, locked, terminal>>
      /\ authorized[s] # 0
      /\ GateOpen(s, Outcome, LockedStudies)
      /\ accessed' = accessed \cup {s}
  BY <1>1 DEF PoolAccessed, budgetVars, resultVars
<1>3. /\ LockedStudies' = LockedStudies /\ Outcome' = Outcome
      /\ [q \in Reservations |-> HoldOf(q)]' = [q \in Reservations |-> HoldOf(q)]
      /\ [x \in Studies |-> PaidBy(x)]' = [x \in Studies |-> PaidBy(x)]
  BY <1>2 DEF LockedStudies, Outcome, HoldOf, Active, PaidBy
<1>4. CASE s \in accessed
  BY <1>2, <1>3, <1>4 DEF Lifecycle!vars
<1>5. CASE s \notin accessed
  <2>1. PaidBy(s) # None
    <3>1. locked[s] # 0 /\ locked[s] \in DOMAIN lockLog
      BY <1>2 DEF Bookkeeping, HeldInOrder, ControlTypeOK, LockIds
    <3>2. lockLog[locked[s]].reservation \in Reservations
      BY <3>1, LockEventTyped DEF LockEvent
    <3>3. lockLog[locked[s]].reservation \notin released
      BY <1>2, <1>5 DEF PaidUntilAccess
    <3>. QED BY <3>1, <3>2, <3>3, NoneAssumption DEF PaidBy
  <2>2. Lifecycle!GateOpen(s, Outcome, LockedStudies)
    BY <1>2 DEF GateOpen, BranchActivated, NoResult, Lifecycle!GateOpen,
                Lifecycle!BranchActivated, Lifecycle!NoResult
  <2>3. Lifecycle!Access(s)
    BY <1>2, <1>3, <2>1, <2>2 DEF Lifecycle!Access
  <2>. QED BY <2>3 DEF Lifecycle!Next
<1>. QED BY <1>4, <1>5

\* The result of a study becomes its outcome when the reservation of its lock is
\* released, charged with at most what it held (_apply_budget_released).
LEMMA ReleaseRefines ==
    ASSUME LifecycleInvariant, NEW s \in Studies, BudgetReleased(s)
    PROVE  [Lifecycle!Next]_(Lifecycle!vars)
<1>. USE DEF LifecycleInvariant, AccountsInvariant, ReducerInvariant
<1>. DEFINE r == recorded[s].reservation
<1>1. recorded[s] \in Result /\ recorded[s] # None /\ s \in accessed
  BY DEF BudgetReleased, ControlTypeOK, Bookkeeping, HeldInOrder
<1>2. PICK o \in ResultOutcomes : o = recorded[s].outcome
  BY <1>1 DEF Result
<1>3. Outcome[s] \notin Lifecycle!ValidOutcomes /\ Outcome' = [Outcome EXCEPT ![s] = o]
  BY <1>2, ReleaseKeepsValid DEF ValidOutcomes, Outcomes, Lifecycle!ValidOutcomes, Lifecycle!Outcomes
<1>4. /\ UNCHANGED <<reservations, lockLog>>
      /\ r \in Active /\ r \in Reservations
      /\ Within(used[r], reservations[r].budget)
      /\ released' = released \cup {r}
      /\ spent' = [f \in Fields |-> spent[f] + used[r][f]]
  BY DEF BudgetReleased, Settle, Active
<1>5. locked[s] # 0 /\ lockLog[locked[s]].reservation = r
  BY <1>1, <1>4 DEF Bookkeeping, HeldInOrder, ResultOfLock, Active
<1>. HIDE DEF r
<1>6. PaidBy(s) = r /\ PaidBy(s)' = None
  <2>1. PaidBy(s) = r
    BY <1>4, <1>5 DEF PaidBy, Active
  <2>2. locked'[s] = 0 \/ locked'[s] = locked[s]
    BY DEF BudgetReleased, ClearStudy, ControlTypeOK
  <2>. QED BY <1>4, <1>5, <2>1, <2>2 DEF PaidBy
<1>7. ASSUME NEW x \in Studies, x # s
      PROVE  PaidBy(x)' = PaidBy(x)
  <2>1. locked'[x] = locked[x]
    BY <1>7 DEF BudgetReleased, ClearStudy, ControlTypeOK
  <2>2. ASSUME locked[x] # 0 PROVE lockLog[locked[x]].reservation # r
    <3>1. locked[x] \in DOMAIN lockLog /\ lockLog[locked[x]].study = x
      BY <2>2 DEF Bookkeeping, LockIsOwn, ControlTypeOK, LockIds
    <3>2. reservations[r].study = s
      BY <1>1 DEF r, Bookkeeping, ResultOfLock
    <3>. QED BY <1>7, <3>1, <3>2 DEF Bookkeeping, EventsMatch
  <2>. QED BY <1>4, <2>1, <2>2 DEF PaidBy
<1>8. [x \in Studies |-> PaidBy(x)]' = [[x \in Studies |-> PaidBy(x)] EXCEPT ![s] = None]
  BY <1>6, <1>7
<1>9. [q \in Reservations |-> HoldOf(q)]' = [[q \in Reservations |-> HoldOf(q)] EXCEPT ![r] = None]
  BY <1>4 DEF HoldOf, Active
<1>10. \E use \in 0..HoldOf(r).budget.cumulative : spent'.cumulative = spent.cumulative + use
  <2>1. HoldOf(r).budget = reservations[r].budget
    BY <1>4 DEF HoldOf
  <2>2. used[r].cumulative \in Nat /\ used[r].cumulative <= reservations[r].budget.cumulative
    BY <1>4 DEF TypeOK, Budget, Within, Fields
  <2>3. reservations[r].budget.cumulative \in Nat
    BY <1>4, HoldsNatural DEF Active, ControlTypeOK, Fields
  <2>4. spent'.cumulative = spent.cumulative + used[r].cumulative
    BY <1>4 DEF Fields
  <2>. QED BY <2>1, <2>2, <2>3, <2>4
<1>11. IF o = "invalid"
       THEN LockedStudies' = LockedStudies \ {s} /\ accessed' = accessed \ {s}
       ELSE UNCHANGED <<LockedStudies, accessed>>
  <2>1. CASE o = "invalid"
    <3>1. locked' = [locked EXCEPT ![s] = 0] /\ accessed' = accessed \ {s}
      BY <1>2, <2>1 DEF BudgetReleased, ClearStudy
    <3>. QED BY <2>1, <3>1 DEF LockedStudies, ControlTypeOK
  <2>2. CASE o # "invalid"
    BY <1>2, <2>2 DEF BudgetReleased, LockedStudies
  <2>. QED BY <2>1, <2>2
<1>12. Lifecycle!Finish(s, o, r)
  BY <1>1, <1>3, <1>4, <1>6, <1>8, <1>9, <1>10, <1>11 DEF Lifecycle!Finish
<1>. QED BY <1>4, <1>12 DEF Lifecycle!Next

\* Whatever agents append, studies live the life StudyLifecycle describes, the
\* hardware limit and the budget included.
THEOREM ImplementsLifecycleHolds == Spec => ImplementsLifecycle
<1>1. LifecycleInvariant /\ [Next]_vars => [Lifecycle!Next]_(Lifecycle!vars)
  <2>. SUFFICES ASSUME LifecycleInvariant, [Next]_vars
                PROVE  [Lifecycle!Next]_(Lifecycle!vars)
    OBVIOUS
  <2>. DEFINE Untouched ==
         UNCHANGED <<reservations, released, spent, lockLog, locked, accessed, terminal>>
  <2>1. Untouched => UNCHANGED Lifecycle!vars
    BY DEF Lifecycle!vars, LockedStudies, Outcome, HoldOf, Active, PaidBy
  <2>. USE DEF planVars, budgetVars, lockVars, runVars, resultVars
  <2>2. CASE ProgramLocked \/ UNCHANGED vars
    <3>1. Untouched
      BY <2>2 DEF ProgramLocked, vars
    <3>. QED BY <2>1, <3>1
  <2>3. ASSUME NEW i, NEW s, NEW b, ChildPrepared(i, s, b)
        PROVE  UNCHANGED Lifecycle!vars
    BY <2>1, <2>3 DEF ChildPrepared
  <2>4. ASSUME NEW audit, AuditCompleted(audit)
        PROVE  UNCHANGED Lifecycle!vars
    BY <2>1, <2>4 DEF AuditCompleted
  <2>5. ASSUME NEW l, ExecutionAuthorized(l)
        PROVE  UNCHANGED Lifecycle!vars
    BY <2>1, <2>5 DEF ExecutionAuthorized
  <2>6. ASSUME NEW a, NEW l, NEW t, NEW b, TrialAttemptStarted(a, l, t, b)
        PROVE  UNCHANGED Lifecycle!vars
    BY <2>1, <2>6 DEF TrialAttemptStarted
  <2>7. ASSUME NEW a, NEW completed, NEW b, NEW wrote, CloseAttempt(a, completed, b, wrote)
        PROVE  UNCHANGED Lifecycle!vars
    BY <2>1, <2>7 DEF CloseAttempt
  <2>8. ASSUME NEW l, NEW o, ResultRecorded(l, o)
        PROVE  UNCHANGED Lifecycle!vars
    BY <2>1, <2>8 DEF ResultRecorded
  <2>. HIDE DEF planVars, budgetVars, lockVars, runVars, resultVars, Untouched
  <2>. QED
    BY <2>2, <2>3, <2>4, <2>5, <2>6, <2>7, <2>8, ReserveRefines, LockRefines, AccessRefines,
       ReleaseRefines
    DEF Next
<1>. QED
  BY <1>1, RefinesInit, LifecycleInvariantAlways, PTL DEF Spec, ImplementsLifecycle, Lifecycle!Spec

-----------------------------------------------------------------------------
(* What CampaignBudget promises, of the reducer *)

AccountsInOrder == Accounts!TypeOK /\ Accounts!WithinCap

\* What is charged is never taken back.
ChargeKept == spent.cumulative <= spent'.cumulative /\ spent.ephemeral <= spent'.ephemeral

\* A reservation is held only within what is left of the ceilings
\* (_check_budget_available).
LEMMA HoldStep ==
    ASSUME NEW b \in ReservationBudgets, NEW isHardware \in BOOLEAN,
           AccountsInOrder, Accounts!Hold(b, isHardware)
    PROVE  AccountsInOrder' /\ ChargeKept
<1>. USE BudgetAssumption, ProgramBudgetAssumption
     DEF Accounts!TypeOK, Accounts!Budget, Budget, Accounts!Hold, Accounts!Plus
<1>1. b \in Budget
  OBVIOUS
<1>2. Accounts!TypeOK'
  BY <1>1 DEF AccountsInOrder
<1>3. Accounts!WithinCap'
  BY <1>1 DEF AccountsInOrder, Accounts!WithinCap
<1>4. ChargeKept
  BY DEF AccountsInOrder, ChargeKept
<1>. QED BY <1>2, <1>3, <1>4 DEF AccountsInOrder

\* A release charges no more than it gives back (_apply_budget_released).
LEMMA ReleaseStep ==
    ASSUME NEW b \in ReservationBudgets, NEW isHardware \in BOOLEAN, NEW use \in Accounts!UpTo(b),
           AccountsInOrder, Accounts!Release(b, use, isHardware)
    PROVE  AccountsInOrder' /\ ChargeKept
<1>. USE DEF Accounts!TypeOK, Accounts!Budget, Budget, Accounts!Release, Accounts!Plus,
             Accounts!Minus, Accounts!UpTo
<1>1. b \in Budget
  BY BudgetAssumption
<1>2. /\ b.cumulative \in 0..ReservedTotal("cumulative")
      /\ b.ephemeral \in 0..ReservedTotal("ephemeral")
      /\ use.cumulative \in 0..b.cumulative
      /\ use.ephemeral \in 0..b.ephemeral
  BY <1>1
<1>3. ReservedTotal("cumulative") \in Nat /\ ReservedTotal("ephemeral") \in Nat
  BY DEF AccountsInOrder
<1>4. Accounts!TypeOK'
  BY <1>1, <1>2, <1>3 DEF AccountsInOrder
<1>5. Accounts!WithinCap'
  BY <1>1, <1>2, <1>3, ProgramBudgetAssumption DEF AccountsInOrder, Accounts!WithinCap
<1>6. ChargeKept
  BY <1>1, <1>2, <1>3 DEF AccountsInOrder, ChargeKept
<1>. QED BY <1>4, <1>5, <1>6 DEF AccountsInOrder

\* Every event keeps the accounts in order and every charge.
LEMMA BudgetStep ==
    AccountsInOrder /\ [Accounts!Next]_(Accounts!vars) =>
        AccountsInOrder' /\ [ChargeKept]_(Accounts!vars)
<1>. SUFFICES ASSUME AccountsInOrder, [Accounts!Next]_(Accounts!vars)
              PROVE  AccountsInOrder' /\ [ChargeKept]_(Accounts!vars)
  OBVIOUS
<1>1. CASE UNCHANGED Accounts!vars
  BY <1>1 DEF Accounts!vars, AccountsInOrder, Accounts!TypeOK, Accounts!WithinCap
<1>2. CASE Accounts!Next
  BY <1>2, HoldStep, ReleaseStep DEF Accounts!Next
<1>. QED BY <1>1, <1>2

\* In every ledger the accounts are natural numbers within the program ceilings.
LEMMA AccountsInOrderAlways == Spec => []AccountsInOrder
<1>1. Accounts!Init => AccountsInOrder
  BY ProgramBudgetAssumption
  DEF Accounts!Init, AccountsInOrder, Accounts!TypeOK, Accounts!WithinCap, Accounts!Budget, Budget
<1>. QED
  BY <1>1, BudgetStep, ImplementsBudgetHolds, PTL DEF ImplementsBudget, Accounts!Spec

\* The accounts are well typed: a release never takes more than is held.
THEOREM BudgetTypeCorrect == Spec => []Accounts!TypeOK
<1>1. AccountsInOrder => Accounts!TypeOK
  BY DEF AccountsInOrder
<1>. QED BY <1>1, AccountsInOrderAlways, PTL

\* No sequence of events passes a ceiling of the program: what is charged and
\* what is held stay within it, and so do the active hardware children.
THEOREM WithinCapHolds == Spec => []Accounts!WithinCap
<1>1. AccountsInOrder => Accounts!WithinCap
  BY DEF AccountsInOrder
<1>. QED BY <1>1, AccountsInOrderAlways, PTL

\* What a release charged stays charged, whatever is held and released later.
THEOREM ChargesStay == Spec => Accounts!ChargesOnlyGrow
<1>1. [ChargeKept]_(Accounts!vars) =>
      [/\ spent.cumulative <= spent'.cumulative
       /\ spent.ephemeral <= spent'.ephemeral]_(Accounts!vars)
  BY DEF ChargeKept
<1>. QED
  BY <1>1, BudgetStep, AccountsInOrderAlways, ImplementsBudgetHolds, PTL
  DEF ImplementsBudget, Accounts!Spec, Accounts!ChargesOnlyGrow

=============================================================================
