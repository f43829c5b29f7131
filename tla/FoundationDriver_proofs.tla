------------------------ MODULE FoundationDriver_proofs ------------------------
(***************************************************************************)
(* Drivers and captures of FoundationDriver, for any number of drivers,    *)
(* trials and crashes: rollouts are exclusive and ledgered, stored traces  *)
(* are kept, and trials are completed once.                                *)
(***************************************************************************)
EXTENDS FoundationDriver, FiniteSetTheorems, TLAPS

-----------------------------------------------------------------------------
(* The invariant *)

\* Phases in which a driver has reconciled and not started an attempt, and those
\* in which it has started one and not closed it.
Quiet == {"reconciled", "planning", "planned", "choosing", "checked"}
Busy == {"started", "running", "ended"}

\* A driver works exactly while it holds the flock.
HoldsHardware == \A d \in Drivers : phase[d] # "idle" <=> hardware = d

\* Only the last attempt may be open.
OpenIsLast == \A n \in DOMAIN attempts : IsOpen(n) => n = Len(attempts)

\* A rollout belongs to an open attempt of a trial without a trace.
RolloutIsFresh ==
    \A c \in Rollouts :
        /\ c.attempt \in DOMAIN attempts
        /\ IsOpen(c.attempt)
        /\ trace[attempts[c.attempt].trial] = "none"

RolloutIsAlone == \A c, e \in Rollouts : c = e

\* A driver has at most one capture.
OneCaptureEach ==
    \A c, e \in captures : c.driver # None /\ c.driver = e.driver => c = e

\* No open attempt is one of a completed trial.
OpenIsNew ==
    \A n, m \in DOMAIN attempts :
        IsOpen(n) /\ attempts[m].status = "completed" => attempts[n].trial # attempts[m].trial

\* What the ledger, the disk and the captures have to do with each other.
Records ==
    /\ OpenIsLast
    /\ RolloutIsFresh
    /\ RolloutIsAlone
    /\ OneCaptureEach
    /\ OpenIsNew
    /\ CompletedOnce

\* What a driver in each phase relies on.
QuietHasNoOpen == \A d \in Drivers : phase[d] \in Quiet => NoOpenAttempt
BusyHasOpen ==
    \A d \in Drivers : phase[d] \in Busy => attempts # <<>> /\ IsOpen(Len(attempts))
NoRolloutAround == \A d \in Drivers : phase[d] \in {"started", "ended"} => Rollouts = {}
CheckedIsNew ==
    \A d \in Drivers : phase[d] = "checked" =>
        \A t \in Trials : First(t, queue[d]) => trace[t] = "none"
StartedIsNew ==
    \A d \in Drivers : phase[d] = "started" =>
        trace[attempts[Len(attempts)].trial] = "none"
CaptureIsOwned ==
    \A c \in captures : c.driver # None => phase[c.driver] = "running" /\ Rollouts \subseteq {c}

Conduct ==
    /\ HoldsHardware
    /\ QuietHasNoOpen
    /\ BusyHasOpen
    /\ NoRolloutAround
    /\ CheckedIsNew
    /\ StartedIsNew
    /\ CaptureIsOwned

DriverInvariant == TypeOK /\ Records /\ Conduct

-----------------------------------------------------------------------------
(* Types *)

\* No driver runs at first (execute_foundation).
LEMMA InitTyped == Init => TypeOK
  BY DriverAssumption DEF Init, TypeOK, Phases, NotEnded, End, Traces, Capture

\* Every step of a driver or a capture keeps the types (execute_foundation,
\* _run_trial).
LEMMA TypeStep == TypeOK /\ BusyHasOpen /\ [Next]_vars => TypeOK'
<1> SUFFICES ASSUME TypeOK, BusyHasOpen, [Next]_vars PROVE TypeOK'
  OBVIOUS
<1> USE DriverAssumption
<1>1. CASE UNCHANGED vars
  BY <1>1 DEF TypeOK, vars, ledgerVars, diskVars
<1>2. ASSUME NEW d \in Drivers, Begin(d) PROVE TypeOK'
  BY <1>2 DEF TypeOK, Begin, Phases, ledgerVars, diskVars
<1>3. ASSUME NEW n \in DOMAIN attempts, NEW status \in {"completed", "failed"},
             NEW rollouts \in 0..1, Terminate(n, status, rollouts)
      PROVE attempts' \in Seq(Attempt)
  <2>1. attempts[n] \in Attempt
    BY DEF TypeOK
  <2>2. [attempts[n] EXCEPT !.status = status, !.rollouts = rollouts] \in Attempt
    BY <2>1 DEF Attempt
  <2> QED
    BY <1>3, <2>2 DEF TypeOK, Terminate, Attempt
<1>4. ASSUME NEW d \in Drivers, Reconcile(d) PROVE TypeOK'
  <2>1. attempts' \in Seq(Attempt)
    BY <1>4, <1>3 DEF TypeOK, Reconcile
  <2> QED
    BY <1>4, <2>1 DEF TypeOK, Reconcile, Goto, Quit, Phases, diskVars
<1>5. ASSUME NEW d \in Drivers, EnsureResolvedPlan(d) PROVE TypeOK'
  BY <1>5 DEF TypeOK, EnsureResolvedPlan, Goto, Quit, Phases, ledgerVars
<1>6. ASSUME NEW d \in Drivers, WritePlanFiles(d) PROVE TypeOK'
  BY <1>6 DEF TypeOK, WritePlanFiles, Goto, Phases, ledgerVars
<1>7. ASSUME NEW d \in Drivers, NEW selected \in Selections, Select(d, selected) PROVE TypeOK'
  <2>1. selected \subseteq Trials
    BY DEF Selections, Remaining
  <2> QED
    BY <1>7, <2>1 DEF TypeOK, Select, Phases, ledgerVars, diskVars
<1>8. ASSUME NEW d \in Drivers, CheckNext(d) PROVE TypeOK'
  BY <1>8 DEF TypeOK, CheckNext, Goto, Quit, Phases, ledgerVars, diskVars
<1>9. ASSUME NEW d \in Drivers, StartAttempt(d) PROVE TypeOK'
  <2>1. \A t \in Trials : [trial |-> t, status |-> "open", rollouts |-> 0] \in Attempt
    BY DEF Attempt
  <2> QED
    BY <1>9, <2>1 DEF TypeOK, StartAttempt, Quit, Phases, diskVars
<1>10. ASSUME NEW d \in Drivers, Launch(d) PROVE TypeOK'
  <2>1. [attempt |-> Len(attempts), driver |-> d, published |-> FALSE] \in Capture
    BY DEF Capture, TypeOK
  <2> QED
    BY <1>10, <2>1 DEF TypeOK, Launch, Goto, Phases, ledgerVars, diskVars
<1>11. ASSUME NEW d \in Drivers, FailToLaunch(d) PROVE TypeOK'
  BY <1>11 DEF TypeOK, FailToLaunch, Goto, Phases, End, ledgerVars, diskVars
<1>12. ASSUME NEW d \in Drivers, Close(d) PROVE TypeOK'
  <2>1. Len(attempts) \in DOMAIN attempts
    BY <1>12 DEF TypeOK, BusyHasOpen, Busy, Close
  <2>2. attempts' \in Seq(Attempt)
    BY <1>12, <2>1, <1>3 DEF TypeOK, Close
  <2> QED
    BY <1>12, <2>2 DEF TypeOK, Close, Goto, Quit, NotEnded, End, Phases, diskVars
<1>13. ASSUME NEW d \in Drivers, Crash(d) PROVE TypeOK'
  <2>1. captures' \in SUBSET Capture
    BY <1>13 DEF TypeOK, Crash, Capture
  <2> QED
    BY <1>13, <2>1 DEF TypeOK, Crash, Quit, NotEnded, End, Phases, diskVars
<1>14. ASSUME NEW c \in captures, NEW found \in Traces, WriteEpisode(c, found) PROVE TypeOK'
  <2>1. captures' \in SUBSET Capture
    BY <1>14 DEF TypeOK, WriteEpisode, Capture
  <2> QED
    BY <1>14, <2>1 DEF TypeOK, WriteEpisode, ledgerVars
<1>15. ASSUME NEW c \in captures, NEW end \in End, Exit(c, end) PROVE TypeOK'
  BY <1>15 DEF TypeOK, Exit, Phases, ledgerVars, diskVars
<1> QED
  BY <1>1, <1>2, <1>4, <1>5, <1>6, <1>7, <1>8, <1>9, <1>10, <1>11, <1>12, <1>13, <1>14, <1>15
     DEF Next, Step

-----------------------------------------------------------------------------
(* The records are preserved *)

\* Nothing is recorded at first.
LEMMA InitRecords == Init => Records /\ Conduct
  BY DriverAssumption
  DEF Init, Records, OpenIsLast, RolloutIsFresh, RolloutIsAlone, OneCaptureEach, OpenIsNew,
      CompletedOnce, Conduct, HoldsHardware, QuietHasNoOpen, BusyHasOpen, NoRolloutAround,
      CheckedIsNew, StartedIsNew, CaptureIsOwned, Quiet, Busy, Rollouts

\* Steps that change no attempt, capture or trace keep the records.
LEMMA RecordsUntouched ==
  ASSUME Records, UNCHANGED <<attempts, captures, trace>>
  PROVE  Records'
  BY DEF Records, OpenIsLast, RolloutIsFresh, RolloutIsAlone, OneCaptureEach, OpenIsNew,
         CompletedOnce, IsOpen, Rollouts

\* Closing the open attempt while no rollout is running leaves none open; it
\* completes its trial only over an exact trace (_append_completed_attempt,
\* _append_failed_attempt).
LEMMA TerminateKeepsRecords ==
  ASSUME TypeOK, Records, Rollouts = {},
         NEW n \in DOMAIN attempts, IsOpen(n),
         NEW status \in {"completed", "failed"}, NEW rollouts \in 0..1,
         status = "completed" => trace[attempts[n].trial] = "exact",
         Terminate(n, status, rollouts), UNCHANGED <<captures, trace>>
  PROVE  Records' /\ NoOpenAttempt'
<1>1. /\ DOMAIN attempts' = DOMAIN attempts
      /\ Len(attempts') = Len(attempts)
      /\ attempts'[n].trial = attempts[n].trial
      /\ attempts'[n].status = status
      /\ \A m \in DOMAIN attempts : m # n => attempts'[m] = attempts[m]
  <2> DEFINE closed == [attempts[n] EXCEPT !.status = status, !.rollouts = rollouts]
  <2>1. attempts[n] \in Attempt
    BY DEF TypeOK
  <2>2. closed.trial = attempts[n].trial /\ closed.status = status
    BY <2>1 DEF Attempt
  <2>3. attempts' = [attempts EXCEPT ![n] = closed]
    BY DEF Terminate
  <2> HIDE DEF closed
  <2> QED
    BY <2>2, <2>3 DEF TypeOK
<1>2. NoOpenAttempt'
  BY <1>1 DEF NoOpenAttempt, IsOpen, Records, OpenIsLast
<1>3. OpenIsLast' /\ OpenIsNew'
  BY <1>2 DEF NoOpenAttempt, OpenIsLast, OpenIsNew
<1>4. Rollouts' = {}
  BY DEF Rollouts
<1>5. RolloutIsFresh' /\ RolloutIsAlone' /\ OneCaptureEach'
  BY <1>4 DEF RolloutIsFresh, RolloutIsAlone, OneCaptureEach, Records
<1>6. CompletedOnce'
  BY <1>1 DEF CompletedOnce, Records, OpenIsNew, IsOpen
<1> QED
  BY <1>2, <1>3, <1>5, <1>6 DEF Records

\* An attempt whose trial has an exact trace has no rollout left
\* (_reconcile_open_attempt).
LEMMA ExactMeansNoRollout ==
  ASSUME Records, NEW n \in DOMAIN attempts, IsOpen(n), trace[attempts[n].trial] = "exact"
  PROVE  Rollouts = {}
  BY DEF Records, OpenIsLast, RolloutIsFresh

\* Without an open attempt there is no rollout (_authorized_ledger).
LEMMA NoOpenMeansNoRollout ==
  ASSUME Records, NoOpenAttempt
  PROVE  Rollouts = {}
  BY DEF Records, RolloutIsFresh, NoOpenAttempt

\* A new attempt is the last, and of a trial without a trace, which no completed
\* trial is (execute_foundation).
LEMMA StartKeepsRecords ==
  ASSUME TypeOK, Records, NoOpenAttempt, NEW t \in Trials, trace[t] = "none",
         attempts' = Append(attempts, [trial |-> t, status |-> "open", rollouts |-> 0]),
         UNCHANGED <<captures, trace>>
  PROVE  Records'
<1>1. /\ Len(attempts') = Len(attempts) + 1
      /\ DOMAIN attempts' = DOMAIN attempts \cup {Len(attempts')}
      /\ attempts'[Len(attempts')].trial = t
      /\ attempts'[Len(attempts')].status = "open"
      /\ \A m \in DOMAIN attempts : attempts'[m] = attempts[m] /\ m # Len(attempts')
  BY DEF TypeOK
<1>2. Rollouts' = {}
  BY NoOpenMeansNoRollout DEF Rollouts
<1>3. OpenIsLast'
  BY <1>1 DEF OpenIsLast, NoOpenAttempt, IsOpen
<1>4. RolloutIsFresh' /\ RolloutIsAlone' /\ OneCaptureEach'
  BY <1>2 DEF RolloutIsFresh, RolloutIsAlone, OneCaptureEach, Records
<1>5. OpenIsNew'
  BY <1>1 DEF OpenIsNew, CompletedOnce, NoOpenAttempt, IsOpen, Records
<1>6. CompletedOnce'
  BY <1>1 DEF CompletedOnce, Records
<1> QED
  BY <1>3, <1>4, <1>5, <1>6 DEF Records

\* A driver launches a capture for the attempt it started (_run_trial).
LEMMA LaunchKeepsRecords ==
  ASSUME TypeOK, Records, Conduct, NEW d \in Drivers, Launch(d)
  PROVE  Records'
<1> DEFINE new == [attempt |-> Len(attempts), driver |-> d, published |-> FALSE]
<1>1. captures' = captures \cup {new} /\ UNCHANGED <<attempts, trace>>
  BY DEF Launch, ledgerVars, diskVars
<1>2. Rollouts = {}
  BY DEF Launch, Conduct, NoRolloutAround
<1>3. Rollouts' = {new}
  BY <1>1, <1>2 DEF Rollouts
<1>4. /\ Len(attempts) \in DOMAIN attempts
      /\ IsOpen(Len(attempts))
      /\ trace[attempts[Len(attempts)].trial] = "none"
  BY DEF Launch, Conduct, BusyHasOpen, StartedIsNew, Busy, TypeOK
<1>5. RolloutIsFresh' /\ RolloutIsAlone'
  BY <1>1, <1>3, <1>4 DEF RolloutIsFresh, RolloutIsAlone, IsOpen
<1>6. \A c \in captures : c.driver # d
  BY DriverAssumption DEF Launch, Conduct, CaptureIsOwned
<1>7. OneCaptureEach'
  <2>1. new.driver = d
    OBVIOUS
  <2> HIDE DEF new
  <2> QED
    BY <1>1, <1>6, <2>1 DEF OneCaptureEach, Records
<1>8. OpenIsLast' /\ OpenIsNew' /\ CompletedOnce'
  BY <1>1 DEF OpenIsLast, OpenIsNew, CompletedOnce, IsOpen, Records
<1> QED
  BY <1>5, <1>7, <1>8 DEF Records

\* The capture of a driver that dies stays what it is (subprocess.run).
LEMMA CrashKeepsRecords ==
  ASSUME TypeOK, Records, NEW d \in Drivers, Crash(d)
  PROVE  Records'
<1> DEFINE Orphan(c) == IF c.driver = d THEN [c EXCEPT !.driver = None] ELSE c
<1>1. captures' = {Orphan(c) : c \in captures} /\ UNCHANGED <<attempts, trace>>
  BY DEF Crash, diskVars
<1>2. \A c \in captures :
          /\ Orphan(c).attempt = c.attempt
          /\ Orphan(c).published = c.published
          /\ Orphan(c).driver = c.driver \/ Orphan(c).driver = None
  BY DEF TypeOK, Capture
<1> HIDE DEF Orphan
<1>3. \A e \in Rollouts' : \E c \in Rollouts : e = Orphan(c)
  BY <1>1, <1>2 DEF Rollouts
<1>4. RolloutIsAlone'
  BY <1>3 DEF RolloutIsAlone, Records
<1>5. RolloutIsFresh'
  <2> SUFFICES ASSUME NEW e \in Rollouts'
               PROVE  /\ e.attempt \in DOMAIN attempts
                      /\ attempts[e.attempt].status = "open"
                      /\ trace[attempts[e.attempt].trial] = "none"
    BY <1>1 DEF RolloutIsFresh, IsOpen
  <2>1. PICK c \in Rollouts : e = Orphan(c)
    BY <1>3
  <2>2. e.attempt = c.attempt
    BY <1>2, <2>1 DEF Rollouts
  <2> QED
    BY <2>2 DEF RolloutIsFresh, IsOpen, Records
<1>6. OneCaptureEach'
  <2> SUFFICES ASSUME NEW a \in captures', NEW b \in captures',
                      a.driver # None, a.driver = b.driver
               PROVE  a = b
    BY DEF OneCaptureEach
  <2>1. PICK c \in captures : a = Orphan(c)
    BY <1>1
  <2>2. PICK e \in captures : b = Orphan(e)
    BY <1>1
  <2>3. c.driver # None /\ c.driver = e.driver
    BY <1>2, <2>1, <2>2
  <2> QED
    BY <2>1, <2>2, <2>3 DEF OneCaptureEach, Records
<1>7. OpenIsLast' /\ OpenIsNew' /\ CompletedOnce'
  BY <1>1 DEF OpenIsLast, OpenIsNew, CompletedOnce, IsOpen, Records
<1> QED
  BY <1>4, <1>5, <1>6, <1>7 DEF Records

\* The only rollout stores its episode where no trace is, and none of a completed
\* trial (_write_episode).
LEMMA WriteKeepsRecords ==
  ASSUME TypeOK, Records, NEW c \in captures, NEW found \in Traces, WriteEpisode(c, found)
  PROVE  Records' /\ Rollouts' = {}
<1> DEFINE new == [c EXCEPT !.published = TRUE]
<1> DEFINE t == attempts[c.attempt].trial
<1>1. /\ captures' = (captures \ {c}) \cup {new}
      /\ trace' = [trace EXCEPT ![t] = found]
      /\ UNCHANGED attempts
  BY DEF WriteEpisode, ledgerVars
<1>2. new.driver = c.driver /\ new.published
  BY DEF TypeOK, Capture
<1> HIDE DEF new
<1>3. c \in Rollouts /\ IsOpen(c.attempt) /\ c.attempt \in DOMAIN attempts /\ trace[t] = "none"
  BY DEF WriteEpisode, Records, RolloutIsFresh
<1>4. \A e \in Rollouts : e = c
  BY <1>3 DEF Records, RolloutIsAlone
<1>5. Rollouts' = {}
  BY <1>1, <1>2, <1>4 DEF Rollouts
<1>6. RolloutIsFresh' /\ RolloutIsAlone'
  BY <1>5 DEF RolloutIsFresh, RolloutIsAlone
<1>7. OneCaptureEach'
  BY <1>1, <1>2 DEF OneCaptureEach, Records
<1>8. CompletedOnce'
  BY <1>1, <1>3 DEF TypeOK, Attempt, CompletedOnce, Records
<1>9. OpenIsLast' /\ OpenIsNew'
  BY <1>1 DEF OpenIsLast, OpenIsNew, IsOpen, Records
<1> QED
  BY <1>5, <1>6, <1>7, <1>8, <1>9 DEF Records

\* A capture that exits is one less (_observed_output).
LEMMA ExitKeepsRecords ==
  ASSUME Records, NEW c \in captures, NEW end \in End, Exit(c, end)
  PROVE  Records' /\ Rollouts' = Rollouts \ {c}
<1>1. captures' = captures \ {c} /\ UNCHANGED <<attempts, trace>>
  BY DEF Exit, ledgerVars, diskVars
<1>2. Rollouts' = Rollouts \ {c}
  BY <1>1 DEF Rollouts
<1>3. RolloutIsFresh' /\ RolloutIsAlone' /\ OneCaptureEach'
  BY <1>1, <1>2 DEF RolloutIsFresh, RolloutIsAlone, OneCaptureEach, IsOpen, Records
<1>4. OpenIsLast' /\ OpenIsNew' /\ CompletedOnce'
  BY <1>1 DEF OpenIsLast, OpenIsNew, CompletedOnce, IsOpen, Records
<1> QED
  BY <1>2, <1>3, <1>4 DEF Records

-----------------------------------------------------------------------------
(* The conduct of drivers is preserved *)

\* The driver that works is the one that holds the flock (foundation_hardware_lock).
LEMMA OneDriverWorks ==
  ASSUME Conduct, NEW d \in Drivers, phase[d] # "idle"
  PROVE  \A e \in Drivers : phase[e] # "idle" => e = d
  BY DEF Conduct, HoldsHardware

\* A driver that gives up leaves nobody at work; it has no capture
\* (foundation_hardware_lock).
LEMMA QuitKeepsConduct ==
  ASSUME TypeOK, Conduct, NEW d \in Drivers, phase[d] \notin {"idle", "running"}, Quit(d),
         Rollouts' \subseteq Rollouts, captures' = captures
  PROVE  Conduct'
<1>1. \A e \in Drivers : phase'[e] = "idle"
  BY OneDriverWorks DEF TypeOK, Quit
<1>2. HoldsHardware'
  BY <1>1, DriverAssumption DEF HoldsHardware, Quit
<1>3. \A c \in captures : c.driver = None
  BY OneDriverWorks DEF Conduct, CaptureIsOwned, TypeOK, Capture
<1>4. CaptureIsOwned'
  BY <1>3 DEF CaptureIsOwned
<1> QED
  BY <1>1, <1>2, <1>4
  DEF Conduct, QuietHasNoOpen, BusyHasOpen, NoRolloutAround, CheckedIsNew, StartedIsNew,
      Quiet, Busy

\* A working driver without a capture may go on to a phase whose demands are met.
LEMMA MoveKeepsConduct ==
  ASSUME TypeOK, Conduct, NEW d \in Drivers, phase[d] \notin {"idle", "running"},
         NEW p \in Phases \ {"idle", "running"},
         phase' = [phase EXCEPT ![d] = p], UNCHANGED <<hardware, captures>>,
         p \in Quiet => NoOpenAttempt',
         p \in Busy => attempts' # <<>> /\ IsOpen(Len(attempts))',
         p \in {"started", "ended"} => Rollouts' = {},
         p = "checked" => \A t \in Trials : First(t, queue'[d]) => trace'[t] = "none",
         p = "started" => trace'[attempts'[Len(attempts')].trial] = "none"
  PROVE  Conduct'
<1>1. phase'[d] = p /\ \A e \in Drivers : e # d => phase'[e] = "idle"
  BY OneDriverWorks DEF TypeOK
<1>2. HoldsHardware'
  BY <1>1 DEF Conduct, HoldsHardware
<1>3. \A c \in captures : c.driver = None
  BY OneDriverWorks DEF Conduct, CaptureIsOwned, TypeOK, Capture
<1>4. CaptureIsOwned'
  BY <1>3 DEF CaptureIsOwned
<1>5. QuietHasNoOpen' /\ BusyHasOpen' /\ NoRolloutAround'
  BY <1>1 DEF QuietHasNoOpen, BusyHasOpen, NoRolloutAround, Quiet, Busy
<1>6. CheckedIsNew' /\ StartedIsNew'
  BY <1>1 DEF CheckedIsNew, StartedIsNew
<1> QED
  BY <1>2, <1>4, <1>5, <1>6 DEF Conduct

\* A driver begins when nobody works (foundation_hardware_lock).
LEMMA BeginKeepsConduct ==
  ASSUME TypeOK, Conduct, NEW d \in Drivers, Begin(d)
  PROVE  Conduct'
<1>1. /\ hardware = None /\ hardware' = d
      /\ phase' = [phase EXCEPT ![d] = "holding"]
      /\ UNCHANGED <<captures, attempts, trace, queue>>
  BY DEF Begin, ledgerVars, diskVars
<1>2. \A e \in Drivers : phase[e] = "idle"
  BY <1>1, DriverAssumption DEF Conduct, HoldsHardware
<1>3. phase'[d] = "holding" /\ \A e \in Drivers : e # d => phase'[e] = "idle"
  BY <1>1, <1>2 DEF TypeOK
<1>4. HoldsHardware'
  BY <1>1, <1>3 DEF HoldsHardware
<1>5. \A c \in captures : c.driver = None
  BY <1>2 DEF Conduct, CaptureIsOwned, TypeOK, Capture
<1>6. CaptureIsOwned'
  BY <1>1, <1>5 DEF CaptureIsOwned
<1> QED
  BY <1>3, <1>4, <1>6
  DEF Conduct, QuietHasNoOpen, BusyHasOpen, NoRolloutAround, CheckedIsNew, StartedIsNew,
      Quiet, Busy

\* When a driver dies its capture has no driver left, and nobody works
\* (foundation_hardware_lock).
LEMMA CrashKeepsConduct ==
  ASSUME TypeOK, Conduct, NEW d \in Drivers, Crash(d)
  PROVE  Conduct'
<1>1. \A e \in Drivers : phase'[e] = "idle"
  BY OneDriverWorks DEF TypeOK, Crash, Quit
<1>2. HoldsHardware'
  BY <1>1, DriverAssumption DEF HoldsHardware, Crash, Quit
<1>3. \A c \in captures : c.driver # None => c.driver = d
  BY OneDriverWorks DEF Conduct, CaptureIsOwned, TypeOK, Capture, Crash
<1>4. \A c \in captures : [c EXCEPT !.driver = None].driver = None
  BY DEF TypeOK, Capture
<1>5. \A c \in captures' : c.driver = None
  BY <1>3, <1>4 DEF Crash
<1>6. CaptureIsOwned'
  BY <1>5 DEF CaptureIsOwned
<1> QED
  BY <1>1, <1>2, <1>6
  DEF Conduct, QuietHasNoOpen, BusyHasOpen, NoRolloutAround, CheckedIsNew, StartedIsNew,
      Quiet, Busy

\* The capture a driver launches is the only rollout (_run_trial).
LEMMA LaunchKeepsConduct ==
  ASSUME TypeOK, Conduct, NEW d \in Drivers, Launch(d)
  PROVE  Conduct'
<1> DEFINE new == [attempt |-> Len(attempts), driver |-> d, published |-> FALSE]
<1>1. /\ captures' = captures \cup {new}
      /\ phase' = [phase EXCEPT ![d] = "running"]
      /\ UNCHANGED <<hardware, attempts, trace, queue>>
  BY DEF Launch, Goto, ledgerVars, diskVars
<1>2. phase[d] = "started" /\ Rollouts = {}
  BY DEF Launch, Conduct, NoRolloutAround
<1>3. phase'[d] = "running" /\ \A e \in Drivers : e # d => phase'[e] = "idle"
  BY <1>1, <1>2, OneDriverWorks DEF TypeOK
<1>4. HoldsHardware'
  BY <1>1, <1>2, <1>3 DEF Conduct, HoldsHardware
<1>5. \A c \in captures : c.driver = None
  BY <1>2, OneDriverWorks DEF Conduct, CaptureIsOwned, TypeOK, Capture
<1>6. Rollouts' = {new} /\ new.driver = d
  BY <1>1, <1>2 DEF Rollouts
<1> HIDE DEF new
<1>7. CaptureIsOwned'
  BY <1>1, <1>3, <1>5, <1>6 DEF CaptureIsOwned
<1>8. BusyHasOpen'
  BY <1>1, <1>2, <1>3 DEF Conduct, BusyHasOpen, Busy, IsOpen
<1> QED
  BY <1>3, <1>4, <1>7, <1>8
  DEF Conduct, QuietHasNoOpen, NoRolloutAround, CheckedIsNew, StartedIsNew, Quiet

\* An episode is stored while its driver, if it lives, waits (run_pi05_capture_task).
LEMMA WriteKeepsConduct ==
  ASSUME TypeOK, Records, Conduct, NEW c \in captures, NEW found \in Traces,
         WriteEpisode(c, found)
  PROVE  Conduct'
<1> DEFINE new == [c EXCEPT !.published = TRUE]
<1>1. /\ captures' = (captures \ {c}) \cup {new}
      /\ UNCHANGED <<hardware, phase, queue, attempts>>
  BY DEF WriteEpisode, ledgerVars
<1>2. new.driver = c.driver
  BY DEF TypeOK, Capture
<1> HIDE DEF new
<1>3. Rollouts # {} /\ ~NoOpenAttempt /\ Rollouts' = {}
  BY WriteKeepsRecords DEF WriteEpisode, Records, RolloutIsFresh, NoOpenAttempt
<1>4. \A d \in Drivers : phase[d] \notin {"checked", "started"}
  BY <1>3 DEF Conduct, QuietHasNoOpen, NoRolloutAround, Quiet
<1>5. HoldsHardware' /\ QuietHasNoOpen' /\ BusyHasOpen'
  BY <1>1
  DEF Conduct, HoldsHardware, QuietHasNoOpen, BusyHasOpen, NoOpenAttempt, IsOpen
<1>6. CheckedIsNew' /\ StartedIsNew'
  BY <1>1, <1>4 DEF CheckedIsNew, StartedIsNew
<1>7. CaptureIsOwned' /\ NoRolloutAround'
  BY <1>1, <1>2, <1>3 DEF Conduct, CaptureIsOwned, NoRolloutAround
<1> QED
  BY <1>5, <1>6, <1>7 DEF Conduct

\* When its capture exits a driver finds no rollout running (_run_trial).
LEMMA ExitKeepsConduct ==
  ASSUME TypeOK, Records, Conduct, NEW c \in captures, NEW end \in End, Exit(c, end)
  PROVE  Conduct'
<1>1. captures' = captures \ {c} /\ UNCHANGED <<hardware, queue, attempts, trace>>
  BY DEF Exit, ledgerVars, diskVars
<1>2. Rollouts' = Rollouts \ {c}
  BY ExitKeepsRecords
<1>3. CASE c.driver = None
  <2>1. UNCHANGED phase
    BY <1>3 DEF Exit
  <2> QED
    BY <1>1, <1>2, <2>1
    DEF Conduct, HoldsHardware, QuietHasNoOpen, BusyHasOpen, NoRolloutAround, CheckedIsNew,
        StartedIsNew, CaptureIsOwned, NoOpenAttempt, IsOpen, First
<1>4. CASE c.driver # None
  <2>1. c.driver \in Drivers
    BY <1>4 DEF TypeOK, Capture
  <2> DEFINE d == c.driver
  <2>2. phase[d] = "running" /\ Rollouts \subseteq {c}
    BY <1>4 DEF Conduct, CaptureIsOwned
  <2>3. phase' = [phase EXCEPT ![d] = "ended"]
    BY <1>4 DEF Exit
  <2>4. phase'[d] = "ended" /\ \A e \in Drivers : e # d => phase'[e] = "idle"
    BY <2>1, <2>2, <2>3, OneDriverWorks DEF TypeOK
  <2>5. HoldsHardware'
    BY <1>1, <2>1, <2>2, <2>4 DEF Conduct, HoldsHardware
  <2>6. Rollouts' = {}
    BY <1>2, <2>2
  <2>7. BusyHasOpen'
    BY <1>1, <2>1, <2>2, <2>4 DEF Conduct, BusyHasOpen, Busy, IsOpen
  <2>8. \A e \in captures' : e.driver = None
    <3> SUFFICES ASSUME NEW e \in captures, e # c, e.driver # None PROVE FALSE
      BY <1>1
    <3>1. phase[e.driver] = "running" /\ e.driver \in Drivers
      BY DEF Conduct, CaptureIsOwned, TypeOK, Capture
    <3>2. e.driver = c.driver
      BY <2>1, <2>2, <3>1, OneDriverWorks
    <3> QED
      BY <3>2 DEF Records, OneCaptureEach
  <2>9. CaptureIsOwned'
    BY <2>8 DEF CaptureIsOwned
  <2> QED
    BY <2>4, <2>5, <2>6, <2>7, <2>9
    DEF Conduct, QuietHasNoOpen, NoRolloutAround, CheckedIsNew, StartedIsNew, Quiet
<1> QED
  BY <1>3, <1>4

\* Closing an attempt ends the driver's concern with it (_reconcile_open_attempt,
\* execute_foundation).
LEMMA TerminateKeepsInvariant ==
  ASSUME TypeOK, Records, Conduct, Rollouts = {},
         NEW d \in Drivers, phase[d] \notin {"idle", "running"},
         NEW n \in DOMAIN attempts, IsOpen(n),
         NEW status \in {"completed", "failed"}, NEW rollouts \in 0..1,
         status = "completed" => trace[attempts[n].trial] = "exact",
         Terminate(n, status, rollouts), UNCHANGED <<captures, trace>>,
         NEW p \in {"reconciled", "choosing"}, Goto(d, p)
  PROVE  Records' /\ Conduct'
<1>1. Records' /\ NoOpenAttempt'
  BY TerminateKeepsRecords
<1>2. Conduct'
  BY <1>1, MoveKeepsConduct DEF Goto, Phases, Quiet, Busy
<1> QED
  BY <1>1, <1>2

\* A driver first settles the attempt an earlier one left open (_reconcile_open_attempt).
LEMMA ReconcileStep ==
  ASSUME TypeOK, Records, Conduct, NEW d \in Drivers, Reconcile(d)
  PROVE  Records' /\ Conduct'
<1>1. phase[d] = "holding" /\ UNCHANGED <<captures, trace>>
  BY DEF Reconcile, diskVars
<1>2. CASE NoOpenAttempt /\ Goto(d, "reconciled") /\ UNCHANGED attempts
  <2>1. Records' /\ NoOpenAttempt'
    BY <1>1, <1>2, RecordsUntouched DEF NoOpenAttempt, IsOpen
  <2>2. Conduct'
    BY <1>1, <1>2, <2>1, MoveKeepsConduct DEF Goto, Phases, Quiet, Busy
  <2> QED
    BY <2>1, <2>2
<1>3. ASSUME NEW n \in DOMAIN attempts, IsOpen(n), trace[attempts[n].trial] = "exact",
             Terminate(n, "completed", 1), Goto(d, "reconciled")
      PROVE  Records' /\ Conduct'
  BY <1>1, <1>3, ExactMeansNoRollout, TerminateKeepsInvariant
<1>4. CASE Quit(d) /\ UNCHANGED attempts
  BY <1>1, <1>4, QuitKeepsConduct, RecordsUntouched DEF Rollouts
<1> QED
  BY <1>2, <1>3, <1>4 DEF Reconcile

\* The plan files, the selection and the check of the next trial change no record
\* (_ensure_resolved_plan, _select_contract_trials, _authorized_ledger).
LEMMA PreparationStep ==
  ASSUME TypeOK, Records, Conduct, NEW d \in Drivers,
         \/ EnsureResolvedPlan(d)
         \/ WritePlanFiles(d)
         \/ \E selected \in Selections : Select(d, selected)
         \/ CheckNext(d)
  PROVE  Records' /\ Conduct'
<1>1. /\ phase[d] \in Quiet /\ NoOpenAttempt
      /\ UNCHANGED <<attempts, captures, trace>>
  BY DEF Conduct, QuietHasNoOpen, Quiet, EnsureResolvedPlan, WritePlanFiles, Select, CheckNext,
         ledgerVars, diskVars
<1>2. Records' /\ Rollouts' = Rollouts /\ NoOpenAttempt'
  BY <1>1, RecordsUntouched DEF Rollouts, NoOpenAttempt, IsOpen
<1>3. CASE Quit(d)
  BY <1>1, <1>2, <1>3, QuitKeepsConduct DEF Quiet
<1>4. ASSUME NEW p \in {"planning", "planned"}, Goto(d, p) PROVE Conduct'
  BY <1>1, <1>2, <1>4, MoveKeepsConduct DEF Goto, Phases, Quiet, Busy
<1>5. ASSUME NEW selected \in Selections, Select(d, selected) PROVE Conduct'
  BY <1>1, <1>2, <1>5, MoveKeepsConduct DEF Select, Phases, Quiet, Busy
<1>6. ASSUME NEW t \in Trials, First(t, queue[d]), trace[t] = "none", Goto(d, "checked")
      PROVE  Conduct'
  <2>1. \A u \in Trials : First(u, queue[d]) => u = t
    BY <1>6, DriverAssumption DEF First, Trials
  <2> QED
    BY <1>1, <1>2, <1>6, <2>1, MoveKeepsConduct DEF Goto, Phases, Quiet, Busy
<1> QED
  BY <1>2, <1>3, <1>4, <1>5, <1>6 DEF EnsureResolvedPlan, WritePlanFiles, CheckNext

\* The start event opens the attempt before anything runs (execute_foundation).
LEMMA StartStep ==
  ASSUME TypeOK, Records, Conduct, NEW d \in Drivers, StartAttempt(d)
  PROVE  Records' /\ Conduct'
<1>1. phase[d] = "checked" /\ NoOpenAttempt /\ UNCHANGED <<captures, trace>>
  BY DEF StartAttempt, diskVars, Conduct, QuietHasNoOpen, Quiet
<1>2. CASE Quit(d) /\ UNCHANGED attempts
  BY <1>1, <1>2, QuitKeepsConduct, RecordsUntouched DEF Rollouts
<1>3. ASSUME NEW t \in Trials, First(t, queue[d]),
             attempts' = Append(attempts, [trial |-> t, status |-> "open", rollouts |-> 0]),
             phase' = [phase EXCEPT ![d] = "started"], UNCHANGED hardware
      PROVE  Records' /\ Conduct'
  <2>1. trace[t] = "none"
    BY <1>1, <1>3 DEF Conduct, CheckedIsNew
  <2>2. Records'
    BY <1>1, <1>3, <2>1, StartKeepsRecords
  <2>3. Rollouts' = {}
    BY <1>1, NoOpenMeansNoRollout DEF Rollouts
  <2>4. /\ attempts' # <<>>
        /\ IsOpen(Len(attempts))'
        /\ trace'[attempts'[Len(attempts')].trial] = "none"
    <3>1. /\ Len(attempts') = Len(attempts) + 1 /\ Len(attempts) \in Nat
          /\ attempts'[Len(attempts')].trial = t
          /\ attempts'[Len(attempts')].status = "open"
      BY <1>3 DEF TypeOK
    <3>2. attempts' # <<>>
      BY <3>1
    <3> QED
      BY <1>1, <2>1, <3>1, <3>2 DEF IsOpen
  <2>5. Conduct'
    BY <1>1, <1>3, <2>3, <2>4, MoveKeepsConduct DEF Phases, Quiet
  <2> QED
    BY <2>2, <2>5
<1> QED
  BY <1>2, <1>3 DEF StartAttempt

\* A capture that cannot be launched leaves its attempt to be closed (_run_trial).
LEMMA FailToLaunchStep ==
  ASSUME TypeOK, Records, Conduct, NEW d \in Drivers, FailToLaunch(d)
  PROVE  Records' /\ Conduct'
<1>1. phase[d] = "started" /\ Goto(d, "ended") /\ UNCHANGED <<attempts, captures, trace>>
  BY DEF FailToLaunch, ledgerVars, diskVars
<1>2. Records' /\ Rollouts' = {}
  BY <1>1, RecordsUntouched DEF Rollouts, Conduct, NoRolloutAround
<1>3. attempts' # <<>> /\ IsOpen(Len(attempts))'
  BY <1>1 DEF Conduct, BusyHasOpen, Busy, IsOpen
<1>4. Conduct'
  BY <1>1, <1>2, <1>3, MoveKeepsConduct DEF Goto, Phases, Quiet
<1> QED
  BY <1>2, <1>4

\* The attempt of a capture that exited is closed, or left open (execute_foundation).
LEMMA CloseStep ==
  ASSUME TypeOK, Records, Conduct, NEW d \in Drivers, Close(d)
  PROVE  Records' /\ Conduct'
<1> DEFINE n == Len(attempts)
<1>1. phase[d] = "ended" /\ UNCHANGED <<captures, trace>>
  BY DEF Close, diskVars
<1>2. Rollouts = {} /\ n \in DOMAIN attempts /\ IsOpen(n)
  BY <1>1 DEF Conduct, NoRolloutAround, BusyHasOpen, Busy, TypeOK
<1>3. \/ trace[attempts[n].trial] = "exact" /\ Terminate(n, "completed", 1) /\ Goto(d, "choosing")
      \/ (Terminate(n, "failed", 0) \/ Terminate(n, "failed", 1)) /\ Goto(d, "choosing")
      \/ Quit(d) /\ UNCHANGED attempts
  BY DEF Close
<1>4. CASE Quit(d) /\ UNCHANGED attempts
  BY <1>1, <1>4, QuitKeepsConduct, RecordsUntouched DEF Rollouts
<1> QED
  BY <1>1, <1>2, <1>3, <1>4, TerminateKeepsInvariant

-----------------------------------------------------------------------------
(* The theorems *)

\* The invariant is inductive: a lemma for each step of a driver or a capture.
LEMMA DriverInvariantStep == DriverInvariant /\ [Next]_vars => DriverInvariant'
<1> SUFFICES ASSUME TypeOK, Records, Conduct, [Next]_vars PROVE DriverInvariant'
  BY DEF DriverInvariant
<1>1. TypeOK'
  BY TypeStep DEF Conduct
<1>2. CASE UNCHANGED vars
  <2>1. Records'
    BY <1>2, RecordsUntouched DEF vars, ledgerVars, diskVars
  <2>2. Conduct'
    BY <1>2
    DEF vars, ledgerVars, diskVars, Conduct, HoldsHardware, QuietHasNoOpen, BusyHasOpen,
        NoRolloutAround, CheckedIsNew, StartedIsNew, CaptureIsOwned, NoOpenAttempt, IsOpen,
        First, Rollouts
  <2> QED
    BY <1>1, <2>1, <2>2 DEF DriverInvariant
<1>3. ASSUME NEW d \in Drivers, Begin(d) PROVE Records' /\ Conduct'
  BY <1>3, BeginKeepsConduct, RecordsUntouched DEF Begin, ledgerVars, diskVars
<1>4. ASSUME NEW d \in Drivers, Step(d) PROVE Records' /\ Conduct'
  BY <1>4, ReconcileStep, PreparationStep, StartStep, LaunchKeepsRecords, LaunchKeepsConduct,
     CloseStep DEF Step
<1>5. ASSUME NEW d \in Drivers, NEW selected \in Selections, Select(d, selected)
      PROVE  Records' /\ Conduct'
  BY <1>5, PreparationStep
<1>6. ASSUME NEW d \in Drivers, FailToLaunch(d) PROVE Records' /\ Conduct'
  BY <1>6, FailToLaunchStep
<1>7. ASSUME NEW d \in Drivers, Crash(d) PROVE Records' /\ Conduct'
  BY <1>7, CrashKeepsRecords, CrashKeepsConduct
<1>8. ASSUME NEW c \in captures, NEW found \in Traces, WriteEpisode(c, found)
      PROVE  Records' /\ Conduct'
  BY <1>8, WriteKeepsRecords, WriteKeepsConduct
<1>9. ASSUME NEW c \in captures, NEW end \in End, Exit(c, end) PROVE Records' /\ Conduct'
  BY <1>9, ExitKeepsRecords, ExitKeepsConduct
<1>10. CASE Next
  <2>1. Records' /\ Conduct'
    BY <1>3, <1>4, <1>5, <1>6, <1>7, <1>8, <1>9, <1>10 DEF Next
  <2> QED
    BY <1>1, <2>1 DEF DriverInvariant
<1> QED
  BY <1>2, <1>10

\* Whatever drivers and captures do and whenever drivers die, the records stay in
\* order and drivers can rely on what they rely on (execute_foundation).
THEOREM DriverInvariantHolds == Spec => []DriverInvariant
<1>1. Init => DriverInvariant
  BY InitTyped, InitRecords DEF DriverInvariant
<1> QED
  BY <1>1, DriverInvariantStep, PTL DEF Spec

\* The state of drivers, captures, ledger and disk keeps its types.
THEOREM DriverTypeCorrect == Spec => []TypeOK
<1>1. DriverInvariant => TypeOK
  BY DEF DriverInvariant
<1> QED
  BY <1>1, DriverInvariantHolds, PTL

\* Two rollouts never run at the same time, also when drivers die and their
\* captures go on without the flock (foundation_hardware_lock).
THEOREM OneRolloutHolds == Spec => []OneRollout
<1>1. ASSUME RolloutIsAlone PROVE OneRollout
  <2>1. CASE Rollouts = {}
    BY <2>1, FS_EmptySet DEF OneRollout
  <2>2. ASSUME NEW c \in Rollouts PROVE OneRollout
    <3>1. Rollouts = {c}
      BY <1>1, <2>2 DEF RolloutIsAlone
    <3> QED
      BY <3>1, FS_Singleton DEF OneRollout
  <2> QED
    BY <2>1, <2>2
<1>2. DriverInvariant => OneRollout
  BY <1>1 DEF DriverInvariant, Records
<1> QED
  BY <1>2, DriverInvariantHolds, PTL

\* A rollout that runs has an open attempt in the ledger, which holds its budget
\* (_attempt_budget_commitment).
THEOREM RolloutIsLedgeredHolds == Spec => []RolloutIsLedgered
<1>1. DriverInvariant => RolloutIsLedgered
  BY DEF DriverInvariant, Records, RolloutIsFresh, RolloutIsLedgered
<1> QED
  BY <1>1, DriverInvariantHolds, PTL

\* A trial is completed by one attempt, whose exact trace is still stored
\* (_append_completed_attempt).
THEOREM CompletedOnceHolds == Spec => []CompletedOnce
<1>1. DriverInvariant => CompletedOnce
  BY DEF DriverInvariant, Records
<1> QED
  BY <1>1, DriverInvariantHolds, PTL

\* No step writes over a stored trace (execute_foundation refuses existing output).
THEOREM TraceKeptHolds == Spec => TraceKept
<1> DEFINE Kept == \A t \in Trials : trace[t] # "none" => trace'[t] = trace[t]
<1>1. DriverInvariant /\ [Next]_vars => [Kept]_vars
  <2> SUFFICES ASSUME TypeOK, Records, Next PROVE Kept
    BY DEF DriverInvariant
  <2>1. ASSUME NEW c \in captures, NEW found \in Traces, WriteEpisode(c, found) PROVE Kept
    BY <2>1 DEF WriteEpisode, Records, RolloutIsFresh, TypeOK
  <2>2. CASE UNCHANGED trace
    BY <2>2
  <2> QED
    BY <2>1, <2>2
    DEF Next, Step, Begin, Reconcile, EnsureResolvedPlan, WritePlanFiles, Select, CheckNext,
        StartAttempt, Launch, FailToLaunch, Close, Crash, Exit, diskVars
<1> QED
  BY <1>1, DriverInvariantHolds, PTL DEF Spec, TraceKept

=============================================================================
