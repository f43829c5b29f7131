--------------------------- MODULE FoundationDriver ---------------------------
(***************************************************************************)
(* The processes that run the trials of the FOUNDATION child               *)
(* (rq024_foundation_execution.py): a driver takes the hardware flock,     *)
(* reconciles an attempt that an earlier driver left open, and runs the    *)
(* remaining trials one by one, each between a start event and a terminal  *)
(* event of the campaign ledger.  A capture is a subprocess: it goes on    *)
(* when its driver dies, although the flock is free then.                  *)
(*                                                                         *)
(* The campaign is authorized throughout, and only drivers append attempt  *)
(* events of the reservation.  An attempt is identified by its position    *)
(* among them.  Of the budget only max_full_rollouts is counted; use of    *)
(* the other fields is within the request or over it.                      *)
(***************************************************************************)
EXTENDS Naturals, FiniteSets, Sequences

CONSTANTS
    Drivers,           \* driver processes
    NumTrials,         \* trials of the plan, numbered in manifest order
    RolloutCap,        \* max_full_rollouts of the reservation
    MaxCrashes,        \* bound: drivers that die
    MaxLaunchFailures, \* bound: captures that cannot be launched
    None

ASSUME DriverAssumption ==
    /\ NumTrials \in Nat
    /\ RolloutCap \in Nat
    /\ MaxCrashes \in Nat
    /\ MaxLaunchFailures \in Nat
    /\ None \notin Drivers

VARIABLES
    hardware,  \* the driver that holds the flock, or None
    phase,     \* where each driver is
    queue,     \* the selected trials a driver has not dealt with yet
    ended,     \* how the last capture of each driver ended
    attempts,  \* the attempts in the ledger, oldest first
    captures,  \* running capture processes
    trace,     \* what is stored under the expected trace id of each trial
    plan,      \* the resolved-plan files
    crashes    \* drivers that died so far

ledgerVars == <<attempts, crashes>>
diskVars == <<trace, plan>>
vars == <<hardware, phase, queue, ended, ledgerVars, captures, diskVars>>

Trials == 1..NumTrials
Phases == {"idle", "holding", "reconciled", "planning", "planned", "choosing",
           "checked", "started", "running", "ended"}

\* A trace that _expected_trace_exists does not see is "none".  One it sees may
\* fail validate_exact_trace_output ("inexact"), or show more use than requested.
Traces == {"none", "inexact", "exact", "over"}
Attempt == [trial : Trials, status : {"open", "completed", "failed"}, rollouts : 0..1]
Capture == [attempt : Nat, driver : Drivers \cup {None}, published : BOOLEAN]

\* Exit status of a capture and the use its output reports, if any.
End == [ok : BOOLEAN, measured : {"no", "within", "over", "zero"}]

TypeOK ==
    /\ hardware \in Drivers \cup {None}
    /\ phase \in [Drivers -> Phases]
    /\ queue \in [Drivers -> SUBSET Trials]
    /\ ended \in [Drivers -> End]
    /\ attempts \in Seq(Attempt)
    /\ captures \in SUBSET Capture
    /\ trace \in [Trials -> Traces]
    /\ plan \in {"none", "partial", "complete"}
    /\ crashes \in 0..MaxCrashes

-----------------------------------------------------------------------------
(* The ledger and the disk as a driver sees them *)

IsOpen(n) == attempts[n].status = "open"
NoOpenAttempt == \A n \in DOMAIN attempts : ~IsOpen(n)
Completed == {attempts[n].trial : n \in {m \in DOMAIN attempts : attempts[m].status = "completed"}}

\* Fault: completed trials are selected again.
RemainingUnfiltered == Trials

\* The trials without a completed attempt.
Remaining == Trials \ Completed

\* Trials run in manifest order.
First(t, trials) == t \in trials /\ \A u \in trials : t <= u

\* An open attempt commits the one rollout it requested.
Commitment ==
    Cardinality({n \in DOMAIN attempts : IsOpen(n) \/ attempts[n].rollouts = 1})
RolloutLeft == Commitment + 1 <= RolloutCap

\* Captures whose episode is not written yet.
Rollouts == {c \in captures : ~c.published}

Terminate(n, status, rollouts) ==
    attempts' = [attempts EXCEPT ![n] = [@ EXCEPT !.status = status, !.rollouts = rollouts]]

\* The driver raises: the flock is dropped.
Quit(d) ==
    /\ hardware' = None
    /\ phase' = [phase EXCEPT ![d] = "idle"]
    /\ queue' = [queue EXCEPT ![d] = {}]

NotEnded == [ok |-> FALSE, measured |-> "no"]

Goto(d, p) ==
    /\ phase' = [phase EXCEPT ![d] = p]
    /\ UNCHANGED <<hardware, queue>>

-----------------------------------------------------------------------------
(* Steps of a driver *)

Init ==
    /\ hardware = None
    /\ phase = [d \in Drivers |-> "idle"]
    /\ queue = [d \in Drivers |-> {}]
    /\ ended = [d \in Drivers |-> NotEnded]
    /\ attempts = <<>>
    /\ captures = {}
    /\ trace = [t \in Trials |-> "none"]
    /\ plan = "none"
    /\ crashes = 0

\* Fault: the flock does not exclude another driver.
BeginShared(d) ==
    /\ phase[d] = "idle"
    /\ hardware' = d
    /\ phase' = [phase EXCEPT ![d] = "holding"]
    /\ UNCHANGED <<queue, ended, ledgerVars, captures, diskVars>>

\* A driver that finds the flock held gives up at once.
Begin(d) ==
    /\ phase[d] = "idle"
    /\ hardware = None
    /\ hardware' = d
    /\ phase' = [phase EXCEPT ![d] = "holding"]
    /\ UNCHANGED <<queue, ended, ledgerVars, captures, diskVars>>

\* Fault: an attempt left open without an exact trace is closed as failed.
ReconcileAsFailed(d) ==
    /\ phase[d] = "holding"
    /\ \/ NoOpenAttempt /\ Goto(d, "reconciled") /\ UNCHANGED attempts
       \/ \E n \in DOMAIN attempts :
             /\ IsOpen(n)
             /\ IF trace[attempts[n].trial] = "exact"
                THEN Terminate(n, "completed", 1)
                ELSE Terminate(n, "failed", 1)
             /\ Goto(d, "reconciled")
    /\ UNCHANGED <<ended, crashes, captures, diskVars>>

\* An attempt left open is completed from its exact trace; without one, or when
\* the ledger refuses what it used, the driver gives up.
Reconcile(d) ==
    /\ phase[d] = "holding"
    /\ \/ NoOpenAttempt /\ Goto(d, "reconciled") /\ UNCHANGED attempts
       \/ \E n \in DOMAIN attempts :
             /\ IsOpen(n)
             /\ IF trace[attempts[n].trial] = "exact"
                THEN Terminate(n, "completed", 1) /\ Goto(d, "reconciled")
                ELSE Quit(d) /\ UNCHANGED attempts
    /\ UNCHANGED <<ended, crashes, captures, diskVars>>

\* The resolved-plan files are written once, one after the other.
EnsureResolvedPlan(d) ==
    /\ phase[d] = "reconciled"
    /\ \/ plan = "none" /\ plan' = "partial" /\ Goto(d, "planning")
       \/ plan = "complete" /\ Goto(d, "planned") /\ UNCHANGED plan
       \/ plan = "partial" /\ Quit(d) /\ UNCHANGED plan
    /\ UNCHANGED <<ended, ledgerVars, captures, trace>>

WritePlanFiles(d) ==
    /\ phase[d] = "planning"
    /\ plan' = "complete"
    /\ Goto(d, "planned")
    /\ UNCHANGED <<ended, ledgerVars, captures, trace>>

\* --trial-id selects one remaining trial, --max-trials the first few.
Selections == {{t \in Remaining : t <= n} : n \in 0..NumTrials} \cup {{t} : t \in Remaining}

Select(d, selected) ==
    /\ phase[d] = "planned"
    /\ phase' = [phase EXCEPT ![d] = "choosing"]
    /\ queue' = [queue EXCEPT ![d] = selected]
    /\ UNCHANGED <<hardware, ended, ledgerVars, captures, diskVars>>

\* Fault: output without an attempt in the ledger does not stop a driver.
CheckNextOverOutput(d) ==
    /\ phase[d] = "choosing"
    /\ IF queue[d] = {} \/ ~NoOpenAttempt THEN Quit(d) ELSE Goto(d, "checked")
    /\ UNCHANGED <<ended, ledgerVars, captures, diskVars>>

\* The next trial: the ledger holds no open attempt and the disk no output of it.
CheckNext(d) ==
    /\ phase[d] = "choosing"
    /\ \/ queue[d] = {} /\ Quit(d)
       \/ \E t \in Trials :
             /\ First(t, queue[d])
             /\ IF NoOpenAttempt /\ trace[t] = "none" THEN Goto(d, "checked") ELSE Quit(d)
    /\ UNCHANGED <<ended, ledgerVars, captures, diskVars>>

\* The ledger accepts a start event when the trial has no open attempt and the
\* reservation a rollout left.
StartAttempt(d) ==
    /\ phase[d] = "checked"
    /\ \E t \in Trials :
          /\ First(t, queue[d])
          /\ IF RolloutLeft /\ \A n \in DOMAIN attempts : attempts[n].trial = t => ~IsOpen(n)
             THEN /\ attempts' = Append(attempts, [trial |-> t, status |-> "open", rollouts |-> 0])
                  /\ queue' = [queue EXCEPT ![d] = @ \ {t}]
                  /\ phase' = [phase EXCEPT ![d] = "started"]
                  /\ UNCHANGED hardware
             ELSE Quit(d) /\ UNCHANGED attempts
    /\ UNCHANGED <<ended, crashes, captures, diskVars>>

Launch(d) ==
    /\ phase[d] = "started"
    /\ captures' = captures \cup
          {[attempt |-> Len(attempts), driver |-> d, published |-> FALSE]}
    /\ Goto(d, "running")
    /\ UNCHANGED <<ended, ledgerVars, diskVars>>

\* The subprocess cannot be launched and has used nothing.
FailToLaunch(d) ==
    /\ phase[d] = "started"
    /\ Cardinality({n \in DOMAIN attempts :
          attempts[n].status = "failed" /\ attempts[n].rollouts = 0}) < MaxLaunchFailures
    /\ ended' = [ended EXCEPT ![d] = [ok |-> FALSE, measured |-> "zero"]]
    /\ Goto(d, "ended")
    /\ UNCHANGED <<ledgerVars, captures, diskVars>>

\* Fault: a capture that exits without an error completes its attempt.
CloseUnvalidated(d) ==
    /\ phase[d] = "ended"
    /\ LET n == Len(attempts)
       IN IF ended[d].ok
          THEN Terminate(n, "completed", 1) /\ Goto(d, "choosing")
          ELSE IF ended[d].measured \in {"within", "zero"}
          THEN /\ Terminate(n, "failed", IF ended[d].measured = "zero" THEN 0 ELSE 1)
               /\ Goto(d, "choosing")
          ELSE Quit(d) /\ UNCHANGED attempts
    /\ ended' = [ended EXCEPT ![d] = NotEnded]
    /\ UNCHANGED <<crashes, captures, diskVars>>

\* The capture exited: its attempt is completed with an exact trace, or failed
\* with the use that was measured.  Without a measurement, or when the ledger
\* refuses what was used, the driver gives up and the attempt stays open.
Close(d) ==
    /\ phase[d] = "ended"
    /\ LET n == Len(attempts)
           found == trace[attempts[n].trial]
           exact == ended[d].ok /\ found \in {"exact", "over"}
       IN IF exact /\ found = "exact"
          THEN Terminate(n, "completed", 1) /\ Goto(d, "choosing")
          ELSE IF ~exact /\ ended[d].measured \in {"within", "zero"}
          THEN /\ Terminate(n, "failed", IF ended[d].measured = "zero" THEN 0 ELSE 1)
               /\ Goto(d, "choosing")
          ELSE Quit(d) /\ UNCHANGED attempts
    /\ ended' = [ended EXCEPT ![d] = NotEnded]
    /\ UNCHANGED <<crashes, captures, diskVars>>

\* A driver dies: the kernel drops its flock, its capture goes on.
Crash(d) ==
    /\ phase[d] # "idle"
    /\ crashes < MaxCrashes
    /\ crashes' = crashes + 1
    /\ Quit(d)
    /\ captures' = {IF c.driver = d THEN [c EXCEPT !.driver = None] ELSE c : c \in captures}
    /\ ended' = [ended EXCEPT ![d] = NotEnded]
    /\ UNCHANGED <<attempts, diskVars>>

-----------------------------------------------------------------------------
(* Steps of a capture *)

\* The capture stores its episode; "none" is one that _expected_trace_exists misses.
WriteEpisode(c, found) ==
    /\ c \in Rollouts
    /\ trace' = [trace EXCEPT ![attempts[c.attempt].trial] = found]
    /\ captures' = (captures \ {c}) \cup {[c EXCEPT !.published = TRUE]}
    /\ UNCHANGED <<hardware, phase, queue, ended, ledgerVars, plan>>

\* The capture exits, and its driver learns how.  It prints what it used between
\* storing the episode and returning.
Exit(c, end) ==
    /\ c \in captures
    /\ ~c.published => ~end.ok /\ end.measured = "no"
    /\ end.ok => end.measured # "no"
    /\ captures' = captures \ {c}
    /\ IF c.driver = None
       THEN UNCHANGED <<phase, ended>>
       ELSE /\ phase' = [phase EXCEPT ![c.driver] = "ended"]
            /\ ended' = [ended EXCEPT ![c.driver] = end]
    /\ UNCHANGED <<hardware, queue, ledgerVars, diskVars>>

Step(d) ==
    \/ Reconcile(d)
    \/ EnsureResolvedPlan(d)
    \/ WritePlanFiles(d)
    \/ CheckNext(d)
    \/ StartAttempt(d)
    \/ Launch(d)
    \/ Close(d)

Next ==
    \/ \E d \in Drivers :
          \/ Begin(d)
          \/ Step(d)
          \/ \E selected \in Selections : Select(d, selected)
          \/ FailToLaunch(d)
          \/ Crash(d)
    \/ \E c \in captures :
          \/ \E found \in Traces : WriteEpisode(c, found)
          \/ \E end \in End \ [ok : BOOLEAN, measured : {"zero"}] : Exit(c, end)

Spec == Init /\ [][Next]_vars

\* Drivers are started again and again, now and then for all that remains; a
\* running process goes on, and a capture exits.
Fairness ==
    /\ WF_vars(\E d \in Drivers : Begin(d))
    /\ SF_vars(\E d \in Drivers : Select(d, Remaining))
    /\ \A d \in Drivers : WF_vars(Step(d)) /\ WF_vars(\E selected \in Selections : Select(d, selected))
    /\ WF_vars(\E c \in captures : \E end \in End : Exit(c, end))

FairSpec == Spec /\ Fairness

-----------------------------------------------------------------------------
(* Properties *)

\* Drivers that come, die and come back never have two rollouts running, although
\* the capture of a dead driver goes on without the flock.
OneRollout == Cardinality(Rollouts) <= 1

\* The ledger holds an open attempt for every rollout that is running: none is
\* closed, and the budget it holds given back, before the episode is stored.
RolloutIsLedgered == \A c \in Rollouts : IsOpen(c.attempt)

\* A trial is completed once, by an exact trace that is still the stored one.
CompletedOnce ==
    \A n \in DOMAIN attempts : attempts[n].status = "completed" =>
        /\ trace[attempts[n].trial] = "exact"
        /\ \A m \in DOMAIN attempts :
              attempts[m].trial = attempts[n].trial /\ attempts[m].status = "completed" => m = n

\* A stored trace is never written again by a later attempt or a leftover capture.
TraceKept == [][\A t \in Trials : trace[t] # "none" => trace'[t] = trace[t]]_vars

\* What needs a human: plan files half written, an attempt nobody can close, a
\* trace that no attempt accounts for, or no budget left for a retry.
PlanTorn == plan = "partial" /\ \A d \in Drivers : phase[d] # "planning"
Unclosable ==
    /\ captures = {}
    /\ \E n \in DOMAIN attempts : IsOpen(n) /\ trace[attempts[n].trial] # "exact"
Unledgered ==
    \E t \in Trials \ Completed :
        /\ trace[t] # "none"
        /\ \A n \in DOMAIN attempts : attempts[n].trial = t => ~IsOpen(n)
Spent == ~RolloutLeft /\ NoOpenAttempt /\ Completed # Trials

\* The driver completes the plan unless one of these stops it for good: whatever
\* else happens to drivers and captures is made up for by starting a driver again.
CompletesUnlessStuck ==
    <>[](Completed = Trials \/ PlanTorn \/ Unclosable \/ Unledgered \/ Spent)

=============================================================================
