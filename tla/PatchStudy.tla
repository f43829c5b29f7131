----------------------------- MODULE PatchStudy -----------------------------
(* The counterfactual patch study: vla_lens/interventions/patch_study_store   *)
(* keeps the results of a planned list of trials in files that are replaced   *)
(* one at a time, vla_lens/pi05/patch_study_runner runs the trials that are   *)
(* pending.  A run of the runner may die between any two of its writes, and a *)
(* later run resumes from the files.                                          *)
EXTENDS Naturals, Sequences, SequencesExt

CONSTANTS
  Pairs,        \* the plan: for each counterfactual pair its sequence of trials
  Values,       \* what a trial can measure; a rerun need not repeat it
  None,         \* no such file
  Blank,        \* an array that exists and whose data was never written
  MaxCrashes    \* bound: how often a run dies

Trials == UNION {ToSet(Pairs[i]) : i \in DOMAIN Pairs}

ASSUME PatchAssumption ==
  /\ Pairs \in Seq(Seq(Trials))
  /\ None \notin Values \cup Trials \cup {Blank} /\ Blank \notin Values
  /\ MaxCrashes \in Nat

VARIABLES
  \* files
  actions,      \* actions.zarr: the array of each trial
  runs,         \* runs/: the actions whose hash the result of a trial holds
  failures,     \* failures/: the trials with a failure record
  progress,     \* state.json
  artifact,     \* artifact.json
  \* the runner
  pc,
  flags,        \* --retry-failed, --fail-fast
  pair,         \* position in the pairs
  pending,      \* the trials of the pair this run found pending
  left,         \* those of them not dealt with
  trial,        \* the first of those in the order of the plan
  got,          \* what the current trial measured
  aborted,      \* the exception of the pair is being handled
  crashes

files == <<actions, runs, failures, progress, artifact>>
runner == <<pc, flags, pair, pending, left, trial, got, aborted>>
vars == <<files, runner, crashes>>

Steps == {"off", "pair", "gate", "run", "data", "result", "unlink", "complete",
          "index", "fail", "mark", "ended", "raised", "artifact"}

NotStarted == [completed |-> {}, failed |-> {}, status |-> "planned"]

\* A process that ends or dies leaves nothing but the files.
Idle == [flags |-> [retry |-> FALSE, failFast |-> FALSE], pair |-> 1,
         pending |-> {}, left |-> {}, trial |-> None, got |-> None, aborted |-> FALSE]
ProcessEnds ==
  /\ pc' = "off"
  /\ flags' = Idle.flags /\ pair' = Idle.pair
  /\ pending' = Idle.pending /\ left' = Idle.left /\ trial' = Idle.trial
  /\ got' = Idle.got /\ aborted' = Idle.aborted

Init ==
  /\ actions = [t \in Trials |-> None]
  /\ runs = [t \in Trials |-> None]
  /\ failures = {}
  /\ progress = NotStarted
  /\ artifact = None
  /\ pc = "off"
  /\ flags = Idle.flags /\ pair = Idle.pair
  /\ pending = Idle.pending /\ left = Idle.left /\ trial = Idle.trial
  /\ got = Idle.got /\ aborted = Idle.aborted
  /\ crashes = 0

\* Fault: a failed trial is never pending.
IsPendingOnce(t) == t \notin progress.completed \cup progress.failed

IsPending(t) ==
  t \notin progress.completed /\ (flags.retry \/ t \notin progress.failed)

\* t comes first among the trials of S in the plan of the pair.
IsFirst(t, S) ==
  \E k \in DOMAIN Pairs[pair] :
    /\ Pairs[pair][k] = t /\ t \in S
    /\ \A j \in 1 .. k - 1 : Pairs[pair][j] \notin S

\* The loops over trials: go on with the first of S, or leave the loop.
LoopOver(S, step, done) ==
  /\ left' = S
  /\ \/ S = {} /\ trial' = None /\ pc' = done
     \/ \E t \in S : IsFirst(t, S) /\ trial' = t /\ pc' = step

(****************************************************************************)
(* The runner                                                               *)
(****************************************************************************)
Start(retry, failFast) ==
  /\ pc = "off"
  /\ flags' = [retry |-> retry, failFast |-> failFast]
  /\ pc' = "pair"
  /\ UNCHANGED <<files, pair, pending, left, trial, got, aborted, crashes>>

\* What is pending is read once per pair, from state.json.
BeginPair ==
  /\ pc = "pair" /\ pair <= Len(Pairs)
  /\ pending' = {t \in ToSet(Pairs[pair]) : IsPending(t)}
  /\ aborted' = FALSE
  /\ IF pending' = {} THEN pair' = pair + 1 /\ pc' = "pair"
                      ELSE pair' = pair /\ pc' = "gate"
  /\ UNCHANGED <<files, flags, left, trial, got, crashes>>

\* Executor, no-op replays, gate and donor cache.
GatePasses ==
  /\ pc = "gate"
  /\ LoopOver(pending, "run", "ended")
  /\ UNCHANGED <<files, flags, pair, pending, got, aborted, crashes>>

\* Fault: the exception handler of the pair records nothing.
AbortSilently ==
  /\ aborted' = TRUE
  /\ LoopOver({}, "fail", "raised")

\* The exception handler of the pair records a failure for every pending trial
\* that is not completed.
Abort ==
  /\ aborted' = TRUE
  /\ LoopOver(pending \ progress.completed, "fail", "raised")

GateFails ==
  /\ pc = "gate"
  /\ Abort
  /\ UNCHANGED <<files, flags, pair, pending, got, crashes>>

\* Fault: an array that is there is written over.
MeasureOverwrites(v) ==
  /\ pc = "run"
  /\ got' = v
  /\ actions' = [actions EXCEPT ![trial] = Blank]
  /\ pc' = "data"
  /\ UNCHANGED <<runs, failures, progress, artifact, flags, pair, pending, left,
                 trial, aborted, crashes>>

\* The trial runs and its actions are saved: a new array is created and then
\* filled, an array that is there must hold the same values.
Measure(v) ==
  /\ pc = "run"
  /\ got' = v
  /\ \/ /\ actions[trial] = None
        /\ actions' = [actions EXCEPT ![trial] = Blank]
        /\ pc' = "data"
     \/ /\ actions[trial] = v
        /\ pc' = "result"
        /\ UNCHANGED actions
     \/ /\ actions[trial] \notin {None, v}
        /\ pc' = "fail"
        /\ UNCHANGED actions
  /\ UNCHANGED <<runs, failures, progress, artifact, flags, pair, pending, left,
                 trial, aborted, crashes>>

TrialRaises ==
  /\ pc = "run"
  /\ pc' = "fail"
  /\ UNCHANGED <<files, flags, pair, pending, left, trial, got, aborted, crashes>>

FillArray ==
  /\ pc = "data"
  /\ actions' = [actions EXCEPT ![trial] = got]
  /\ pc' = "result"
  /\ UNCHANGED <<runs, failures, progress, artifact, flags, pair, pending, left,
                 trial, got, aborted, crashes>>

WriteResult ==
  /\ pc = "result"
  /\ runs' = [runs EXCEPT ![trial] = got]
  /\ pc' = "unlink"
  /\ UNCHANGED <<actions, failures, progress, artifact, flags, pair, pending,
                 left, trial, got, aborted, crashes>>

DropFailure ==
  /\ pc = "unlink"
  /\ failures' = failures \ {trial}
  /\ pc' = "complete"
  /\ UNCHANGED <<actions, runs, progress, artifact, flags, pair, pending, left,
                 trial, got, aborted, crashes>>

MarkCompleted ==
  /\ pc = "complete"
  /\ progress' = [completed |-> progress.completed \cup {trial},
                  failed |-> progress.failed \ {trial}, status |-> "running"]
  /\ pc' = "index"
  /\ UNCHANGED <<actions, runs, failures, artifact, flags, pair, pending, left,
                 trial, got, aborted, crashes>>

\* save_intervention_run adds the run to the indexes of the dataset.
Index ==
  /\ pc = "index"
  /\ LoopOver(left \ {trial}, "run", "ended")
  /\ UNCHANGED <<files, flags, pair, pending, got, aborted, crashes>>

\* When it raises, the completed trial gets a failure record.
IndexRaises ==
  /\ pc = "index"
  /\ pc' = "fail"
  /\ UNCHANGED <<files, flags, pair, pending, left, trial, got, aborted, crashes>>

WriteFailure ==
  /\ pc = "fail"
  /\ failures' = failures \cup {trial}
  /\ pc' = "mark"
  /\ UNCHANGED <<actions, runs, progress, artifact, flags, pair, pending, left,
                 trial, got, aborted, crashes>>

\* Fault: a failure takes a trial off the completed ones.
SaveFailedOnly ==
  progress' = [completed |-> progress.completed \ {trial},
               failed |-> progress.failed \cup {trial}, status |-> "partial"]

SaveFailed ==
  progress' = [progress EXCEPT !.failed = @ \cup {trial}, !.status = "partial"]

\* With --fail-fast the failure of a trial is raised again, to the handler of
\* the pair, which reads the completed trials from state.json.
MarkFailed ==
  /\ pc = "mark"
  /\ SaveFailed
  /\ IF flags.failFast /\ ~aborted
       THEN Abort
       ELSE /\ IF aborted THEN LoopOver(left \ {trial}, "fail", "raised")
                          ELSE LoopOver(left \ {trial}, "run", "ended")
            /\ UNCHANGED aborted
  /\ UNCHANGED <<actions, runs, failures, artifact, flags, pair, pending, got, crashes>>

EndPair ==
  /\ pc = "ended" \/ (pc = "raised" /\ ~flags.failFast)
  /\ pair' = pair + 1
  /\ pc' = "pair"
  /\ UNCHANGED <<files, flags, pending, left, trial, got, aborted, crashes>>

\* --fail-fast leaves run_patch_study_job by the exception, without finalize.
FailFast ==
  /\ pc = "raised" /\ flags.failFast
  /\ ProcessEnds
  /\ UNCHANGED <<files, crashes>>

Finalize ==
  /\ pc = "pair" /\ pair > Len(Pairs)
  /\ progress' = [progress EXCEPT !.status =
                    IF progress.completed = Trials /\ failures = {}
                      THEN "completed" ELSE "partial"]
  /\ pc' = "artifact"
  /\ UNCHANGED <<actions, runs, failures, artifact, flags, pair, pending, left,
                 trial, got, aborted, crashes>>

WriteArtifact ==
  /\ pc = "artifact"
  /\ artifact' = [runs |-> {t \in Trials : runs[t] # None},
                  failures |-> failures, status |-> progress.status]
  /\ ProcessEnds
  /\ UNCHANGED <<actions, runs, failures, progress, crashes>>

Crash ==
  /\ pc # "off" /\ crashes < MaxCrashes
  /\ crashes' = crashes + 1
  /\ ProcessEnds
  /\ UNCHANGED files

Next ==
  \/ \E retry, failFast \in BOOLEAN : Start(retry, failFast)
  \/ BeginPair \/ GatePasses \/ GateFails
  \/ \E v \in Values : Measure(v)
  \/ TrialRaises \/ FillArray \/ WriteResult \/ DropFailure \/ MarkCompleted
  \/ Index \/ IndexRaises \/ WriteFailure \/ MarkFailed
  \/ EndPair \/ FailFast \/ Finalize \/ WriteArtifact
  \/ Crash

Spec == Init /\ [][Next]_vars

\* A run keeps going.  That the study is run again, to retry and without
\* --fail-fast, that a gate does not fail for ever, a trial does not raise or
\* measure something else for ever and the indexes do not refuse for ever is
\* what the operator and the hardware owe.
Accepted == \E v \in Values : Measure(v) /\ pc' # "fail"
Fairness ==
  /\ SF_vars(Start(TRUE, FALSE))
  /\ WF_vars(BeginPair) /\ SF_vars(GatePasses) /\ SF_vars(Accepted)
  /\ WF_vars(FillArray) /\ WF_vars(WriteResult) /\ WF_vars(DropFailure)
  /\ WF_vars(MarkCompleted) /\ SF_vars(Index)
  /\ WF_vars(WriteFailure) /\ WF_vars(MarkFailed)
  /\ WF_vars(EndPair) /\ WF_vars(FailFast) /\ WF_vars(Finalize) /\ WF_vars(WriteArtifact)

FairSpec == Spec /\ Fairness

-----------------------------------------------------------------------------
(* Properties                                                                *)

\* Every variable has the type its comment says.
TypeOK ==
  /\ actions \in [Trials -> Values \cup {None, Blank}]
  /\ runs \in [Trials -> Values \cup {None}]
  /\ failures \subseteq Trials
  /\ progress \in [completed : SUBSET Trials, failed : SUBSET Trials,
                   status : {"planned", "running", "partial", "completed"}]
  /\ artifact \in {None} \cup
       [runs : SUBSET Trials, failures : SUBSET Trials, status : {"partial", "completed"}]
  /\ pc \in Steps
  /\ flags \in [retry : BOOLEAN, failFast : BOOLEAN]
  /\ pair \in 1..Len(Pairs) + 1
  /\ pc \notin {"off", "pair", "artifact"} => pair <= Len(Pairs)
  /\ pending \subseteq Trials /\ left \subseteq Trials
  /\ trial \in Trials \cup {None}
  /\ got \in Values \cup {None}
  /\ aborted \in BOOLEAN
  /\ crashes \in 0..MaxCrashes

\* A completed trial has its result, and the hash a result holds is the hash of
\* the array under actions.zarr, also after reruns that measured something else
\* and after runs that died between the writes.
ResultsMatchActions ==
  /\ \A t \in progress.completed : runs[t] # None
  /\ \A t \in Trials : runs[t] # None => actions[t] = runs[t]

\* The permanent artifact leaves no trial of the plan out, whatever run wrote it
\* and wherever earlier runs died; it says completed only when every trial has a
\* result and none a failure.
ArtifactAccountsForPlan ==
  artifact # None =>
    /\ artifact.runs \cup artifact.failures = Trials
    /\ artifact.status = "completed" =>
         artifact.runs = Trials /\ artifact.failures = {}

\* A result, once written, is never replaced by another one or lost, and a
\* completed trial stays completed: neither a failure nor a later run undoes it.
ResultsStick ==
  [][/\ \A t \in Trials : runs[t] # None => runs'[t] = runs[t]
     /\ progress.completed \subseteq progress'.completed]_vars

\* What no later run gets past: a completed trial with a failure record is not
\* pending, so the record stays; an array without data is unlike every result.
Stuck ==
  \/ progress.completed \cap failures # {}
  \/ pc # "data" /\ \E t \in Trials : actions[t] = Blank

\* A study that is retried completes, unless one of those two conditions has
\* arisen: crashes, gates that failed, --fail-fast and trials that raised leave
\* nothing else behind that a retry cannot repair.
CompletesUnlessStuck == <>(progress.status = "completed" \/ Stuck)
=============================================================================
