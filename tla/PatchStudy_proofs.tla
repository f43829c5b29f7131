-------------------------- MODULE PatchStudy_proofs --------------------------
(* For every plan, every set of values and every number of crashes: results   *)
(* match the arrays they were computed from, and are never replaced.          *)
EXTENDS PatchStudy, TLAPS

\* The steps that deal with one trial.
AtTrial == {"run", "data", "result", "unlink", "complete", "index", "fail", "mark"}

\* What the runner has written of the current trial when it gets to a step.
TrialInHand ==
  /\ pc \in AtTrial => trial \in Trials
  /\ pc = "data" => actions[trial] = Blank
  /\ pc = "result" => actions[trial] = got
  /\ pc \in {"data", "result"} => got \in Values
  /\ pc \in {"unlink", "complete"} => runs[trial] # None
  /\ pc = "artifact" => progress.status \in {"partial", "completed"}

IInv == TypeOK /\ ResultsMatchActions /\ TrialInHand

LEMMA Distinct == None \notin Values /\ None \notin Trials /\ None # Blank /\ Blank \notin Values
  BY PatchAssumption

LEMMA Plan == Len(Pairs) \in Nat /\ DOMAIN Pairs = 1 .. Len(Pairs)
  BY PatchAssumption

LEMMA PairTrials ==
  ASSUME pair \in 1 .. Len(Pairs)
  PROVE  ToSet(Pairs[pair]) \subseteq Trials
  BY Plan DEF Trials

\* Entering a loop over trials, or going on with it.
LEMMA LoopType ==
  ASSUME NEW S \in SUBSET Trials, NEW step, NEW done, LoopOver(S, step, done)
  PROVE  /\ left' \subseteq Trials
         /\ trial' \in Trials \cup {None}
         /\ pc' = done \/ (pc' = step /\ trial' \in Trials)
  BY DEF LoopOver

LEMMA EndsType ==
  ASSUME ProcessEnds
  PROVE  /\ pc' = "off" /\ flags' \in [retry : BOOLEAN, failFast : BOOLEAN]
         /\ pair' = 1 /\ pending' = {} /\ left' = {} /\ trial' = None /\ got' = None
         /\ aborted' = FALSE
  BY DEF ProcessEnds, Idle

LEMMA InitInv == Init => IInv
  BY Plan, Distinct, PatchAssumption
  DEF Init, IInv, TypeOK, ResultsMatchActions, TrialInHand, AtTrial, NotStarted, Idle, Steps

\* Every step keeps the types of the files.
FilesOK ==
  /\ actions \in [Trials -> Values \cup {None, Blank}]
  /\ runs \in [Trials -> Values \cup {None}]
  /\ failures \subseteq Trials
  /\ progress \in [completed : SUBSET Trials, failed : SUBSET Trials,
                   status : {"planned", "running", "partial", "completed"}]
  /\ artifact \in {None} \cup
       [runs : SUBSET Trials, failures : SUBSET Trials, status : {"partial", "completed"}]

LEMMA NextFiles ==
  ASSUME IInv, [Next]_vars
  PROVE  FilesOK'
<1>f. FilesOK /\ TrialInHand
  BY DEF IInv, TypeOK, FilesOK
<1> USE DEF FilesOK
<1>0. ASSUME UNCHANGED files PROVE FilesOK'
  BY <1>0, <1>f DEF files
<1>1. ASSUME UNCHANGED vars \/ (\E retry, failFast \in BOOLEAN : Start(retry, failFast))
             \/ BeginPair \/ GatePasses \/ GateFails \/ TrialRaises \/ Index \/ IndexRaises
             \/ EndPair \/ FailFast \/ Crash
      PROVE  FilesOK'
  BY <1>0, <1>1 DEF vars, Start, BeginPair, GatePasses, GateFails, TrialRaises, Index,
     IndexRaises, EndPair, FailFast, Crash
<1>2. ASSUME NEW v \in Values, Measure(v) PROVE FilesOK'
  <2>1. UNCHANGED <<runs, failures, progress, artifact>>
    BY <1>2 DEF Measure
  <2>2. actions' \in [Trials -> Values \cup {None, Blank}]
    BY <1>2, <1>f DEF Measure
  <2> QED BY <2>1, <2>2, <1>f
<1>3. CASE FillArray
  BY <1>3, <1>f DEF FillArray, TrialInHand
<1>4. CASE WriteResult
  BY <1>4, <1>f DEF WriteResult, TrialInHand
<1>5. CASE DropFailure
  BY <1>5, <1>f DEF DropFailure
<1>6. CASE MarkCompleted
  BY <1>6, <1>f DEF MarkCompleted, TrialInHand, AtTrial
<1>7. CASE WriteFailure
  BY <1>7, <1>f DEF WriteFailure, TrialInHand, AtTrial
<1>8. CASE MarkFailed
  BY <1>8, <1>f DEF MarkFailed, SaveFailed, TrialInHand, AtTrial
<1>9. CASE Finalize
  <2>1. \E st \in {"partial", "completed"} : progress' = [progress EXCEPT !.status = st]
    BY <1>9 DEF Finalize
  <2> QED BY <1>9, <1>f, <2>1 DEF Finalize
<1>10. CASE WriteArtifact
  <2>1. /\ progress.status \in {"partial", "completed"}
        /\ {t \in Trials : runs[t] # None} \subseteq Trials
    BY <1>10, <1>f DEF WriteArtifact, TrialInHand
  <2> QED BY <1>10, <1>f, <2>1 DEF WriteArtifact
<1> QED
  BY <1>1, <1>2, <1>3, <1>4, <1>5, <1>6, <1>7, <1>8, <1>9, <1>10 DEF Next

\* Every step keeps the types of the runner's own variables.
RunnerOK ==
  /\ pc \in Steps
  /\ flags \in [retry : BOOLEAN, failFast : BOOLEAN]
  /\ pair \in 1..Len(Pairs) + 1
  /\ pc \notin {"off", "pair", "artifact"} => pair <= Len(Pairs)
  /\ pending \subseteq Trials /\ left \subseteq Trials
  /\ trial \in Trials \cup {None}
  /\ got \in Values \cup {None}
  /\ aborted \in BOOLEAN
  /\ crashes \in 0..MaxCrashes

LEMMA NextRunner ==
  ASSUME IInv, [Next]_vars
  PROVE  RunnerOK' /\ (pc' \in AtTrial => trial' \in Trials)
<1>r. RunnerOK /\ TrialInHand
  BY DEF IInv, TypeOK, RunnerOK
<1>p. Len(Pairs) \in Nat /\ MaxCrashes \in Nat
  BY Plan, PatchAssumption
<1>e. ASSUME ProcessEnds, crashes' \in 0 .. MaxCrashes
      PROVE  RunnerOK' /\ (pc' \in AtTrial => trial' \in Trials)
  BY <1>e, <1>p, EndsType DEF RunnerOK, AtTrial, Steps
\* a step that moves on with the same pair and the same trial
<1>s. ASSUME pc' \in Steps, UNCHANGED <<flags, pair, pending, left, trial, aborted, crashes>>,
             got' \in Values \cup {None},
             pc' \notin {"off", "pair", "artifact"} => pc \notin {"off", "pair", "artifact"},
             pc' \in AtTrial => pc \in AtTrial
      PROVE  RunnerOK' /\ (pc' \in AtTrial => trial' \in Trials)
  BY <1>s, <1>r DEF RunnerOK, TrialInHand
\* a step that enters or goes on with a loop
<1>l. ASSUME NEW S \in SUBSET Trials, NEW step \in AtTrial, NEW done \in {"ended", "raised"},
             LoopOver(S, step, done), pc \notin {"off", "pair", "artifact"},
             UNCHANGED <<flags, pair, pending, got, crashes>>, aborted' \in BOOLEAN
      PROVE  RunnerOK' /\ (pc' \in AtTrial => trial' \in Trials)
  <2>1. /\ left' \subseteq Trials /\ trial' \in Trials \cup {None}
        /\ pc' = done \/ (pc' = step /\ trial' \in Trials)
    BY <1>l, LoopType
  <2>2. pc' \in Steps /\ pc' \notin {"off", "pair", "artifact"}
    BY <2>1 DEF AtTrial, Steps
  <2> QED BY <1>l, <1>r, <2>1, <2>2 DEF RunnerOK, AtTrial
<1>1. CASE UNCHANGED vars
  BY <1>1, <1>r DEF vars, runner, RunnerOK, TrialInHand
<1>2. ASSUME NEW retry \in BOOLEAN, NEW failFast \in BOOLEAN, Start(retry, failFast)
      PROVE  RunnerOK' /\ (pc' \in AtTrial => trial' \in Trials)
  BY <1>2, <1>r DEF Start, RunnerOK, Steps, AtTrial
<1>3. CASE BeginPair
  <2>1. pair \in 1 .. Len(Pairs)
    BY <1>3, <1>r, <1>p DEF BeginPair, RunnerOK
  <2>2. pending' \subseteq Trials
    BY <1>3, <2>1, PairTrials DEF BeginPair
  <2>3. /\ pair' \in 1 .. Len(Pairs) + 1 /\ pc' \in {"pair", "gate"}
        /\ pc' = "gate" => pair' <= Len(Pairs)
    BY <1>3, <1>p, <2>1 DEF BeginPair
  <2> QED BY <1>3, <1>r, <2>2, <2>3 DEF BeginPair, RunnerOK, Steps, AtTrial
<1>4. CASE GatePasses
  <2>1. pending \in SUBSET Trials /\ aborted' \in BOOLEAN
    BY <1>4, <1>r DEF GatePasses, RunnerOK
  <2> QED BY <1>4, <1>l, <2>1 DEF GatePasses, AtTrial
<1>5. CASE GateFails
  <2>1. pending \ progress.completed \in SUBSET Trials
    BY <1>r DEF RunnerOK
  <2> QED BY <1>5, <1>l, <2>1 DEF GateFails, Abort, AtTrial
<1>6. ASSUME NEW v \in Values, Measure(v)
      PROVE  RunnerOK' /\ (pc' \in AtTrial => trial' \in Trials)
  <2>1. /\ pc = "run" /\ pc' \in {"data", "result", "fail"} /\ got' = v
        /\ UNCHANGED <<flags, pair, pending, left, trial, aborted, crashes>>
    BY <1>6 DEF Measure
  <2> QED BY <1>s, <2>1 DEF Steps, AtTrial
<1>7. ASSUME TrialRaises \/ FillArray \/ WriteResult \/ DropFailure \/ MarkCompleted
             \/ IndexRaises \/ WriteFailure
      PROVE  RunnerOK' /\ (pc' \in AtTrial => trial' \in Trials)
  <2>1. /\ pc \in AtTrial /\ pc' \in AtTrial
        /\ UNCHANGED <<flags, pair, pending, left, trial, got, aborted, crashes>>
    BY <1>7 DEF TrialRaises, FillArray, WriteResult, DropFailure, MarkCompleted, IndexRaises,
       WriteFailure, AtTrial
  <2>2. got' \in Values \cup {None}
    BY <2>1, <1>r DEF RunnerOK
  <2> QED BY <1>s, <2>1, <2>2 DEF Steps, AtTrial
<1>8. CASE Index
  <2>1. left \ {trial} \in SUBSET Trials /\ aborted' \in BOOLEAN
    BY <1>8, <1>r DEF Index, RunnerOK
  <2> QED BY <1>8, <1>l, <2>1 DEF Index, AtTrial
<1>9. CASE MarkFailed
  <2>1. /\ pending \ progress.completed \in SUBSET Trials /\ left \ {trial} \in SUBSET Trials
        /\ aborted \in BOOLEAN
    BY <1>r DEF RunnerOK
  <2>2. pc = "mark" /\ UNCHANGED <<flags, pair, pending, got, crashes>>
    BY <1>9 DEF MarkFailed
  <2>3. \/ Abort
        \/ LoopOver(left \ {trial}, "fail", "raised") /\ UNCHANGED aborted
        \/ LoopOver(left \ {trial}, "run", "ended") /\ UNCHANGED aborted
    BY <1>9 DEF MarkFailed
  <2>4. CASE Abort
    BY <1>l, <2>1, <2>2, <2>4 DEF Abort, AtTrial
  <2>5. CASE LoopOver(left \ {trial}, "fail", "raised") /\ UNCHANGED aborted
    BY <1>l, <2>1, <2>2, <2>5 DEF AtTrial
  <2>6. CASE LoopOver(left \ {trial}, "run", "ended") /\ UNCHANGED aborted
    BY <1>l, <2>1, <2>2, <2>6 DEF AtTrial
  <2> QED BY <2>3, <2>4, <2>5, <2>6
<1>10. CASE EndPair
  <2>1. pair \in 1 .. Len(Pairs)
    BY <1>10, <1>r, <1>p DEF EndPair, RunnerOK
  <2>2. pair' \in 1 .. Len(Pairs) + 1
    BY <1>10, <1>p, <2>1 DEF EndPair
  <2> QED BY <1>10, <1>r, <2>2 DEF EndPair, RunnerOK, Steps, AtTrial
<1>11. ASSUME FailFast \/ WriteArtifact \/ Crash
       PROVE  RunnerOK' /\ (pc' \in AtTrial => trial' \in Trials)
  <2>1. crashes' \in 0 .. MaxCrashes
    BY <1>11, <1>r, <1>p DEF FailFast, WriteArtifact, Crash, RunnerOK
  <2> QED BY <1>11, <1>e, <2>1 DEF FailFast, WriteArtifact, Crash
<1>12. CASE Finalize
  BY <1>12, <1>r DEF Finalize, RunnerOK, Steps, AtTrial
<1> QED
  BY <1>1, <1>2, <1>3, <1>4, <1>5, <1>6, <1>7, <1>8, <1>9, <1>10, <1>11, <1>12 DEF Next

\* Every step keeps the results in agreement with the arrays, and leaves no
\* result and no completed trial behind.
LEMMA NextResults ==
  ASSUME IInv, [Next]_vars
  PROVE  /\ ResultsMatchActions' /\ TrialInHand'
         /\ \A t \in Trials : runs[t] # None => runs'[t] = runs[t]
         /\ progress.completed \subseteq progress'.completed
<1> DEFINE Kept == /\ \A t \in Trials : runs[t] # None => runs'[t] = runs[t]
                   /\ progress.completed \subseteq progress'.completed
           Goal == ResultsMatchActions' /\ TrialInHand' /\ Kept
<1>i. TypeOK /\ ResultsMatchActions /\ TrialInHand
  BY DEF IInv
<1>t. pc' \in AtTrial => trial' \in Trials
  BY NextRunner
\* a step to where nothing of the trial in hand is claimed, that writes neither
\* arrays nor results nor completed trials
<1>q. ASSUME UNCHANGED <<actions, runs>>, progress'.completed = progress.completed,
             pc' \notin {"data", "result", "unlink", "complete", "artifact"}
      PROVE  Goal
  BY <1>i, <1>t, <1>q DEF ResultsMatchActions, TrialInHand
<1>1. CASE UNCHANGED vars
  BY <1>i, <1>1 DEF vars, files, runner, ResultsMatchActions, TrialInHand
<1>2. ASSUME (\E retry, failFast \in BOOLEAN : Start(retry, failFast)) \/ BeginPair
             \/ TrialRaises \/ IndexRaises \/ EndPair \/ FailFast \/ Crash
      PROVE  Goal
  <2>1. UNCHANGED files /\ pc' \notin {"data", "result", "unlink", "complete", "artifact"}
    BY <1>2 DEF Start, BeginPair, TrialRaises, IndexRaises, EndPair, FailFast, Crash, ProcessEnds
  <2> QED BY <1>q, <2>1 DEF files
<1>3. ASSUME NEW v \in Values, Measure(v) PROVE Goal
  <2>1. /\ UNCHANGED <<runs, progress, trial>> /\ got' = v /\ trial \in Trials
    BY <1>3, <1>i DEF Measure, TrialInHand, AtTrial
  <2>2. CASE actions[trial] = None /\ actions' = [actions EXCEPT ![trial] = Blank] /\ pc' = "data"
    <3>1. runs[trial] = None
      BY <1>i, <2>1, <2>2, Distinct DEF TypeOK, ResultsMatchActions
    <3>2. ResultsMatchActions'
      BY <1>i, <2>1, <2>2, <3>1 DEF TypeOK, ResultsMatchActions
    <3> QED BY <1>i, <1>t, <2>1, <2>2, <3>2 DEF TrialInHand, TypeOK
  <2>3. CASE actions[trial] = v /\ pc' = "result" /\ UNCHANGED actions
    BY <1>i, <1>t, <2>1, <2>3 DEF ResultsMatchActions, TrialInHand
  <2>4. CASE pc' = "fail" /\ UNCHANGED actions
    BY <1>q, <2>1, <2>4
  <2> QED BY <1>3, <2>2, <2>3, <2>4 DEF Measure
<1>4. CASE FillArray
  <2>1. /\ actions[trial] = Blank /\ got \in Values /\ trial \in Trials
        /\ actions' = [actions EXCEPT ![trial] = got] /\ pc' = "result"
        /\ UNCHANGED <<runs, progress, trial, got>>
    BY <1>4, <1>i DEF FillArray, TrialInHand, AtTrial
  <2>2. runs[trial] = None
    BY <1>i, <2>1, Distinct DEF TypeOK, ResultsMatchActions
  <2>3. ResultsMatchActions'
    BY <1>i, <2>1, <2>2 DEF TypeOK, ResultsMatchActions
  <2> QED BY <1>i, <1>t, <2>1, <2>3 DEF TrialInHand, TypeOK
<1>5. CASE WriteResult
  <2>1. /\ actions[trial] = got /\ got \in Values /\ trial \in Trials
        /\ runs' = [runs EXCEPT ![trial] = got] /\ pc' = "unlink"
        /\ UNCHANGED <<actions, progress, trial>>
    BY <1>5, <1>i DEF WriteResult, TrialInHand, AtTrial
  <2>2. runs'[trial] = got /\ \A t \in Trials \ {trial} : runs'[t] = runs[t]
    BY <1>i, <2>1 DEF TypeOK
  <2>3. got # None
    BY <2>1, Distinct
  <2>4. ResultsMatchActions'
    BY <1>i, <2>1, <2>2, <2>3 DEF TypeOK, ResultsMatchActions
  <2>5. Kept
    BY <1>i, <2>1, <2>2 DEF ResultsMatchActions
  <2> QED BY <1>t, <2>1, <2>2, <2>3, <2>4, <2>5 DEF TrialInHand
<1>6. CASE DropFailure
  BY <1>i, <1>t, <1>6 DEF DropFailure, ResultsMatchActions, TrialInHand
<1>7. CASE MarkCompleted
  <2>1. /\ trial \in Trials /\ runs[trial] # None /\ pc' = "index"
        /\ progress'.completed = progress.completed \cup {trial}
        /\ UNCHANGED <<actions, runs>>
    BY <1>7, <1>i DEF MarkCompleted, TrialInHand, AtTrial
  <2> QED BY <1>i, <1>t, <2>1 DEF ResultsMatchActions, TrialInHand
<1>8. CASE WriteFailure
  BY <1>q, <1>8 DEF WriteFailure
<1>9. ASSUME GatePasses \/ GateFails \/ Index \/ MarkFailed PROVE Goal
  <2>1. pc' \in {"run", "fail", "ended", "raised"}
    BY <1>9 DEF GatePasses, GateFails, Index, MarkFailed, Abort, LoopOver
  <2>2. UNCHANGED <<actions, runs>>
    BY <1>9 DEF GatePasses, GateFails, Index, MarkFailed, files
  <2>3. progress'.completed = progress.completed
    BY <1>9, <1>i DEF GatePasses, GateFails, Index, MarkFailed, SaveFailed, files, TypeOK
  <2> QED BY <1>q, <2>1, <2>2, <2>3
<1>10. CASE Finalize
  <2>1. /\ pc' = "artifact" /\ UNCHANGED <<actions, runs>>
        /\ progress'.completed = progress.completed
        /\ progress'.status \in {"partial", "completed"}
    BY <1>10, <1>i DEF Finalize, TypeOK
  <2> QED BY <1>i, <2>1 DEF ResultsMatchActions, TrialInHand, AtTrial
<1>11. CASE WriteArtifact
  <2>1. UNCHANGED <<actions, runs, progress>> /\ pc' = "off"
    BY <1>11 DEF WriteArtifact, ProcessEnds
  <2> QED BY <1>q, <2>1
<1> QED
  BY <1>1, <1>2, <1>3, <1>4, <1>5, <1>6, <1>7, <1>8, <1>9, <1>10, <1>11 DEF Next

LEMMA StepInv == IInv /\ [Next]_vars => IInv'
<1> SUFFICES ASSUME IInv, [Next]_vars PROVE IInv'
  OBVIOUS
<1>1. TypeOK'
  BY NextFiles, NextRunner DEF FilesOK, RunnerOK, TypeOK
<1> QED BY <1>1, NextResults DEF IInv

LEMMA InvHolds == Spec => []IInv
  BY InitInv, StepInv, PTL DEF Spec

\* Every variable of the store and of the runner keeps its type.
THEOREM PatchTypes == Spec => []TypeOK
<1>1. IInv => TypeOK
  BY DEF IInv
<1> QED BY InvHolds, <1>1, PTL

\* The hash in a result is the hash of the array that is stored for the trial,
\* and a completed trial has a result, wherever earlier runs died.
THEOREM ResultsAlwaysMatch == Spec => []ResultsMatchActions
<1>1. IInv => ResultsMatchActions
  BY DEF IInv
<1> QED BY InvHolds, <1>1, PTL

\* No later run, failure or crash replaces a result or takes back that a trial
\* is completed.
THEOREM ResultsAreKept == Spec => ResultsStick
<1>1. ASSUME IInv, [Next]_vars
      PROVE  [/\ \A t \in Trials : runs[t] # None => runs'[t] = runs[t]
              /\ progress.completed \subseteq progress'.completed]_vars
  BY <1>1, NextResults
<1> QED BY InvHolds, <1>1, PTL DEF Spec, ResultsStick

-----------------------------------------------------------------------------
(* The artifact accounts for the plan                                        *)

Accounted(t) == runs[t] # None \/ t \in failures

\* The steps between the choice of what is pending in a pair and its end.
InPair == AtTrial \cup {"gate", "ended", "raised"}

\* Every trial the runner has left behind, in earlier pairs, as not pending or
\* as dealt with, has a result or a failure record.
Accounting ==
  /\ \A t \in progress.failed : Accounted(t)
  /\ pc = "off" => pair = 1
  /\ pc = "index" => runs[trial] # None
  /\ pc = "mark" => trial \in failures
  /\ pc # "off" => \A i \in 1 .. pair - 1 : \A t \in ToSet(Pairs[i]) : Accounted(t)
  /\ pc \in InPair => \A t \in ToSet(Pairs[pair]) \ pending : Accounted(t)
  /\ pc \in AtTrial => \A t \in pending \ left : Accounted(t)
  /\ pc \in {"ended", "raised"} => \A t \in pending : Accounted(t)
  /\ pc = "artifact" =>
       /\ pair > Len(Pairs)
       /\ progress.status = "completed" => progress.completed = Trials /\ failures = {}

\* A trial that is accounted for stays so: a failure record is only dropped for
\* a trial that has a result.
LEMMA AccountedStays ==
  ASSUME IInv, [Next]_vars, NEW t \in Trials, Accounted(t)
  PROVE  Accounted(t)'
<1>1. runs[t] # None => runs'[t] = runs[t]
  BY NextResults
<1>2. CASE DropFailure
  <2>1. runs[trial] # None /\ failures' = failures \ {trial}
    BY <1>2 DEF DropFailure, IInv, TrialInHand
  <2> QED BY <1>1, <2>1 DEF Accounted
<1>3. CASE ~DropFailure
  <2>1. failures \subseteq failures'
    BY <1>3 DEF Next, vars, files, Start, BeginPair, GatePasses, GateFails, Measure, TrialRaises,
       FillArray, WriteResult, MarkCompleted, Index, IndexRaises, WriteFailure, MarkFailed,
       EndPair, FailFast, Finalize, WriteArtifact, Crash
  <2> QED BY <1>1, <2>1 DEF Accounted
<1> QED BY <1>2, <1>3

LEMMA InitAccounting == Init => Accounting /\ ArtifactAccountsForPlan
  BY DEF Init, Accounting, ArtifactAccountsForPlan, NotStarted, Idle, AtTrial, InPair

\* Every step keeps the account of what was dealt with.
LEMMA NextAccounting ==
  ASSUME IInv, Accounting, [Next]_vars
  PROVE  Accounting'
<1>i. TypeOK /\ ResultsMatchActions /\ TrialInHand
  BY DEF IInv
<1>p. Len(Pairs) \in Nat /\ pair \in 1 .. Len(Pairs) + 1 /\ pending \subseteq Trials
  BY <1>i, Plan DEF TypeOK
<1>a. \A i \in 1 .. Len(Pairs) : ToSet(Pairs[i]) \subseteq Trials
  BY Plan DEF Trials
<1>k. \A t \in Trials : Accounted(t) => Accounted(t)'
  BY AccountedStays
<1>f. ASSUME progress'.failed = progress.failed PROVE \A t \in progress'.failed : Accounted(t)'
  BY <1>f, <1>i, <1>k DEF Accounting, TypeOK
\* the process ends
<1>e. ASSUME ProcessEnds, progress'.failed = progress.failed PROVE Accounting'
  BY <1>e, <1>f, EndsType DEF Accounting, InPair, AtTrial
\* what earlier pairs and the trials of this one that were not pending owe
<1>b. ASSUME UNCHANGED <<pair, pending>>, pc # "off"
      PROVE  /\ \A i \in 1 .. pair' - 1 : \A t \in ToSet(Pairs[i]) : Accounted(t)'
             /\ pc \in InPair => \A t \in ToSet(Pairs[pair']) \ pending' : Accounted(t)'
  <2>1. ASSUME NEW i \in 1 .. pair - 1, NEW t \in ToSet(Pairs[i]) PROVE Accounted(t)'
    <3>1. i \in 1 .. Len(Pairs)
      BY <1>p
    <3>2. t \in Trials
      BY <1>a, <3>1
    <3> QED BY <1>b, <1>k, <3>2 DEF Accounting
  <2>2. ASSUME pc \in InPair, NEW t \in ToSet(Pairs[pair]) \ pending PROVE Accounted(t)'
    <3>1. pair \in 1 .. Len(Pairs)
      BY <1>i, <1>p, <2>2 DEF TypeOK, InPair, AtTrial
    <3>2. t \in Trials
      BY <1>a, <2>2, <3>1
    <3> QED BY <1>k, <2>2, <3>2 DEF Accounting
  <2> QED BY <1>b, <2>1, <2>2
\* a step on the trial in hand
<1>s. ASSUME pc \in AtTrial, pc' \in AtTrial, UNCHANGED <<pair, pending, left, trial>>,
             progress'.failed \subseteq progress.failed,
             pc' = "index" => runs'[trial] # None, pc' = "mark" => trial \in failures'
      PROVE  Accounting'
  <2>1. \A t \in progress'.failed : Accounted(t)'
    BY <1>s, <1>i, <1>k DEF Accounting, TypeOK
  <2>2. \A t \in pending \ left : Accounted(t)'
    BY <1>s, <1>k, <1>p DEF Accounting
  <2>3. pc # "off" /\ pc \in InPair
    BY <1>s DEF InPair, AtTrial
  <2>4. pc' \notin {"off", "ended", "raised", "artifact"}
    BY <1>s DEF AtTrial
  <2> QED BY <1>b, <1>s, <2>1, <2>2, <2>3, <2>4 DEF Accounting
\* a step that enters or goes on with a loop over S
<1>l. ASSUME NEW S \in SUBSET Trials, NEW step \in {"run", "fail"}, NEW done \in {"ended", "raised"},
             LoopOver(S, step, done), pc \in InPair, UNCHANGED <<pair, pending>>,
             \A t \in progress'.failed : Accounted(t)',
             \A t \in pending \ S : Accounted(t)'
      PROVE  Accounting'
  <2>1. /\ left' = S /\ pc' \in {step, done}
        /\ pc' = done => S = {}
    BY <1>l DEF LoopOver
  <2>2. /\ pc' \notin {"off", "index", "mark", "artifact"}
        /\ pc' \in {"ended", "raised"} => S = {}
    BY <2>1
  <2>3. pc # "off"
    BY <1>l DEF InPair, AtTrial
  <2> QED BY <1>b, <1>l, <2>1, <2>2, <2>3 DEF Accounting
<1>1. CASE UNCHANGED vars
  BY <1>1 DEF vars, files, runner, Accounting, Accounted
<1>2. ASSUME NEW retry \in BOOLEAN, NEW failFast \in BOOLEAN, Start(retry, failFast)
      PROVE  Accounting'
  <2>1. pc' = "pair" /\ pair' = 1 /\ progress' = progress
    BY <1>2 DEF Start, files, Accounting
  <2>2. \A i \in 1 .. pair' - 1 : FALSE
    BY <2>1
  <2> QED BY <1>f, <2>1, <2>2 DEF Accounting, InPair, AtTrial
<1>3. CASE BeginPair
  <2>1. /\ pc = "pair" /\ pair \in 1 .. Len(Pairs) /\ UNCHANGED files
        /\ pending' = {t \in ToSet(Pairs[pair]) : IsPending(t)}
    BY <1>3, <1>p DEF BeginPair
  <2>2. ASSUME NEW t \in ToSet(Pairs[pair]), ~IsPending(t) PROVE Accounted(t)'
    <3>1. t \in Trials
      BY <1>a, <2>1
    <3>2. t \in progress.completed \/ t \in progress.failed
      BY <2>2 DEF IsPending
    <3>3. Accounted(t)
      BY <1>i, <3>2 DEF Accounting, ResultsMatchActions, Accounted
    <3> QED BY <1>k, <3>1, <3>3
  <2>3. \A i \in 1 .. pair - 1 : \A t \in ToSet(Pairs[i]) : Accounted(t)'
    <3> SUFFICES ASSUME NEW i \in 1 .. pair - 1, NEW t \in ToSet(Pairs[i]) PROVE Accounted(t)'
      OBVIOUS
    <3>1. i \in 1 .. Len(Pairs)
      BY <2>1, <1>p
    <3> QED BY <1>a, <1>k, <2>1, <3>1 DEF Accounting
  <2>4. CASE pending' = {} /\ pair' = pair + 1 /\ pc' = "pair"
    <3>1. \A t \in ToSet(Pairs[pair]) : Accounted(t)'
      BY <2>1, <2>2, <2>4
    <3>2. \A i \in 1 .. pair' - 1 : i \in 1 .. pair - 1 \/ i = pair
      BY <2>1, <2>4
    <3>3. \A i \in 1 .. pair' - 1 : \A t \in ToSet(Pairs[i]) : Accounted(t)'
      BY <2>3, <3>1, <3>2
    <3> QED BY <1>f, <2>1, <2>4, <3>3 DEF Accounting, files, InPair, AtTrial
  <2>5. CASE pair' = pair /\ pc' = "gate"
    <3>1. \A t \in ToSet(Pairs[pair]) \ pending' : Accounted(t)'
      BY <2>1, <2>2
    <3> QED BY <1>f, <2>1, <2>3, <2>5, <3>1 DEF Accounting, files, AtTrial
  <2> QED BY <1>3, <2>4, <2>5 DEF BeginPair
<1>4. CASE GatePasses
  <2>1. /\ LoopOver(pending, "run", "ended") /\ pc \in InPair /\ UNCHANGED <<pair, pending>>
        /\ progress' = progress
    BY <1>4 DEF GatePasses, files, InPair
  <2> QED BY <1>f, <1>l, <1>p, <2>1
\* the handler of the pair records a failure for what is not completed
<1>h. ASSUME Abort, pc \in InPair, UNCHANGED <<pair, pending>>,
             \A t \in progress'.failed : Accounted(t)'
      PROVE  Accounting'
  <2>1. \A t \in pending \ (pending \ progress.completed) : Accounted(t)
    BY <1>i DEF ResultsMatchActions, Accounted
  <2>2. \A t \in pending \ (pending \ progress.completed) : Accounted(t)'
    BY <1>k, <1>p, <2>1
  <2>3. pending \ progress.completed \in SUBSET Trials
    BY <1>p
  <2> QED BY <1>h, <1>l, <2>2, <2>3 DEF Abort
<1>5. CASE GateFails
  BY <1>5, <1>f, <1>h DEF GateFails, files, InPair
<1>6. ASSUME NEW v \in Values, Measure(v) PROVE Accounting'
  <2>1. /\ pc = "run" /\ pc' \in {"data", "result", "fail"}
        /\ UNCHANGED <<progress, pair, pending, left, trial>>
    BY <1>6 DEF Measure
  <2> QED BY <1>s, <2>1 DEF AtTrial
<1>7. ASSUME TrialRaises \/ FillArray \/ WriteResult \/ DropFailure \/ IndexRaises PROVE Accounting'
  <2>1. /\ pc \in AtTrial /\ pc' \in AtTrial \ {"index", "mark"}
        /\ UNCHANGED <<progress, pair, pending, left, trial>>
    BY <1>7 DEF TrialRaises, FillArray, WriteResult, DropFailure, IndexRaises, files, AtTrial
  <2> QED BY <1>s, <2>1
<1>8. CASE MarkCompleted
  <2>1. /\ pc = "complete" /\ pc' = "index" /\ runs[trial] # None
        /\ UNCHANGED <<runs, pair, pending, left, trial>>
        /\ progress'.failed = progress.failed \ {trial}
    BY <1>8, <1>i DEF MarkCompleted, TrialInHand
  <2> QED BY <1>s, <2>1 DEF AtTrial
<1>9. CASE WriteFailure
  <2>1. /\ pc = "fail" /\ pc' = "mark" /\ trial \in failures'
        /\ UNCHANGED <<progress, pair, pending, left, trial>>
    BY <1>9 DEF WriteFailure
  <2> QED BY <1>s, <2>1 DEF AtTrial
\* the trial in hand is dealt with
<1>d. ASSUME pc \in {"index", "mark"} PROVE \A t \in pending \ (left \ {trial}) : Accounted(t)'
  <2>1. Accounted(trial)
    BY <1>d DEF Accounting, Accounted
  <2>2. \A t \in pending \ left : Accounted(t)
    BY <1>d DEF Accounting, AtTrial
  <2> QED BY <1>k, <1>p, <2>1, <2>2
<1>10. CASE Index
  <2>1. /\ pc = "index" /\ LoopOver(left \ {trial}, "run", "ended") /\ pc \in InPair
        /\ UNCHANGED <<pair, pending>> /\ progress' = progress
    BY <1>10 DEF Index, files, InPair, AtTrial
  <2>2. left \ {trial} \in SUBSET Trials
    BY <1>i DEF TypeOK
  <2> QED BY <1>d, <1>f, <1>l, <2>1, <2>2
<1>11. CASE MarkFailed
  <2>1. /\ pc = "mark" /\ pc \in InPair /\ UNCHANGED <<pair, pending, failures>>
        /\ trial \in failures /\ trial \in Trials
    BY <1>11, <1>i DEF MarkFailed, InPair, AtTrial, Accounting, TrialInHand
  <2>2. progress'.failed = progress.failed \cup {trial}
    BY <1>11, <1>i DEF MarkFailed, SaveFailed, TypeOK
  <2>3. \A t \in progress'.failed : Accounted(t)'
    BY <1>i, <1>k, <2>1, <2>2 DEF Accounting, Accounted, TypeOK
  <2>4. left \ {trial} \in SUBSET Trials
    BY <1>i DEF TypeOK
  <2>5. \/ Abort
        \/ LoopOver(left \ {trial}, "fail", "raised")
        \/ LoopOver(left \ {trial}, "run", "ended")
    BY <1>11 DEF MarkFailed
  <2>6. CASE Abort
    BY <1>h, <2>1, <2>3, <2>6
  <2>7. CASE LoopOver(left \ {trial}, "fail", "raised")
    BY <1>d, <1>l, <2>1, <2>3, <2>4, <2>7
  <2>8. CASE LoopOver(left \ {trial}, "run", "ended")
    BY <1>d, <1>l, <2>1, <2>3, <2>4, <2>8
  <2> QED BY <2>5, <2>6, <2>7, <2>8
<1>12. CASE EndPair
  <2>1. /\ pc \in {"ended", "raised"} /\ pc' = "pair" /\ pair' = pair + 1
        /\ progress' = progress /\ pair \in 1 .. Len(Pairs)
    BY <1>12, <1>i, <1>p DEF EndPair, files, TypeOK
  <2>2. ASSUME NEW i \in 1 .. pair' - 1, NEW t \in ToSet(Pairs[i]) PROVE Accounted(t)'
    <3>1. i \in 1 .. pair - 1 \/ i = pair
      BY <2>1
    <3>2. i \in 1 .. Len(Pairs)
      BY <2>1, <3>1
    <3>3. CASE i \in 1 .. pair - 1
      BY <1>a, <1>k, <2>1, <2>2, <3>2, <3>3 DEF Accounting
    <3>4. CASE i = pair
      BY <1>a, <1>k, <2>1, <2>2, <3>2, <3>4 DEF Accounting, InPair
    <3> QED BY <3>1, <3>3, <3>4
  <2> QED BY <1>f, <2>1, <2>2 DEF Accounting, InPair, AtTrial
<1>13. CASE FailFast
  BY <1>13, <1>e DEF FailFast, files
<1>14. CASE Finalize
  <2>1. /\ pc = "pair" /\ pc' = "artifact" /\ pair > Len(Pairs)
        /\ UNCHANGED <<pair, pending, failures>>
        /\ progress'.completed = progress.completed /\ progress'.failed = progress.failed
        /\ progress'.status = "completed" => progress.completed = Trials /\ failures = {}
    BY <1>14, <1>i DEF Finalize, TypeOK
  <2> QED BY <1>b, <1>f, <2>1 DEF Accounting, InPair, AtTrial
<1>15. CASE WriteArtifact
  BY <1>15, <1>e DEF WriteArtifact
<1>16. CASE Crash
  BY <1>16, <1>e DEF Crash, files
<1> QED
  BY <1>1, <1>2, <1>3, <1>4, <1>5, <1>6, <1>7, <1>8, <1>9, <1>10, <1>11, <1>12, <1>13,
     <1>14, <1>15, <1>16 DEF Next

\* The artifact is written when every pair was gone through.
LEMMA NextArtifact ==
  ASSUME IInv, Accounting, ArtifactAccountsForPlan, [Next]_vars
  PROVE  ArtifactAccountsForPlan'
<1>1. CASE WriteArtifact
  <2>1. /\ pc = "artifact"
        /\ artifact' = [runs |-> {t \in Trials : runs[t] # None},
                        failures |-> failures, status |-> progress.status]
    BY <1>1 DEF WriteArtifact
  <2>2. pair > Len(Pairs) /\ pair \in Nat /\ Len(Pairs) \in Nat
    BY <2>1, Plan DEF Accounting, IInv, TypeOK
  <2>3. \A t \in Trials : Accounted(t)
    <3> SUFFICES ASSUME NEW t \in Trials PROVE Accounted(t)
      OBVIOUS
    <3>1. PICK i \in 1 .. Len(Pairs) : t \in ToSet(Pairs[i])
      BY Plan DEF Trials
    <3>2. i \in 1 .. pair - 1
      BY <2>2, <3>1
    <3> QED BY <2>1, <3>1, <3>2 DEF Accounting
  <2>4. failures \subseteq Trials
    BY DEF IInv, TypeOK
  <2>5. artifact'.runs \cup artifact'.failures = Trials
    BY <2>1, <2>3, <2>4 DEF Accounted
  <2>6. ASSUME progress.status = "completed"
        PROVE  {t \in Trials : runs[t] # None} = Trials /\ failures = {}
    BY <2>1, <2>6 DEF Accounting, IInv, ResultsMatchActions
  <2> QED BY <2>1, <2>5, <2>6 DEF ArtifactAccountsForPlan
<1>2. CASE ~WriteArtifact
  <2>1. UNCHANGED artifact
    BY <1>2 DEF Next, vars, files, Start, BeginPair, GatePasses, GateFails, Measure, TrialRaises,
       FillArray, WriteResult, DropFailure, MarkCompleted, Index, IndexRaises, WriteFailure,
       MarkFailed, EndPair, FailFast, Finalize, Crash
  <2> QED BY <2>1 DEF ArtifactAccountsForPlan
<1> QED BY <1>1, <1>2

\* Whatever run writes the permanent artifact, it leaves no planned trial out,
\* and it says completed only of a plan whose trials all have results.
THEOREM ArtifactAlwaysAccounts == Spec => []ArtifactAccountsForPlan
<1>1. Init => IInv /\ Accounting /\ ArtifactAccountsForPlan
  BY InitInv, InitAccounting
<1>2. IInv /\ Accounting /\ ArtifactAccountsForPlan /\ [Next]_vars
        => (IInv /\ Accounting /\ ArtifactAccountsForPlan)'
  BY StepInv, NextAccounting, NextArtifact
<1> QED BY <1>1, <1>2, PTL DEF Spec

=============================================================================
