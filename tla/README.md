# Formal verification of vla-lens

vla-lens captures rollouts of a vision-language-action policy, probes them, and
runs research campaigns over them.  The numerical parts compute on arrays and
forget what they did.  The parts with lasting state and with several actors are

- the **campaign control plane**: an append-only event ledger shared by agents,
  and the state derived from it that decides what an agent may do next;
- the **driver** that spends hardware under that control;
- the **stores** that captures, patch studies and analyses write and that must
  survive being killed: capture roots, patch studies, the artifact index, the
  managed cache;
- the **dashboard server**, which serves a dataset while analyses write it.

This directory models them in TLA+, checks the models with TLC and proves the
most important results with TLAPS.

Paths below are relative to the repository; `vla_lens/` is `src/vla_lens/`.

- [Inventory](#inventory): components, state, operations, hazards, what makes them correct
- [Modules](#modules): which module models what, and how
- [Runs](#runs): what TLC checks, with which bounds and fairness
- [Proofs](#proofs): what holds for all values of the constants, and why
- [Disagreements found](#disagreements-found)
- [Order of work](#order-of-work)
- [Not modelled](#not-modelled)

## Inventory

### 1. Event ledger — `vla_lens/research_events.py`, `research_io.py`

*State*: a directory of files `{sequence:06d}-{event_id}.json`, each holding the
sha256 of its predecessor; `.append.lock`.  *Operations*: `append_research_event`
(flock, list, verify all, reduce with the new event, write a temporary file,
link it, unlink it), `verify_research_event_ledger` (no lock),
`write_bytes_create_only`.  *Interaction*: agents prepare events from a ledger
they read without the lock, then append; `child_locked` and
`execution_authorized` events name the tip they were prepared at.
*Hard*: readers race with writers, appenders with each other, processes die
between any two file operations, the tip moves between preparing and appending.
*Correct when*: the directory is always one gap-free hash chain whose every
prefix the reducer accepts; a reader derives the state of some prefix; an
append ends.

### 2. Campaign reducer — `vla_lens/research_state.py`

*State*: `CampaignState`, derived from the events: prepared children, audits,
reservations, spent and used budget, locks, preflight receipts, pool access,
attempts, recorded and terminal results.  *Operations*: one `_apply_*` handler
per event type, `child_authorization_issues`, `_gate_is_open`,
`campaign_status`.  *Interaction*: the ledger calls it on every append and
verification; the driver and the preflight ask it what is authorized.
*Hard*: any agent may append any acceptable event at any time, so the order is
only what the guards enforce; guards are evaluated at one event and relied upon
at later ones; an invalid result sends a study back to an earlier stage while
other studies go on; budgets are held, charged and given back across studies.
*Correct when*: entry conditions do not lapse under work that relies on them,
gates keep sealed what they promise to keep sealed, an old lock has no power
over the study that was locked anew, budget is neither lost nor spent twice.

### 3. Program and child plans — `research_plan.py`, `research_child.py`, `scripts/validate_research_child.py`

*State*: immutable documents; the claimed output directory with its marker.
*Operations*: validation of a program, a child, a lock receipt; the preflight,
which claims the output.  *Hard*: what a child cites may be out of date;
the claim is a `mkdir` followed by a marker.  *Correct when*: a child runs on
exactly the results it cites; one child owns an output directory, and its owner
can resume.

### 4. FOUNDATION driver — `rq024_foundation_execution.py`, captures in `pi05/`

*State*: a flock on the hardware, resolved plan files, stored traces; the
attempts in the ledger.  *Operations*: `execute_foundation` (take the lock,
reconcile an open attempt, write the plan, select, and per trial: check, start
event, subprocess, terminal event).  *Hard*: the capture outlives a driver that
dies, while the kernel frees its flock; start event, episode and terminal event
are three durable steps; a capture can fail after it stored its episode.
*Correct when*: one rollout at a time, each under an open attempt; completed
trials keep their trace and are not run again; the plan finishes unless it
needs a human.

### 5. Managed cache — `vla_lens/cache.py`, its readers in `selectors.py`

*State*: per key an entry directory with a manifest, a stashed predecessor, a
build in progress, and a lock file.  *Operations*: `get_or_build` (recover an
interrupted commit, return a valid entry, adopt one without a manifest, or build
and commit by two renames), `set_pinned`, `prune`.  *Interaction*: workers of
several processes; the caller uses the returned path after the lock is dropped
and takes the lock again to read.  *Hard*: prune plans without locks; a death
between the renames or within an `rmtree`; sources that change meanwhile; a
builder whose open dataset remembers tables that the fingerprint looks at on disk.
*Correct when*: a read never returns arrays older than the sources were when it
began, and tables only if the builder remembered them; a build is done once; a
caller sees a copy that keeps its pin, whose arrays only get newer, and that is
removed only unpinned.

### 6. Patch studies — `interventions/patch_study_store.py`, `pi05/patch_study_runner.py`

*State*: `actions.zarr`, `runs/`, `failures/`, `state.json`, `artifact.json`,
replaced one at a time.  *Operations*: a run of the runner, which goes over the
pairs and trials that are pending; `record_run`, `record_failure`, `finalize`.
*Hard*: a run dies between any two writes and is resumed; a rerun measures
something else; a failure is recorded after a success; exceptions handled at
two levels, with `--fail-fast`.  *Correct when*: a result matches its array, is
never replaced, the artifact accounts for every planned trial, and a study that
is retried completes.

### 7. Batch capture — `pi05/batch_capture.py`, `plan_capture.py`, `capture_runner.py`, `dataset/writer.py`, `overlay.py`

*State*: a capture root: robot data, video, metadata, statistics, overlays, the
table of references.  *Operations*: skip the commands whose traces exist, run
the others; an episode is a series of writes in place.  *Hard*: a kill between
or within them, and the same command run again; a recapture of another length.
*Correct when*: references are one to one and stay, what is skipped is whole,
and a batch that is repeated captures everything.

### 8. Artifacts and dashboard — `traces/dataset.py`, `dataset/index.py`, label builders in `pi05/`, `server/state.py`, `http.py`

*State*: the artifact index and its lock, the run records, the dashboard's
tables and manifest; in the server the open dataset, its signature and a payload
cache.  *Operations*: `save_artifact`, the rewriting of a row by the label
builders, `build_dataset_index`; start-up, refresh, cached payloads, POST.
*Interaction*: the server notices writers only by the mtimes behind the
signature.  *Hard*: writers that do not take the lock; signature and opening are
two steps, in one order in a refresh and in the other at start-up; a POST waits
for its body between refresh and handler.
*Correct when*: a matching signature vouches for what is served, up to what
start-up missed, an answered POST is seen, rows saved under the lock are kept,
the server catches up.

### 9. The rest

Probes, analyses, audits, summaries, workbench and HTTP handlers and the
frontend compute on documents and arrays without state that outlives a call.

## Modules

| module | models | what it is |
|---|---|---|
| `CampaignProgram` | the decision graph a program declares | constants; entry conditions and gates as operators |
| `StudyLifecycle` | the promise about studies | abstract specification: reserve, lock, access, finish |
| `CampaignBudget` | the promise about resources | abstract specification: hold, release |
| `CampaignReducer` | `research_state.py`, `research_child.py` | one action per event type; implements both above |
| `CampaignLog` | the promise of the ledger | abstract specification: one history, extended at its end |
| `EventLedger` | `research_events.py`, `research_io.py` | agents, files, flock, crashes; implements `CampaignLog` |
| `FoundationDriver` | `rq024_foundation_execution.py` | drivers, captures, flock, attempts, traces, crashes |
| `ManagedCopy` | the promise of the cache for one key | abstract specification: publish, pin, remove |
| `CacheManager` | `cache.py`, readers in `selectors.py` | workers, pruner, renames, deaths; implements `ManagedCopy` |
| `ArtifactStore` | `traces/dataset.py`, `dataset/index.py`, label builders | analyses that write one artifact index |
| `DashboardState` | `server/state.py`, `server/http.py` | extends `ArtifactStore` with the server that reads it |
| `PatchStudy` | `patch_study_store.py`, `patch_study_runner.py` | one action per write, and the runner's loops |
| `EpisodeStore` | `batch_capture.py`, `dataset/writer.py`, `overlay.py` | one action per write of an episode, and the batch |
| `MC*` | | constants of the instances |
| `*_proofs` | | theorems about the module they are named after |

`CampaignProgram` is extended by `StudyLifecycle` and `CampaignReducer`.
`CampaignReducer` refines `StudyLifecycle` and `CampaignBudget` by `INSTANCE ...
WITH`, `EventLedger` refines `CampaignLog`, `CacheManager` refines `ManagedCopy`.

**CampaignReducer.**  Variables carry the names of the fields of
`CampaignState`.  An accepted `child_locked` event is a position of `lockLog`;
the receipts that cite it cite the position.  A child plan is its study
instance, its budget and the predecessor results it names.  Each action is the
handler of one event type with all its early returns as conjuncts; what the
code re-reads from documents it verifies by hash is the identity of the
document here.  The seven budget fields are two: the six cumulative ones are
treated alike by the code, and `ephemeral_gb` differs in that it is free again
on release.  An audit that is not a clean pass is kept by no guard and is
dropped.  `program_locked` comes first, then nothing else orders the events:
the order the documents describe is a consequence or it is not there at all.

**StudyLifecycle** has no child plans, receipts, audits or attempts.  A study
takes a reservation when its entry conditions hold and the program has a hardware
slot and budget left; it is locked on one, active or released (`Lock`,
`LockReleased`); it opens its pool when its gate is open, and the reservation of
its lock is given back with its result.  The point of the module is that the
properties of gates can be checked on the decision graph of the real campaign
(`configs/campaigns/rq024_controlled_scene_to_behavior.yaml`, in
`MCStudyLifecycle`), which would be out of reach with the reducer's state.  Safety
carries over because the reducer implements it (proved); liveness does not, since
a step of the lifecycle takes the reducer's agents several events (prepare, audit,
preflight, attempts) that fairness would have to cover.

**EventLedger.**  The hash of a file commits to everything before it, so a hash
is the sequence of events up to its file.  An agent lists the directory without
a lock: `Scan` takes the files there at the start, `Scanned` adds any subset of
those linked meanwhile, as `readdir` allows.  The reducer is abstracted to the
events an event cites and to the tip it must name.  `Crash` drops the flock, as
the kernel does.  `Taken` models that the duplicate check compares the end of
file names (`research_events.py:139`), so an id is refused also when another id
ends with it after a dash; that is stricter than the promise and the refinement
holds all the same.

**FoundationDriver.**  A driver goes through the statements of
`execute_foundation`; between two of them it may die (`Crash`).  The flock is
freed then, its capture continues with `driver = None`.  A capture writes its
episode and exits, in this order; it may also exit without one.  A stored trace
is `none`, `inexact`, `exact` or `over` as `_expected_trace_exists`,
`validate_exact_trace_output` and the ledger's budget check see it.  A driver
raising an exception is `Quit`; starting it again is `Begin`.  That only drivers
append attempt events of the reservation, and that the campaign stays
authorized meanwhile, are assumptions of the module.

**CacheManager** is about one key: keys share neither directories nor locks, and
prune goes key by key.  `dir` holds the entry, its stashed predecessor and the
build in progress; a manifest is the source version it was made for, its pin, an
identity and its access time, which is what `prune` compares.  An `rmtree` is
seen in between as a directory without its manifest or with data missing; a Zarr
array with missing chunks still opens (`holes`), other data does not (`broken`).
`legacy` distinguishes the callers that adopt entries without a manifest; they
put the sources into the key, so their sources do not change.

The sources are what the fingerprint of one key covers: signatures of the arrays
and of two tables, all taken from the files (`selectors.py:668`).  A build reads
the arrays from the files too (`ver`), but the tables from the open dataset, whose
`cached_property` tables are read once and stay while it is open
(`traces/bundle.py:248`, `dataset/bundle.py:118`).  How long a process has had its
dataset open, and which of several it uses for a call, is not modelled: `Miss`
lets the tables be of now or of any earlier time (`tables`), and marks them as
`held` when they are from before the sources last changed.  That is more than one
process can do in a row, since a second try of the same call uses tables no older
than the first one did.

**ArtifactStore** has two kinds of analyses: those that only call
`save_artifact`, and label builders, which rewrite the row in place afterwards
without the lock.  A row is missing, saved, or saved with its outputs.  A parquet
file written in place is `torn` until its writer is done; writers of one file that
overlap, which takes several label builders, leave it torn for good, where the
code may also end with a readable one.  **DashboardState**
adds the server.  It may be started at any time: the constructor validates and
opens the dataset (`Open`, or `StartFails`) and signs it afterwards
(`SignOpened`); `missed` remembers that analyses wrote between the two, until a
refresh opens the dataset again.  All endpoints are coroutines of one event loop and only the
body of a POST is awaited, so requests take turns and only analyses come in
between: `Sign` and `Compare` are two steps because files change between them.
An mtime is a counter of the writes behind the signature.

**PatchStudy.**  An action is one durable write or one branch of the runner; the
two `except` handlers are `MarkFailed` (trial) and `Abort` (pair).  `record_run`
is `Measure`, `FillArray`, `WriteResult`, `DropFailure`, `MarkCompleted`, in this
order.  A trial measures any of `Values`, and a rerun another one.

**EpisodeStore.**  An action is one file of an episode.  `parts` says which files
of an index are of its last rollout; `torn` are tables cut off; a kill may also
leave a table removed and not rewritten, or an overlay whose manifest is `Cut`.
`Valid`, `Exists` and `Opens` are what the validator, the batch and
`TraceDataset.open` accept.  `tasks.parquet` is part of the step `info`: the
validator does not read it, so one that is cut off leaves the root valid, which
the model does not show.  A `refs` table that is cut off makes the model's root
invalid; the code refuses it one step later, in `_expected_trace_exists`.

The definitions named in PROJECT.json under "map" give the lines of each.

Definitions commented `Fault:` are altered copies of the definition that
follows them: the model with a plausible bug put in.  For each property some
fault makes TLC report a violation, which shows that the property depends on
what the code does.

## Runs

Every run is exhaustive for its instance.  `CHECK_DEADLOCK FALSE` is used where
all work can be done (lifecycle and reducer).  The other runs can always take
another step and are checked for deadlock.

### Passing

**gates** (`MCStudyLifecycle_gates.cfg`): seven studies of the RQ-024 graph —
foundation, the three behavior discoveries, the two behavior confirmations and
one internal discovery — with outcomes positive, negative and invalid
(inconclusive and not_applicable are treated as negative everywhere), one
hardware slot as in the program, two reservations at a time and storage for two.
The confirmations reserve with `hardware`, as their rollouts need; whether a
child does is its author's choice, and safety is checked with either.
`DiscoverySealed` and `BehaviorSealed` state what the gates' names promise, as
invariants: they are about the states after the gate opened too, when another
study is redone or finishes.  `EntryNeverLapses` and `ValidResultIsFinal` say
that what a study relies on is not taken from under it.  Two confirmations are
enough for one to overtake the other, and one study after the second gate for
that gate to be passed too early.

`EveryEntryFinishes` says that every study whose entry conditions hold ends
with a valid result, except for two dead ends, which the code leaves open: a
study *locked in vain* on the reservation of its invalid result, and one that
is *starved*: it could begin but for a slot or storage that no result releases,
because a finished study or one that waits at its gate holds it.  The second is
the deadlock of the two confirmations at `discovery_sealed` (see [Disagreements
found](#disagreements-found)).  What the property excludes is any other wait, e.g. a
lock that waited for the gate; without any one of its exceptions TLC finds a
counterexample.  Cumulative resources are not bounded in this instance, since a
campaign that has spent them ends by design.

*Fairness*: the ledger refuses events and asks for none, so progress is up to the
agents.  Assumed is that while a study without reservation or lock can be
reserved, or some study can be locked or open its pool, one of these events is
appended in the end (weak fairness of their disjunction, not of each); and that
results do not stay invalid for ever (strong fairness of a valid finish).  Nobody
is assumed to avoid the dead ends.

**chain** (`MCCampaignReducer_chain.cfg`): a study and a successor that needs
its positive result, three children, three reservations, three attempts, three
locks, valid and invalid results; budgets are ample.  A study can be redone and
its successor too, old and new children, locks and reservations exist side by
side.  Checks the bookkeeping invariants and that the reducer implements
`StudyLifecycle`.  Each event of a reservation is compared with the guards of
`Reserve` there.

**budget** (`MCCampaignReducer_budget.cfg`): two independent studies, a program
ceiling that two of the three reservations exhaust, attempts that use
nothing or something.  Checks that attempts stay within reservations, that
the attempts of a trial form one history, and that the reducer implements
`CampaignBudget`.  The ordinal bound, hardware limit (two, with every
reservation a hardware one) and ceilings are all reached.

Both reducer runs use symmetry of instances, reservations and attempts, which
no definition distinguishes; neither checks liveness.

**ledger** (`MCEventLedger.cfg`): two agents, four events (two name their tip,
one id ends with another), one crash.  Two agents give every race of the
protocol, since a third only waits at the same flock.  *Fairness*: a process
that runs goes on (weak), and a process blocked on the flock is woken
(strong fairness of `Acquire`, because another agent may take the flock in
between any number of times, and `flock(2)` queues its waiters).

**driver** (`MCFoundationDriver.cfg`): two drivers, two trials, a budget of
three rollouts, two crashes, one capture that cannot be launched.  Two trials
separate "this trial" from "the next"; three rollouts allow one
retry and make the second one run into the ceiling.  `OneRollout` and
`RolloutIsLedgered` are about the window in which the flock is free and a
capture runs; `CompletedOnce` and `TraceKept` about retries;
`CompletesUnlessStuck` lists everything that stops the plan for good (plan
files half written, an attempt nobody can close, a trace without an open or
completed attempt, no rollout left), and each of the four is needed: without
any one of them TLC finds a counterexample.  *Fairness*: drivers are started
again and again, sometimes for all that remains; a running process goes on; a
capture exits.

**cache** (`MCCacheManager.cfg`): two workers, a pruner, an operator who pins,
two deaths, sources that change once, three builds.  `FreshRead` is about the path
that is used after the lock is dropped: the arrays behind it are never older than
the sources were when the read began, the tables are older only if whoever built
the entry remembered them, which need not be the reader.  Two workers show waiting
for a build, a third only waits too; two deaths let one hit the recovery from
the other; three builds let an entry be replaced while an older plan of the
pruner still names one of the earlier manifests.  Safety only.

**dashboard** (`MCDashboardState.cfg`): one analysis that only saves and one
label builder, a POST, one crash.  These two are the pair that differs in the
lock.  `SignatureVouches` is about what moves between signing, opening and
building a payload.  The server starts before, between or after the writes; the
property excepts what `missed` names, the gap of the constructor, and nothing
else: a refresh, which signs first, leaves none, and TLC reaches states where a
payload is served from a dataset that `missed` excepts.  `LockedSavesKeepRows` is what remains of the documented
promise (see `lostrow`): a save under the lock takes a row back only together
with the outputs a label builder wrote around the lock after the save had read,
and never removes one.  A second label builder would weaken this further: it can
restore, from what it read before, a row that the first one dropped, and a save
that read in between takes that row away again.  The property says so, and the
theorem about it is for any number of both kinds.  `CatchesUp` is about a server
that was started and says that its signature becomes the one on disk; by
`SignatureVouches` its dataset then is the one on disk too, unless start-up missed a
change.  It excepts an index that is inconsistent, which a crashed or concurrent
`build_dataset_index` leaves and which neither a start nor a refresh gets past.
*Fairness*: a page polls every five seconds (`ResearchRunsPage.tsx:30`) and the
check interval is two, so a refresh is due again and again (strong fairness of
`Due`); the event loop and the constructor finish what they start (weak).  Nothing
is assumed of analyses, nor that anybody starts the server.

**patch** (`MCPatchStudy.cfg`): a pair with two trials and one with one, two
values, two deaths.  Two trials in a pair show a failure in the middle of the
loop; the second pair shows what goes on after it.  `CompletesUnlessStuck`
excepts two states no retry repairs (see below); without either TLC finds a
counterexample.  *Fairness*: a run goes on (weak); the operator runs the study
again with `--retry-failed` and without `--fail-fast`, and a gate, a
measurement and the indexing succeed when tried again and again (strong).

**episodes** (`MCEpisodeStore.cfg`): two commands, the second with two traces,
two lengths, three kills; six indices suffice, since only a kill costs one.
Three kills allow an orphaned episode, a lost row and a cut table in one
history.  `--force` is off, because it recaptures for ever (the invariants are
proved with it on, and `SkippedAreWhole` is not promised then: a forced
recapture killed halfway leaves files of two rollouts).  `CapturedUnlessStuck`
excepts a table that was cut off, which makes every later capture raise, and
metadata lost in a command after the first, which keeps earlier commands from
ending; neither exception can be dropped.  *Fairness*: a run goes on (weak);
the operator runs the batch again, and a rollout repeats its length if tried
again and again (strong).

### Violations

`phasetwo`, `lostrow` and `reopen` each check one sentence of the documentation
against the model of the code, and TLC finds a behaviour that breaks it.  See
[Disagreements found](#disagreements-found).

## Proofs

Checked by TLAPS for every value of the constants, under the assumptions the
modules state (types of the constants, and that `None` is not a value of the
types it is added to).

**StudyLifecycle_proofs.**  Types, `AccessHoldsLock`, `EntryNeverLapses`,
`ValidResultIsFinal`, for every program.  `EntryNeverLapses` rests on the lemma
`EntryStable`: an entry condition only asks for valid and for positive outcomes,
and a finish changes no valid one.

`DiscoverySealed` and `BehaviorSealed` are about the RQ-024 graph, so the module
extends `MCStudyLifecycle` and these two theorems have a hypothesis, `Rq024Graph`:
the program is the graph that module writes down.  They hold for every part of
it the runs may pick (`PickedAssumption`: the three behavior discoveries, and
with a study its sources) and all outcomes.  A gate is evaluated once, at pool
access, and the studies it looked at may be redone afterwards, so neither seal is
inductive.  `DiscoveriesSettled` closes the gap: the gate of a behavior
confirmation waits for a result of SEMANTIC-DISCOVERY, which was admitted only
on *valid* results of the two discoveries that activate confirmations.  A valid
result is final, so after the first access nothing can be activated any more.

**CampaignReducer_proofs.**  `ReducerInvariant` is the types of the control
state and a bookkeeping invariant, which is inductive where the checked
invariants are not: charged attempts, results and locks are all tied to the
lock the study holds.  The key part is `ChargedLockIsCurrent`: the reducer
accepts any lock event of a study as the lock of an attempt or a result, and
only because an older lock has lost its reservation does this do no harm.  From
it follow `ResultStandsOnAccess`, `TerminalOnlyByRelease` and, with an invariant
of its own, `RunsOnCitedPredecessors` (for studies whose positive sources are
also required to be completed).  `TrialHistoryPreserved` is proved from an
invariant about ordinals.  `ImplementsLifecycleHolds` proves the refinement:
one lemma per event that changes the life of a study, all others stutter.  It
needs two facts more (`LifecycleInvariant`): the reservation of a lock is not
released before the pool is accessed, although nothing checks it at access, and
a released reservation left a result.

The budgets are sums over sets of attempts and of reservations, folds in the
model.  What a fold over a finite set does when an element is added or a summand
changes is proved by well-founded induction: the lemma `SmallestSet` says that a
nonempty family of subsets of a finite set has a smallest member, and a smallest
subset on which the fold is wrong is impossible.  From these lemmas follow
`TypeOK` with its sums, `AttemptsWithinReservation` (a start adds a request that
fits, a close replaces it by a use that is not larger), and `ImplementsBudget`:
every event holds, releases or leaves alone the sums over active and released
reservations as `CampaignBudget` describes, its ceilings and hardware limit
included.  That the accounts are naturals, stay within the ceilings and that
charges only grow are then theorems about the reducer.

**EventLedger_proofs.**  `LedgerVerifies` by an inductive invariant: whoever is
in its critical section listed exactly the files that are there, and a file to
be linked is the next of the chain.  `ReadersSeePrefix`: a subset of a chain
that verifies is a prefix of it, so what a racing listing shows is either
refused or a prefix.  From both, `ImplementsLogHolds`.

**FoundationDriver_proofs.**  Types, `OneRollout`, `RolloutIsLedgered`,
`CompletedOnce` and `TraceKept`, for any number of drivers, trials and crashes.
None of them is inductive: that a rollout is alone depends on what the next
driver finds in the ledger after the last one died.  The invariant has two
halves.  *Records* relates ledger, disk and captures: only the last attempt may
be open, and never one of a completed trial; a rollout belongs to an open attempt
of a trial without a trace; a driver has at most one capture.  *Conduct* is what
a driver in each phase relies on: it works exactly while it holds the flock;
between reconciling and starting an attempt nothing is open; when it starts an
attempt, and after its capture ended, no rollout runs; the trial it checked or
started has no trace; a capture it owns is the only rollout.

**CacheManager_proofs.**  `TypeOK`, `FreshRead`, `BuildsOnce` and
`ImplementsCopy`, for any number of workers, deaths, builds and source versions.
The invariant says what each holder of the lock finds in the three directories
(`Layout`: after the recovery, while building, with the predecessor stashed,
while the pruner removes), that a manifest never claims more than its arrays
(`Versioned`), that tables older than the arrays were held by the builder
(`TablesRead`), and that only a death within an `rmtree` leaves data that is not
whole (`DamageIsTransient`).  `FreshRead` needs `ReadersCovered`: a reader holds no
lock while it goes from the checked path to the data, so not only the entry but
also the stash and the build, which a recovery or a commit may move there, have
to be as new as it asked for.  The refinement maps the copy callers see to the
entry, or to the stash while there is no entry: a build, the first rename of a
commit and a death between the two then stutter, a rename that brings a whole
entry or an older stash into view publishes, and only the pruner removes.

**DashboardState_proofs.**  `TypeOK`, `SignatureVouches`, `ReadYourWrites` and
`LockedSavesKeepRows`, for any number of analyses of either kind, of posts and of
deaths.  `SignatureVouches` is not inductive, because a row can change between
the moment the dataset was signed and the one it is read: the invariant adds
that such a row belongs to an analysis that has not recorded its run yet, so the
signature will still move (`Pending`, `MemoVouches`), and that nothing is read from
a dataset before it is signed (`UnreadAtStart`).  The start-up is part of it: the
theorem excepts only a dataset that is still the one the constructor opened, and
only if something was written before it was signed.  For the index it adds that a
saver that is about to write has read the rows that are there, except for the
outputs a label builder finished meanwhile (`SnapIsRows`), and what a label
builder that is alone cannot drop (`AloneKeepsRows`).  The first form of
`LockedSavesKeepRows` turned out false with two label builders, an instance no
run has; see `dashboard`.

**PatchStudy_proofs.**  Types, `ResultsMatchActions`, `ResultsStick` and
`ArtifactAccountsForPlan`, for every plan, set of values and number of deaths.
The invariant adds `TrialInHand`: at each step what has been written of the
current trial, e.g. that the array holds what was measured when the result is
written.  An array with data is never rewritten, so a later run either measures
the same or fails.  For the artifact a second invariant, `Accounting`, goes on
from the first: every trial of a pair the runner has left behind has a result or
a failure record, a failure record is only dropped for a trial that has its
result, and the plan is finalized only past its last pair.

**EpisodeStore_proofs.**  Types, `ReferencesLead` and `ReferencesStay`, for every
plan, any number of kills, and with `--force`; `SkippedAreWhole` without it.  `ReferencesLead` is not
inductive: a kill can leave a reference whose episode has no metadata, and the
index of that episode then looks free.  No other trace takes it only because
of the order of the plan.  The invariant says so: `PlanOrder` (a trace is
referenced after all before it), `Repaired` (what the batch has passed is
referenced and has its episode), `IndexIsOwn` (the index written under is its
trace's own or nobody's).  The lemma `NoneLost` combines them: when a trace
without reference is captured, those before it are repaired and those after it
have none, so no row is without episode and the next index is really new.

`SkippedAreWhole` needs to know why a half-written recapture is never skipped.
Without `--force` a command runs only when a trace of it has no reference; a
kill while it recaptures the traces before that one leaves files of two
rollouts, but the command stays incomplete and runs again.  The invariant says
that a command all of whose traces are referenced is whole (`WholeOrBlocked`),
up to the states no batch gets past any more (`Blocked`), and that a command that
runs has a trace without reference (`RunsForNew`).  The hypothesis of the theorem
is `Forced = FALSE`, that nobody passes `--force`.

*Assumptions*.  Besides types, the modules assume that there are finitely many
attempts and reservations (the ids of one ledger), finitely many analyses, and
that a capture command has a trace (commands are groups of planned traces,
`batch_capture.py:470`).

*Only model-checked*: liveness under fairness (`EveryEntryFinishes`,
`AppendsEnd`, `CatchesUp`, `CapturedUnlessStuck` and `CompletesUnlessStuck` of the
driver and of patch studies), which is outside this prover's reach.  Every
invariant and action property a passing run checks, and every refinement, is
proved.

## Disagreements found

Three are runs that fail on one property, with a short counterexample.

- **phasetwo** — the phase-two gate takes a branch whose source is not positive
  *yet* for one that is never activated (`research_state.py:2057`), and opens
  for one confirmation while another may still be activated and locked later.
- **lostrow** — label builders read and rewrite the artifact index without the
  lock that `save_artifact` takes (`policy_call_labels.py:269`, likewise
  `object_flow.py:152`, `interaction_metrics.py:131`); a row saved meanwhile is
  gone, which `docs/cache-management.md:75` excludes.
- **reopen** — a capture killed between overlay and reference leaves an episode
  that nobody refers to; the recapture takes the next index
  (`dataset/writer.py:84`) and two episodes name one trace.  The root cannot be
  opened any more, while later batches skip the trace as existing.

Others were met while modelling.  The models contain them; no run is devoted to
each.

- Attempts may start after their reservation has a result or is released
  (`research_state.py:1057`); their use is charged nowhere.
- A campaign can deadlock at `discovery_sealed`.  A reservation is released only
  with a result, a result needs pool access, and the gate waits until every
  activated confirmation is locked; the program allows one active hardware child
  (`configs/campaigns/rq024_controlled_scene_to_behavior.yaml:1677`), so when both
  behavior discoveries are positive and the confirmations reserve hardware, the
  first holds the only slot and the second can neither reserve nor lock, although
  the `branch_rule` of the program says "both branches activate independently".
  Storage held at a gate does the same.  No event gives a reservation back without
  a result (`release_without_result`, `research_state.py:1482`).
- A second reservation of a study that finished is never released: releasing it
  takes a result and the study has its own.  Its slot and budget are lost.
- A child can be locked on a released reservation (`research_state.py:765`); its
  study then can neither be authorized nor locked again.  `EveryEntryFinishes`
  excepts these three.
- `campaign_status` advises a release the reducer refuses when a finished study
  has a second active reservation (`research_state.py:331`).
- A study that needs any one of two positive sources is eligible after the
  first, but its child must cite a result of both (`research_child.py:678`).
- A failed attempt that left a trace blocks its trial for good
  (`rq024_foundation_execution.py:219`); this is one of the exceptions of
  `CompletesUnlessStuck`.
- A patch trial that completed and whose indexing then raised has a failure
  record that no retry removes, since it is not pending
  (`patch_study_store.py:192`), although `docs/interventions.md:56` retains
  failures for explicit retry; an array created and never filled fails every
  rerun (`patch_study_store.py:486`).
- The validators of cached Zarr arrays pass a directory with chunks missing
  (`selectors.py:684`), so after a death within an `rmtree` a read may return
  fill values; `FreshRead` excepts this case by `cut`.
- A process that keeps its dataset open publishes old rows under a new
  fingerprint: tables are remembered (`traces/bundle.py:248`), the fingerprint
  looks at the files (`selectors.py:676`).  The entry stays valid for every other
  process, whose dataset may be fresh, although `cache.py:3` says freshness is
  checked against the source data, "rebuilding when its inputs change".  A second
  try of one call can do the same with the tables of the first.  `FreshRead`
  excepts this case by `held`.
- The dashboard's constructor opens the dataset and signs it afterwards
  (`server/state.py:39`), a refresh the other way round.  What an analysis writes
  in between has the signature the server remembers and is not noticed before the
  next write, although the class says that the dataset is refreshed when files
  change (`state.py:31`).  `SignatureVouches` excepts this case by `missed`.

## Order of work

What decides over the whole campaign came first, then what spends hardware, then
the stores: (1) `CampaignProgram`, `StudyLifecycle`; (2) `CampaignBudget`,
`CampaignReducer` and its refinements; (3) `CampaignLog`, `EventLedger`;
(4) `FoundationDriver`; (5) `ManagedCopy`, `CacheManager`; (6) `ArtifactStore`,
`DashboardState`; (7) `PatchStudy`; (8) `EpisodeStore`; proofs beside each.
Left for further work: an instance of `CampaignReducer` with two alternative
sources of which one is redone (`research_state.py:521`), and the composition of the
driver's attempts with the reducer's.

## Not modelled

- `campaign_status`: its result is text and decides nothing.
- `deviation_recorded`, `study_advanced`, `study_superseded` and
  `blocker_recorded` events: they extend the ledger and change nothing the
  modelled guards read.
- Validation of documents (`research_plan.py`, most of `research_child.py`,
  `research_audit.py`): pure functions of one document.
- The claim of an output directory (`validate_research_child.py:384`): `mkdir`,
  then a marker.  A directory without marker is refused by every later preflight
  (`docs/autonomous-research-campaigns.md:128`), so a crash fails closed and
  there is no interleaving left to go wrong.
- The budget of the driver beyond rollouts; its evidence documents.
- Replay renderers and video of the server: caches of a function of an episode.
- Writes that fail for lack of space, and file systems without atomic link and
  rename.  Several batches on one capture root at a time: the code has no lock
  against it and no document speaks of it.
- Probes, analyses, studies, policy capture, interventions below the store, the
  workbench, other handlers, the command lines and the frontend.  This is most
  of the repository by size: numerical code over arrays, renderings and pure
  request handlers, without state that outlives a call or a second actor.
