---------------------------- MODULE EpisodeStore ----------------------------
(* Batch capture into one LeRobot root.  vla_lens/pi05/batch_capture.py and   *)
(* plan_capture.py skip the groups of traces that are there and run a capture *)
(* command for the others; vla_lens/dataset/writer.py and overlay.py write an *)
(* episode as a series of files, in place.  Any process may be killed between *)
(* two writes or within one; the batch is then run again.                     *)
EXTENDS Naturals, Sequences, SequencesExt

CONSTANTS
  Groups,       \* the capture commands: for each one its sequence of traces
  Lengths,      \* lengths a rollout can have; a recapture need not repeat it
  None,
  Cut,          \* a manifest that was cut off while it was written
  Forced,       \* whether runs with --force happen
  MaxCrashes,   \* bound: how often the batch is killed
  MaxIndex      \* bound: episode indices; a crash costs at most one

Traces == UNION {ToSet(Groups[g]) : g \in DOMAIN Groups}

Indices == 0 .. MaxIndex

\* What one rollout leaves under its episode index.
Parts == {"data", "media", "meta", "overlay"}

ASSUME EpisodeAssumption ==
  /\ Groups \in Seq(Seq(Traces))
  \* The plan is grouped by command, sorted by seed, and names no trace twice.
  /\ \A g \in DOMAIN Groups : Groups[g] # <<>>
  /\ \A g, h \in DOMAIN Groups : \A j \in DOMAIN Groups[g], k \in DOMAIN Groups[h] :
       Groups[g][j] = Groups[h][k] => g = h /\ j = k
  /\ {None, Cut} \cap (Lengths \cup Traces \cup Indices) = {} /\ None # Cut
  /\ Forced \in BOOLEAN /\ MaxCrashes \in Nat /\ MaxIndex \in Nat

VARIABLES
  \* files
  meta,         \* meta/episodes: the length of each episode
  manifest,     \* vla_lens/episodes: the trace that the overlay of an episode names
  parts,        \* the parts of an episode that are of its last rollout
  refs,         \* vla_lens/tables/episode_refs.parquet: index of each referenced trace
  torn,         \* <<file, index>>: writes in place that were cut off
  \* the batch
  pc, force,
  group, pos,   \* the command that runs and the trace of it that is captured
  index, length, crashes

files == <<meta, manifest, parts, refs, torn>>
batch == <<pc, force, group, pos, index, length>>
vars == <<files, batch, crashes>>

Init ==
  /\ meta = [i \in Indices |-> None]
  /\ manifest = [i \in Indices |-> None]
  /\ parts = [i \in Indices |-> {}]
  /\ refs = [t \in Traces |-> None]
  /\ torn = {}
  /\ pc = "off" /\ force = FALSE /\ group = 1 /\ pos = 1
  /\ index = 0 /\ length = None
  /\ crashes = 0

Trace == Groups[group][pos]
Written == {i \in Indices : meta[i] # None}

\* A trace whose reference leads to an episode without metadata.
Lost(t) == refs[t] # None /\ refs[t] \notin Written

\* validate_lerobot_v3_dataset: every file reads, every reference leads to an
\* episode.
Valid == torn = {} /\ \A t \in Traces : ~Lost(t)

\* _expected_trace_exists: the root validates, the trace has a reference and
\* the overlay it refers to has a manifest.
Exists(t) == Valid /\ refs[t] # None /\ manifest[refs[t]] # None

\* TraceDataset.open: the root validates, every manifest reads, no trace id is
\* there twice.
Opens ==
  /\ Valid
  /\ \A i \in Written : manifest[i] # Cut
  /\ \A i, j \in Written : i # j /\ manifest[i] # None => manifest[i] # manifest[j]

ProcessEnds ==
  /\ pc' = "off" /\ force' = FALSE /\ group' = 1 /\ pos' = 1
  /\ index' = 0 /\ length' = None

(****************************************************************************)
(* The batch                                                                *)
(****************************************************************************)
Start(f) ==
  /\ pc = "off"
  /\ f => Forced
  /\ force' = f
  /\ pc' = "select"
  /\ UNCHANGED <<files, group, pos, index, length, crashes>>

\* Fault: one trace of the group that exists is enough.
SkipPartly ==
  /\ pc = "select" /\ group <= Len(Groups)
  /\ ~force
  /\ \E t \in ToSet(Groups[group]) : Exists(t)
  /\ group' = group + 1
  /\ UNCHANGED <<files, pc, force, pos, index, length, crashes>>

Skip ==
  /\ pc = "select" /\ group <= Len(Groups)
  /\ ~force
  /\ \A t \in ToSet(Groups[group]) : Exists(t)
  /\ group' = group + 1
  /\ UNCHANGED <<files, pc, force, pos, index, length, crashes>>

RunCommand ==
  /\ pc = "select" /\ group <= Len(Groups)
  /\ force \/ \E t \in ToSet(Groups[group]) : ~Exists(t)
  /\ pos' = 1
  /\ pc' = "rollout"
  /\ UNCHANGED <<files, force, group, index, length, crashes>>

\* The command ends by opening the root; if that fails the batch stops.
EndCommand ==
  /\ pc = "rollout" /\ pos > Len(Groups[group])
  /\ IF Opens
       THEN /\ pc' = "select" /\ group' = group + 1
            /\ UNCHANGED <<force, pos, index, length>>
       ELSE ProcessEnds
  /\ UNCHANGED <<files, crashes>>

EndBatch ==
  /\ pc = "select" /\ group > Len(Groups)
  /\ ProcessEnds
  /\ UNCHANGED <<files, crashes>>

(****************************************************************************)
(* write_lerobot_trace_record                                               *)
(****************************************************************************)
\* A file that every capture reads was cut off: no capture gets past it.
Unreadable == \E f \in torn : f[1] \in {"info", "meta", "refs"}

\* _reject_length_changing_overwrite
Rejected(l) == refs[Trace] # None /\ meta[refs[Trace]] \notin {None, l}

\* _next_episode_index: the one after the last episode that has metadata.
IsNext(i) == (\A j \in Written : j < i) /\ (i = 0 \/ i - 1 \in Written)

\* Fault: the last index is used again.
IsIndexLast(i) ==
  IF refs[Trace] # None THEN i = refs[Trace]
  ELSE (\A j \in Written : j <= i) /\ (i = 0 \/ i \in Written)

\* Fault: a trace that is there gets a new index.
IsIndexNew(i) == IsNext(i)

\* A trace with a reference is written over, any other one takes a new index.
IsIndex(i) == IF refs[Trace] # None THEN i = refs[Trace] ELSE IsNext(i)

Rollout(l) ==
  /\ pc = "rollout" /\ pos <= Len(Groups[group])
  /\ ~Unreadable /\ ~Rejected(l)
  /\ \E i \in Indices : IsIndex(i) /\ index' = i
  /\ length' = l
  /\ pc' = "info"
  /\ UNCHANGED <<files, force, group, pos, crashes>>

RolloutFails ==
  /\ pc = "rollout" /\ pos <= Len(Groups[group])
  /\ Unreadable \/ \E l \in Lengths : Rejected(l)
  /\ ProcessEnds
  /\ UNCHANGED <<files, crashes>>

WriteInfo ==
  /\ pc = "info"
  /\ pc' = "data"
  /\ UNCHANGED <<files, force, group, pos, index, length, crashes>>

\* The files of the last rollout of this index no longer belong together.
WriteData ==
  /\ pc = "data"
  /\ parts' = [parts EXCEPT ![index] = {"data"}]
  /\ torn' = torn \ {<<"data", index>>}
  /\ pc' = "media"
  /\ UNCHANGED <<meta, manifest, refs, force, group, pos, index, length, crashes>>

AddPart(p) == parts' = [parts EXCEPT ![index] = @ \cup {p}]

WriteMedia ==
  /\ pc = "media"
  /\ AddPart("media")
  /\ pc' = "meta"
  /\ UNCHANGED <<meta, manifest, refs, torn, force, group, pos, index, length, crashes>>

WriteMeta ==
  /\ pc = "meta"
  /\ meta' = [meta EXCEPT ![index] = length]
  /\ AddPart("meta")
  /\ pc' = "stats"
  /\ UNCHANGED <<manifest, refs, torn, force, group, pos, index, length, crashes>>

\* The statistics are taken over the data of all episodes.
WriteStats ==
  /\ pc = "stats"
  /\ IF torn = {} THEN pc' = "overlay" /\ UNCHANGED <<force, group, pos, index, length>>
                  ELSE ProcessEnds
  /\ UNCHANGED <<files, crashes>>

\* TraceBundle.create with overwrite: the directory is removed, made again with
\* its manifest first, and filled.
RemoveOverlay ==
  /\ pc = "overlay"
  /\ manifest' = [manifest EXCEPT ![index] = None]
  /\ pc' = "manifest"
  /\ UNCHANGED <<meta, parts, refs, torn, force, group, pos, index, length, crashes>>

WriteManifest ==
  /\ pc = "manifest"
  /\ manifest' = [manifest EXCEPT ![index] = Trace]
  /\ pc' = "arrays"
  /\ UNCHANGED <<meta, parts, refs, torn, force, group, pos, index, length, crashes>>

WriteArrays ==
  /\ pc = "arrays"
  /\ AddPart("overlay")
  /\ pc' = "refs"
  /\ UNCHANGED <<meta, manifest, refs, torn, force, group, pos, index, length, crashes>>

WriteRef ==
  /\ pc = "refs"
  /\ refs' = [t \in Traces |-> IF t = Trace THEN index
                               ELSE IF refs[t] = index THEN None ELSE refs[t]]
  /\ pc' = "counts"
  /\ UNCHANGED <<meta, manifest, parts, torn, force, group, pos, index, length, crashes>>

RefreshCounts ==
  /\ pc = "counts"
  /\ pos' = pos + 1
  /\ pc' = "rollout"
  /\ UNCHANGED <<files, force, group, index, length, crashes>>

\* The tables written in place, by the step that writes them.
InPlace == [info |-> "info", data |-> "data", meta |-> "meta", refs |-> "refs",
            counts |-> "info"]

\* Killed between two writes, or within one: what it wrote is cut off, or a
\* table is removed and its successor not begun.
Crash ==
  /\ pc # "off" /\ crashes < MaxCrashes
  /\ crashes' = crashes + 1
  /\ \/ UNCHANGED <<meta, manifest, parts, torn>>
     \/ /\ pc \in DOMAIN InPlace
        /\ torn' = torn \cup {<<InPlace[pc], index>>}
        /\ UNCHANGED <<meta, manifest, parts>>
     \/ /\ pc = "data"
        /\ parts' = [parts EXCEPT ![index] = {}]
        /\ torn' = torn \ {<<"data", index>>}
        /\ UNCHANGED <<meta, manifest>>
     \/ /\ pc = "meta"
        /\ meta' = [meta EXCEPT ![index] = None]
        /\ UNCHANGED <<manifest, parts, torn>>
     \/ /\ pc \in {"manifest", "arrays"}
        /\ manifest' = [manifest EXCEPT ![index] = Cut]
        /\ UNCHANGED <<meta, parts, torn>>
  /\ ProcessEnds
  /\ UNCHANGED refs

Write == \/ WriteInfo \/ WriteData \/ WriteMedia \/ WriteMeta \/ WriteStats
         \/ RemoveOverlay \/ WriteManifest \/ WriteArrays \/ WriteRef \/ RefreshCounts

Next ==
  \/ \E f \in BOOLEAN : Start(f)
  \/ Skip \/ RunCommand \/ EndCommand \/ EndBatch
  \/ \E l \in Lengths : Rollout(l)
  \/ RolloutFails \/ Write \/ Crash

Spec == Init /\ [][Next]_vars

\* A batch keeps going.  That it is run again, without --force, and that a
\* rollout does not change its length for ever is what the operator and the
\* hardware owe.
Fairness ==
  /\ SF_vars(Start(FALSE))
  /\ WF_vars(Skip) /\ WF_vars(RunCommand) /\ WF_vars(EndCommand) /\ WF_vars(EndBatch)
  /\ SF_vars(\E l \in Lengths : Rollout(l))
  /\ WF_vars(RolloutFails) /\ WF_vars(Write)

FairSpec == Spec /\ Fairness

-----------------------------------------------------------------------------
(* Properties                                                                *)

TornFiles == {"info", "data", "meta", "refs"}

\* Every variable has the type its comment says.
TypeOK ==
  /\ meta \in [Indices -> Lengths \cup {None}]
  /\ manifest \in [Indices -> Traces \cup {None, Cut}]
  /\ parts \in [Indices -> SUBSET Parts]
  /\ refs \in [Traces -> Indices \cup {None}]
  /\ torn \subseteq TornFiles \X Indices
  /\ pc \in {"off", "select", "rollout", "info", "data", "media", "meta", "stats",
             "overlay", "manifest", "arrays", "refs", "counts"}
  /\ force \in BOOLEAN /\ group \in 1 .. Len(Groups) + 1
  /\ pc \notin {"off", "select"} => group <= Len(Groups)
  /\ pos \in Nat \ {0}
  /\ pc \notin {"off", "select", "rollout"} =>
       pos <= Len(Groups[group]) /\ length # None
  /\ index \in Indices /\ length \in Lengths \cup {None}
  /\ crashes \in 0 .. MaxCrashes

\* The table of references is one to one and no overlay names the trace of
\* another row, wherever earlier batches were killed: also where a kill left a
\* row without its episode, whose index must not go to a new trace.
ReferencesLead ==
  \A t \in Traces : refs[t] # None =>
    /\ manifest[refs[t]] \in {t, None, Cut}
    /\ \A u \in Traces \ {t} : refs[u] # refs[t]

\* docs/remote-gpu-local-analysis.md: "re-running the same command normally
\* skips traces that already exist and are valid".  What is skipped is whole:
\* robot data, video, metadata and overlay are of one rollout.
SkippedAreWhole ==
  [][Skip => \A t \in ToSet(Groups[group]) :
                refs[t] # None /\ parts[refs[t]] = Parts]_vars

\* A trace keeps its episode index: no later capture, rerun or crash moves it
\* or drops its reference.
ReferencesStay ==
  [][\A t \in Traces : refs[t] # None => refs'[t] = refs[t]]_vars

\* What no later batch gets past: a write in place that was cut off, and an
\* episode that lost its metadata after a command that is complete: that command
\* is run again, and ends by validating the root.
Stuck == torn # {} \/ \E t \in Traces \ ToSet(Groups[1]) : Lost(t)

\* A batch that is run again ends up with every trace, unless one of those two
\* conditions has arisen.
CapturedUnlessStuck == <>(Stuck \/ \A t \in Traces : Exists(t))

\* The same sentence, of the root: what the batch skips can be opened.
SkippedCanBeOpened == [][Skip => Opens]_vars
=============================================================================
