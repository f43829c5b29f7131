--------------------------- MODULE ArtifactStore ---------------------------
(***************************************************************************)
(* The artifacts of one dataset root and the processes that write them:    *)
(* probe suites, which only call save_artifact (traces/dataset.py), and    *)
(* label builders (pi05/policy_call_labels.py, object_flow.py,             *)
(* interaction_metrics.py), which then rewrite what they saved with the    *)
(* paths of their tables, in place and without the lock.  Both record the  *)
(* run and rebuild the dashboard index (dataset/index.py).                 *)
(*                                                                         *)
(* A parquet file written in place cannot be read until it is complete.    *)
(* A process can die between any two steps.                                *)
(***************************************************************************)
EXTENDS Naturals, FiniteSets

CONSTANTS
    Suites,      \* analyses that save their artifact once, under the lock
    Labelers,    \* analyses that save it, then rewrite it with their outputs
    NoOne,       \* holder of a free lock
    MaxCrashes   \* bound: deaths of a process

Analyses == Suites \union Labelers

ASSUME StoreAssumption ==
    /\ IsFiniteSet(Suites) /\ IsFiniteSet(Labelers)
    /\ Suites \intersect Labelers = {}
    /\ NoOne \notin Analyses
    /\ MaxCrashes \in Nat

VARIABLES
    pc,        \* what each analysis does next
    snap,      \* the table an analysis has read and not yet written
    lock,      \* holder of .locks/dataset-artifacts.lock
    rows,      \* artifact_index.parquet: 0 no row, 1 saved, 2 with outputs
    torn,      \* analyses that write that file in place, or died doing so
    runs,      \* analyses with a run record under workbench/
    table,     \* dashboard_artifact_index.parquet
    tableTorn, \* it is being written, or its writer died
    count,     \* rows of that table according to index_manifest.json
    mtime,     \* latest change of the files behind the dashboard's signature
    crashes

storeVars == <<pc, snap, lock, rows, torn, runs, table, tableTorn, count, mtime, crashes>>

Tables == [Analyses -> 0..2]
NoRows == [a \in Analyses |-> 0]
RowCount(t) == Cardinality({a \in Analyses : t[a] > 0})

Labels == {"start", "read", "write", "reread", "begin", "finish", "record",
           "scan", "table", "tabled", "manifest", "done", "failed", "dead"}

StoreTypeOK ==
    /\ pc \in [Analyses -> Labels]
    /\ snap \in [Analyses -> Tables]
    /\ lock \in Analyses \union {NoOne}
    /\ rows \in Tables /\ table \in Tables
    /\ torn \in SUBSET Labelers
    /\ runs \in SUBSET Analyses
    /\ tableTorn \in BOOLEAN
    /\ count \in 0..Cardinality(Analyses)
    /\ mtime \in Nat
    /\ crashes \in 0..MaxCrashes

StoreInit ==
    /\ pc = [a \in Analyses |-> "start"]
    /\ snap = [a \in Analyses |-> NoRows]
    /\ lock = NoOne
    /\ rows = NoRows /\ table = NoRows
    /\ torn = {} /\ runs = {}
    /\ tableTorn = FALSE
    /\ count = 0 /\ mtime = 0 /\ crashes = 0

Goto(a, label) == pc' = [pc EXCEPT ![a] = label]

-----------------------------------------------------------------------------
(* save_artifact: the index is read and replaced under the lock            *)

\* Fault: the lock does not exclude.
AcquireShared(a) ==
    /\ pc[a] = "start"
    /\ lock' = a
    /\ Goto(a, "read")
    /\ UNCHANGED <<snap, rows, torn, runs, table, tableTorn, count, mtime, crashes>>

Acquire(a) ==
    /\ pc[a] = "start" /\ lock = NoOne
    /\ lock' = a
    /\ Goto(a, "read")
    /\ UNCHANGED <<snap, rows, torn, runs, table, tableTorn, count, mtime, crashes>>

ReadIndex(a) ==
    /\ pc[a] = "read"
    /\ torn = {}
    /\ snap' = [snap EXCEPT ![a] = rows]
    /\ Goto(a, "write")
    /\ UNCHANGED <<lock, rows, torn, runs, table, tableTorn, count, mtime, crashes>>

\* The rename puts a complete file in the place of whatever is there.
ReplaceIndex(a) ==
    /\ pc[a] = "write"
    /\ rows' = [snap[a] EXCEPT ![a] = 1]
    /\ torn' = {}
    /\ lock' = NoOne
    /\ Goto(a, IF a \in Labelers THEN "reread" ELSE "record")
    /\ snap' = [snap EXCEPT ![a] = NoRows]
    /\ UNCHANGED <<runs, table, tableTorn, count, mtime, crashes>>

\* The index is unreadable: the exception releases the lock and ends the run.
ReadFails(a) ==
    /\ pc[a] \in {"read", "reread", "scan"}
    /\ torn # {}
    /\ lock' = IF lock = a THEN NoOne ELSE lock
    /\ Goto(a, "failed")
    /\ snap' = [snap EXCEPT ![a] = NoRows]
    /\ UNCHANGED <<rows, torn, runs, table, tableTorn, count, mtime, crashes>>

-----------------------------------------------------------------------------
(* Label builders: the row is rewritten in place, without the lock         *)

Reread(a) ==
    /\ pc[a] = "reread"
    /\ torn = {}
    /\ snap' = [snap EXCEPT ![a] = rows]
    /\ Goto(a, "begin")
    /\ UNCHANGED <<lock, rows, torn, runs, table, tableTorn, count, mtime, crashes>>

BeginRewrite(a) ==
    /\ pc[a] = "begin"
    /\ torn' = torn \union {a}
    /\ Goto(a, "finish")
    /\ UNCHANGED <<snap, lock, rows, runs, table, tableTorn, count, mtime, crashes>>

\* If the file was replaced meanwhile, the rest goes to a file without a name;
\* if another one still writes the same file, it stays unreadable.
FinishRewrite(a) ==
    /\ pc[a] = "finish"
    /\ rows' = IF torn = {a} THEN [snap[a] EXCEPT ![a] = 2] ELSE rows
    /\ torn' = IF torn = {a} THEN {} ELSE torn
    /\ Goto(a, "record")
    /\ snap' = [snap EXCEPT ![a] = NoRows]
    /\ UNCHANGED <<lock, runs, table, tableTorn, count, mtime, crashes>>

-----------------------------------------------------------------------------
(* save_analysis_run and build_dataset_index                               *)

\* A label builder rebuilds the index only if it is asked to.
RecordRun(a) ==
    /\ pc[a] = "record"
    /\ runs' = runs \union {a}
    /\ mtime' = mtime + 1
    /\ \/ Goto(a, "scan")
       \/ a \in Labelers /\ Goto(a, "done")
    /\ UNCHANGED <<snap, lock, rows, torn, table, tableTorn, count, crashes>>

Scan(a) ==
    /\ pc[a] = "scan"
    /\ torn = {}
    /\ snap' = [snap EXCEPT ![a] = rows]
    /\ Goto(a, "table")
    /\ UNCHANGED <<lock, rows, torn, runs, table, tableTorn, count, mtime, crashes>>

BeginTable(a) ==
    /\ pc[a] = "table"
    /\ tableTorn' = TRUE
    /\ mtime' = mtime + 1
    /\ Goto(a, "tabled")
    /\ UNCHANGED <<snap, lock, rows, torn, runs, table, count, crashes>>

EndTable(a) ==
    /\ pc[a] = "tabled"
    /\ table' = snap[a]
    /\ tableTorn' = FALSE
    /\ mtime' = mtime + 1
    /\ Goto(a, "manifest")
    /\ UNCHANGED <<snap, lock, rows, torn, runs, count, crashes>>

WriteManifest(a) ==
    /\ pc[a] = "manifest"
    /\ count' = RowCount(snap[a])
    /\ mtime' = mtime + 1
    /\ Goto(a, "done")
    /\ snap' = [snap EXCEPT ![a] = NoRows]
    /\ UNCHANGED <<lock, rows, torn, runs, table, tableTorn, crashes>>

Crash(a) ==
    /\ pc[a] \notin {"start", "done", "failed", "dead"}
    /\ crashes < MaxCrashes
    /\ crashes' = crashes + 1
    /\ lock' = IF lock = a THEN NoOne ELSE lock
    /\ Goto(a, "dead")
    /\ snap' = [snap EXCEPT ![a] = NoRows]
    /\ UNCHANGED <<rows, torn, runs, table, tableTorn, count, mtime>>

AnalysisStep(a) ==
    \/ Acquire(a) \/ ReadIndex(a) \/ ReplaceIndex(a) \/ ReadFails(a)
    \/ Reread(a) \/ BeginRewrite(a) \/ FinishRewrite(a)
    \/ RecordRun(a) \/ Scan(a) \/ BeginTable(a) \/ EndTable(a) \/ WriteManifest(a)

StoreNext == \E a \in Analyses : AnalysisStep(a) \/ Crash(a)

StoreSpec == StoreInit /\ [][StoreNext]_storeVars

-----------------------------------------------------------------------------
(* Properties                                                              *)

\* "Two workers cannot silently overwrite each other's artifact-index row":
\* a row that is in the index stays in it.
RowsStay == [][\A a \in Analyses : rows[a] > 0 => rows'[a] > 0]_storeVars

\* What the lock does keep: a save under it takes rows back only together with
\* what a label builder wrote around it, and takes a row away only where two of
\* them write.
LockedSavesKeepRows ==
    [][\A a \in Analyses :
          rows'[a] < rows[a] =>
              \/ \E l \in Labelers : pc[l] = "finish" /\ pc'[l] = "record"
              \/ \E l \in Labelers :
                    /\ rows[l] = 2 /\ rows'[l] < 2
                    /\ Labelers = {l} => rows'[a] > 0]_storeVars
=============================================================================
