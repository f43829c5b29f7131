----------------------- MODULE DashboardState_proofs -----------------------
(* For any number of analyses of either kind, of crashes and of posts: types, *)
(* what the signature vouches for, that a saved note is served, and what the  *)
(* lock of the artifact index keeps.                                          *)
EXTENDS DashboardState, FiniteSetTheorems, TLAPS

-----------------------------------------------------------------------------
(* The inductive invariant of the analyses                                 *)

\* Only label builders come to the steps around the lock.
Roles ==
    \A a \in Analyses : pc[a] \in {"reread", "begin", "finish"} => a \in Labelers

\* A run is recorded after its artifact is saved, and only once.
RecordedLast ==
    \A a \in Analyses :
        pc[a] \in {"start", "read", "write", "reread", "begin", "finish", "record"}
            => a \notin runs

LockHeld == \A a \in Analyses : pc[a] \in {"read", "write"} => lock = a

\* Nobody has seen the outputs of a label builder that has not finished.
OutputsLast ==
    \A a \in Analyses :
        pc[a] \in {"start", "read", "write", "reread", "begin", "finish"} =>
            rows[a] < 2 /\ \A b \in Analyses : snap[b][a] < 2

\* Under the lock the index moves away from what was read only when a label
\* builder finishes, which leaves outputs the reader has not seen.
SnapIsRows ==
    \A b \in Analyses : pc[b] = "write" =>
        \/ snap[b] = rows
        \/ \E l \in Labelers : rows[l] = 2 /\ snap[b][l] < 2

\* A label builder that is alone has its row, and neither its rewrite nor a
\* save under the lock lacks a row that is there.
AloneKeepsRows ==
    \A l \in Labelers : Labelers = {l} =>
        /\ pc[l] = "reread" => rows[l] > 0
        /\ pc[l] \in {"begin", "finish"} =>
               /\ snap[l][l] > 0
               /\ \A c \in Analyses : snap[l][c] > 0 => rows[c] > 0
        /\ \A b, c \in Analyses : pc[b] = "write" /\ rows[c] > 0 => snap[b][c] > 0

StoreInvariant ==
    /\ StoreTypeOK
    /\ Roles
    /\ RecordedLast
    /\ LockHeld
    /\ OutputsLast
    /\ SnapIsRows
    /\ AloneKeepsRows

-----------------------------------------------------------------------------
(* The inductive invariant of the server                                   *)

\* A post is counted from the moment its refresh starts.
PostsFit ==
    /\ request = "post" => server \in {"sign", "compare"}
    /\ notes + waiting + (IF request = "post" THEN 1 ELSE 0) <= MaxPosts

\* No signature is ahead of the files.
Behind ==
    /\ signature <= mtime
    /\ taken <= mtime
    /\ payload # NoPayload => payload.key <= mtime

\* A row whose run is not recorded yet: the signature will move once more.
Pending == \E a \in Analyses : rows[a] > 0 /\ a \notin runs

\* What the open dataset remembers is the index, or the signature will move.
MemoVouches ==
    signature = mtime /\ memo # Unread => memo[1] = rows \/ Pending

AckedAreSaved == acked <= notes

\* Nothing is read from a dataset before it is signed.
UnreadAtStart == server \in {"off", "start"} => memo = Unread

ServerInvariant ==
    /\ PostsFit
    /\ Behind
    /\ MemoVouches
    /\ AckedAreSaved
    /\ UnreadAtStart
    /\ SignatureVouches
    /\ ReadYourWrites

DashboardInvariant == StoreInvariant /\ TypeOK /\ ServerInvariant

-----------------------------------------------------------------------------
(* The analyses keep their invariant                                       *)

\* The rows of a table can be counted.
LEMMA RowCountType ==
  ASSUME NEW t \in Tables
  PROVE  RowCount(t) \in 0..Cardinality(Analyses)
<1>1. IsFiniteSet(Analyses)
  BY StoreAssumption, FS_Union DEF Analyses
<1>2. {a \in Analyses : t[a] > 0} \subseteq Analyses
  OBVIOUS
<1> HIDE DEF Analyses
<1>3. /\ Cardinality(Analyses) \in Nat
      /\ RowCount(t) \in Nat
      /\ RowCount(t) <= Cardinality(Analyses)
  BY <1>1, <1>2, FS_Subset, FS_CardinalityType DEF RowCount
<1> QED
  BY <1>3

LEMMA StoreTypes ==
  ASSUME StoreTypeOK, Roles, StoreNext
  PROVE  StoreTypeOK'
<1> USE DEF StoreTypeOK, Tables, Goto, Labels
<1>0. /\ NoRows \in Tables /\ MaxCrashes \in Nat /\ Labelers \subseteq Analyses
      /\ NoOne \notin Analyses
  BY StoreAssumption DEF NoRows, Analyses
<1>1. ASSUME NEW a \in Analyses, Acquire(a) PROVE StoreTypeOK'
  BY <1>0, <1>1 DEF Acquire
<1>2. ASSUME NEW a \in Analyses, ReadIndex(a) PROVE StoreTypeOK'
  BY <1>0, <1>2 DEF ReadIndex
<1>3. ASSUME NEW a \in Analyses, ReplaceIndex(a) PROVE StoreTypeOK'
  BY <1>0, <1>3 DEF ReplaceIndex
<1>4. ASSUME NEW a \in Analyses, ReadFails(a) PROVE StoreTypeOK'
  BY <1>0, <1>4 DEF ReadFails
<1>5. ASSUME NEW a \in Analyses, Reread(a) PROVE StoreTypeOK'
  BY <1>0, <1>5 DEF Reread
<1>6. ASSUME NEW a \in Analyses, BeginRewrite(a) PROVE StoreTypeOK'
  BY <1>0, <1>6 DEF BeginRewrite, Roles
<1>7. ASSUME NEW a \in Analyses, FinishRewrite(a) PROVE StoreTypeOK'
  BY <1>0, <1>7 DEF FinishRewrite
<1>8. ASSUME NEW a \in Analyses, RecordRun(a) PROVE StoreTypeOK'
  BY <1>0, <1>8 DEF RecordRun
<1>9. ASSUME NEW a \in Analyses, Scan(a) PROVE StoreTypeOK'
  BY <1>0, <1>9 DEF Scan
<1>10. ASSUME NEW a \in Analyses, BeginTable(a) PROVE StoreTypeOK'
  BY <1>0, <1>10 DEF BeginTable
<1>11. ASSUME NEW a \in Analyses, EndTable(a) PROVE StoreTypeOK'
  <2>1. snap[a] \in [Analyses -> 0..2]
    OBVIOUS
  <2>2. table' \in [Analyses -> 0..2]
    BY <1>11, <2>1 DEF EndTable
  <2>3. /\ pc' \in [Analyses -> {"start", "read", "write", "reread", "begin", "finish",
                                "record", "scan", "table", "tabled", "manifest",
                                "done", "failed", "dead"}]
    BY <1>11 DEF EndTable
  <2>4. tableTorn' \in BOOLEAN
    BY <1>11, Zenon DEF EndTable
  <2>5. mtime' \in Nat
    BY <1>11 DEF EndTable
  <2>6. UNCHANGED <<snap, lock, rows, torn, runs, count, crashes>>
    BY <1>11 DEF EndTable
  <2> QED
    BY <2>2, <2>3, <2>4, <2>5, <2>6
<1>12. ASSUME NEW a \in Analyses, WriteManifest(a) PROVE StoreTypeOK'
  <2>1. RowCount(snap[a]) \in 0..Cardinality(Analyses)
    BY RowCountType
  <2> QED
    BY <1>0, <1>12, <2>1 DEF WriteManifest
<1>13. ASSUME NEW a \in Analyses, Crash(a) PROVE StoreTypeOK'
  BY <1>0, <1>13 DEF Crash
<1> QED
  BY <1>1, <1>2, <1>3, <1>4, <1>5, <1>6, <1>7, <1>8, <1>9, <1>10, <1>11,
     <1>12, <1>13 DEF StoreNext, AnalysisStep

\* Only a label builder is sent on to rewrite its row.
LEMMA StepRoles ==
  ASSUME StoreTypeOK, Roles, StoreNext
  PROVE  Roles'
<1> USE DEF StoreTypeOK, Tables, Goto, Roles
<1>1. ASSUME NEW a \in Analyses, Acquire(a) PROVE Roles'
  BY <1>1 DEF Acquire
<1>2. ASSUME NEW a \in Analyses, ReadIndex(a) PROVE Roles'
  BY <1>2 DEF ReadIndex
<1>3. ASSUME NEW a \in Analyses, ReplaceIndex(a) PROVE Roles'
  BY <1>3 DEF ReplaceIndex
<1>4. ASSUME NEW a \in Analyses, ReadFails(a) PROVE Roles'
  BY <1>4 DEF ReadFails
<1>5. ASSUME NEW a \in Analyses, Reread(a) PROVE Roles'
  BY <1>5 DEF Reread
<1>6. ASSUME NEW a \in Analyses, BeginRewrite(a) PROVE Roles'
  BY <1>6 DEF BeginRewrite
<1>7. ASSUME NEW a \in Analyses, FinishRewrite(a) PROVE Roles'
  BY <1>7 DEF FinishRewrite
<1>8. ASSUME NEW a \in Analyses, RecordRun(a) PROVE Roles'
  BY <1>8 DEF RecordRun
<1>9. ASSUME NEW a \in Analyses, Scan(a) PROVE Roles'
  BY <1>9 DEF Scan
<1>10. ASSUME NEW a \in Analyses, BeginTable(a) PROVE Roles'
  BY <1>10 DEF BeginTable
<1>11. ASSUME NEW a \in Analyses, EndTable(a) PROVE Roles'
  BY <1>11 DEF EndTable
<1>12. ASSUME NEW a \in Analyses, WriteManifest(a) PROVE Roles'
  BY <1>12 DEF WriteManifest
<1>13. ASSUME NEW a \in Analyses, Crash(a) PROVE Roles'
  BY <1>13 DEF Crash
<1> QED
  BY <1>1, <1>2, <1>3, <1>4, <1>5, <1>6, <1>7, <1>8, <1>9, <1>10, <1>11,
     <1>12, <1>13 DEF StoreNext, AnalysisStep

\* A run is recorded by the last step that is about the artifact.
LEMMA StepRecordedLast ==
  ASSUME StoreTypeOK, RecordedLast, StoreNext
  PROVE  RecordedLast'
<1> USE DEF StoreTypeOK, Tables, Goto, RecordedLast
<1>1. ASSUME NEW a \in Analyses, Acquire(a) PROVE RecordedLast'
  BY <1>1 DEF Acquire
<1>2. ASSUME NEW a \in Analyses, ReadIndex(a) PROVE RecordedLast'
  BY <1>2 DEF ReadIndex
<1>3. ASSUME NEW a \in Analyses, ReplaceIndex(a) PROVE RecordedLast'
  BY <1>3 DEF ReplaceIndex
<1>4. ASSUME NEW a \in Analyses, ReadFails(a) PROVE RecordedLast'
  BY <1>4 DEF ReadFails
<1>5. ASSUME NEW a \in Analyses, Reread(a) PROVE RecordedLast'
  BY <1>5 DEF Reread
<1>6. ASSUME NEW a \in Analyses, BeginRewrite(a) PROVE RecordedLast'
  BY <1>6 DEF BeginRewrite
<1>7. ASSUME NEW a \in Analyses, FinishRewrite(a) PROVE RecordedLast'
  BY <1>7 DEF FinishRewrite
<1>8. ASSUME NEW a \in Analyses, RecordRun(a) PROVE RecordedLast'
  BY <1>8 DEF RecordRun
<1>9. ASSUME NEW a \in Analyses, Scan(a) PROVE RecordedLast'
  BY <1>9 DEF Scan
<1>10. ASSUME NEW a \in Analyses, BeginTable(a) PROVE RecordedLast'
  BY <1>10 DEF BeginTable
<1>11. ASSUME NEW a \in Analyses, EndTable(a) PROVE RecordedLast'
  BY <1>11 DEF EndTable
<1>12. ASSUME NEW a \in Analyses, WriteManifest(a) PROVE RecordedLast'
  BY <1>12 DEF WriteManifest
<1>13. ASSUME NEW a \in Analyses, Crash(a) PROVE RecordedLast'
  BY <1>13 DEF Crash
<1> QED
  BY <1>1, <1>2, <1>3, <1>4, <1>5, <1>6, <1>7, <1>8, <1>9, <1>10, <1>11,
     <1>12, <1>13 DEF StoreNext, AnalysisStep

\* A save gives the lock back when it leaves it.
LEMMA StepLockHeld ==
  ASSUME StoreTypeOK, LockHeld, StoreNext
  PROVE  LockHeld'
<1> USE DEF StoreTypeOK, Tables, Goto, LockHeld
<1> NoOne \notin Analyses
  BY StoreAssumption
<1>1. ASSUME NEW a \in Analyses, Acquire(a) PROVE LockHeld'
  BY <1>1 DEF Acquire
<1>2. ASSUME NEW a \in Analyses, ReadIndex(a) PROVE LockHeld'
  BY <1>2 DEF ReadIndex
<1>3. ASSUME NEW a \in Analyses, ReplaceIndex(a) PROVE LockHeld'
  BY <1>3 DEF ReplaceIndex
<1>4. ASSUME NEW a \in Analyses, ReadFails(a) PROVE LockHeld'
  BY <1>4 DEF ReadFails
<1>5. ASSUME NEW a \in Analyses, Reread(a) PROVE LockHeld'
  BY <1>5 DEF Reread
<1>6. ASSUME NEW a \in Analyses, BeginRewrite(a) PROVE LockHeld'
  BY <1>6 DEF BeginRewrite
<1>7. ASSUME NEW a \in Analyses, FinishRewrite(a) PROVE LockHeld'
  BY <1>7 DEF FinishRewrite
<1>8. ASSUME NEW a \in Analyses, RecordRun(a) PROVE LockHeld'
  BY <1>8 DEF RecordRun
<1>9. ASSUME NEW a \in Analyses, Scan(a) PROVE LockHeld'
  BY <1>9 DEF Scan
<1>10. ASSUME NEW a \in Analyses, BeginTable(a) PROVE LockHeld'
  BY <1>10 DEF BeginTable
<1>11. ASSUME NEW a \in Analyses, EndTable(a) PROVE LockHeld'
  BY <1>11 DEF EndTable
<1>12. ASSUME NEW a \in Analyses, WriteManifest(a) PROVE LockHeld'
  BY <1>12 DEF WriteManifest
<1>13. ASSUME NEW a \in Analyses, Crash(a) PROVE LockHeld'
  BY <1>13 DEF Crash
<1> QED
  BY <1>1, <1>2, <1>3, <1>4, <1>5, <1>6, <1>7, <1>8, <1>9, <1>10, <1>11,
     <1>12, <1>13 DEF StoreNext, AnalysisStep

\* Outputs get into the index with the step that finishes them.
LEMMA StepOutputsLast ==
  ASSUME StoreTypeOK, OutputsLast, StoreNext
  PROVE  OutputsLast'
<1> USE DEF StoreTypeOK, Tables, Goto, OutputsLast, NoRows
<1>1. ASSUME NEW a \in Analyses, Acquire(a) PROVE OutputsLast'
  BY <1>1 DEF Acquire
<1>2. ASSUME NEW a \in Analyses, ReadIndex(a) PROVE OutputsLast'
  BY <1>2 DEF ReadIndex
<1>3. ASSUME NEW a \in Analyses, ReplaceIndex(a) PROVE OutputsLast'
  BY <1>3 DEF ReplaceIndex
<1>4. ASSUME NEW a \in Analyses, ReadFails(a) PROVE OutputsLast'
  BY <1>4 DEF ReadFails
<1>5. ASSUME NEW a \in Analyses, Reread(a) PROVE OutputsLast'
  BY <1>5 DEF Reread
<1>6. ASSUME NEW a \in Analyses, BeginRewrite(a) PROVE OutputsLast'
  BY <1>6 DEF BeginRewrite
<1>7. ASSUME NEW a \in Analyses, FinishRewrite(a) PROVE OutputsLast'
  BY <1>7 DEF FinishRewrite
<1>8. ASSUME NEW a \in Analyses, RecordRun(a) PROVE OutputsLast'
  BY <1>8 DEF RecordRun
<1>9. ASSUME NEW a \in Analyses, Scan(a) PROVE OutputsLast'
  BY <1>9 DEF Scan
<1>10. ASSUME NEW a \in Analyses, BeginTable(a) PROVE OutputsLast'
  BY <1>10 DEF BeginTable
<1>11. ASSUME NEW a \in Analyses, EndTable(a) PROVE OutputsLast'
  BY <1>11 DEF EndTable
<1>12. ASSUME NEW a \in Analyses, WriteManifest(a) PROVE OutputsLast'
  BY <1>12 DEF WriteManifest
<1>13. ASSUME NEW a \in Analyses, Crash(a) PROVE OutputsLast'
  BY <1>13 DEF Crash
<1> QED
  BY <1>1, <1>2, <1>3, <1>4, <1>5, <1>6, <1>7, <1>8, <1>9, <1>10, <1>11,
     <1>12, <1>13 DEF StoreNext, AnalysisStep

\* Under the lock only a rewrite gets past a save.
LEMMA StepSnapIsRows ==
  ASSUME StoreTypeOK, Roles, LockHeld, OutputsLast, SnapIsRows, StoreNext
  PROVE  SnapIsRows'
<1> USE DEF StoreTypeOK, Tables, Goto, SnapIsRows, NoRows
<1>1. ASSUME NEW a \in Analyses, Acquire(a) PROVE SnapIsRows'
  BY <1>1 DEF Acquire
<1>2. ASSUME NEW a \in Analyses, ReadIndex(a) PROVE SnapIsRows'
  BY <1>2 DEF ReadIndex
<1>3. ASSUME NEW a \in Analyses, ReplaceIndex(a) PROVE SnapIsRows'
  <2>1. ASSUME NEW b \in Analyses PROVE pc'[b] # "write"
    BY <1>3 DEF ReplaceIndex, LockHeld
  <2> QED
    BY <2>1
<1>4. ASSUME NEW a \in Analyses, ReadFails(a) PROVE SnapIsRows'
  BY <1>4 DEF ReadFails
<1>5. ASSUME NEW a \in Analyses, Reread(a) PROVE SnapIsRows'
  BY <1>5 DEF Reread
<1>6. ASSUME NEW a \in Analyses, BeginRewrite(a) PROVE SnapIsRows'
  BY <1>6 DEF BeginRewrite
<1>7. ASSUME NEW a \in Analyses, FinishRewrite(a) PROVE SnapIsRows'
  <2> SUFFICES ASSUME NEW b \in Analyses, pc'[b] = "write"
               PROVE  \/ snap'[b] = rows'
                      \/ \E l \in Labelers : rows'[l] = 2 /\ snap'[b][l] < 2
    OBVIOUS
  <2>1. b # a /\ pc[b] = "write" /\ snap'[b] = snap[b]
    BY <1>7 DEF FinishRewrite
  <2>2. CASE torn = {a}
    <3>1. rows'[a] = 2
      BY <1>7, <2>2 DEF FinishRewrite
    <3>2. a \in Labelers /\ snap[b][a] < 2
      BY <1>7 DEF FinishRewrite, Roles, OutputsLast
    <3> QED
      BY <2>1, <3>1, <3>2
  <2>3. CASE torn # {a}
    <3>1. rows' = rows
      BY <1>7, <2>3 DEF FinishRewrite
    <3> QED
      BY <2>1, <3>1
  <2> QED
    BY <2>2, <2>3
<1>8. ASSUME NEW a \in Analyses, RecordRun(a) PROVE SnapIsRows'
  BY <1>8 DEF RecordRun
<1>9. ASSUME NEW a \in Analyses, Scan(a) PROVE SnapIsRows'
  BY <1>9 DEF Scan
<1>10. ASSUME NEW a \in Analyses, BeginTable(a) PROVE SnapIsRows'
  BY <1>10 DEF BeginTable
<1>11. ASSUME NEW a \in Analyses, EndTable(a) PROVE SnapIsRows'
  BY <1>11 DEF EndTable
<1>12. ASSUME NEW a \in Analyses, WriteManifest(a) PROVE SnapIsRows'
  BY <1>12 DEF WriteManifest
<1>13. ASSUME NEW a \in Analyses, Crash(a) PROVE SnapIsRows'
  BY <1>13 DEF Crash
<1> QED
  BY <1>1, <1>2, <1>3, <1>4, <1>5, <1>6, <1>7, <1>8, <1>9, <1>10, <1>11,
     <1>12, <1>13 DEF StoreNext, AnalysisStep

\* One label builder and any number of locked saves keep every row.
LEMMA StepAloneKeepsRows ==
  ASSUME StoreTypeOK, Roles, LockHeld, AloneKeepsRows, StoreNext
  PROVE  AloneKeepsRows'
<1> USE DEF StoreTypeOK, Tables, Goto, AloneKeepsRows, NoRows
<1>1. ASSUME NEW a \in Analyses, Acquire(a) PROVE AloneKeepsRows'
  BY <1>1 DEF Acquire
<1>2. ASSUME NEW a \in Analyses, ReadIndex(a) PROVE AloneKeepsRows'
  BY <1>2 DEF ReadIndex
<1>3. ASSUME NEW a \in Analyses, ReplaceIndex(a) PROVE AloneKeepsRows'
  <2> SUFFICES ASSUME NEW l \in Labelers, Labelers = {l}
               PROVE  /\ pc'[l] = "reread" => rows'[l] > 0
                      /\ pc'[l] \in {"begin", "finish"} =>
                             /\ snap'[l][l] > 0
                             /\ \A c \in Analyses : snap'[l][c] > 0 => rows'[c] > 0
                      /\ \A b, c \in Analyses :
                            pc'[b] = "write" /\ rows'[c] > 0 => snap'[b][c] > 0
    OBVIOUS
  <2>1. l \in Analyses
    BY DEF Analyses
  <2>2. ASSUME NEW b \in Analyses PROVE pc'[b] # "write"
    BY <1>3 DEF ReplaceIndex, LockHeld
  <2>3. \A c \in Analyses : rows[c] > 0 => rows'[c] > 0
    BY <1>3, <2>1 DEF ReplaceIndex
  <2>4. rows'[a] > 0
    BY <1>3 DEF ReplaceIndex
  <2>5. CASE a = l
    BY <1>3, <2>1, <2>2, <2>4, <2>5 DEF ReplaceIndex
  <2>6. CASE a # l
    <3>1. pc'[l] = pc[l] /\ snap'[l] = snap[l]
      BY <1>3, <2>1, <2>6 DEF ReplaceIndex
    <3> QED
      BY <2>1, <2>2, <2>3, <3>1
  <2> QED
    BY <2>5, <2>6
<1>4. ASSUME NEW a \in Analyses, ReadFails(a) PROVE AloneKeepsRows'
  BY <1>4 DEF ReadFails
<1>5. ASSUME NEW a \in Analyses, Reread(a) PROVE AloneKeepsRows'
  BY <1>5 DEF Reread
<1>6. ASSUME NEW a \in Analyses, BeginRewrite(a) PROVE AloneKeepsRows'
  BY <1>6 DEF BeginRewrite
<1>7. ASSUME NEW a \in Analyses, FinishRewrite(a) PROVE AloneKeepsRows'
  BY <1>7 DEF FinishRewrite
<1>8. ASSUME NEW a \in Analyses, RecordRun(a) PROVE AloneKeepsRows'
  <2>1. rows' = rows /\ snap' = snap
    BY <1>8 DEF RecordRun
  <2>2. \A b \in Analyses : \A s \in {"reread", "begin", "finish", "write"} :
          pc'[b] = s => pc[b] = s
    BY <1>8 DEF RecordRun
  <2>3. Labelers \subseteq Analyses
    BY DEF Analyses
  <2> QED
    BY <2>1, <2>2, <2>3
<1>9. ASSUME NEW a \in Analyses, Scan(a) PROVE AloneKeepsRows'
  BY <1>9 DEF Scan
<1>10. ASSUME NEW a \in Analyses, BeginTable(a) PROVE AloneKeepsRows'
  BY <1>10 DEF BeginTable
<1>11. ASSUME NEW a \in Analyses, EndTable(a) PROVE AloneKeepsRows'
  BY <1>11 DEF EndTable
<1>12. ASSUME NEW a \in Analyses, WriteManifest(a) PROVE AloneKeepsRows'
  BY <1>12 DEF WriteManifest
<1>13. ASSUME NEW a \in Analyses, Crash(a) PROVE AloneKeepsRows'
  BY <1>13 DEF Crash
<1> QED
  BY <1>1, <1>2, <1>3, <1>4, <1>5, <1>6, <1>7, <1>8, <1>9, <1>10, <1>11,
     <1>12, <1>13 DEF StoreNext, AnalysisStep

LEMMA StoreInvariantStep ==
  ASSUME StoreInvariant, StoreNext
  PROVE  StoreInvariant'
BY StoreTypes, StepRoles, StepRecordedLast, StepLockHeld, StepOutputsLast,
   StepSnapIsRows, StepAloneKeepsRows DEF StoreInvariant

LEMMA StoreInvariantStutter ==
  ASSUME StoreInvariant,
         UNCHANGED <<pc, snap, lock, rows, torn, runs, table, tableTorn, count, crashes>>,
         mtime' \in Nat
  PROVE  StoreInvariant'
BY DEF StoreInvariant, StoreTypeOK, Roles, RecordedLast, LockHeld, OutputsLast,
       SnapIsRows, AloneKeepsRows

LEMMA StoreInvariantStart ==
  ASSUME StoreInit
  PROVE  StoreInvariant
<1> USE DEF StoreInit
<1>1. /\ NoRows \in Tables /\ MaxCrashes \in Nat /\ Labelers \subseteq Analyses
      /\ NoRows \in [Analyses -> 0..2]
      /\ Cardinality(Analyses) \in Nat
  <2>1. IsFiniteSet(Analyses)
    BY StoreAssumption, FS_Union DEF Analyses
  <2> QED
    BY <2>1, FS_CardinalityType, StoreAssumption DEF NoRows, Tables, Analyses
<1>2. StoreTypeOK
  <2>1. pc \in [Analyses -> Labels] /\ snap \in [Analyses -> Tables]
    BY <1>1 DEF Labels
  <2>2. count \in 0..Cardinality(Analyses)
    BY <1>1
  <2>3. /\ rows \in Tables /\ table \in Tables
        /\ torn \in SUBSET Labelers /\ runs \in SUBSET Analyses
        /\ lock \in Analyses \union {NoOne}
    BY <1>1
  <2>4. mtime \in Nat /\ crashes \in 0..MaxCrashes
    BY <1>1
  <2>5. tableTorn \in BOOLEAN
    BY Zenon
  <2> QED
    BY <2>1, <2>2, <2>3, <2>4, <2>5 DEF StoreTypeOK
<1>3. Roles /\ RecordedLast /\ LockHeld /\ SnapIsRows
  BY DEF Roles, RecordedLast, LockHeld, SnapIsRows
<1>4. OutputsLast
  BY DEF OutputsLast, NoRows
<1>5. AloneKeepsRows
  BY <1>1 DEF AloneKeepsRows, NoRows
<1> QED
  BY <1>2, <1>3, <1>4, <1>5 DEF StoreInvariant

-----------------------------------------------------------------------------
(* What the lock keeps                                                     *)

\* One save under the lock.
LEMMA LockedSave ==
  ASSUME StoreInvariant, NEW b \in Analyses, ReplaceIndex(b),
         NEW a \in Analyses, rows'[a] < rows[a]
  PROVE  \E l \in Labelers :
            /\ rows[l] = 2 /\ rows'[l] < 2
            /\ Labelers = {l} => rows'[a] > 0
<1> USE DEF StoreInvariant
<1>1. /\ pc[b] = "write"
      /\ rows[b] < 2
      /\ rows \in [Analyses -> 0..2] /\ snap[b] \in [Analyses -> 0..2]
      /\ rows' = [snap[b] EXCEPT ![b] = 1]
      /\ Labelers \subseteq Analyses
  BY DEF ReplaceIndex, OutputsLast, StoreTypeOK, Tables, Analyses
<1>2. a # b
  BY <1>1
<1>3. snap[b] # rows
  BY <1>1, <1>2
<1>4. PICK l \in Labelers : rows[l] = 2 /\ snap[b][l] < 2
  BY <1>1, <1>3 DEF SnapIsRows
<1>5. rows'[l] < 2
  BY <1>1, <1>4
<1>6. ASSUME Labelers = {l} PROVE rows'[a] > 0
  <2>1. rows[a] > 0
    BY <1>1
  <2>2. snap[b][a] > 0
    BY <1>1, <1>6, <2>1 DEF AloneKeepsRows
  <2> QED
    BY <1>1, <1>2, <2>2
<1> QED
  BY <1>4, <1>5, <1>6

LEMMA RowsUntouched ==
  ASSUME StoreInvariant, StoreNext, rows' # rows
  PROVE  \E a \in Analyses : ReplaceIndex(a) \/ FinishRewrite(a)
BY DEF StoreNext, AnalysisStep, Acquire, ReadIndex, ReadFails, Reread, BeginRewrite,
       RecordRun, Scan, BeginTable, EndTable, WriteManifest, Crash

LEMMA LockedSavesStep ==
  ASSUME StoreInvariant, StoreNext \/ rows' = rows
  PROVE  \A a \in Analyses :
            rows'[a] < rows[a] =>
                \/ \E l \in Labelers : pc[l] = "finish" /\ pc'[l] = "record"
                \/ \E l \in Labelers :
                      /\ rows[l] = 2 /\ rows'[l] < 2
                      /\ Labelers = {l} => rows'[a] > 0
<1> SUFFICES ASSUME NEW a \in Analyses, rows'[a] < rows[a]
             PROVE  \/ \E l \in Labelers : pc[l] = "finish" /\ pc'[l] = "record"
                    \/ \E l \in Labelers :
                          /\ rows[l] = 2 /\ rows'[l] < 2
                          /\ Labelers = {l} => rows'[a] > 0
  OBVIOUS
<1>1. rows' # rows
  BY DEF StoreInvariant, StoreTypeOK, Tables
<1>2. PICK b \in Analyses : ReplaceIndex(b) \/ FinishRewrite(b)
  BY <1>1, RowsUntouched
<1>3. CASE ReplaceIndex(b)
  BY <1>3, LockedSave
<1>4. CASE FinishRewrite(b)
  BY <1>4 DEF FinishRewrite, Goto, StoreInvariant, StoreTypeOK, Roles
<1> QED
  BY <1>2, <1>3, <1>4

-----------------------------------------------------------------------------
(* The server                                                              *)

\* While the signature of the files stays, so do the rows whose runs are
\* recorded: a row that is written is one whose run will move the signature.
LEMMA FilesMoveOn ==
  ASSUME StoreInvariant, StoreNext
  PROVE  /\ mtime' >= mtime
         /\ mtime' = mtime => (rows' = rows /\ runs' = runs) \/ Pending'
<1> USE DEF StoreInvariant, StoreTypeOK, Tables, Goto
<1>1. ASSUME NEW a \in Analyses, ReplaceIndex(a)
      PROVE  mtime' = mtime /\ Pending'
  BY <1>1 DEF ReplaceIndex, RecordedLast, Pending
<1>2. ASSUME NEW a \in Analyses, FinishRewrite(a)
      PROVE  /\ mtime' = mtime
             /\ (rows' = rows /\ runs' = runs) \/ Pending'
  BY <1>2 DEF FinishRewrite, RecordedLast, Pending
<1>3. ASSUME NEW a \in Analyses,
             \/ Acquire(a) \/ ReadIndex(a) \/ ReadFails(a) \/ Reread(a)
             \/ BeginRewrite(a) \/ Scan(a) \/ Crash(a)
      PROVE  mtime' = mtime /\ rows' = rows /\ runs' = runs
  BY <1>3 DEF Acquire, ReadIndex, ReadFails, Reread, BeginRewrite, Scan, Crash
<1>4. ASSUME NEW a \in Analyses,
             RecordRun(a) \/ BeginTable(a) \/ EndTable(a) \/ WriteManifest(a)
      PROVE  mtime' = mtime + 1
  BY <1>4 DEF RecordRun, BeginTable, EndTable, WriteManifest
<1> QED
  BY <1>1, <1>2, <1>3, <1>4 DEF StoreNext, AnalysisStep

\* The signature vouches unless a row is pending.
LEMMA Vouching ==
  SignatureVouches <=>
    /\ signature = mtime => opened = mtime \/ missed
    /\ payload # NoPayload /\ payload.key = mtime =>
           payload.built = mtime /\ (payload.rows = rows \/ Pending)
BY DEF SignatureVouches, Pending

\* Nothing the analyses do takes the server's invariant away.
LEMMA ServerStays ==
  ASSUME DashboardInvariant, StoreNext, UNCHANGED serverVars
  PROVE  TypeOK' /\ ServerInvariant'
<1>1. StoreTypeOK'
  BY StoreInvariantStep DEF DashboardInvariant, StoreInvariant
<1>2. TypeOK'
  BY <1>1 DEF DashboardInvariant, TypeOK, serverVars
<1>3. /\ mtime' >= mtime /\ mtime' \in Nat /\ mtime \in Nat
      /\ mtime' = mtime => (rows' = rows /\ runs' = runs) \/ Pending'
  BY <1>1, FilesMoveOn DEF DashboardInvariant, TypeOK, StoreTypeOK
<1>4. /\ signature \in Nat /\ taken \in Nat /\ opened \in Nat
      /\ payload # NoPayload => payload.key \in Nat
  BY DEF DashboardInvariant, TypeOK, Payloads
<1>5. PostsFit' /\ AckedAreSaved' /\ ReadYourWrites' /\ UnreadAtStart'
  BY DEF DashboardInvariant, ServerInvariant, PostsFit, AckedAreSaved, ReadYourWrites,
         UnreadAtStart, serverVars
<1>6. Behind'
  BY <1>3, <1>4 DEF DashboardInvariant, ServerInvariant, Behind, serverVars
<1>7. (rows' = rows /\ runs' = runs) => (Pending => Pending')
  BY DEF Pending
<1>8. MemoVouches'
  BY <1>3, <1>4, <1>7 DEF DashboardInvariant, ServerInvariant, Behind, MemoVouches,
     serverVars
<1>9. SignatureVouches'
  <2>1. /\ signature = mtime => opened = mtime \/ missed
        /\ payload # NoPayload /\ payload.key = mtime =>
               payload.built = mtime /\ (payload.rows = rows \/ Pending)
    BY Vouching DEF DashboardInvariant, ServerInvariant
  <2>2. /\ signature' = mtime' => opened' = mtime' \/ missed'
        /\ payload' # NoPayload /\ payload'.key = mtime' =>
               payload'.built = mtime' /\ (payload'.rows = rows' \/ Pending')
    BY <1>3, <1>4, <1>7, <2>1 DEF DashboardInvariant, ServerInvariant, Behind, serverVars
  <2> QED
    BY <2>2 DEF SignatureVouches, Pending
<1> QED
  BY <1>2, <1>5, <1>6, <1>8, <1>9 DEF ServerInvariant

\* A step of the server that leaves the files alone.
LEMMA StoreKept ==
  ASSUME DashboardInvariant, UNCHANGED storeVars
  PROVE  StoreInvariant' /\ StoreTypeOK' /\ (Pending' <=> Pending) /\ mtime' = mtime
                         /\ rows' = rows
<1>1. UNCHANGED <<pc, snap, lock, rows, torn, runs, table, tableTorn, count, crashes>>
      /\ mtime' = mtime
  BY DEF storeVars
<1>2. StoreInvariant'
  BY <1>1, StoreInvariantStutter DEF DashboardInvariant, StoreInvariant, StoreTypeOK
<1> QED
  BY <1>1, <1>2 DEF StoreInvariant, Pending

\* The facts about the server that the steps below start from.
LEMMA ServerFacts ==
  ASSUME DashboardInvariant
  PROVE  /\ mtime \in Nat /\ signature \in Nat /\ taken \in Nat /\ opened \in Nat
         /\ notes \in Nat /\ acked \in Nat /\ waiting \in Nat /\ MaxPosts \in Nat
         /\ notes + waiting + (IF request = "post" THEN 1 ELSE 0) <= MaxPosts
         /\ acked <= notes
         /\ rows \in Tables
BY PostAssumption DEF DashboardInvariant, ServerInvariant, TypeOK, StoreTypeOK, PostsFit,
   AckedAreSaved

\* Steps of the server that touch neither the files nor what is cached.
LEMMA CacheKept ==
  ASSUME DashboardInvariant,
         UNCHANGED <<storeVars, signature, opened, missed, memo, payload, notes, acked>>,
         server' = server \/ server' \in {"idle", "sign", "compare", "serve", "clear"},
         request' \in {"get", "post"}, waiting' \in 0..MaxPosts,
         taken' \in Nat, taken' <= mtime, PostsFit'
  PROVE  DashboardInvariant'
<1>1. StoreInvariant' /\ StoreTypeOK' /\ (Pending' <=> Pending) /\ mtime' = mtime
      /\ rows' = rows
  BY StoreKept
<1>2. TypeOK'
  BY <1>1 DEF DashboardInvariant, TypeOK
<1>3. Behind' /\ AckedAreSaved' /\ ReadYourWrites' /\ UnreadAtStart'
  BY <1>1 DEF DashboardInvariant, ServerInvariant, Behind, AckedAreSaved, ReadYourWrites,
     UnreadAtStart
<1>4. MemoVouches'
  BY <1>1 DEF DashboardInvariant, ServerInvariant, MemoVouches
<1>5. SignatureVouches'
  BY DEF DashboardInvariant, ServerInvariant, SignatureVouches, storeVars
<1> QED
  BY <1>1, <1>2, <1>3, <1>4, <1>5 DEF DashboardInvariant, ServerInvariant

\* Starting: what the constructor opens is vouched for, unless it missed a change.
LEMMA StartStep ==
  ASSUME DashboardInvariant, Open \/ StartFails \/ SignOpened
  PROVE  DashboardInvariant'
<1>1. /\ UNCHANGED <<storeVars, request, waiting, taken, memo, payload, notes, acked>>
      /\ server \in {"off", "start"}
      /\ memo = Unread
  BY DEF Open, StartFails, SignOpened, vars, serverVars, DashboardInvariant, ServerInvariant,
     UnreadAtStart
<1>2. StoreInvariant' /\ StoreTypeOK' /\ (Pending' <=> Pending) /\ mtime' = mtime
      /\ rows' = rows
  BY <1>1, StoreKept
<1>3. PostsFit' /\ AckedAreSaved' /\ ReadYourWrites'
  BY <1>1 DEF Open, StartFails, SignOpened, vars, serverVars, DashboardInvariant, ServerInvariant,
     PostsFit, AckedAreSaved, ReadYourWrites
<1>4. CASE Open
  <2>1. server' = "start" /\ opened' = mtime /\ signature' = signature /\ missed' = missed
        /\ memo' = Unread
    BY <1>1, <1>4 DEF Open
  <2>2. TypeOK'
    BY <1>1, <1>2, <2>1, ServerFacts DEF DashboardInvariant, TypeOK
  <2>3. Behind' /\ MemoVouches' /\ UnreadAtStart'
    BY <1>1, <1>2, <2>1 DEF DashboardInvariant, ServerInvariant, Behind, MemoVouches,
       UnreadAtStart
  <2>4. SignatureVouches'
    BY <1>1, <1>2, <2>1 DEF DashboardInvariant, ServerInvariant, SignatureVouches, storeVars
  <2> QED
    BY <1>2, <1>3, <2>2, <2>3, <2>4 DEF DashboardInvariant, ServerInvariant
<1>5. CASE SignOpened
  <2>1. server' = "idle" /\ signature' = mtime /\ opened' = opened
        /\ missed' = (opened # mtime) /\ memo' = Unread
    BY <1>1, <1>5 DEF SignOpened
  <2>2. missed' \in BOOLEAN
    BY <2>1, Zenon
  <2>3. TypeOK'
    BY <1>1, <1>2, <2>1, <2>2, ServerFacts DEF DashboardInvariant, TypeOK
  <2>4. Behind' /\ MemoVouches' /\ UnreadAtStart'
    BY <1>1, <1>2, <2>1, ServerFacts DEF DashboardInvariant, ServerInvariant, Behind,
       MemoVouches, UnreadAtStart
  <2>5. opened' = mtime' \/ missed'
    BY <1>2, <2>1, Zenon
  <2>6. SignatureVouches'
    BY <1>1, <1>2, <2>5 DEF DashboardInvariant, ServerInvariant, SignatureVouches, storeVars
  <2> QED
    BY <1>2, <1>3, <2>3, <2>4, <2>6 DEF DashboardInvariant, ServerInvariant
<1>6. CASE StartFails
  <2>1. UNCHANGED <<storeVars, signature, opened, missed, memo, payload, notes, acked>>
        /\ server' = server /\ request' = request /\ waiting' = waiting /\ taken' = taken
    BY <1>6 DEF StartFails, vars, serverVars
  <2> QED
    BY <1>3, <2>1, CacheKept DEF DashboardInvariant, ServerInvariant, TypeOK, Behind
<1> QED
  BY <1>4, <1>5, <1>6

\* Asking for a refresh, and signing the files.
LEMMA RefreshStarts ==
  ASSUME DashboardInvariant,
         \/ NotDue("get") \/ Due("get")
         \/ notes + waiting < MaxPosts /\ (NotDue("post") \/ Due("post"))
         \/ Sign \/ RefreshFails \/ ServeFails
  PROVE  DashboardInvariant'
<1> USE DEF PostsFit
<1>0. /\ PostsFit /\ taken \in Nat /\ taken <= mtime
      /\ request \in {"get", "post"} /\ waiting \in 0..MaxPosts
  BY DEF DashboardInvariant, ServerInvariant, Behind, TypeOK
<1>1. CASE NotDue("get")
  BY <1>0, <1>1, ServerFacts, CacheKept DEF NotDue
<1>2. CASE Due("get")
  BY <1>0, <1>2, ServerFacts, CacheKept DEF Due
<1>3. CASE notes + waiting < MaxPosts /\ NotDue("post")
  BY <1>0, <1>3, ServerFacts, CacheKept DEF NotDue
<1>4. CASE notes + waiting < MaxPosts /\ Due("post")
  BY <1>0, <1>4, ServerFacts, CacheKept DEF Due
<1>5. CASE Sign
  BY <1>0, <1>5, ServerFacts, CacheKept DEF Sign
<1>6. CASE RefreshFails
  BY <1>0, <1>6, ServerFacts, CacheKept DEF RefreshFails
<1>7. CASE ServeFails
  BY <1>0, <1>7, ServerFacts, CacheKept DEF ServeFails
<1> QED
  BY <1>1, <1>2, <1>3, <1>4, <1>5, <1>6, <1>7

\* The dataset is opened under the signature that was taken before.
LEMMA CompareStep ==
  ASSUME DashboardInvariant, Compare
  PROVE  DashboardInvariant'
<1>1. /\ server = "compare"
      /\ server' \in {"serve", "idle"} /\ request' = "get" /\ taken' = 0
      /\ waiting' = IF request = "post" THEN waiting + 1 ELSE waiting
      /\ UNCHANGED <<storeVars, notes, acked>>
  BY DEF Compare
<1>2. /\ request' \in {"get", "post"} /\ waiting' \in 0..MaxPosts /\ PostsFit'
      /\ taken' \in Nat /\ taken' <= mtime
      /\ server' \in {"idle", "sign", "compare", "serve", "clear"}
  BY <1>1, ServerFacts DEF PostsFit
<1>3. CASE taken = signature
  BY <1>1, <1>2, <1>3, CacheKept DEF Compare
<1>4. CASE taken # signature
  <2>1. /\ signature' = taken /\ opened' = mtime /\ missed' = FALSE
        /\ memo' = Unread /\ payload' = NoPayload
    BY <1>4 DEF Compare
  <2>2. StoreInvariant' /\ StoreTypeOK' /\ mtime' = mtime
    BY <1>1, StoreKept
  <2>3. TypeOK'
    BY <1>1, <1>2, <2>1, <2>2, ServerFacts DEF DashboardInvariant, TypeOK
  <2>4. Behind' /\ AckedAreSaved' /\ ReadYourWrites' /\ MemoVouches' /\ UnreadAtStart'
    BY <1>1, <1>2, <2>1, <2>2 DEF DashboardInvariant, ServerInvariant, Behind,
       AckedAreSaved, ReadYourWrites, MemoVouches, UnreadAtStart
  <2>5. SignatureVouches'
    BY <2>1, <2>2 DEF SignatureVouches
  <2> QED
    BY <1>2, <2>2, <2>3, <2>4, <2>5 DEF DashboardInvariant, ServerInvariant
<1> QED
  BY <1>3, <1>4

\* A payload is built from what the dataset remembers or reads now.
LEMMA ServeStep ==
  ASSUME DashboardInvariant, Serve
  PROVE  DashboardInvariant'
<1>1. /\ server = "serve" /\ server' = "idle"
      /\ UNCHANGED <<storeVars, request, waiting, signature, taken, opened, missed, notes, acked>>
  BY DEF Serve
<1>2. /\ request' \in {"get", "post"} /\ waiting' \in 0..MaxPosts /\ PostsFit'
      /\ taken' \in Nat /\ taken' <= mtime
      /\ server' \in {"idle", "sign", "compare", "serve", "clear"}
  BY <1>1 DEF DashboardInvariant, ServerInvariant, TypeOK, PostsFit, Behind
<1>3. CASE UNCHANGED <<memo, payload>>
  BY <1>1, <1>2, <1>3, CacheKept
<1>4. CASE /\ memo' = IF memo = Unread THEN <<rows>> ELSE memo
           /\ payload' = [key |-> signature, built |-> mtime, rows |-> memo'[1],
                          notes |-> notes]
  <2>1. StoreInvariant' /\ StoreTypeOK' /\ (Pending' <=> Pending) /\ mtime' = mtime
        /\ rows' = rows
    BY <1>1, StoreKept
  <2>2. memo' \in {<<t>> : t \in Tables} /\ memo'[1] \in Tables
    BY <1>4, ServerFacts DEF DashboardInvariant, TypeOK
  <2>3. payload' \in Payloads
    BY <1>4, <2>2, ServerFacts DEF Payloads
  <2>4. TypeOK'
    BY <1>1, <1>2, <2>1, <2>2, <2>3 DEF DashboardInvariant, TypeOK
  <2>5. payload'.key = signature /\ payload'.built = mtime /\ payload'.rows = memo'[1]
        /\ payload'.notes = notes
    BY <1>4
  <2>6. signature = mtime => memo'[1] = rows \/ Pending
    BY <1>4 DEF DashboardInvariant, ServerInvariant, MemoVouches
  <2>7. Behind' /\ AckedAreSaved' /\ ReadYourWrites' /\ UnreadAtStart'
    BY <1>1, <1>2, <2>1, <2>5, ServerFacts DEF DashboardInvariant, ServerInvariant,
       Behind, AckedAreSaved, ReadYourWrites, UnreadAtStart
  <2>8. MemoVouches'
    BY <1>1, <2>1, <2>6 DEF MemoVouches
  <2>9. SignatureVouches'
    <3>1. signature = mtime => opened = mtime \/ missed
      BY DEF DashboardInvariant, ServerInvariant, SignatureVouches
    <3> QED
      BY <1>1, <2>1, <2>5, <2>6, <3>1 DEF SignatureVouches, Pending
  <2> QED
    BY <1>2, <2>1, <2>4, <2>7, <2>8, <2>9 DEF DashboardInvariant, ServerInvariant
<1> QED
  BY <1>3, <1>4 DEF Serve

\* The body of a post is saved: the files move on, so nothing is vouched for.
LEMMA BodyStep ==
  ASSUME DashboardInvariant, BodyArrives
  PROVE  DashboardInvariant'
<1>1. /\ UNCHANGED <<pc, snap, lock, rows, torn, runs, table, tableTorn, count, crashes>>
      /\ UNCHANGED <<request, signature, taken, opened, missed, memo, payload, acked>>
      /\ mtime' = mtime + 1 /\ notes' = notes + 1 /\ waiting' = waiting - 1
      /\ waiting > 0 /\ server = "idle" /\ server' = "clear"
  BY DEF BodyArrives
<1>2. mtime' \in Nat
  BY <1>1, ServerFacts
<1>3. StoreInvariant' /\ StoreTypeOK'
  BY <1>1, <1>2, StoreInvariantStutter DEF DashboardInvariant, StoreInvariant
<1>4. PostsFit' /\ AckedAreSaved' /\ UnreadAtStart'
  BY <1>1, ServerFacts DEF DashboardInvariant, ServerInvariant, PostsFit, AckedAreSaved,
     UnreadAtStart
<1>5. notes' \in 0..MaxPosts /\ waiting' \in 0..MaxPosts
  BY <1>1, ServerFacts
<1>6. TypeOK'
  BY <1>1, <1>3, <1>5 DEF DashboardInvariant, TypeOK
<1>7. /\ signature' # mtime' /\ Behind'
      /\ payload' # NoPayload => payload'.key # mtime'
  <2>1. payload # NoPayload => payload.key \in Nat
    BY DEF DashboardInvariant, TypeOK, Payloads
  <2> QED
    BY <1>1, <2>1, ServerFacts DEF DashboardInvariant, ServerInvariant, Behind
<1>8. MemoVouches' /\ SignatureVouches'
  BY <1>7 DEF MemoVouches, SignatureVouches
<1>9. ReadYourWrites'
  BY <1>1 DEF DashboardInvariant, ServerInvariant, ReadYourWrites
<1> QED
  BY <1>3, <1>4, <1>6, <1>7, <1>8, <1>9 DEF DashboardInvariant, ServerInvariant

\* The post is answered when nothing is cached.
LEMMA ClearStep ==
  ASSUME DashboardInvariant, ClearPayloadCache
  PROVE  DashboardInvariant'
<1>1. /\ payload' = NoPayload /\ acked' = notes /\ server = "clear" /\ server' = "idle"
      /\ UNCHANGED <<storeVars, request, waiting, signature, taken, opened, missed, memo, notes>>
  BY DEF ClearPayloadCache
<1>2. StoreInvariant' /\ StoreTypeOK' /\ (Pending' <=> Pending) /\ mtime' = mtime
      /\ rows' = rows
  BY <1>1, StoreKept
<1>3. TypeOK'
  BY <1>1, <1>2 DEF DashboardInvariant, TypeOK
<1>4. PostsFit' /\ Behind' /\ AckedAreSaved' /\ ReadYourWrites' /\ UnreadAtStart'
  BY <1>1, <1>2, ServerFacts DEF DashboardInvariant, ServerInvariant, PostsFit, Behind,
     AckedAreSaved, ReadYourWrites, UnreadAtStart
<1>5. MemoVouches' /\ SignatureVouches'
  BY <1>1, <1>2 DEF DashboardInvariant, ServerInvariant, MemoVouches, SignatureVouches
<1> QED
  BY <1>2, <1>3, <1>4, <1>5 DEF DashboardInvariant, ServerInvariant

-----------------------------------------------------------------------------
(* Theorems                                                                *)

LEMMA DashboardStart ==
  Init => DashboardInvariant
<1> SUFFICES ASSUME Init PROVE DashboardInvariant
  OBVIOUS
<1>1. StoreInvariant
  BY StoreInvariantStart DEF Init
<1>2. TypeOK
  <2>1. missed \in BOOLEAN
    BY Zenon DEF Init
  <2>2. memo \in {Unread} \union {<<t>> : t \in Tables} /\ payload \in Payloads \union {NoPayload}
    BY Zenon DEF Init
  <2>3. /\ server \in {"off", "start", "idle", "sign", "compare", "serve", "clear"}
        /\ request \in {"get", "post"}
    BY DEF Init
  <2>4. {waiting, notes, acked} \subseteq 0..MaxPosts /\ {signature, taken, opened} \subseteq Nat
    BY PostAssumption DEF Init
  <2> QED
    BY <1>1, <2>1, <2>2, <2>3, <2>4 DEF TypeOK, StoreInvariant
<1>3. mtime = 0 /\ 0 <= MaxPosts
  BY PostAssumption DEF Init, StoreInit
<1>4. ServerInvariant
  BY <1>3 DEF Init, ServerInvariant, PostsFit, Behind, MemoVouches, AckedAreSaved,
     SignatureVouches, ReadYourWrites, UnreadAtStart
<1> QED
  BY <1>1, <1>2, <1>4 DEF DashboardInvariant

LEMMA DashboardStep ==
  DashboardInvariant /\ [Next]_vars => DashboardInvariant'
<1> SUFFICES ASSUME DashboardInvariant, [Next]_vars PROVE DashboardInvariant'
  OBVIOUS
<1>1. CASE StoreNext /\ UNCHANGED serverVars
  BY <1>1, ServerStays, StoreInvariantStep DEF DashboardInvariant
<1>2. CASE ServerStep
  BY <1>2, StartStep, RefreshStarts, CompareStep, ServeStep, BodyStep, ClearStep DEF ServerStep
<1>3. CASE UNCHANGED vars
  <2>1. UNCHANGED storeVars /\ UNCHANGED serverVars
    BY <1>3 DEF vars
  <2> QED
    BY <2>1, ServerFacts, CacheKept DEF serverVars, DashboardInvariant, ServerInvariant,
       TypeOK, PostsFit, Behind
<1> QED
  BY <1>1, <1>2, <1>3 DEF Next

\* The inductive invariant: the parts above in every state the dashboard and
\* the analyses can reach.
THEOREM DashboardInvariantHolds ==
  Spec => []DashboardInvariant
<1> QED
  BY DashboardStart, DashboardStep, PTL DEF Spec

\* Types and bounds; a refresh that is under way for a post counts as a post.
THEOREM DashboardTypeCorrect ==
  Spec => []TypeOK
<1>1. DashboardInvariant => TypeOK
  BY DEF DashboardInvariant
<1> QED
  BY <1>1, DashboardInvariantHolds, PTL

\* A signature that matches the files vouches for the dataset that is open and
\* for the payload that is served (refresh_dataset_if_needed, cached_payload),
\* whatever the analyses do between signing, opening and building, and whenever
\* the server starts; only what they write between the constructor's open and its
\* signature can be missed, and only until the next refresh opens the dataset.
THEOREM SignatureVouchesHolds ==
  Spec => []SignatureVouches
<1>1. DashboardInvariant => SignatureVouches
  BY DEF DashboardInvariant, ServerInvariant
<1> QED
  BY <1>1, DashboardInvariantHolds, PTL

\* What a post saved is in every payload cached after its answer.
THEOREM ReadYourWritesHolds ==
  Spec => []ReadYourWrites
<1>1. DashboardInvariant => ReadYourWrites
  BY DEF DashboardInvariant, ServerInvariant
<1> QED
  BY <1>1, DashboardInvariantHolds, PTL

\* A save under the lock of the artifact index takes back only what was written
\* around that lock (_save_artifact_locked), for any number of analyses.
THEOREM LockedSavesKeepRowsHolds ==
  Spec => LockedSavesKeepRows
<1>1. ASSUME DashboardInvariant, [Next]_vars
      PROVE  [\A a \in Analyses :
                rows'[a] < rows[a] =>
                    \/ \E l \in Labelers : pc[l] = "finish" /\ pc'[l] = "record"
                    \/ \E l \in Labelers :
                          /\ rows[l] = 2 /\ rows'[l] < 2
                          /\ Labelers = {l} => rows'[a] > 0]_storeVars
  <2>1. StoreNext \/ rows' = rows
    BY <1>1 DEF Next, ServerStep, Open, StartFails, SignOpened, NotDue, Due, Sign, Compare, RefreshFails, Serve,
       ServeFails, BodyArrives, ClearPayloadCache, vars, storeVars
  <2> QED
    BY <1>1, <2>1, LockedSavesStep DEF DashboardInvariant
<1> QED
  BY <1>1, DashboardInvariantHolds, PTL DEF Spec, LockedSavesKeepRows
=============================================================================
