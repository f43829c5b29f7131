------------------------ MODULE CacheManager_proofs ------------------------
(***************************************************************************)
(* Theorems about CacheManager, for every set of workers and every bound.  *)
(***************************************************************************)
EXTENDS CacheManager, TLAPS

Processes == Workers \union {Pruner}

-----------------------------------------------------------------------------
(* The inductive invariant *)

\* The pruner and the workers do different things.
Roles ==
    /\ pc[Pruner] \in {"idle", "planned", "remove"}
    /\ \A w \in Workers : pc[w] \notin {"planned", "remove"}

\* A process is between lock and unlock exactly while it holds the lock.
LockMatches ==
    \A p \in Processes : pc[p] \in Locked \union {"remove"} <=> lock = p

\* Arrays are never newer than the sources, and at least as new as the manifest says.
Versioned ==
    /\ legacy => source = 1
    /\ \A w \in Workers : asked[w] <= source
    /\ \A p \in Places : dir[p] # Gone =>
           /\ dir[p].ver <= source
           /\ HasManifest(dir[p]) => dir[p].man.src <= dir[p].ver

\* Tables that were not held are as new as the arrays.
TablesRead == \A p \in Places : dir[p] # Gone => dir[p].held \/ dir[p].tables = dir[p].ver

\* Whatever a reader may still find in the place of its entry is new enough.
\* The stash and the build count too: a recovery or a commit may put them there.
ReadersCovered ==
    \A w \in Workers : pc[w] = "read" =>
        \A p \in Places : dir[p] # Gone => asked[w] <= dir[p].ver

\* A result is kept only by a worker that has finished its read.
ReadsEnd == \A w \in Workers : got[w] # NoRead => pc[w] = "idle"

\* What a worker knows of the directories while it holds the lock.
Cleared(w) ==
    /\ pc[w] = "drop" => dir["entry"] # Gone /\ dir["tmp"] = Gone
    /\ pc[w] = "check" => dir["old"] = Gone /\ dir["tmp"] = Gone
    /\ pc[w] = "discard" => /\ dir["entry"] # Gone /\ dir["old"] # Gone /\ dir["tmp"] = Gone
                            /\ asked[w] <= dir["entry"].ver

Building(w) ==
    pc[w] \in {"build", "commit"} =>
        /\ dir["old"] = Gone
        /\ dir["tmp"] # Gone /\ asked[w] <= dir["tmp"].ver
        /\ ~ValidFor(dir["entry"], asked[w])
        /\ dir["entry"] # Gone => dir["entry"].ver <= dir["tmp"].ver
        /\ HasManifest(dir["entry"]) => dir["entry"].man.pinned = previous[w]

Built(w) ==
    pc[w] \in {"commit", "swap"} =>
        /\ HasManifest(dir["tmp"])
        /\ dir["tmp"].data = "whole"
        /\ dir["tmp"].man.pinned = previous[w]

Stashed(w) ==
    pc[w] = "swap" =>
        /\ dir["entry"] = Gone
        /\ asked[w] <= dir["tmp"].ver
        /\ dir["old"] # Gone => dir["old"].ver <= dir["tmp"].ver
        /\ HasManifest(dir["old"]) => dir["old"].man.pinned = previous[w]

Layout ==
    /\ \A w \in Workers : Cleared(w) /\ Building(w) /\ Built(w) /\ Stashed(w)
    /\ pc[Pruner] = "remove" =>
           /\ dir["entry"] # Gone
           /\ ~(HasManifest(dir["entry"]) /\ dir["entry"].data = "whole")

\* While no process has died in an rmtree, only a directory somebody is removing
\* under the lock is not whole.
DamageIsTransient ==
    cut \/ /\ dir["entry"] # Gone /\ dir["entry"].data # "whole" => pc[Pruner] = "remove"
           /\ dir["old"] # Gone /\ dir["old"].data # "whole" =>
                  \E w \in Workers : pc[w] \in {"drop", "discard"}

CacheInvariant ==
    /\ TypeOK
    /\ Roles
    /\ LockMatches
    /\ Versioned
    /\ TablesRead
    /\ ReadersCovered
    /\ ReadsEnd
    /\ Layout
    /\ DamageIsTransient
    /\ FreshRead

-----------------------------------------------------------------------------
(* Types *)

\* An absent directory is none of the directories.
LEMMA GoneDiffers == Gone \notin Dirs
BY DEF Gone, Dirs

\* A missing manifest is none of the manifests.
LEMMA NoManifestDiffers == NoManifest \notin Manifests
BY DEF NoManifest, Manifests

\* What a process finds of a directory that is being removed is a directory with
\* the same versions, which is no longer whole under a manifest (rmtree).
LEMMA DamagedTyped ==
    ASSUME NEW e \in Dirs, NEW d \in Damaged(e)
    PROVE  /\ d \in Dirs
           /\ d.ver = e.ver /\ d.tables = e.tables /\ d.held = e.held
           /\ d.man = e.man \/ d.man = NoManifest
           /\ ~(HasManifest(d) /\ d.data = "whole")
<1>. DEFINE kinds == CASE e.data = "whole" -> Data
                       [] e.data = "holes" -> {"holes", "broken"}
                       [] OTHER -> {"broken"}
<1>1. kinds \subseteq Data /\ ("whole" \in kinds => e.data = "whole")
  BY DEF Data
<1>2. d # e /\ d \in [man : {e.man, NoManifest}, ver : {e.ver}, tables : {e.tables},
                       held : {e.held}, data : kinds]
  BY DEF Damaged
<1>. HIDE DEF kinds
<1>3. /\ d \in Dirs /\ (d.man = e.man \/ d.man = NoManifest) /\ d.data \in kinds
      /\ d.ver = e.ver /\ d.tables = e.tables /\ d.held = e.held
  BY <1>1, <1>2 DEF Dirs
<1>4. HasManifest(d) /\ d.data = "whole" => d = e
  <2>1. e \in [man : {e.man}, ver : {e.ver}, tables : {e.tables}, held : {e.held}, data : {e.data}]
    BY DEF Dirs
  <2>2. d \in [man : {d.man}, ver : {d.ver}, tables : {d.tables}, held : {d.held}, data : {d.data}]
    BY <1>3 DEF Dirs
  <2>. QED BY <1>1, <1>3, <2>1, <2>2 DEF HasManifest, Dirs
<1>. QED BY <1>2, <1>3, <1>4

\* Rewriting the manifest of a directory leaves a directory.
LEMMA RewriteTyped ==
    ASSUME NEW d \in Dirs, NEW m \in Manifests
    PROVE  [d EXCEPT !.man = m] \in Dirs
BY DEF Dirs

\* A build starts from the arrays as they are, and its tables are held if they are older.
LEMMA StartsTyped ==
    ASSUME TypeOK, NEW d \in Starts
    PROVE  d \in Dirs /\ d.ver = source /\ d.man = NoManifest /\ (d.held \/ d.tables = d.ver)
<1>1. PICK t \in 1..source :
        d = [man |-> NoManifest, ver |-> source, tables |-> t, held |-> t < source, data |-> "broken"]
  BY DEF Starts
<1>2. source \in 1..MaxSource + 1 /\ t \in 1..MaxSource + 1 /\ MaxSource \in Nat
  BY <1>1, CacheAssumption DEF TypeOK
<1>3. d.held = (t < source) /\ d.tables = t /\ d.ver = source /\ d.man = NoManifest
  BY <1>1
<1>4. (t < source) \in BOOLEAN
  BY <1>2
<1>5. t < source \/ t = source
  BY <1>2
<1>6. d \in Dirs
  BY <1>1, <1>2, <1>4 DEF Dirs, Data
<1>. QED BY <1>3, <1>5, <1>6

\* Every file operation and every decision of the cache keeps the types.
LEMMA TypesStep ==
    ASSUME TypeOK, Roles, Layout, [Next]_vars
    PROVE  TypeOK'
<1>. USE CacheAssumption DEF TypeOK, Goto, Unlock, Locked
<1>1. ASSUME NEW w \in Workers, Ask(w) PROVE TypeOK'
  BY <1>1 DEF Ask, Attempts
<1>2. ASSUME NEW w \in Workers, Acquire(w) PROVE TypeOK'
  BY <1>2 DEF Acquire
<1>3. ASSUME NEW w \in Workers, TimesOut(w) PROVE TypeOK'
  BY <1>3 DEF TimesOut
<1>4. ASSUME NEW w \in Workers, Recover(w) PROVE TypeOK'
  <2>1. dir' \in [Places -> Dirs \union {Gone}]
    <3>1. CASE dir["entry"] = Gone \/ dir["old"] = Gone
      BY <1>4, <3>1 DEF Recover, Places
    <3>2. CASE ~(dir["entry"] = Gone \/ dir["old"] = Gone)
      <4>1. PICK d \in Damaged(dir["old"]) \union {dir["old"]} :
              dir' = [dir EXCEPT !["old"] = d, !["tmp"] = Gone]
        BY <1>4, <3>2 DEF Recover
      <4>2. dir["old"] \in Dirs
        BY <3>2 DEF Places
      <4>3. d \in Dirs
        BY <4>1, <4>2, DamagedTyped
      <4>. QED BY <4>1, <4>3 DEF Places
    <3>. QED BY <3>1, <3>2
  <2>2. pc' \in [Workers \union {Pruner} ->
                   Locked \union {"idle", "wait", "read", "failed", "planned", "remove"}]
    BY <1>4 DEF Recover
  <2>. QED BY <1>4, <2>1, <2>2 DEF Recover
<1>5. ASSUME NEW w \in Workers, Drop(w) PROVE TypeOK'
  BY <1>5 DEF Drop, Places
<1>6. ASSUME NEW w \in Workers, Hit(w) PROVE TypeOK'
  <2>1. dir["entry"] \in Dirs /\ dir["entry"].man \in Manifests
    BY <1>6 DEF Hit, ValidFor, HasManifest, Places, Dirs
  <2>2. ASSUME touches < MaxTouches
        PROVE  /\ touches + 1 \in 0..MaxTouches
               /\ [dir["entry"].man EXCEPT !.accessed = touches + 1] \in Manifests
    BY <2>1, <2>2 DEF Manifests
  <2>3. dir' \in [Places -> Dirs \union {Gone}] /\ touches' \in 0..MaxTouches
    <3>1. CASE UNCHANGED <<dir, touches>>
      BY <3>1
    <3>2. CASE /\ touches < MaxTouches
               /\ touches' = touches + 1
               /\ dir' = [dir EXCEPT !["entry"].man.accessed = touches + 1]
      <4>1. [dir["entry"] EXCEPT !.man = [dir["entry"].man EXCEPT !.accessed = touches + 1]] \in Dirs
        BY <2>1, <2>2, <3>2, RewriteTyped
      <4>2. dir' = [dir EXCEPT !["entry"] =
               [dir["entry"] EXCEPT !.man = [dir["entry"].man EXCEPT !.accessed = touches + 1]]]
        BY <3>2
      <4>. HIDE DEF Dirs, Manifests
      <4>. QED BY <2>2, <3>2, <4>1, <4>2 DEF Places
    <3>. QED BY <1>6, <3>1, <3>2 DEF Hit
  <2>. QED BY <1>6, <2>3 DEF Hit
<1>7. ASSUME NEW w \in Workers, NEW pin \in BOOLEAN, builds < MaxBuilds
      PROVE  NewManifest(w, pin) \in Manifests /\ builds + 1 \in 0..MaxBuilds
  BY <1>7 DEF NewManifest, Manifests
<1>8. ASSUME NEW w \in Workers, Adopt(w) PROVE TypeOK'
  <2>1. dir["entry"] \in Dirs
    BY <1>8 DEF Adopt, Validated, Places
  <2>2. NewManifest(w, FALSE) \in Manifests /\ builds' \in 0..MaxBuilds
    BY <1>7, <1>8 DEF Adopt
  <2>3. dir' = [dir EXCEPT !["entry"] = [dir["entry"] EXCEPT !.man = NewManifest(w, FALSE)]]
    BY <1>8 DEF Adopt
  <2>4. dir' \in [Places -> Dirs \union {Gone}]
    BY <2>1, <2>2, <2>3, RewriteTyped DEF Places
  <2>. QED BY <1>8, <2>2, <2>4 DEF Adopt
<1>9. ASSUME NEW w \in Workers, Miss(w) PROVE TypeOK'
  <2>1. PICK d \in Starts : dir' = [dir EXCEPT !["tmp"] = d]
    BY <1>9 DEF Miss
  <2>2. dir' \in [Places -> Dirs \union {Gone}]
    BY <2>1, StartsTyped DEF Places
  <2>3. HasManifest(dir["entry"]) => dir["entry"].man.pinned \in BOOLEAN
    BY DEF HasManifest, Places, Dirs, Manifests
  <2>. QED BY <1>9, <2>2, <2>3 DEF Miss
<1>10. ASSUME NEW w \in Workers, Build(w) PROVE TypeOK'
  <2>1. previous[w] \in BOOLEAN /\ builds < MaxBuilds
    BY <1>10 DEF Build
  <2>2. NewManifest(w, previous[w]) \in Manifests /\ builds + 1 \in 0..MaxBuilds
    BY <1>7, <2>1, Zenon
  <2>3. dir["tmp"] \in Dirs
    BY <1>10 DEF Build, Layout, Building, Places
  <2>4. [[dir["tmp"] EXCEPT !.man = NewManifest(w, previous[w])] EXCEPT !.data = "whole"] \in Dirs
    BY <2>2, <2>3 DEF Dirs, Data
  <2>5. dir' = [dir EXCEPT !["tmp"] =
                   [[dir["tmp"] EXCEPT !.man = NewManifest(w, previous[w])] EXCEPT !.data = "whole"]]
    BY <1>10, <2>3 DEF Build, Places
  <2>6. dir' \in [Places -> Dirs \union {Gone}]
    BY <2>4, <2>5 DEF Places
  <2>. QED BY <1>10, <2>2, <2>6 DEF Build
<1>11. ASSUME NEW w \in Workers, BuildFails(w) PROVE TypeOK'
  BY <1>11 DEF BuildFails, Places
<1>12. ASSUME NEW w \in Workers, Stash(w) PROVE TypeOK'
  BY <1>12 DEF Stash, Places
<1>13. ASSUME NEW w \in Workers, Swap(w) PROVE TypeOK'
  BY <1>13 DEF Swap, Places
<1>14. ASSUME NEW w \in Workers, SwapFails(w) PROVE TypeOK'
  BY <1>14 DEF SwapFails, Places
<1>15. ASSUME NEW w \in Workers, Discard(w) PROVE TypeOK'
  <2>1. dir["old"] \in Dirs
    BY <1>15 DEF Discard, Layout, Cleared, Places
  <2>2. CASE /\ \E d \in Damaged(dir["old"]) : dir' = [dir EXCEPT !["old"] = d]
             /\ UNCHANGED <<pc, lock>>
    <3>1. PICK d \in Damaged(dir["old"]) : dir' = [dir EXCEPT !["old"] = d]
      BY <2>2
    <3>2. d \in Dirs
      BY <2>1, <3>1, DamagedTyped
    <3>. QED BY <1>15, <2>2, <3>1, <3>2 DEF Discard
  <2>3. CASE dir' = [dir EXCEPT !["old"] = Gone] /\ Goto(w, "read") /\ Unlock(w)
    BY <1>15, <2>3 DEF Discard
  <2>. QED BY <1>15, <2>2, <2>3 DEF Discard
<1>16. ASSUME NEW w \in Workers, Read(w) PROVE TypeOK'
  <2>1. CASE /\ Validated(dir["entry"])
             /\ got' = [got EXCEPT ![w] = Contents(dir["entry"])]
             /\ Goto(w, "idle")
             /\ UNCHANGED <<asked, tries>>
    <3>1. /\ dir["entry"].ver \in 1..MaxSource + 1 /\ dir["entry"].tables \in 1..MaxSource + 1
          /\ dir["entry"].held \in BOOLEAN
      BY <2>1 DEF Validated, Places, Dirs
    <3>2. Contents(dir["entry"]) \in Reads
      BY <3>1 DEF Contents, Reads
    <3>. QED BY <1>16, <2>1, <3>2 DEF Read
  <2>2. CASE /\ ~Validated(dir["entry"]) /\ tries[w] < Attempts
             /\ asked' = [asked EXCEPT ![w] = source]
             /\ tries' = [tries EXCEPT ![w] = @ + 1]
             /\ Goto(w, "wait")
             /\ UNCHANGED got
    BY <1>16, <2>2 DEF Read, Attempts
  <2>3. CASE /\ ~Validated(dir["entry"]) /\ tries[w] = Attempts
             /\ Goto(w, "failed")
             /\ UNCHANGED <<asked, tries, got>>
    BY <1>16, <2>3 DEF Read
  <2>. QED BY <1>16, <2>1, <2>2, <2>3 DEF Read
<1>17. ASSUME Plan PROVE TypeOK'
  <2>1. \A p \in Places : HasManifest(dir[p]) => dir[p].man \in Manifests
    BY DEF HasManifest, Dirs
  <2>2. plan' \in SUBSET Manifests
    BY <1>17, <2>1 DEF Plan
  <2>. QED BY <1>17, <2>2 DEF Plan
<1>18. ASSUME PruneEntry PROVE TypeOK'
  <2>1. CASE HasManifest(dir["entry"]) /\ dir["entry"].man \in plan /\ ~dir["entry"].man.pinned
    <3>1. PICK d \in Damaged(dir["entry"]) : dir' = [dir EXCEPT !["entry"] = d]
      BY <1>18, <2>1 DEF PruneEntry
    <3>2. dir["entry"] \in Dirs
      BY <2>1 DEF HasManifest, Places
    <3>3. d \in Dirs
      BY <3>1, <3>2, DamagedTyped
    <3>4. pc' = [pc EXCEPT ![Pruner] = "remove"] /\ lock' = Pruner
      BY <1>18, <2>1 DEF PruneEntry
    <3>. QED BY <1>18, <3>1, <3>3, <3>4 DEF PruneEntry
  <2>2. CASE ~(HasManifest(dir["entry"]) /\ dir["entry"].man \in plan /\ ~dir["entry"].man.pinned)
    <3>1. pc' = [pc EXCEPT ![Pruner] = "idle"] /\ UNCHANGED <<dir, lock>>
      BY <1>18, <2>2 DEF PruneEntry
    <3>. QED BY <1>18, <3>1 DEF PruneEntry
  <2>. QED BY <2>1, <2>2
<1>19. ASSUME FinishRemoval PROVE TypeOK'
  BY <1>19 DEF FinishRemoval, Places
<1>20. ASSUME NEW pin \in BOOLEAN, SetPinned(pin) PROVE TypeOK'
  <2>1. dir["entry"] \in Dirs /\ dir["entry"].man \in Manifests
    BY <1>20 DEF SetPinned, HasManifest, Places, Dirs
  <2>2. [dir["entry"].man EXCEPT !.pinned = pin] \in Manifests
    BY <2>1 DEF Manifests
  <2>3. [dir["entry"] EXCEPT !.man = [dir["entry"].man EXCEPT !.pinned = pin]] \in Dirs
    BY <2>1, <2>2, RewriteTyped
  <2>4. dir' = [dir EXCEPT !["entry"] =
                   [dir["entry"] EXCEPT !.man = [dir["entry"].man EXCEPT !.pinned = pin]]]
    BY <1>20 DEF SetPinned
  <2>. HIDE DEF Dirs, Manifests
  <2>. QED BY <1>20, <2>3, <2>4 DEF SetPinned, Places
<1>21. ASSUME SourceChanges PROVE TypeOK'
  BY <1>21 DEF SourceChanges
<1>22. ASSUME NEW p \in Workers \union {Pruner}, Crash(p) PROVE TypeOK'
  BY <1>22 DEF Crash
<1>23. CASE UNCHANGED vars
  BY <1>23 DEF vars
<1>. HIDE DEF TypeOK, Goto, Unlock, Locked
<1>. QED
  BY <1>1, <1>2, <1>3, <1>4, <1>5, <1>6, <1>8, <1>9, <1>10, <1>11, <1>12, <1>13, <1>14, <1>15,
     <1>16, <1>17, <1>18, <1>19, <1>20, <1>21, <1>22, <1>23
  DEF Next, WorkerStep

-----------------------------------------------------------------------------
(* Locks *)

\* Nobody else is between lock and unlock (FileLock of cache.py).
LEMMA Alone ==
    ASSUME LockMatches, NEW p \in Processes, NEW q \in Processes,
           pc[p] \in Locked \union {"remove"}, pc[q] \in Locked \union {"remove"}
    PROVE  p = q
BY DEF LockMatches

\* Every step of a process takes or gives back the lock when it enters or leaves
\* its locked part, and keeps a result only when its read has ended.
LEMMA LocksStep ==
    ASSUME TypeOK, Roles, LockMatches, ReadsEnd, [Next]_vars
    PROVE  Roles' /\ LockMatches' /\ ReadsEnd'
<1>. DEFINE P == Roles' /\ LockMatches' /\ ReadsEnd'
<1>1. /\ pc \in [Processes -> Locked \union {"idle", "wait", "read", "failed", "planned", "remove"}]
      /\ got \in [Workers -> Reads \union {NoRead}]
  BY DEF TypeOK, Processes
<1>2. Workers \subseteq Processes /\ Pruner \in Processes /\ Pruner \notin Workers
      /\ NoOne \notin Processes
  BY CacheAssumption DEF Processes
<1>. USE DEF Roles, LockMatches, ReadsEnd, Goto, Unlock, Locked
<1>3. ASSUME NEW w \in Workers, Ask(w) PROVE P
  BY <1>1, <1>2, <1>3 DEF Ask
<1>4. ASSUME NEW w \in Workers, Acquire(w) PROVE P
  BY <1>1, <1>2, <1>4 DEF Acquire
<1>5. ASSUME NEW w \in Workers, TimesOut(w) PROVE P
  BY <1>1, <1>2, <1>5 DEF TimesOut
<1>6. ASSUME NEW w \in Workers, Recover(w) PROVE P
  BY <1>1, <1>2, <1>6 DEF Recover
<1>7. ASSUME NEW w \in Workers, Drop(w) PROVE P
  BY <1>1, <1>2, <1>7 DEF Drop
<1>8. ASSUME NEW w \in Workers, Hit(w) PROVE P
  BY <1>1, <1>2, <1>8 DEF Hit
<1>9. ASSUME NEW w \in Workers, Adopt(w) PROVE P
  BY <1>1, <1>2, <1>9 DEF Adopt
<1>10. ASSUME NEW w \in Workers, Miss(w) PROVE P
  BY <1>1, <1>2, <1>10 DEF Miss
<1>11. ASSUME NEW w \in Workers, Build(w) PROVE P
  BY <1>1, <1>2, <1>11 DEF Build
<1>12. ASSUME NEW w \in Workers, BuildFails(w) PROVE P
  BY <1>1, <1>2, <1>12 DEF BuildFails
<1>13. ASSUME NEW w \in Workers, Stash(w) PROVE P
  BY <1>1, <1>2, <1>13 DEF Stash
<1>14. ASSUME NEW w \in Workers, Swap(w) PROVE P
  BY <1>1, <1>2, <1>14 DEF Swap
<1>15. ASSUME NEW w \in Workers, SwapFails(w) PROVE P
  BY <1>1, <1>2, <1>15 DEF SwapFails
<1>16. ASSUME NEW w \in Workers, Discard(w) PROVE P
  BY <1>1, <1>2, <1>16 DEF Discard
<1>17. ASSUME NEW w \in Workers, Read(w) PROVE P
  BY <1>1, <1>2, <1>17 DEF Read
<1>18. ASSUME Plan PROVE P
  BY <1>1, <1>2, <1>18 DEF Plan
<1>19. ASSUME PruneEntry PROVE P
  BY <1>1, <1>2, <1>19 DEF PruneEntry
<1>20. ASSUME FinishRemoval PROVE P
  BY <1>1, <1>2, <1>20 DEF FinishRemoval
<1>21. ASSUME SourceChanges PROVE P
  BY <1>1, <1>2, <1>21 DEF SourceChanges
<1>22. ASSUME NEW pin, SetPinned(pin) PROVE P
  BY <1>22 DEF SetPinned
<1>23. ASSUME NEW p \in Processes, Crash(p) PROVE P
  BY <1>1, <1>2, <1>23 DEF Crash
<1>24. CASE UNCHANGED vars
  BY <1>24 DEF vars
<1>. HIDE DEF Roles, LockMatches, ReadsEnd, Goto, Unlock, Locked
<1>. QED
  BY <1>3, <1>4, <1>5, <1>6, <1>7, <1>8, <1>9, <1>10, <1>11, <1>12, <1>13, <1>14, <1>15, <1>16, <1>17, <1>18, <1>19, <1>20, <1>21, <1>22, <1>23, <1>24
  DEF Next, WorkerStep, Processes

-----------------------------------------------------------------------------
(* Directories *)

\* What the steps below must keep.
Sound ==
    /\ Versioned
    /\ ReadersCovered
    /\ Layout
    /\ DamageIsTransient
    /\ FreshRead

\* The types of the parts a step reads.
LEMMA Parts ==
    ASSUME TypeOK
    PROVE  /\ dir \in [Places -> Dirs \union {Gone}]
           /\ source \in Nat
           /\ asked \in [Workers -> 1..MaxSource + 1]
           /\ \A w \in Workers : asked[w] \in Nat
           /\ \A p \in Places : dir[p] # Gone => dir[p] \in Dirs /\ dir[p].ver \in Nat
           /\ \A p \in Places : HasManifest(dir[p]) =>
                  dir[p].man \in Manifests /\ dir[p].man.src \in Nat
BY CacheAssumption DEF TypeOK, HasManifest, Dirs, Manifests

\* Directories are only created by a build, moved, rewritten or damaged, and none of
\* these changes which tables the data was made from.
LEMMA TablesStep ==
    ASSUME TypeOK, Layout, TablesRead, [Next]_vars
    PROVE  TablesRead'
<1>1. /\ dir \in [Places -> Dirs \union {Gone}]
      /\ \A p \in Places : dir[p] # Gone => dir[p] \in Dirs
      /\ \A p \in Places : HasManifest(dir[p]) => dir[p] \in Dirs
  BY DEF TypeOK, HasManifest
<1>. USE DEF TablesRead
<1>2. CASE dir' = dir
  BY <1>2
<1>3. ASSUME NEW p \in Places, NEW d, dir' = [dir EXCEPT ![p] = d],
             d # Gone => d.held \/ d.tables = d.ver
      PROVE  TablesRead'
  BY <1>1, <1>3
<1>4. ASSUME NEW p \in Places, dir[p] # Gone, NEW d \in Damaged(dir[p])
      PROVE  d.held \/ d.tables = d.ver
  BY <1>1, <1>4, DamagedTyped
<1>5. ASSUME NEW p \in Places, dir[p] # Gone, NEW m, NEW d, d = [dir[p] EXCEPT !.man = m]
      PROVE  /\ d.held = dir[p].held /\ d.tables = dir[p].tables /\ d.ver = dir[p].ver
             /\ d.held \/ d.tables = d.ver
  BY <1>1, <1>5 DEF Dirs
<1>6. ASSUME NEW w \in Workers, Recover(w) PROVE TablesRead'
  <2>1. CASE dir["entry"] = Gone \/ dir["old"] = Gone
    BY <1>1, <1>6, <2>1 DEF Recover, Places
  <2>2. CASE ~(dir["entry"] = Gone \/ dir["old"] = Gone)
    <3>1. PICK d \in Damaged(dir["old"]) \union {dir["old"]} :
            dir' = [dir EXCEPT !["old"] = d, !["tmp"] = Gone]
      BY <1>6, <2>2 DEF Recover
    <3>2. d.held \/ d.tables = d.ver
      BY <1>1, <1>4, <2>2, <3>1 DEF Places
    <3>. QED BY <1>1, <3>1, <3>2 DEF Places
  <2>. QED BY <2>1, <2>2
<1>7. ASSUME NEW w \in Workers, Drop(w) \/ BuildFails(w) \/ Stash(w) \/ Swap(w) \/ SwapFails(w)
      PROVE  TablesRead'
  BY <1>1, <1>7 DEF Drop, BuildFails, Stash, Swap, SwapFails, Places
<1>8. ASSUME NEW w \in Workers, Hit(w) PROVE TablesRead'
  <2>1. dir["entry"] # Gone /\ "entry" \in Places
    BY <1>8 DEF Hit, ValidFor, HasManifest, Places
  <2>2. CASE dir' = [dir EXCEPT !["entry"].man.accessed = touches + 1]
    <3>1. PICK m : m = [dir["entry"].man EXCEPT !.accessed = touches + 1]
      OBVIOUS
    <3>2. PICK d : d = [dir["entry"] EXCEPT !.man = m]
      OBVIOUS
    <3>3. dir' = [dir EXCEPT !["entry"] = d]
      BY <2>2, <3>1, <3>2
    <3>4. d.held \/ d.tables = d.ver
      BY <1>5, <2>1, <3>2
    <3>. QED BY <1>3, <2>1, <3>3, <3>4
  <2>. QED BY <1>2, <1>8, <2>2 DEF Hit
<1>9. ASSUME NEW w \in Workers, Adopt(w) PROVE TablesRead'
  <2>1. dir["entry"] # Gone /\ "entry" \in Places
    BY <1>9 DEF Adopt, Validated, Places
  <2>2. PICK d : d = [dir["entry"] EXCEPT !.man = NewManifest(w, FALSE)]
    OBVIOUS
  <2>3. dir' = [dir EXCEPT !["entry"] = d]
    BY <1>9, <2>2 DEF Adopt
  <2>4. d.held \/ d.tables = d.ver
    BY <1>5, <2>1, <2>2
  <2>. QED BY <1>3, <2>1, <2>3, <2>4
<1>10. ASSUME NEW w \in Workers, Miss(w) PROVE TablesRead'
  <2>1. PICK d \in Starts : dir' = [dir EXCEPT !["tmp"] = d]
    BY <1>10 DEF Miss
  <2>2. d.held \/ d.tables = d.ver
    BY StartsTyped
  <2>. QED BY <1>3, <2>1, <2>2 DEF Places
<1>11. ASSUME NEW w \in Workers, Build(w) PROVE TablesRead'
  <2>1. dir["tmp"] # Gone /\ "tmp" \in Places
    BY <1>11 DEF Build, Layout, Building, Places
  <2>2. PICK c : c = [dir["tmp"] EXCEPT !.man = NewManifest(w, previous[w])]
    OBVIOUS
  <2>3. PICK d : d = [c EXCEPT !.data = "whole"]
    OBVIOUS
  <2>4. dir' = [dir EXCEPT !["tmp"] = d]
    BY <1>1, <1>11, <2>1, <2>2, <2>3 DEF Build
  <2>5. dir["tmp"] \in Dirs
    BY <1>1, <2>1
  <2>6. d.held = dir["tmp"].held /\ d.tables = dir["tmp"].tables /\ d.ver = dir["tmp"].ver
    BY <2>2, <2>3, <2>5 DEF Dirs
  <2>. QED BY <1>3, <2>1, <2>4, <2>6
<1>12. ASSUME NEW w \in Workers, Discard(w) PROVE TablesRead'
  <2>1. dir["old"] # Gone /\ "old" \in Places
    BY <1>12 DEF Discard, Layout, Cleared, Places
  <2>2. PICK d \in Damaged(dir["old"]) \union {Gone} : dir' = [dir EXCEPT !["old"] = d]
    BY <1>12 DEF Discard
  <2>. QED BY <1>3, <1>4, <2>1, <2>2
<1>13. ASSUME PruneEntry PROVE TablesRead'
  <2>1. CASE HasManifest(dir["entry"]) /\ dir["entry"].man \in plan /\ ~dir["entry"].man.pinned
    <3>1. PICK d \in Damaged(dir["entry"]) : dir' = [dir EXCEPT !["entry"] = d]
      BY <1>13, <2>1 DEF PruneEntry
    <3>2. dir["entry"] # Gone /\ "entry" \in Places
      BY <2>1 DEF HasManifest, Places
    <3>. QED BY <1>3, <1>4, <3>1, <3>2
  <2>2. CASE ~(HasManifest(dir["entry"]) /\ dir["entry"].man \in plan /\ ~dir["entry"].man.pinned)
    BY <1>2, <1>13, <2>2 DEF PruneEntry
  <2>. QED BY <2>1, <2>2
<1>14. ASSUME FinishRemoval PROVE TablesRead'
  BY <1>1, <1>14 DEF FinishRemoval, Places
<1>15. ASSUME NEW pin \in BOOLEAN, SetPinned(pin) PROVE TablesRead'
  <2>1. dir["entry"] # Gone /\ "entry" \in Places
    BY <1>15 DEF SetPinned, HasManifest, Places
  <2>2. PICK m : m = [dir["entry"].man EXCEPT !.pinned = pin]
    OBVIOUS
  <2>3. PICK d : d = [dir["entry"] EXCEPT !.man = m]
    OBVIOUS
  <2>4. dir' = [dir EXCEPT !["entry"] = d]
    BY <1>15, <2>2, <2>3 DEF SetPinned
  <2>. QED BY <1>3, <1>5, <2>1, <2>3, <2>4
<1>16. ASSUME NEW w \in Workers, Ask(w) \/ Acquire(w) \/ TimesOut(w) \/ Read(w) PROVE dir' = dir
  BY <1>16 DEF Ask, Acquire, TimesOut, Read
<1>17. ASSUME NEW p \in Workers \union {Pruner}, Plan \/ SourceChanges \/ Crash(p) PROVE dir' = dir
  BY <1>17 DEF Plan, SourceChanges, Crash
<1>18. UNCHANGED vars => dir' = dir
  BY DEF vars
<1>. HIDE DEF TablesRead
<1>. QED
  BY <1>2, <1>6, <1>7, <1>8, <1>9, <1>10, <1>11, <1>12, <1>13, <1>14, <1>15, <1>16, <1>17, <1>18
  DEF Next, WorkerStep

\* Taking the fingerprint of the sources changes no directory.
LEMMA AskSound ==
    ASSUME NEW w \in Workers, CacheInvariant, Ask(w)
    PROVE  Sound'
<1>. USE DEF CacheInvariant, Ask, Goto
<1>1. /\ asked' = [asked EXCEPT ![w] = source] /\ pc' = [pc EXCEPT ![w] = "wait"]
      /\ got' = [got EXCEPT ![w] = NoRead]
      /\ UNCHANGED <<dir, source, legacy, previous, cut>>
      /\ pc[w] \in {"idle", "failed"}
  OBVIOUS
<1>2. /\ asked \in [Workers -> 1..MaxSource + 1] /\ source \in Nat
      /\ got \in [Workers -> Reads \union {NoRead}]
      /\ pc \in [Workers \union {Pruner} ->
                   Locked \union {"idle", "wait", "read", "failed", "planned", "remove"}]
  BY CacheAssumption DEF TypeOK
<1>3. Versioned'
  BY <1>1, <1>2 DEF Versioned
<1>4. ReadersCovered'
  BY <1>1, <1>2 DEF ReadersCovered
<1>5. Layout'
  BY <1>1, <1>2, CacheAssumption DEF Layout, Cleared, Building, Built, Stashed
<1>6. DamageIsTransient'
  BY <1>1, <1>2, CacheAssumption DEF DamageIsTransient
<1>7. FreshRead'
  BY <1>1, <1>2 DEF FreshRead
<1>. QED BY <1>3, <1>4, <1>5, <1>6, <1>7 DEF Sound

\* Taking the lock tells a worker nothing yet.
LEMMA AcquireSound ==
    ASSUME NEW w \in Workers, CacheInvariant, Acquire(w)
    PROVE  Sound'
<1>. USE CacheAssumption DEF CacheInvariant, Acquire, Goto, Unlock
<1>1. /\ pc' = [pc EXCEPT ![w] = "recover"] /\ pc[w] = "wait"
      /\ UNCHANGED <<dir, asked, got, source, legacy, previous, cut>>
  OBVIOUS
<1>2. /\ asked \in [Workers -> 1..MaxSource + 1] /\ source \in Nat
      /\ got \in [Workers -> Reads \union {NoRead}]
      /\ pc \in [Workers \union {Pruner} ->
                   Locked \union {"idle", "wait", "read", "failed", "planned", "remove"}]
  BY CacheAssumption DEF TypeOK
<1>3. Versioned'
  BY <1>1, <1>2 DEF Versioned
<1>4. ReadersCovered'
  BY <1>1, <1>2 DEF ReadersCovered
<1>5. Layout'
  BY <1>1, <1>2 DEF Layout, Cleared, Building, Built, Stashed
<1>6. DamageIsTransient'
  BY <1>1, <1>2 DEF DamageIsTransient
<1>7. FreshRead'
  BY <1>1, <1>2 DEF FreshRead
<1>. QED BY <1>3, <1>4, <1>5, <1>6, <1>7 DEF Sound

\* A worker that gives up waiting changes nothing.
LEMMA TimesOutSound ==
    ASSUME NEW w \in Workers, CacheInvariant, TimesOut(w)
    PROVE  Sound'
<1>. USE CacheAssumption DEF CacheInvariant, TimesOut, Goto, Unlock
<1>1. /\ pc' = [pc EXCEPT ![w] = "failed"] /\ pc[w] \in {"wait", "read"}
      /\ UNCHANGED <<dir, asked, got, source, legacy, previous, cut>>
  OBVIOUS
<1>2. /\ asked \in [Workers -> 1..MaxSource + 1] /\ source \in Nat
      /\ got \in [Workers -> Reads \union {NoRead}]
      /\ pc \in [Workers \union {Pruner} ->
                   Locked \union {"idle", "wait", "read", "failed", "planned", "remove"}]
  BY CacheAssumption DEF TypeOK
<1>3. Versioned'
  BY <1>1, <1>2 DEF Versioned
<1>4. ReadersCovered'
  BY <1>1, <1>2 DEF ReadersCovered
<1>5. Layout'
  BY <1>1, <1>2 DEF Layout, Cleared, Building, Built, Stashed
<1>6. DamageIsTransient'
  BY <1>1, <1>2 DEF DamageIsTransient
<1>7. FreshRead'
  BY <1>1, <1>2 DEF FreshRead
<1>. QED BY <1>3, <1>4, <1>5, <1>6, <1>7 DEF Sound

\* A plan is made without touching what it is about (_plan_prune).
LEMMA PlanSound ==
    ASSUME CacheInvariant, Plan
    PROVE  Sound'
<1>. USE CacheAssumption DEF CacheInvariant, Plan, Goto, Unlock
<1>1. /\ pc' = [pc EXCEPT ![Pruner] = "planned"] /\ pc[Pruner] = "idle"
      /\ UNCHANGED <<dir, asked, got, source, legacy, previous, cut>>
  OBVIOUS
<1>2. /\ asked \in [Workers -> 1..MaxSource + 1] /\ source \in Nat
      /\ got \in [Workers -> Reads \union {NoRead}]
      /\ pc \in [Workers \union {Pruner} ->
                   Locked \union {"idle", "wait", "read", "failed", "planned", "remove"}]
  BY CacheAssumption DEF TypeOK
<1>3. Versioned'
  BY <1>1, <1>2 DEF Versioned
<1>4. ReadersCovered'
  BY <1>1, <1>2 DEF ReadersCovered
<1>5. Layout'
  BY <1>1, <1>2 DEF Layout, Cleared, Building, Built, Stashed
<1>6. DamageIsTransient'
  BY <1>1, <1>2 DEF DamageIsTransient
<1>7. FreshRead'
  BY <1>1, <1>2 DEF FreshRead
<1>. QED BY <1>3, <1>4, <1>5, <1>6, <1>7 DEF Sound

\* New captured data makes nothing newer than the sources.
LEMMA SourceSound ==
    ASSUME CacheInvariant, SourceChanges
    PROVE  Sound'
<1>. USE CacheAssumption DEF CacheInvariant, SourceChanges, Goto, Unlock
<1>1. /\ ~legacy /\ source' = source + 1
      /\ UNCHANGED <<dir, asked, got, pc, legacy, previous, cut>>
  OBVIOUS
<1>2. /\ asked \in [Workers -> 1..MaxSource + 1] /\ source \in Nat
      /\ got \in [Workers -> Reads \union {NoRead}]
      /\ pc \in [Workers \union {Pruner} ->
                   Locked \union {"idle", "wait", "read", "failed", "planned", "remove"}]
  BY CacheAssumption DEF TypeOK
<1>3. Versioned'
  BY <1>1, <1>2, Parts DEF Versioned
<1>4. ReadersCovered'
  BY <1>1, <1>2 DEF ReadersCovered
<1>5. Layout'
  BY <1>1, <1>2 DEF Layout, Cleared, Building, Built, Stashed
<1>6. DamageIsTransient'
  BY <1>1, <1>2 DEF DamageIsTransient
<1>7. FreshRead'
  BY <1>1, <1>2 DEF FreshRead
<1>. QED BY <1>3, <1>4, <1>5, <1>6, <1>7 DEF Sound

\* A death leaves the directories as they are, and is remembered if it left a
\* directory half removed.
LEMMA CrashSound ==
    ASSUME NEW p \in Processes, CacheInvariant, Crash(p)
    PROVE  Sound'
<1>. USE CacheAssumption DEF CacheInvariant, Crash, Goto, Unlock, Processes
<1>1. /\ pc' = [pc EXCEPT ![p] = IF p = Pruner THEN "idle" ELSE "failed"]
      /\ cut' = (cut \/ pc[p] \in {"drop", "discard", "remove"})
      /\ pc[p] \notin {"idle", "failed"} /\ p \in Workers \union {Pruner}
      /\ UNCHANGED <<dir, asked, got, source, legacy, previous>>
  OBVIOUS
<1>2. /\ asked \in [Workers -> 1..MaxSource + 1] /\ source \in Nat
      /\ got \in [Workers -> Reads \union {NoRead}]
      /\ pc \in [Workers \union {Pruner} ->
                   Locked \union {"idle", "wait", "read", "failed", "planned", "remove"}]
  BY CacheAssumption DEF TypeOK
<1>3. Versioned'
  BY <1>1, <1>2 DEF Versioned
<1>4. ReadersCovered'
  BY <1>1, <1>2 DEF ReadersCovered
<1>5. Layout'
  BY <1>1, <1>2 DEF Layout, Cleared, Building, Built, Stashed
<1>6. DamageIsTransient'
  BY <1>1, <1>2 DEF DamageIsTransient
<1>7. FreshRead'
  BY <1>1, <1>2 DEF FreshRead
<1>. QED BY <1>3, <1>4, <1>5, <1>6, <1>7 DEF Sound

\* A read that returns what it found ends; one that found nothing starts over or
\* gives up (read_validated of selectors.py).
LEMMA ReadSound ==
    ASSUME NEW w \in Workers, CacheInvariant, Read(w)
    PROVE  Sound'
<1>. USE CacheAssumption DEF CacheInvariant, Goto
<1>1. /\ pc[w] = "read" /\ lock = NoOne
      /\ UNCHANGED <<dir, source, legacy, previous, cut>>
  BY DEF Read
<1>2. /\ asked \in [Workers -> 1..MaxSource + 1] /\ source \in Nat
      /\ got \in [Workers -> Reads \union {NoRead}]
      /\ pc \in [Workers \union {Pruner} ->
                   Locked \union {"idle", "wait", "read", "failed", "planned", "remove"}]
  BY CacheAssumption DEF TypeOK
<1>3. CASE Validated(dir["entry"])
  <2>1. /\ got' = [got EXCEPT ![w] = Contents(dir["entry"])]
        /\ pc' = [pc EXCEPT ![w] = "idle"]
        /\ UNCHANGED asked
    BY <1>3 DEF Read
  <2>2. Versioned' /\ ReadersCovered'
    BY <1>1, <1>2, <2>1 DEF Versioned, ReadersCovered
  <2>3. Layout' /\ DamageIsTransient'
    BY <1>1, <1>2, <2>1 DEF Layout, Cleared, Building, Built, Stashed, DamageIsTransient
  <2>4. pc[Pruner] # "remove"
    BY <1>1 DEF LockMatches, Processes
  <2>5. dir["entry"] # Gone /\ asked[w] <= dir["entry"].ver /\ (dir["entry"].data = "whole" \/ cut)
    BY <1>1, <1>3, <2>4 DEF Validated, ReadersCovered, DamageIsTransient, Places
  <2>6. dir["entry"].held \/ dir["entry"].tables = dir["entry"].ver
    BY <2>5 DEF TablesRead, Places
  <2>7. /\ got'[w].ver = dir["entry"].ver /\ got'[w].tables = dir["entry"].tables
        /\ got'[w].held = dir["entry"].held /\ got'[w].whole = (dir["entry"].data = "whole")
        /\ \A v \in Workers : v # w => got'[v] = got[v]
    BY <1>2, <2>1 DEF Contents
  <2>8. got'[w].ver >= asked[w] /\ (got'[w].tables >= asked[w] \/ got'[w].held) /\ (got'[w].whole \/ cut)
    BY <1>2, <2>5, <2>6, <2>7, Parts DEF Places
  <2>9. FreshRead'
    BY <1>1, <2>1, <2>7, <2>8 DEF FreshRead
  <2>. QED BY <2>2, <2>3, <2>9 DEF Sound
<1>4. CASE ~Validated(dir["entry"])
  <2>1. /\ UNCHANGED got
        /\ \/ asked' = [asked EXCEPT ![w] = source] /\ pc' = [pc EXCEPT ![w] = "wait"]
           \/ UNCHANGED asked /\ pc' = [pc EXCEPT ![w] = "failed"]
    BY <1>4 DEF Read
  <2>2. Versioned'
    BY <1>1, <1>2, <2>1 DEF Versioned
  <2>3. ReadersCovered'
    BY <1>1, <1>2, <2>1 DEF ReadersCovered
  <2>4. Layout'
    BY <1>1, <1>2, <2>1 DEF Layout, Cleared, Building, Built, Stashed
  <2>5. DamageIsTransient'
    BY <1>1, <1>2, <2>1 DEF DamageIsTransient
  <2>6. got[w] = NoRead
    BY <1>1 DEF ReadsEnd
  <2>7. FreshRead'
    BY <1>1, <1>2, <2>1, <2>6 DEF FreshRead
  <2>. QED BY <2>2, <2>3, <2>4, <2>5, <2>7 DEF Sound
<1>. QED BY <1>3, <1>4

\* While a process holds the lock, the others are outside their locked parts:
\* what it does to the directories concerns only itself and the readers.
LEMMA OthersOutside ==
    ASSUME CacheInvariant, NEW p \in Processes, pc[p] \in Locked \union {"remove"}
    PROVE  /\ \A w \in Workers : w # p => pc[w] \notin Locked
           /\ pc[Pruner] = "remove" => p = Pruner
<1>1. Workers \subseteq Processes /\ Pruner \in Processes
  BY DEF Processes
<1>. QED BY <1>1, Alone DEF CacheInvariant

\* Moving, damaging or removing directories brings no data and no manifest that
\* was not there, and so nothing too old for a reader.
LEMMA NothingNew ==
    ASSUME Versioned, ReadersCovered, UNCHANGED <<asked, source, legacy>>,
           \A w \in Workers : pc'[w] = "read" => pc[w] = "read",
           \A p \in Places : dir'[p] # Gone => \E q \in Places :
               /\ dir[q] # Gone
               /\ dir'[p].ver = dir[q].ver
               /\ HasManifest(dir'[p]) => HasManifest(dir[q]) /\ dir'[p].man.src = dir[q].man.src
    PROVE  Versioned' /\ ReadersCovered'
<1>1. Versioned'
  BY DEF Versioned
<1>2. ReadersCovered'
  BY DEF ReadersCovered
<1>. QED BY <1>1, <1>2

\* An entry that is gone is taken back from its stash; an unfinished build and
\* a second copy are dropped (_recover).
LEMMA RecoverSound ==
    ASSUME NEW w \in Workers, CacheInvariant, Recover(w)
    PROVE  Sound'
<1>. USE CacheAssumption DEF CacheInvariant, Goto
<1>1. /\ pc[w] = "recover"
      /\ UNCHANGED <<asked, got, source, legacy, previous, cut>>
  BY DEF Recover
<1>2. /\ asked \in [Workers -> 1..MaxSource + 1] /\ source \in Nat
      /\ got \in [Workers -> Reads \union {NoRead}]
      /\ pc \in [Workers \union {Pruner} ->
                   Locked \union {"idle", "wait", "read", "failed", "planned", "remove"}]
  BY CacheAssumption DEF TypeOK
<1>3. /\ \A v \in Workers : v # w => pc[v] \notin Locked
      /\ pc[Pruner] # "remove"
  BY <1>1, OthersOutside DEF Processes, Locked
<1>4. /\ dir' \in [Places -> Dirs \union {Gone}]
      /\ \/ /\ dir["entry"] = Gone \/ dir["old"] = Gone
            /\ dir'["entry"] = IF dir["entry"] = Gone THEN dir["old"] ELSE dir["entry"]
            /\ dir'["old"] = Gone /\ dir'["tmp"] = Gone
            /\ pc' = [pc EXCEPT ![w] = "check"]
         \/ /\ dir["entry"] # Gone /\ dir'["entry"] = dir["entry"]
            /\ dir'["tmp"] = Gone /\ pc' = [pc EXCEPT ![w] = "drop"]
            /\ dir'["old"] # Gone =>
                  /\ dir["old"] # Gone
                  /\ dir'["old"].ver = dir["old"].ver
                  /\ dir'["old"].man = dir["old"].man \/ dir'["old"].man = NoManifest
  <2>1. CASE dir["entry"] = Gone \/ dir["old"] = Gone
    BY <2>1, Parts DEF Recover, Places
  <2>2. CASE ~(dir["entry"] = Gone \/ dir["old"] = Gone)
    <3>1. PICK d \in Damaged(dir["old"]) \union {dir["old"]} :
            dir' = [dir EXCEPT !["old"] = d, !["tmp"] = Gone]
      BY <2>2 DEF Recover
    <3>2. dir["old"] \in Dirs
      BY <2>2, Parts DEF Places
    <3>3. d \in Dirs /\ d.ver = dir["old"].ver /\ (d.man = dir["old"].man \/ d.man = NoManifest)
      BY <3>1, <3>2, DamagedTyped
    <3>4. pc' = [pc EXCEPT ![w] = "drop"]
      BY <2>2 DEF Recover
    <3>. QED BY <2>2, <3>1, <3>3, <3>4, Parts DEF Places
  <2>. QED BY <2>1, <2>2
<1>5. \A p \in Places : dir'[p] # Gone => \E q \in Places :
          /\ dir[q] # Gone
          /\ dir'[p].ver = dir[q].ver
          /\ HasManifest(dir'[p]) => HasManifest(dir[q]) /\ dir'[p].man.src = dir[q].man.src
  <2>. SUFFICES ASSUME NEW p \in Places, dir'[p] # Gone
                PROVE  \E q \in Places :
                          /\ dir[q] # Gone
                          /\ dir'[p].ver = dir[q].ver
                          /\ HasManifest(dir'[p]) =>
                                 HasManifest(dir[q]) /\ dir'[p].man.src = dir[q].man.src
    OBVIOUS
  <2>1. CASE p = "entry"
    <3>1. PICK q \in {"entry", "old"} : dir'[p] = dir[q]
      BY <1>4, <2>1
    <3>. QED BY <3>1 DEF Places
  <2>2. CASE p = "old"
    <3>1. dir'["old"] # Gone
      BY <2>2
    <3>2. /\ dir["old"] # Gone
          /\ dir'["old"].ver = dir["old"].ver
          /\ dir'["old"].man = dir["old"].man \/ dir'["old"].man = NoManifest
      BY <1>4, <3>1
    <3>. QED BY <2>2, <3>2 DEF HasManifest, Places
  <2>. QED BY <1>4, <2>1, <2>2 DEF Places
<1>6. Versioned' /\ ReadersCovered'
  BY <1>1, <1>2, <1>4, <1>5, NothingNew
<1>7. Layout'
  BY <1>1, <1>2, <1>3, <1>4 DEF Layout, Cleared, Building, Built, Stashed, Locked
<1>8. DamageIsTransient'
  BY <1>1, <1>2, <1>3, <1>4 DEF DamageIsTransient, Locked
<1>9. FreshRead'
  BY <1>1 DEF FreshRead
<1>. QED BY <1>6, <1>7, <1>8, <1>9 DEF Sound

\* The second copy is removed; the entry is kept (_recover).
LEMMA DropSound ==
    ASSUME NEW w \in Workers, CacheInvariant, Drop(w)
    PROVE  Sound'
<1>. USE CacheAssumption DEF CacheInvariant, Goto, Unlock
<1>1. /\ pc[w] = "drop"
      /\ UNCHANGED <<asked, got, source, legacy, previous, cut>>
  BY DEF Drop
<1>2. /\ asked \in [Workers -> 1..MaxSource + 1] /\ source \in Nat
      /\ got \in [Workers -> Reads \union {NoRead}]
      /\ pc \in [Workers \union {Pruner} ->
                   Locked \union {"idle", "wait", "read", "failed", "planned", "remove"}]
  BY CacheAssumption DEF TypeOK
<1>3. (\A v \in Workers : v # w => pc[v] \notin Locked) /\ pc[Pruner] # "remove"
  BY <1>1, OthersOutside DEF Processes, Locked
<1>4. /\ dir' = [dir EXCEPT !["old"] = Gone] /\ pc' = [pc EXCEPT ![w] = "check"]
      /\ dir'["entry"] = dir["entry"] /\ dir'["old"] = Gone /\ dir'["tmp"] = dir["tmp"]
      /\ dir["tmp"] = Gone
  BY <1>1, Parts DEF Drop, Places, Layout, Cleared
<1>5. \A p \in Places : dir'[p] # Gone => \E q \in Places :
          /\ dir[q] # Gone
          /\ dir'[p].ver = dir[q].ver
          /\ HasManifest(dir'[p]) => HasManifest(dir[q]) /\ dir'[p].man.src = dir[q].man.src
  BY <1>4 DEF Places
<1>6. Versioned' /\ ReadersCovered'
  BY <1>1, <1>2, <1>4, <1>5, NothingNew
<1>7. Layout'
  BY <1>1, <1>2, <1>3, <1>4 DEF Layout, Cleared, Building, Built, Stashed, Locked
<1>8. DamageIsTransient'
  BY <1>1, <1>2, <1>3, <1>4 DEF DamageIsTransient, Locked
<1>9. FreshRead'
  BY <1>1 DEF FreshRead
<1>. QED BY <1>6, <1>7, <1>8, <1>9 DEF Sound

\* A build that fails leaves the entry as it was (get_or_build).
LEMMA BuildFailsSound ==
    ASSUME NEW w \in Workers, CacheInvariant, BuildFails(w)
    PROVE  Sound'
<1>. USE CacheAssumption DEF CacheInvariant, Goto, Unlock
<1>1. /\ pc[w] = "build"
      /\ UNCHANGED <<asked, got, source, legacy, previous, cut>>
  BY DEF BuildFails
<1>2. /\ asked \in [Workers -> 1..MaxSource + 1] /\ source \in Nat
      /\ got \in [Workers -> Reads \union {NoRead}]
      /\ pc \in [Workers \union {Pruner} ->
                   Locked \union {"idle", "wait", "read", "failed", "planned", "remove"}]
  BY CacheAssumption DEF TypeOK
<1>3. (\A v \in Workers : v # w => pc[v] \notin Locked) /\ pc[Pruner] # "remove"
  BY <1>1, OthersOutside DEF Processes, Locked
<1>4. /\ dir' = [dir EXCEPT !["tmp"] = Gone] /\ pc' = [pc EXCEPT ![w] = "failed"]
      /\ dir'["entry"] = dir["entry"] /\ dir'["old"] = dir["old"] /\ dir'["tmp"] = Gone
  BY <1>1, Parts DEF BuildFails, Places
<1>5. \A p \in Places : dir'[p] # Gone => \E q \in Places :
          /\ dir[q] # Gone
          /\ dir'[p].ver = dir[q].ver
          /\ HasManifest(dir'[p]) => HasManifest(dir[q]) /\ dir'[p].man.src = dir[q].man.src
  BY <1>4 DEF Places
<1>6. Versioned' /\ ReadersCovered'
  BY <1>1, <1>2, <1>4, <1>5, NothingNew
<1>7. Layout'
  BY <1>1, <1>2, <1>3, <1>4 DEF Layout, Cleared, Building, Built, Stashed, Locked
<1>8. DamageIsTransient'
  BY <1>1, <1>2, <1>3, <1>4 DEF DamageIsTransient, Locked
<1>9. FreshRead'
  BY <1>1 DEF FreshRead
<1>. QED BY <1>6, <1>7, <1>8, <1>9 DEF Sound

\* The entry is moved out of the way of the finished build (_commit).
LEMMA StashSound ==
    ASSUME NEW w \in Workers, CacheInvariant, Stash(w)
    PROVE  Sound'
<1>. USE CacheAssumption DEF CacheInvariant, Goto, Unlock
<1>1. /\ pc[w] = "commit"
      /\ UNCHANGED <<asked, got, source, legacy, previous, cut>>
  BY DEF Stash
<1>2. /\ asked \in [Workers -> 1..MaxSource + 1] /\ source \in Nat
      /\ got \in [Workers -> Reads \union {NoRead}]
      /\ pc \in [Workers \union {Pruner} ->
                   Locked \union {"idle", "wait", "read", "failed", "planned", "remove"}]
  BY CacheAssumption DEF TypeOK
<1>3. (\A v \in Workers : v # w => pc[v] \notin Locked) /\ pc[Pruner] # "remove"
  BY <1>1, OthersOutside DEF Processes, Locked
<1>4. /\ pc' = [pc EXCEPT ![w] = "swap"]
      /\ dir'["entry"] = Gone /\ dir'["old"] = dir["entry"] /\ dir'["tmp"] = dir["tmp"]
  BY <1>1, Parts DEF Stash, Places
<1>5. \A p \in Places : dir'[p] # Gone => \E q \in Places :
          /\ dir[q] # Gone
          /\ dir'[p].ver = dir[q].ver
          /\ HasManifest(dir'[p]) => HasManifest(dir[q]) /\ dir'[p].man.src = dir[q].man.src
  BY <1>4 DEF Places
<1>6. Versioned' /\ ReadersCovered'
  BY <1>1, <1>2, <1>4, <1>5, NothingNew
<1>7. Layout'
  BY <1>1, <1>2, <1>3, <1>4 DEF Layout, Cleared, Building, Built, Stashed, Locked
<1>8. DamageIsTransient'
  BY <1>1, <1>2, <1>3, <1>4 DEF DamageIsTransient, Locked
<1>9. FreshRead'
  BY <1>1 DEF FreshRead
<1>. QED BY <1>6, <1>7, <1>8, <1>9 DEF Sound

\* The predecessor is put back when the build cannot be moved in (_commit).
LEMMA SwapFailsSound ==
    ASSUME NEW w \in Workers, CacheInvariant, SwapFails(w)
    PROVE  Sound'
<1>. USE CacheAssumption DEF CacheInvariant, Goto, Unlock
<1>1. /\ pc[w] = "swap"
      /\ UNCHANGED <<asked, got, source, legacy, previous, cut>>
  BY DEF SwapFails
<1>2. /\ asked \in [Workers -> 1..MaxSource + 1] /\ source \in Nat
      /\ got \in [Workers -> Reads \union {NoRead}]
      /\ pc \in [Workers \union {Pruner} ->
                   Locked \union {"idle", "wait", "read", "failed", "planned", "remove"}]
  BY CacheAssumption DEF TypeOK
<1>3. (\A v \in Workers : v # w => pc[v] \notin Locked) /\ pc[Pruner] # "remove"
  BY <1>1, OthersOutside DEF Processes, Locked
<1>4. /\ pc' = [pc EXCEPT ![w] = "failed"]
      /\ dir'["entry"] = dir["old"] /\ dir'["old"] = Gone /\ dir'["tmp"] = Gone
  BY <1>1, Parts DEF SwapFails, Places
<1>5. \A p \in Places : dir'[p] # Gone => \E q \in Places :
          /\ dir[q] # Gone
          /\ dir'[p].ver = dir[q].ver
          /\ HasManifest(dir'[p]) => HasManifest(dir[q]) /\ dir'[p].man.src = dir[q].man.src
  BY <1>4 DEF Places
<1>6. Versioned' /\ ReadersCovered'
  BY <1>1, <1>2, <1>4, <1>5, NothingNew
<1>7. Layout'
  BY <1>1, <1>2, <1>3, <1>4 DEF Layout, Cleared, Building, Built, Stashed, Locked
<1>8. DamageIsTransient'
  BY <1>1, <1>2, <1>3, <1>4 DEF DamageIsTransient, Locked
<1>9. FreshRead'
  BY <1>1 DEF FreshRead
<1>. QED BY <1>6, <1>7, <1>8, <1>9 DEF Sound

\* A valid entry holds arrays at least as new as the sources were, because its
\* manifest names their fingerprint (get_or_build).
LEMMA HitSound ==
    ASSUME NEW w \in Workers, CacheInvariant, Hit(w)
    PROVE  Sound'
<1>. USE CacheAssumption DEF CacheInvariant, Goto, Unlock
<1>1. /\ pc[w] = "check"
      /\ UNCHANGED <<asked, got, source, legacy, previous, cut>>
  BY DEF Hit
<1>2. /\ asked \in [Workers -> 1..MaxSource + 1] /\ source \in Nat
      /\ got \in [Workers -> Reads \union {NoRead}]
      /\ pc \in [Workers \union {Pruner} ->
                   Locked \union {"idle", "wait", "read", "failed", "planned", "remove"}]
  BY CacheAssumption DEF TypeOK
<1>3. (\A v \in Workers : v # w => pc[v] \notin Locked) /\ pc[Pruner] # "remove"
  BY <1>1, OthersOutside DEF Processes, Locked
<1>4. /\ pc' = [pc EXCEPT ![w] = "read"]
      /\ dir'["entry"] # Gone /\ dir'["entry"].ver = dir["entry"].ver
      /\ dir'["entry"].data = dir["entry"].data /\ dir'["entry"].man.src = asked[w]
      /\ dir["entry"] # Gone /\ dir["entry"].man.src = asked[w] /\ HasManifest(dir["entry"])
      /\ dir["old"] = Gone /\ dir["tmp"] = Gone /\ dir'["old"] = Gone /\ dir'["tmp"] = Gone
  <2>1. dir["entry"] \in Dirs /\ dir["entry"].man \in Manifests /\ dir["entry"].man.src = asked[w]
        /\ dir["entry"] # Gone /\ HasManifest(dir["entry"])
    BY Parts DEF Hit, ValidFor, HasManifest, Places
  <2>2. dir["old"] = Gone /\ dir["tmp"] = Gone
    BY <1>1 DEF Layout, Cleared
  <2>3. CASE UNCHANGED <<dir, touches>>
    BY <2>1, <2>2, <2>3 DEF Hit
  <2>4. CASE dir' = [dir EXCEPT !["entry"].man.accessed = touches + 1]
    <3>. DEFINE m == [dir["entry"].man EXCEPT !.accessed = touches + 1]
                d == [dir["entry"] EXCEPT !.man = m]
    <3>1. dir' = [dir EXCEPT !["entry"] = d]
      BY <2>4
    <3>2. m.src = asked[w]
      BY <2>1 DEF Manifests
    <3>3. d.ver = dir["entry"].ver /\ d.data = dir["entry"].data /\ d.man = m
          /\ d \in [man : {m}, ver : {d.ver}, tables : {d.tables}, held : {d.held}, data : {d.data}]
      BY <2>1 DEF Dirs
    <3>4. d # Gone
      BY <3>3 DEF Gone
    <3>. HIDE DEF m, d
    <3>. QED BY <2>1, <2>2, <3>1, <3>2, <3>3, <3>4, Parts DEF Hit, Places
  <2>. QED BY <2>3, <2>4 DEF Hit
<1>5. Versioned'
  BY <1>1, <1>2, <1>4, Parts DEF Versioned, Places
<1>6. ReadersCovered'
  BY <1>1, <1>2, <1>4, Parts DEF ReadersCovered, Versioned, Places
<1>7. Layout'
  BY <1>1, <1>2, <1>3, <1>4 DEF Layout, Cleared, Building, Built, Stashed, Locked
<1>8. DamageIsTransient'
  BY <1>1, <1>2, <1>3, <1>4 DEF DamageIsTransient, Locked
<1>9. FreshRead'
  BY <1>1 DEF FreshRead
<1>. QED BY <1>5, <1>6, <1>7, <1>8, <1>9 DEF Sound

\* An entry without a manifest is given one only for callers whose sources never
\* change (get_or_build with adopt_legacy).
LEMMA AdoptSound ==
    ASSUME NEW w \in Workers, CacheInvariant, Adopt(w)
    PROVE  Sound'
<1>. USE CacheAssumption DEF CacheInvariant, Goto, Unlock
<1>1. /\ pc[w] = "check"
      /\ UNCHANGED <<asked, got, source, legacy, previous, cut>>
  BY DEF Adopt
<1>2. /\ asked \in [Workers -> 1..MaxSource + 1] /\ source \in Nat
      /\ got \in [Workers -> Reads \union {NoRead}]
      /\ pc \in [Workers \union {Pruner} ->
                   Locked \union {"idle", "wait", "read", "failed", "planned", "remove"}]
  BY CacheAssumption DEF TypeOK
<1>3. (\A v \in Workers : v # w => pc[v] \notin Locked) /\ pc[Pruner] # "remove"
  BY <1>1, OthersOutside DEF Processes, Locked
<1>4. /\ pc' = [pc EXCEPT ![w] = "read"]
      /\ dir'["entry"] # Gone /\ dir'["entry"].ver = dir["entry"].ver
      /\ dir'["entry"].data = dir["entry"].data /\ dir'["entry"].man.src = asked[w]
      /\ dir["entry"] # Gone /\ dir["entry"].ver \in 1..MaxSource + 1 /\ legacy
      /\ dir["old"] = Gone /\ dir["tmp"] = Gone /\ dir'["old"] = Gone /\ dir'["tmp"] = Gone
  <2>1. dir["entry"] \in Dirs /\ dir["entry"] # Gone
    BY Parts DEF Adopt, Validated, Places
  <2>2. dir["old"] = Gone /\ dir["tmp"] = Gone
    BY <1>1 DEF Layout, Cleared
  <2>. DEFINE m == NewManifest(w, FALSE)
              d == [dir["entry"] EXCEPT !.man = m]
  <2>3. dir' = [dir EXCEPT !["entry"] = d]
    BY DEF Adopt
  <2>4. m.src = asked[w]
    BY DEF NewManifest
  <2>5. d.ver = dir["entry"].ver /\ d.data = dir["entry"].data /\ d.man = m
        /\ d \in [man : {m}, ver : {d.ver}, tables : {d.tables}, held : {d.held}, data : {d.data}]
    BY <2>1 DEF Dirs
  <2>6. d # Gone
    BY <2>5 DEF Gone
  <2>7. dir["entry"].ver \in 1..MaxSource + 1
    BY <2>1 DEF Dirs
  <2>. HIDE DEF m, d
  <2>. QED BY <2>1, <2>2, <2>3, <2>4, <2>5, <2>6, <2>7, Parts DEF Adopt, Places
<1>5. Versioned'
  BY <1>1, <1>2, <1>4, Parts DEF Versioned, Places
<1>6. ReadersCovered'
  BY <1>1, <1>2, <1>4, Parts DEF ReadersCovered, Versioned, Places
<1>7. Layout'
  BY <1>1, <1>2, <1>3, <1>4 DEF Layout, Cleared, Building, Built, Stashed, Locked
<1>8. DamageIsTransient'
  BY <1>1, <1>2, <1>3, <1>4 DEF DamageIsTransient, Locked
<1>9. FreshRead'
  BY <1>1 DEF FreshRead
<1>. QED BY <1>5, <1>6, <1>7, <1>8, <1>9 DEF Sound

\* A build starts from the arrays as they are now, so they are as new as anything
\* a reader waits for (get_or_build).
LEMMA MissSound ==
    ASSUME NEW w \in Workers, CacheInvariant, Miss(w)
    PROVE  Sound'
<1>. USE CacheAssumption DEF CacheInvariant, Goto, Unlock
<1>1. /\ pc[w] = "check"
      /\ UNCHANGED <<asked, got, source, legacy, cut>>
  BY DEF Miss
<1>2. /\ asked \in [Workers -> 1..MaxSource + 1] /\ source \in Nat
      /\ got \in [Workers -> Reads \union {NoRead}]
      /\ pc \in [Workers \union {Pruner} ->
                   Locked \union {"idle", "wait", "read", "failed", "planned", "remove"}]
  BY CacheAssumption DEF TypeOK
<1>3. (\A v \in Workers : v # w => pc[v] \notin Locked) /\ pc[Pruner] # "remove"
  BY <1>1, OthersOutside DEF Processes, Locked
<1>4. /\ pc' = [pc EXCEPT ![w] = "build"]
      /\ dir'["entry"] = dir["entry"] /\ dir["old"] = Gone /\ dir'["old"] = Gone
      /\ dir'["tmp"] # Gone /\ dir'["tmp"].ver = source /\ ~HasManifest(dir'["tmp"])
      /\ \A v \in Workers : v # w => previous'[v] = previous[v]
      /\ HasManifest(dir["entry"]) => dir["entry"].man.pinned = previous'[w]
      /\ ~ValidFor(dir["entry"], asked[w])
  <2>1. dir["old"] = Gone
    BY <1>1 DEF Layout, Cleared
  <2>2. PICK d \in Starts : dir' = [dir EXCEPT !["tmp"] = d]
    BY DEF Miss
  <2>3. d # Gone
    BY StartsTyped, GoneDiffers
  <2>4. d.ver = source /\ d.man = NoManifest /\ dir' = [dir EXCEPT !["tmp"] = d]
    BY <2>2, StartsTyped
  <2>5. previous \in [Workers -> BOOLEAN]
    BY DEF TypeOK
  <2>. QED BY <2>1, <2>2, <2>3, <2>4, <2>5, Parts DEF Miss, Places, HasManifest
<1>5. Versioned'
  BY <1>1, <1>2, <1>4, Parts DEF Versioned, Places
<1>6. ReadersCovered'
  BY <1>1, <1>2, <1>4, Parts DEF ReadersCovered, Versioned, Places
<1>7. Layout'
  BY <1>1, <1>2, <1>3, <1>4, Parts DEF Versioned, Places, Layout, Cleared, Building, Built, Stashed, Locked
<1>8. DamageIsTransient'
  BY <1>1, <1>2, <1>3, <1>4, Parts DEF DamageIsTransient, Locked
<1>9. FreshRead'
  BY <1>1 DEF FreshRead
<1>. QED BY <1>5, <1>6, <1>7, <1>8, <1>9 DEF Sound

\* A finished build carries the fingerprint the worker asked for and the pin of
\* the entry it replaces (get_or_build).
LEMMA BuildSound ==
    ASSUME NEW w \in Workers, CacheInvariant, Build(w)
    PROVE  Sound'
<1>. USE CacheAssumption DEF CacheInvariant, Goto, Unlock
<1>1. /\ pc[w] = "build"
      /\ UNCHANGED <<asked, got, source, legacy, previous, cut>>
  BY DEF Build
<1>2. /\ asked \in [Workers -> 1..MaxSource + 1] /\ source \in Nat
      /\ got \in [Workers -> Reads \union {NoRead}]
      /\ pc \in [Workers \union {Pruner} ->
                   Locked \union {"idle", "wait", "read", "failed", "planned", "remove"}]
  BY CacheAssumption DEF TypeOK
<1>3. (\A v \in Workers : v # w => pc[v] \notin Locked) /\ pc[Pruner] # "remove"
  BY <1>1, OthersOutside DEF Processes, Locked
<1>4. /\ pc' = [pc EXCEPT ![w] = "commit"]
      /\ dir'["entry"] = dir["entry"] /\ dir'["old"] = dir["old"] /\ dir["tmp"] # Gone
      /\ dir'["tmp"] # Gone /\ dir'["tmp"].ver = dir["tmp"].ver /\ dir'["tmp"].data = "whole"
      /\ HasManifest(dir'["tmp"]) /\ dir'["tmp"].man.src = asked[w]
      /\ dir'["tmp"].man.pinned = previous[w]
  <2>1. dir["tmp"] \in Dirs /\ dir["tmp"] # Gone
    BY <1>1, Parts DEF Layout, Building, Places
  <2>. DEFINE m == NewManifest(w, previous[w])
              d == [[dir["tmp"] EXCEPT !.man = m] EXCEPT !.data = "whole"]
  <2>2. dir' = [dir EXCEPT !["tmp"] = d]
    BY <2>1, Parts DEF Build, Places
  <2>3. m.src = asked[w] /\ m.pinned = previous[w] /\ m.id = builds + 1
    BY DEF NewManifest
  <2>4. m # NoManifest
    BY <2>3 DEF NoManifest, TypeOK
  <2>5. d.ver = dir["tmp"].ver /\ d.data = "whole" /\ d.man = m
        /\ d \in [man : {m}, ver : {d.ver}, tables : {d.tables}, held : {d.held}, data : {d.data}]
    BY <2>1 DEF Dirs
  <2>6. d # Gone
    BY <2>5 DEF Gone
  <2>. HIDE DEF m, d
  <2>. QED BY <2>1, <2>2, <2>3, <2>4, <2>5, <2>6, Parts DEF Build, Places, HasManifest
<1>5. Versioned'
  BY <1>1, <1>2, <1>4, Parts DEF Versioned, Layout, Building, Places
<1>6. ReadersCovered'
  BY <1>1, <1>2, <1>4, Parts DEF ReadersCovered, Places
<1>7. Layout'
  BY <1>1, <1>2, <1>3, <1>4 DEF Layout, Cleared, Building, Built, Stashed, Locked
<1>8. DamageIsTransient'
  BY <1>1, <1>2, <1>3, <1>4 DEF DamageIsTransient, Locked
<1>9. FreshRead'
  BY <1>1 DEF FreshRead
<1>. QED BY <1>5, <1>6, <1>7, <1>8, <1>9 DEF Sound

\* The finished build becomes the entry; it is no older than what it replaces
\* (_commit).
LEMMA SwapSound ==
    ASSUME NEW w \in Workers, CacheInvariant, Swap(w)
    PROVE  Sound'
<1>. USE CacheAssumption DEF CacheInvariant, Goto, Unlock
<1>1. /\ pc[w] = "swap"
      /\ UNCHANGED <<asked, got, source, legacy, previous, cut>>
  BY DEF Swap
<1>2. /\ asked \in [Workers -> 1..MaxSource + 1] /\ source \in Nat
      /\ got \in [Workers -> Reads \union {NoRead}]
      /\ pc \in [Workers \union {Pruner} ->
                   Locked \union {"idle", "wait", "read", "failed", "planned", "remove"}]
  BY CacheAssumption DEF TypeOK
<1>3. (\A v \in Workers : v # w => pc[v] \notin Locked) /\ pc[Pruner] # "remove"
  BY <1>1, OthersOutside DEF Processes, Locked
<1>4. /\ \/ pc' = [pc EXCEPT ![w] = "read"] /\ dir["old"] = Gone
         \/ pc' = [pc EXCEPT ![w] = "discard"] /\ dir["old"] # Gone
      /\ dir'["entry"] = dir["tmp"] /\ dir'["old"] = dir["old"] /\ dir'["tmp"] = Gone
      /\ dir["tmp"] # Gone /\ asked[w] <= dir["tmp"].ver /\ dir["tmp"].data = "whole"
  BY <1>1, Parts DEF Swap, Places, Layout, Stashed, Built, HasManifest
<1>5. Versioned'
  BY <1>1, <1>2, <1>4, Parts DEF Versioned, Places
<1>6. ReadersCovered'
  BY <1>1, <1>2, <1>4, Parts DEF ReadersCovered, Places
<1>7. Layout'
  BY <1>1, <1>2, <1>3, <1>4 DEF Layout, Cleared, Building, Built, Stashed, Locked
<1>8. DamageIsTransient'
  BY <1>1, <1>2, <1>3, <1>4 DEF DamageIsTransient, Locked
<1>9. FreshRead'
  BY <1>1 DEF FreshRead
<1>. QED BY <1>5, <1>6, <1>7, <1>8, <1>9 DEF Sound

\* The predecessor is removed file by file while the new entry stays (_commit).
LEMMA DiscardSound ==
    ASSUME NEW w \in Workers, CacheInvariant, Discard(w)
    PROVE  Sound'
<1>. USE CacheAssumption DEF CacheInvariant, Goto, Unlock
<1>1. /\ pc[w] = "discard"
      /\ UNCHANGED <<asked, got, source, legacy, previous, cut>>
  BY DEF Discard
<1>2. /\ asked \in [Workers -> 1..MaxSource + 1] /\ source \in Nat
      /\ got \in [Workers -> Reads \union {NoRead}]
      /\ pc \in [Workers \union {Pruner} ->
                   Locked \union {"idle", "wait", "read", "failed", "planned", "remove"}]
  BY CacheAssumption DEF TypeOK
<1>3. (\A v \in Workers : v # w => pc[v] \notin Locked) /\ pc[Pruner] # "remove"
  BY <1>1, OthersOutside DEF Processes, Locked
<1>4. /\ dir["entry"] # Gone /\ asked[w] <= dir["entry"].ver /\ dir["tmp"] = Gone
      /\ dir["old"] # Gone
      /\ dir'["entry"] = dir["entry"] /\ dir'["tmp"] = Gone
      /\ \/ /\ pc' = pc /\ dir'["old"] # Gone /\ dir'["old"].ver = dir["old"].ver
            /\ dir'["old"].man = dir["old"].man \/ dir'["old"].man = NoManifest
         \/ pc' = [pc EXCEPT ![w] = "read"] /\ dir'["old"] = Gone
  <2>1. /\ dir["entry"] # Gone /\ dir["old"] # Gone /\ dir["tmp"] = Gone
        /\ asked[w] <= dir["entry"].ver
    BY <1>1 DEF Layout, Cleared
  <2>2. CASE /\ \E d \in Damaged(dir["old"]) : dir' = [dir EXCEPT !["old"] = d]
             /\ UNCHANGED <<pc, lock>>
    <3>1. PICK d \in Damaged(dir["old"]) : dir' = [dir EXCEPT !["old"] = d]
      BY <2>2
    <3>2. dir["old"] \in Dirs
      BY <2>1, Parts DEF Places
    <3>3. d \in Dirs /\ d.ver = dir["old"].ver /\ (d.man = dir["old"].man \/ d.man = NoManifest)
      BY <3>1, <3>2, DamagedTyped
    <3>4. d # Gone
      BY <3>3, GoneDiffers
    <3>. QED BY <2>1, <2>2, <3>1, <3>3, <3>4, Parts DEF Places
  <2>3. CASE dir' = [dir EXCEPT !["old"] = Gone] /\ Goto(w, "read") /\ Unlock(w)
    BY <2>1, <2>3, Parts DEF Places
  <2>. QED BY <2>2, <2>3 DEF Discard
<1>5. Versioned'
  BY <1>1, <1>2, <1>4, Parts DEF Versioned, Places, HasManifest
<1>6. ReadersCovered'
  BY <1>1, <1>2, <1>4, Parts DEF ReadersCovered, Places
<1>7. Layout'
  BY <1>1, <1>2, <1>3, <1>4 DEF Layout, Cleared, Building, Built, Stashed, Locked
<1>8. DamageIsTransient'
  BY <1>1, <1>2, <1>3, <1>4 DEF DamageIsTransient, Locked
<1>9. FreshRead'
  BY <1>1 DEF FreshRead
<1>. QED BY <1>5, <1>6, <1>7, <1>8, <1>9 DEF Sound

\* The pruner removes what is left of the entry (_prune).
LEMMA FinishRemovalSound ==
    ASSUME CacheInvariant, FinishRemoval
    PROVE  Sound'
<1>. USE CacheAssumption DEF CacheInvariant, Goto, Unlock
<1>1. /\ pc[Pruner] = "remove" /\ pc' = [pc EXCEPT ![Pruner] = "idle"]
      /\ dir' = [dir EXCEPT !["entry"] = Gone]
      /\ UNCHANGED <<asked, got, source, legacy, previous, cut>>
  BY DEF FinishRemoval
<1>2. /\ asked \in [Workers -> 1..MaxSource + 1] /\ source \in Nat
      /\ got \in [Workers -> Reads \union {NoRead}]
      /\ pc \in [Workers \union {Pruner} ->
                   Locked \union {"idle", "wait", "read", "failed", "planned", "remove"}]
  BY CacheAssumption DEF TypeOK
<1>3. \A v \in Workers : pc[v] \notin Locked
  BY <1>1, OthersOutside DEF Processes
<1>4. dir'["entry"] = Gone /\ dir'["old"] = dir["old"] /\ dir'["tmp"] = dir["tmp"]
  BY <1>1, Parts DEF Places
<1>5. \A p \in Places : dir'[p] # Gone => \E q \in Places :
          /\ dir[q] # Gone
          /\ dir'[p].ver = dir[q].ver
          /\ HasManifest(dir'[p]) => HasManifest(dir[q]) /\ dir'[p].man.src = dir[q].man.src
  BY <1>4 DEF Places, HasManifest
<1>6. Versioned' /\ ReadersCovered'
  BY <1>1, <1>2, <1>4, <1>5, NothingNew
<1>7. Layout'
  BY <1>1, <1>2, <1>3, <1>4 DEF Layout, Cleared, Building, Built, Stashed, Locked
<1>8. DamageIsTransient'
  BY <1>1, <1>2, <1>3, <1>4 DEF DamageIsTransient, Locked
<1>9. FreshRead'
  BY <1>1 DEF FreshRead
<1>. QED BY <1>6, <1>7, <1>8, <1>9 DEF Sound

\* The pruner removes an entry whose manifest is still the one it planned for, or
\* leaves it (_prune).
LEMMA PruneEntrySound ==
    ASSUME CacheInvariant, PruneEntry
    PROVE  Sound'
<1>. USE CacheAssumption DEF CacheInvariant, Goto, Unlock
<1>1. /\ pc[Pruner] = "planned" /\ lock = NoOne
      /\ UNCHANGED <<asked, got, source, legacy, previous, cut>>
  BY DEF PruneEntry
<1>2. /\ asked \in [Workers -> 1..MaxSource + 1] /\ source \in Nat
      /\ got \in [Workers -> Reads \union {NoRead}]
      /\ pc \in [Workers \union {Pruner} ->
                   Locked \union {"idle", "wait", "read", "failed", "planned", "remove"}]
  BY CacheAssumption DEF TypeOK
<1>3. \A v \in Workers : pc[v] \notin Locked
  BY <1>1 DEF LockMatches, Processes
<1>4. /\ dir'["old"] = dir["old"] /\ dir'["tmp"] = dir["tmp"]
      /\ \/ dir'["entry"] = dir["entry"] /\ pc' = [pc EXCEPT ![Pruner] = "idle"]
         \/ /\ dir["entry"] # Gone /\ dir'["entry"] # Gone
            /\ dir'["entry"].ver = dir["entry"].ver
            /\ dir'["entry"].man = dir["entry"].man \/ dir'["entry"].man = NoManifest
            /\ ~(HasManifest(dir'["entry"]) /\ dir'["entry"].data = "whole")
            /\ pc' = [pc EXCEPT ![Pruner] = "remove"]
  <2>1. CASE HasManifest(dir["entry"]) /\ dir["entry"].man \in plan /\ ~dir["entry"].man.pinned
    <3>1. PICK d \in Damaged(dir["entry"]) : dir' = [dir EXCEPT !["entry"] = d]
      BY <2>1 DEF PruneEntry
    <3>2. dir["entry"] \in Dirs /\ dir["entry"] # Gone
      BY <2>1, Parts DEF HasManifest, Places
    <3>3. /\ d \in Dirs /\ d.ver = dir["entry"].ver
          /\ d.man = dir["entry"].man \/ d.man = NoManifest
          /\ ~(HasManifest(d) /\ d.data = "whole")
      BY <3>1, <3>2, DamagedTyped
    <3>4. d # Gone /\ pc' = [pc EXCEPT ![Pruner] = "remove"]
      BY <2>1, <3>3, GoneDiffers DEF PruneEntry
    <3>. QED BY <3>1, <3>2, <3>3, <3>4, Parts DEF Places
  <2>2. CASE ~(HasManifest(dir["entry"]) /\ dir["entry"].man \in plan /\ ~dir["entry"].man.pinned)
    BY <2>2 DEF PruneEntry
  <2>. QED BY <2>1, <2>2
<1>5. \A p \in Places : dir'[p] # Gone => \E q \in Places :
          /\ dir[q] # Gone
          /\ dir'[p].ver = dir[q].ver
          /\ HasManifest(dir'[p]) => HasManifest(dir[q]) /\ dir'[p].man.src = dir[q].man.src
  BY <1>4 DEF Places, HasManifest
<1>6. Versioned' /\ ReadersCovered'
  BY <1>1, <1>2, <1>4, <1>5, NothingNew
<1>7. Layout'
  BY <1>1, <1>2, <1>3, <1>4 DEF Layout, Cleared, Building, Built, Stashed, Locked
<1>8. DamageIsTransient'
  BY <1>1, <1>2, <1>3, <1>4 DEF DamageIsTransient, Locked
<1>9. FreshRead'
  BY <1>1 DEF FreshRead
<1>. QED BY <1>6, <1>7, <1>8, <1>9 DEF Sound

\* Pinning rewrites nothing but the pin (set_pinned).
LEMMA SetPinnedSound ==
    ASSUME NEW pin \in BOOLEAN, CacheInvariant, SetPinned(pin)
    PROVE  Sound'
<1>. USE CacheAssumption DEF CacheInvariant, Goto, Unlock
<1>1. /\ lock = NoOne /\ HasManifest(dir["entry"])
      /\ UNCHANGED <<pc, asked, got, source, legacy, previous, cut>>
  BY DEF SetPinned
<1>2. /\ asked \in [Workers -> 1..MaxSource + 1] /\ source \in Nat
      /\ got \in [Workers -> Reads \union {NoRead}]
      /\ pc \in [Workers \union {Pruner} ->
                   Locked \union {"idle", "wait", "read", "failed", "planned", "remove"}]
  BY CacheAssumption DEF TypeOK
<1>3. \A v \in Workers : pc[v] \notin Locked
  BY <1>1 DEF LockMatches, Processes
<1>4. /\ dir'["old"] = dir["old"] /\ dir'["tmp"] = dir["tmp"]
      /\ dir["entry"] # Gone /\ dir'["entry"] # Gone
      /\ dir'["entry"].ver = dir["entry"].ver /\ dir'["entry"].data = dir["entry"].data
      /\ dir'["entry"].man.src = dir["entry"].man.src
      /\ dir'["entry"].man.pinned = pin
      /\ pc[Pruner] # "remove"
  <2>1. dir["entry"] \in Dirs /\ dir["entry"].man \in Manifests /\ dir["entry"] # Gone
    BY <1>1, Parts DEF HasManifest, Places
  <2>. DEFINE m == [dir["entry"].man EXCEPT !.pinned = pin]
              d == [dir["entry"] EXCEPT !.man = m]
  <2>2. dir' = [dir EXCEPT !["entry"] = d]
    BY DEF SetPinned
  <2>3. m.src = dir["entry"].man.src /\ m.pinned = pin
    BY <2>1 DEF Manifests
  <2>4. d.ver = dir["entry"].ver /\ d.data = dir["entry"].data /\ d.man = m
        /\ d \in [man : {m}, ver : {d.ver}, tables : {d.tables}, held : {d.held}, data : {d.data}]
    BY <2>1 DEF Dirs
  <2>5. d # Gone
    BY <2>4 DEF Gone
  <2>6. pc[Pruner] # "remove"
    BY <1>1 DEF LockMatches, Processes
  <2>. HIDE DEF m, d
  <2>. QED BY <2>1, <2>2, <2>3, <2>4, <2>5, <2>6, Parts DEF Places
<1>5. \A p \in Places : dir'[p] # Gone => \E q \in Places :
          /\ dir[q] # Gone
          /\ dir'[p].ver = dir[q].ver
          /\ HasManifest(dir'[p]) => HasManifest(dir[q]) /\ dir'[p].man.src = dir[q].man.src
  BY <1>1, <1>4 DEF Places
<1>6. Versioned' /\ ReadersCovered'
  BY <1>1, <1>2, <1>4, <1>5, NothingNew
<1>7. Layout'
  BY <1>1, <1>2, <1>3, <1>4 DEF Layout, Cleared, Building, Built, Stashed, Locked
<1>8. DamageIsTransient'
  BY <1>1, <1>2, <1>3, <1>4 DEF DamageIsTransient, Locked
<1>9. FreshRead'
  BY <1>1 DEF FreshRead
<1>. QED BY <1>6, <1>7, <1>8, <1>9 DEF Sound

-----------------------------------------------------------------------------
(* The theorems *)

\* Nobody has read or locked anything, and there is at most a whole old entry.
LEMMA CacheInit == Init => CacheInvariant
<1>. SUFFICES ASSUME Init PROVE CacheInvariant
  OBVIOUS
<1>. USE CacheAssumption DEF Init
<1>1. PICK e \in {Gone, [man |-> NoManifest, ver |-> 1, tables |-> 1, held |-> FALSE,
                          data |-> "whole"]} :
        dir = [p \in Places |-> IF p = "entry" THEN e ELSE Gone]
  OBVIOUS
<1>2. /\ e \in Dirs \union {Gone}
      /\ e # Gone => ~HasManifest(e) /\ e.ver = 1 /\ e.tables = 1 /\ e.data = "whole"
  <2>1. CASE e = Gone
    BY <2>1
  <2>2. CASE e # Gone
    <3>1. e = [man |-> NoManifest, ver |-> 1, tables |-> 1, held |-> FALSE, data |-> "whole"]
      BY <2>2
    <3>2. 1 \in 1..MaxSource + 1
      OBVIOUS
    <3>3. FALSE \in BOOLEAN /\ "whole" \in Data /\ NoManifest \in Manifests \union {NoManifest}
      BY DEF Data
    <3>4. e \in Dirs
      BY <3>1, <3>2, <3>3 DEF Dirs
    <3>5. ~HasManifest(e) /\ e.ver = 1 /\ e.tables = 1 /\ e.data = "whole"
      BY <3>1 DEF HasManifest
    <3>. QED BY <3>4, <3>5
  <2>. QED BY <2>1, <2>2
<1>3. dir["entry"] = e /\ dir["old"] = Gone /\ dir["tmp"] = Gone
  BY <1>1 DEF Places
<1>4. TypeOK
  <2>1. dir \in [Places -> Dirs \union {Gone}]
    BY <1>1, <1>2
  <2>2. MaxSource \in Nat /\ MaxBuilds \in Nat /\ MaxTouches \in Nat /\ MaxCrashes \in Nat
    OBVIOUS
  <2>3. /\ asked \in [Workers -> 1..MaxSource + 1] /\ tries \in [Workers -> 0..Attempts]
        /\ got \in [Workers -> Reads \union {NoRead}]
        /\ source \in 1..MaxSource + 1
    BY <2>2 DEF Attempts
  <2>4. builds \in 0..MaxBuilds /\ touches \in 0..MaxTouches /\ crashes \in 0..MaxCrashes
    BY <2>2
  <2>5. /\ pc \in [Workers \union {Pruner} ->
                   Locked \union {"idle", "wait", "read", "failed", "planned", "remove"}]
        /\ previous \in [Workers -> BOOLEAN] /\ plan \in SUBSET Manifests
        /\ legacy \in BOOLEAN /\ cut \in BOOLEAN /\ lock \in Workers \union {Pruner, NoOne}
    OBVIOUS
  <2>. QED BY <2>1, <2>3, <2>4, <2>5 DEF TypeOK
<1>5. Roles /\ LockMatches /\ ReadsEnd /\ FreshRead
  BY DEF Roles, LockMatches, ReadsEnd, FreshRead, Locked, Processes
<1>6. Versioned /\ ReadersCovered /\ TablesRead
  BY <1>2, <1>3 DEF Versioned, ReadersCovered, TablesRead, Places, HasManifest
<1>7. Layout /\ DamageIsTransient
  BY <1>2, <1>3 DEF Layout, Cleared, Building, Built, Stashed, DamageIsTransient
<1>. QED BY <1>4, <1>5, <1>6, <1>7 DEF CacheInvariant

\* Every step of every process, and every death, keeps the invariant.
LEMMA CacheStep == CacheInvariant /\ [Next]_vars => CacheInvariant'
<1>. SUFFICES ASSUME CacheInvariant, [Next]_vars PROVE CacheInvariant'
  OBVIOUS
<1>1. TypeOK'
  BY TypesStep DEF CacheInvariant
<1>2. Roles' /\ LockMatches' /\ ReadsEnd'
  BY LocksStep DEF CacheInvariant
<1>3. TablesRead'
  BY TablesStep DEF CacheInvariant
<1>4. Sound'
  <2>1. CASE UNCHANGED vars
    BY <2>1 DEF vars, CacheInvariant, Sound, Versioned, ReadersCovered, Layout, Cleared, Building,
                Built, Stashed, DamageIsTransient, FreshRead
  <2>2. CASE Next
    BY <2>2, AskSound, AcquireSound, TimesOutSound, RecoverSound, DropSound, HitSound, AdoptSound,
       MissSound, BuildSound, BuildFailsSound, StashSound, SwapSound, SwapFailsSound, DiscardSound, ReadSound,
       PlanSound, PruneEntrySound, FinishRemovalSound, SetPinnedSound, SourceSound, CrashSound
    DEF Next, WorkerStep, Processes
  <2>. QED BY <2>1, <2>2
<1>. QED BY <1>1, <1>2, <1>3, <1>4 DEF CacheInvariant, Sound

\* The locks, the directories and what their users know of them stay consistent.
THEOREM CacheInvariantHolds == Spec => []CacheInvariant
BY CacheInit, CacheStep, PTL DEF Spec

\* Every state of the cache is well typed.
THEOREM CacheTypeCorrect == Spec => []TypeOK
<1>1. CacheInvariant => TypeOK
  BY DEF CacheInvariant
<1>. QED BY <1>1, CacheInvariantHolds, PTL

\* Whatever workers, pruner and deaths do between the check of an entry and its
\* use, a read returns arrays at least as new as the sources were when it began,
\* tables as new unless the builder's dataset had read them before they changed
\* (the cached tables of traces/bundle.py), and whole data unless a process died in
\* an rmtree.
THEOREM FreshReadHolds == Spec => []FreshRead
<1>1. CacheInvariant => FreshRead
  BY DEF CacheInvariant
<1>. QED BY <1>1, CacheInvariantHolds, PTL

\* Builds of one key never overlap, and nobody builds what is already there.
THEOREM BuildsOnceHolds == Spec => []BuildsOnce
<1>1. CacheInvariant => BuildsOnce
  <2>. SUFFICES ASSUME CacheInvariant PROVE BuildsOnce
    OBVIOUS
  <2>1. \A w \in Workers : pc[w] \in {"build", "commit"} => ~ValidFor(dir["entry"], asked[w])
    BY DEF CacheInvariant, Layout, Building
  <2>2. \A p, q \in Processes :
           pc[p] \in Locked \union {"remove"} /\ pc[q] \in Locked \union {"remove"} => p = q
    BY DEF CacheInvariant, LockMatches
  <2>. QED BY <2>1, <2>2 DEF BuildsOnce, Processes
<1>. QED BY <1>1, CacheInvariantHolds, PTL

-----------------------------------------------------------------------------
(* The cache implements ManagedCopy *)

Usable(d) == HasManifest(d) /\ d.data = "whole"

\* The copy of ManagedCopy that a directory stands for.
CopyOf(d) == IF HasManifest(d) /\ d.data = "whole"
             THEN [ver |-> d.ver, pinned |-> d.man.pinned]
             ELSE [ver |-> 0, pinned |-> FALSE, none |-> TRUE]

\* A usable directory has a version and a pin, and is not the absence of a copy.
LEMMA CopyTyped ==
    ASSUME NEW d \in Dirs \union {Gone}
    PROVE  /\ Usable(d) => /\ d.man.pinned \in BOOLEAN
                           /\ CopyOf(d) = [ver |-> d.ver, pinned |-> d.man.pinned]
                           /\ CopyOf(d) \in Managed!Copies /\ CopyOf(d) # Managed!NoCopy
           /\ ~Usable(d) => CopyOf(d) = Managed!NoCopy
<1>1. Usable(d) => d \in Dirs /\ d.man \in Manifests
  BY DEF Usable, HasManifest, Dirs
<1>2. Usable(d) => d.ver \in 1..MaxSource + 1 /\ d.man.pinned \in BOOLEAN
  BY <1>1 DEF Dirs, Manifests
<1>3. Usable(d) => CopyOf(d) = [ver |-> d.ver, pinned |-> d.man.pinned]
  BY DEF CopyOf, Usable
<1>4. Usable(d) => CopyOf(d) \in Managed!Copies /\ CopyOf(d).ver # 0
  BY <1>2, <1>3, CacheAssumption DEF Managed!Copies
<1>5. Managed!NoCopy.ver = 0
  BY DEF Managed!NoCopy
<1>6. ~Usable(d) => CopyOf(d) = Managed!NoCopy
  BY DEF CopyOf, Usable, Managed!NoCopy
<1>. QED BY <1>2, <1>3, <1>4, <1>5, <1>6

\* Both sides of a step of the copy.
LEMMA CopyStep ==
    ASSUME TypeOK, TypeOK'
    PROVE  Visible \in Dirs \union {Gone} /\ Visible' \in Dirs \union {Gone}
BY DEF TypeOK, Visible, Places

\* A usable copy appears where there was none, or replaces one that is no newer
\* and has the same pin.
LEMMA PublishRefines ==
    ASSUME TypeOK, TypeOK', Usable(Visible'),
           Usable(Visible) => /\ Visible.ver <= Visible'.ver
                              /\ Visible'.man.pinned = Visible.man.pinned
    PROVE  Managed!Next
<1>. DEFINE c == CopyOf(Visible')
<1>1. c \in Managed!Copies /\ c = [ver |-> Visible'.ver, pinned |-> Visible'.man.pinned]
  BY CopyStep, CopyTyped
<1>2. Usable(Visible) => CopyOf(Visible) = [ver |-> Visible.ver, pinned |-> Visible.man.pinned]
  BY CopyStep, CopyTyped
<1>3. ~Usable(Visible) => CopyOf(Visible) = Managed!NoCopy
  BY CopyStep, CopyTyped
<1>4. CopyOf(Visible) # Managed!NoCopy => c.ver >= CopyOf(Visible).ver
                                          /\ c.pinned = CopyOf(Visible).pinned
  BY <1>1, <1>2, <1>3
<1>. HIDE DEF c
<1>5. Managed!Publish(c)
  BY <1>4 DEF Managed!Publish, CopyOf, c
<1>. QED BY <1>1, <1>5 DEF Managed!Next

\* An unpinned copy is taken away.
LEMMA RemoveRefines ==
    ASSUME TypeOK, TypeOK', Usable(Visible), ~Visible.man.pinned, ~Usable(Visible')
    PROVE  Managed!Next
<1>1. CopyOf(Visible) # Managed!NoCopy
      /\ CopyOf(Visible) = [ver |-> Visible.ver, pinned |-> Visible.man.pinned]
  BY CopyStep, CopyTyped
<1>2. CopyOf(Visible') = Managed!NoCopy
  BY CopyStep, CopyTyped
<1>3. ~CopyOf(Visible).pinned
  BY <1>1
<1>4. Managed!Remove
  BY <1>1, <1>2, <1>3 DEF Managed!Remove, CopyOf
<1>. QED BY <1>4 DEF Managed!Next

\* A step that leaves what a caller can get as it is.
LEMMA StutterRefines ==
    ASSUME Usable(Visible') <=> Usable(Visible),
           Usable(Visible) => /\ Visible'.ver = Visible.ver
                              /\ Visible'.man.pinned = Visible.man.pinned
    PROVE  CopyOf(Visible') = CopyOf(Visible)
BY DEF CopyOf, Usable

\* A step of the abstract copy, or none.
Simulates == Managed!Next \/ CopyOf(Visible') = CopyOf(Visible)

\* Steps that touch at most the build in progress show nothing.
LEMMA HiddenRefines ==
    ASSUME dir'["entry"] = dir["entry"], dir["entry"] # Gone \/ dir'["old"] = dir["old"]
    PROVE  Simulates
<1>1. Visible' = Visible
  BY DEF Visible
<1>. QED BY <1>1 DEF Simulates

\* Recovery and the two renames of a commit move the copy out of sight of nobody
\* (_recover, _commit).
LEMMA MovesRefine ==
    ASSUME NEW w \in Workers, CacheInvariant, Recover(w) \/ Stash(w) \/ SwapFails(w)
    PROVE  Simulates
<1>1. dir \in [Places -> Dirs \union {Gone}]
  BY Parts DEF CacheInvariant
<1>2. ASSUME Recover(w) PROVE Visible' = Visible
  BY <1>1, <1>2 DEF Recover, Visible, Places
<1>3. ASSUME Stash(w) PROVE Visible' = Visible
  <2>1. dir["old"] = Gone
    BY <1>3 DEF Stash, CacheInvariant, Layout, Building
  <2>. QED BY <1>1, <1>3, <2>1 DEF Stash, Visible, Places
<1>4. ASSUME SwapFails(w) PROVE Visible' = Visible
  <2>1. dir["entry"] = Gone
    BY <1>4 DEF SwapFails, CacheInvariant, Layout, Stashed
  <2>. QED BY <1>1, <1>4, <2>1 DEF SwapFails, Visible, Places
<1>. QED BY <1>2, <1>3, <1>4 DEF Simulates

\* A second copy is removed behind the entry (_recover, _commit).
LEMMA RemovalsRefine ==
    ASSUME NEW w \in Workers, CacheInvariant, Drop(w) \/ Discard(w)
    PROVE  Simulates
<1>1. dir \in [Places -> Dirs \union {Gone}]
  BY Parts DEF CacheInvariant
<1>2. dir["entry"] # Gone
  BY DEF Drop, Discard, CacheInvariant, Layout, Cleared
<1>3. dir'["entry"] = dir["entry"]
  BY <1>1 DEF Drop, Discard, Places
<1>. QED BY <1>2, <1>3, HiddenRefines

\* A hit rewrites nothing but the access time (get_or_build).
LEMMA HitRefines ==
    ASSUME NEW w \in Workers, CacheInvariant, Hit(w)
    PROVE  Simulates
<1>1. dir["entry"] \in Dirs /\ dir["entry"].man \in Manifests /\ dir["entry"] # Gone
      /\ dir \in [Places -> Dirs \union {Gone}] /\ HasManifest(dir["entry"])
  BY Parts DEF Hit, ValidFor, HasManifest, Places, CacheInvariant
<1>2. CASE UNCHANGED <<dir, touches>>
  BY <1>2, HiddenRefines
<1>3. CASE dir' = [dir EXCEPT !["entry"].man.accessed = touches + 1]
  <2>. DEFINE m == [dir["entry"].man EXCEPT !.accessed = touches + 1]
              d == [dir["entry"] EXCEPT !.man = m]
  <2>1. dir' = [dir EXCEPT !["entry"] = d]
    BY <1>3
  <2>2. m.pinned = dir["entry"].man.pinned /\ m.id = dir["entry"].man.id
    BY <1>1 DEF Manifests
  <2>3. m # NoManifest
    <3>1. m.id # 0
      BY <1>1, <2>2 DEF Manifests
    <3>. HIDE DEF m
    <3>. QED BY <3>1 DEF NoManifest
  <2>4. d.ver = dir["entry"].ver /\ d.data = dir["entry"].data /\ d.man = m
        /\ d \in [man : {m}, ver : {d.ver}, tables : {d.tables}, held : {d.held}, data : {d.data}]
    BY <1>1 DEF Dirs
  <2>5. d # Gone
    BY <2>4 DEF Gone
  <2>. HIDE DEF m, d
  <2>6. Visible = dir["entry"] /\ Visible' = d
    BY <1>1, <2>1, <2>5 DEF Visible, Places
  <2>7. Usable(Visible') <=> Usable(Visible)
    BY <1>1, <2>3, <2>4, <2>5, <2>6 DEF Usable, HasManifest
  <2>. QED BY <2>2, <2>4, <2>6, <2>7, StutterRefines DEF Simulates
<1>. QED BY <1>2, <1>3 DEF Hit

\* An adopted entry becomes a copy if it is whole (get_or_build with adopt_legacy).
LEMMA AdoptRefines ==
    ASSUME NEW w \in Workers, CacheInvariant, TypeOK', Adopt(w)
    PROVE  Simulates
<1>1. dir["entry"] \in Dirs /\ dir["entry"] # Gone /\ dir \in [Places -> Dirs \union {Gone}]
      /\ ~HasManifest(dir["entry"])
  BY Parts DEF Adopt, Validated, Places, CacheInvariant
<1>2. ~Usable(Visible)
  BY <1>1 DEF Usable, Visible
<1>3. CASE Usable(Visible')
  BY <1>2, <1>3, PublishRefines DEF Simulates, CacheInvariant
<1>4. CASE ~Usable(Visible')
  BY <1>2, <1>4, StutterRefines DEF Simulates
<1>. QED BY <1>3, <1>4

\* The finished build replaces what it was built to replace: it is as new, and
\* carries the same pin (_commit).
LEMMA SwapRefines ==
    ASSUME NEW w \in Workers, CacheInvariant, TypeOK', Swap(w)
    PROVE  Simulates
<1>1. /\ dir \in [Places -> Dirs \union {Gone}]
      /\ dir["entry"] = Gone /\ dir'["entry"] = dir["tmp"]
      /\ HasManifest(dir["tmp"]) /\ dir["tmp"].data = "whole"
      /\ dir["tmp"].man.pinned = previous[w]
      /\ dir["old"] # Gone => dir["old"].ver <= dir["tmp"].ver
      /\ HasManifest(dir["old"]) => dir["old"].man.pinned = previous[w]
  BY Parts DEF Swap, Places, CacheInvariant, Layout, Built, Stashed
<1>2. Visible = dir["old"] /\ Visible' = dir["tmp"] /\ Usable(Visible')
  BY <1>1 DEF Visible, Usable, HasManifest
<1>3. Usable(Visible) => Visible.ver <= Visible'.ver /\ Visible'.man.pinned = Visible.man.pinned
  BY <1>1, <1>2 DEF Usable, HasManifest
<1>. QED BY <1>2, <1>3, PublishRefines DEF Simulates, CacheInvariant

\* Pruning starts on an unpinned entry, and takes the copy away at its first
\* file (_prune).
LEMMA PruneEntryRefines ==
    ASSUME CacheInvariant, TypeOK', PruneEntry
    PROVE  Simulates
<1>. DEFINE e == dir["entry"]
<1>1. dir \in [Places -> Dirs \union {Gone}]
  BY Parts DEF CacheInvariant
<1>2. CASE HasManifest(e) /\ e.man \in plan /\ ~e.man.pinned
  <2>1. PICK d \in Damaged(e) : dir' = [dir EXCEPT !["entry"] = d]
    BY <1>2 DEF PruneEntry
  <2>2. e \in Dirs /\ e # Gone
    BY <1>1, <1>2 DEF HasManifest, Places
  <2>3. d \in Dirs /\ ~Usable(d)
    BY <2>1, <2>2, DamagedTyped DEF Usable
  <2>4. d # Gone
    BY <2>3, GoneDiffers
  <2>5. Visible = e /\ Visible' = d
    BY <1>1, <2>1, <2>2, <2>4 DEF Visible, Places
  <2>6. CASE Usable(Visible)
    BY <1>2, <2>3, <2>5, <2>6, RemoveRefines DEF Simulates, CacheInvariant
  <2>7. CASE ~Usable(Visible)
    BY <2>3, <2>5, <2>7, StutterRefines DEF Simulates
  <2>. QED BY <2>6, <2>7
<1>3. CASE ~(HasManifest(e) /\ e.man \in plan /\ ~e.man.pinned)
  <2>1. UNCHANGED dir
    BY <1>3 DEF PruneEntry
  <2>. QED BY <2>1, HiddenRefines
<1>. QED BY <1>2, <1>3

\* What is left of a pruned entry goes; a stash that a dead commit left behind
\* may take its place (_prune).
LEMMA FinishRemovalRefines ==
    ASSUME CacheInvariant, TypeOK', FinishRemoval
    PROVE  Simulates
<1>1. dir["entry"] # Gone /\ ~Usable(dir["entry"])
  BY DEF FinishRemoval, CacheInvariant, Layout, Usable
<1>2. ~Usable(Visible)
  BY <1>1 DEF Visible
<1>3. CASE Usable(Visible')
  BY <1>2, <1>3, PublishRefines DEF Simulates, CacheInvariant
<1>4. CASE ~Usable(Visible')
  BY <1>2, <1>4, StutterRefines DEF Simulates
<1>. QED BY <1>3, <1>4

\* A pin set on an entry is set on its copy (set_pinned).
LEMMA SetPinnedRefines ==
    ASSUME NEW pin \in BOOLEAN, CacheInvariant, TypeOK', SetPinned(pin)
    PROVE  Simulates
<1>1. dir["entry"] \in Dirs /\ dir["entry"].man \in Manifests /\ dir["entry"] # Gone
      /\ dir \in [Places -> Dirs \union {Gone}] /\ HasManifest(dir["entry"])
  BY Parts DEF SetPinned, HasManifest, Places, CacheInvariant
<1>. DEFINE m == [dir["entry"].man EXCEPT !.pinned = pin]
            d == [dir["entry"] EXCEPT !.man = m]
<1>2. dir' = [dir EXCEPT !["entry"] = d]
  BY DEF SetPinned
<1>3. m.pinned = pin /\ m # NoManifest
  <2>1. m.id # 0 /\ m.pinned = pin
    BY <1>1 DEF Manifests
  <2>. HIDE DEF m
  <2>. QED BY <2>1 DEF NoManifest
<1>4. d.ver = dir["entry"].ver /\ d.data = dir["entry"].data /\ d.man = m
      /\ d \in [man : {m}, ver : {d.ver}, tables : {d.tables}, held : {d.held}, data : {d.data}]
  BY <1>1 DEF Dirs
<1>5. d # Gone
  BY <1>4 DEF Gone
<1>. HIDE DEF m, d
<1>6. Visible = dir["entry"] /\ Visible' = d
  BY <1>1, <1>2, <1>5 DEF Visible, Places
<1>7. Usable(Visible') <=> Usable(Visible)
  BY <1>1, <1>3, <1>4, <1>5, <1>6 DEF Usable, HasManifest
<1>8. CASE Usable(Visible)
  <2>. DEFINE c == CopyOf(Visible)
              c2 == CopyOf(Visible')
  <2>1. c # Managed!NoCopy /\ c = [ver |-> Visible.ver, pinned |-> Visible.man.pinned]
    BY <1>8, CopyStep, CopyTyped DEF CacheInvariant
  <2>2. c2 = [ver |-> Visible.ver, pinned |-> pin]
    BY <1>3, <1>4, <1>6, <1>7, <1>8, CopyStep, CopyTyped DEF CacheInvariant
  <2>3. c2 = [c EXCEPT !.pinned = pin]
    BY <2>1, <2>2
  <2>. HIDE DEF c, c2
  <2>4. Managed!SetPinned(pin)
    BY <2>1, <2>3 DEF Managed!SetPinned, c, c2, CopyOf
  <2>. QED BY <2>4 DEF Managed!Next, Simulates
<1>9. CASE ~Usable(Visible)
  BY <1>7, <1>9, StutterRefines DEF Simulates
<1>. QED BY <1>8, <1>9

\* Renames, deaths between them and recovery are invisible: callers see a copy
\* that is only replaced by one with arrays at least as new and the same pin, and
\* only removed while it is not pinned.
THEOREM ImplementsCopyHolds == Spec => ImplementsCopy
<1>1. Init => Managed!Init
  <2>. SUFFICES ASSUME Init PROVE Managed!Init
    OBVIOUS
  <2>1. PICK e \in {Gone, [man |-> NoManifest, ver |-> 1, tables |-> 1, held |-> FALSE,
                          data |-> "whole"]} :
          dir = [p \in Places |-> IF p = "entry" THEN e ELSE Gone]
    BY DEF Init
  <2>2. ~HasManifest(e)
    BY <2>1 DEF HasManifest
  <2>3. Visible = e \/ Visible = Gone
    BY <2>1 DEF Visible, Places
  <2>4. ~HasManifest(Visible)
    BY <2>2, <2>3 DEF HasManifest
  <2>. QED BY <2>4 DEF Managed!Init, Managed!NoCopy
<1>2. CacheInvariant /\ [Next]_vars =>
        [Managed!Next]_(IF HasManifest(Visible) /\ Visible.data = "whole"
                        THEN [ver |-> Visible.ver, pinned |-> Visible.man.pinned]
                        ELSE [ver |-> 0, pinned |-> FALSE, none |-> TRUE])
  <2>. SUFFICES ASSUME CacheInvariant, [Next]_vars PROVE Simulates
    BY DEF Simulates, CopyOf
  <2>1. TypeOK'
    BY CacheStep DEF CacheInvariant
  <2>2. dir \in [Places -> Dirs \union {Gone}]
    BY Parts DEF CacheInvariant
  <2>3. ASSUME UNCHANGED dir PROVE Simulates
    BY <2>3, HiddenRefines
  <2>4. ASSUME NEW w \in Workers, Ask(w) \/ Acquire(w) \/ TimesOut(w) \/ Read(w)
        PROVE  Simulates
    BY <2>3, <2>4 DEF Ask, Acquire, TimesOut, Read
  <2>5. ASSUME NEW w \in Workers, Miss(w) \/ Build(w) \/ BuildFails(w)
        PROVE  Simulates
    <3>1. dir'["entry"] = dir["entry"] /\ dir'["old"] = dir["old"]
      BY <2>2, <2>5 DEF Miss, Build, BuildFails, Places
    <3>. QED BY <3>1, HiddenRefines
  <2>6. ASSUME NEW p, Plan \/ SourceChanges \/ Crash(p) PROVE Simulates
    BY <2>3, <2>6 DEF Plan, SourceChanges, Crash
  <2>7. CASE UNCHANGED vars
    BY <2>3, <2>7 DEF vars
  <2>8. CASE Next
    BY <2>1, <2>4, <2>5, <2>6, <2>8, MovesRefine, RemovalsRefine, HitRefines, AdoptRefines,
       SwapRefines, PruneEntryRefines, FinishRemovalRefines, SetPinnedRefines
    DEF Next, WorkerStep
  <2>. QED BY <2>7, <2>8
<1>. QED BY <1>1, <1>2, CacheInvariantHolds, PTL DEF Spec, ImplementsCopy, Managed!Spec

=============================================================================
