------------------------- MODULE EpisodeStore_proofs -------------------------
(* For every list of capture commands, every number of kills and any use of   *)
(* --force: types, and what the table of references promises.                 *)
EXTENDS EpisodeStore, TLAPS

\* The steps between the choice of an episode index and its reference.
Writing == {"info", "data", "media", "meta", "stats", "overlay", "manifest",
            "arrays", "refs", "counts"}

\* Position j of command h comes after position k of command g.
Before(g, k, h, j) == g < h \/ (g = h /\ k < j)

\* References are made in the order of the plan.
PlanOrder ==
  \A g, h \in DOMAIN Groups : \A k \in DOMAIN Groups[g], j \in DOMAIN Groups[h] :
    Before(g, k, h, j) /\ refs[Groups[h][j]] # None => refs[Groups[g][k]] # None

\* What the batch has passed is referenced and not lost.
Passed(g, k) == g < group \/ (g = group /\ pc \in Writing \cup {"rollout"} /\ k < pos)
Repaired ==
  /\ pc = "off" => group = 1
  /\ pc # "off" =>
       \A g \in DOMAIN Groups : \A k \in DOMAIN Groups[g] :
         Passed(g, k) => refs[Groups[g][k]] # None /\ ~Lost(Groups[g][k])

\* The index an episode is written under is its trace's own or nobody's; the
\* metadata is there before the overlay, and the overlay before the reference.
IndexIsOwn ==
  pc \in Writing =>
    /\ \A u \in Traces \ {Trace} : refs[u] # index
    /\ refs[Trace] \in {None, index}
    /\ pc \notin {"info", "data", "media", "meta"} => index \in Written
    /\ pc \in {"arrays", "refs", "counts"} => manifest[index] = Trace
    /\ pc = "counts" => refs[Trace] = index

IInv == TypeOK /\ ReferencesLead /\ PlanOrder /\ Repaired /\ IndexIsOwn

LEMMA GroupType ==
  ASSUME NEW g \in 1 .. Len(Groups)
  PROVE  Groups[g] \in Seq(Traces)
BY EpisodeAssumption

LEMMA Bounds == MaxIndex \in Nat /\ MaxCrashes \in Nat /\ Len(Groups) \in Nat
BY EpisodeAssumption

LEMMA NoneApart ==
  /\ None \notin Lengths /\ None \notin Traces /\ None \notin Indices
  /\ Cut \notin Lengths /\ Cut \notin Traces /\ Cut # None
BY EpisodeAssumption

\* What stands at a place of the plan is a trace, and stands nowhere else.
LEMMA PlaceType ==
  ASSUME NEW g \in DOMAIN Groups, NEW k \in DOMAIN Groups[g]
  PROVE  /\ g \in 1 .. Len(Groups) /\ k \in 1 .. Len(Groups[g])
         /\ Len(Groups[g]) \in Nat
         /\ Groups[g][k] \in Traces
<1>1. g \in 1 .. Len(Groups)
  BY EpisodeAssumption
<1>2. Groups[g] \in Seq(Traces)
  BY <1>1, GroupType
<1> QED BY <1>1, <1>2

LEMMA OnePlace ==
  ASSUME NEW g \in DOMAIN Groups, NEW k \in DOMAIN Groups[g],
         NEW h \in DOMAIN Groups, NEW j \in DOMAIN Groups[h],
         Groups[g][k] = Groups[h][j]
  PROVE  g = h /\ k = j
BY EpisodeAssumption

\* Every trace has a place.
LEMMA TracePlaces ==
  ASSUME NEW t \in Traces
  PROVE  \E g \in DOMAIN Groups : \E k \in DOMAIN Groups[g] : t = Groups[g][k]
<1>1. PICK g \in DOMAIN Groups : t \in ToSet(Groups[g])
  BY DEF Traces
<1> QED BY <1>1 DEF ToSet

\* While a trace is captured, it stands at the position of the batch.
LEMMA TraceHere ==
  ASSUME TypeOK, pc \notin {"off", "select"}, pos <= Len(Groups[group])
  PROVE  /\ group \in DOMAIN Groups /\ pos \in DOMAIN Groups[group]
         /\ Trace = Groups[group][pos] /\ Trace \in Traces
<1>1. group \in 1 .. Len(Groups)
  BY Bounds DEF TypeOK
<1>2. group \in DOMAIN Groups
  BY <1>1, EpisodeAssumption
<1>3. Groups[group] \in Seq(Traces)
  BY <1>1, GroupType
<1>4. pos \in 1 .. Len(Groups[group])
  BY <1>3 DEF TypeOK
<1> QED BY <1>2, <1>3, <1>4 DEF Trace

\* Init establishes the invariant.
LEMMA InitInv == Init => IInv
<1> SUFFICES ASSUME Init PROVE IInv
  OBVIOUS
<1> USE DEF Init
<1>1. TypeOK
  <2>1. /\ meta \in [Indices -> Lengths \cup {None}]
        /\ manifest \in [Indices -> Traces \cup {None, Cut}]
        /\ parts \in [Indices -> SUBSET Parts]
        /\ refs \in [Traces -> Indices \cup {None}]
        /\ torn \subseteq TornFiles \X Indices
    OBVIOUS
  <2>2. /\ group \in 1 .. Len(Groups) + 1 /\ index \in Indices
        /\ crashes \in 0 .. MaxCrashes
    BY Bounds DEF Indices
  <2> QED BY <2>1, <2>2 DEF TypeOK
<1>2. ReferencesLead
  BY DEF ReferencesLead
<1>3. IndexIsOwn
  BY DEF IndexIsOwn, Writing
<1>4. PlanOrder
  BY PlaceType DEF PlanOrder
<1>5. Repaired
  BY DEF Repaired
<1> QED BY <1>1, <1>2, <1>3, <1>4, <1>5 DEF IInv

\* Types are kept by every step.
LEMMA NextTypeOK == ASSUME TypeOK, [Next]_vars PROVE TypeOK'
<1> USE DEF TypeOK
<1>1. CASE UNCHANGED vars
  BY <1>1 DEF vars, files, batch
<1>2. ASSUME NEW f \in BOOLEAN, Start(f) PROVE TypeOK'
  BY <1>2 DEF Start, files
<1>3. CASE Skip
  BY <1>3, Bounds DEF Skip, files
<1>4. CASE RunCommand
  BY <1>4, Bounds DEF RunCommand, files
<1> DEFINE EndTypes ==
      /\ pc' = "off" /\ force' \in BOOLEAN /\ group' \in 1 .. Len(Groups) + 1
      /\ pos' \in Nat \ {0} /\ index' \in Indices /\ length' \in Lengths \cup {None}
<1>5. ASSUME ProcessEnds PROVE EndTypes
  <2>1. group' \in 1 .. Len(Groups) + 1 /\ index' \in Indices
    BY <1>5, Bounds DEF ProcessEnds, Indices
  <2> QED BY <1>5, <2>1 DEF ProcessEnds
<1>6. CASE EndCommand
  <2>1. CASE Opens
    <3>1. pc' = "select" /\ group' = group + 1 /\ group' \in 1 .. Len(Groups) + 1
      BY <1>6, <2>1, Bounds DEF EndCommand
    <3> QED BY <1>6, <2>1, <3>1 DEF EndCommand, files
  <2>2. CASE ~Opens
    BY <1>5, <1>6, <2>2 DEF EndCommand, files
  <2> QED BY <2>1, <2>2
<1>7. CASE EndBatch
  BY <1>5, <1>7 DEF EndBatch, files
<1>8. ASSUME NEW l \in Lengths, Rollout(l) PROVE TypeOK'
  BY <1>8, NoneApart DEF Rollout, files
<1>9. CASE RolloutFails
  BY <1>5, <1>9 DEF RolloutFails, files
<1>10. CASE WriteInfo
  BY <1>10 DEF WriteInfo, files
<1>11. CASE WriteData
  BY <1>11 DEF WriteData, Parts
<1>12. CASE WriteMedia
  BY <1>12 DEF WriteMedia, AddPart, Parts
<1>13. CASE WriteMeta
  BY <1>13 DEF WriteMeta, AddPart, Parts
<1>14. CASE WriteStats
  BY <1>5, <1>14 DEF WriteStats, files
<1>15. CASE RemoveOverlay
  BY <1>15 DEF RemoveOverlay
<1>16. CASE WriteManifest
  <2>1. Trace \in Traces
    BY <1>16, TraceHere DEF WriteManifest
  <2> QED BY <1>16, <2>1 DEF WriteManifest
<1>17. CASE WriteArrays
  BY <1>17 DEF WriteArrays, AddPart, Parts
<1>18. CASE WriteRef
  BY <1>18 DEF WriteRef
<1>19. CASE RefreshCounts
  BY <1>19 DEF RefreshCounts, files
<1>20. CASE Crash
  <2>1. torn' \subseteq TornFiles \X Indices
    BY <1>20 DEF Crash, InPlace, TornFiles
  <2>2. crashes' \in 0 .. MaxCrashes
    BY <1>20, Bounds DEF Crash
  <2>3. /\ meta' \in [Indices -> Lengths \cup {None}]
        /\ manifest' \in [Indices -> Traces \cup {None, Cut}]
        /\ parts' \in [Indices -> SUBSET Parts]
        /\ refs' = refs
    BY <1>20 DEF Crash
  <2>4. EndTypes
    BY <1>5, <1>20 DEF Crash
  <2> QED BY <2>1, <2>2, <2>3, <2>4
<1> QED
  BY <1>1, <1>2, <1>3, <1>4, <1>6, <1>7, <1>8, <1>9, <1>10, <1>11, <1>12, <1>13,
     <1>14, <1>15, <1>16, <1>17, <1>18, <1>19, <1>20 DEF Next, Write

\* A trace that is captured without a reference finds no row without episode:
\* the traces before it were repaired, the ones after it have no row.
LEMMA NoneLost ==
  ASSUME IInv, pc = "rollout", pos <= Len(Groups[group]), refs[Trace] = None,
         NEW t \in Traces
  PROVE  ~Lost(t)
<1>1. SUFFICES ASSUME refs[t] # None PROVE ~Lost(t)
  BY DEF Lost
<1>2. PICK h \in DOMAIN Groups : \E j \in DOMAIN Groups[h] : t = Groups[h][j]
  BY TracePlaces
<1>3. PICK j \in DOMAIN Groups[h] : t = Groups[h][j]
  BY <1>2
<1>4. group \in DOMAIN Groups /\ pos \in DOMAIN Groups[group] /\ Trace = Groups[group][pos]
  BY TraceHere DEF IInv
<1>5. h \in Nat /\ j \in Nat /\ group \in Nat /\ pos \in Nat
  BY <1>3, <1>4, PlaceType
<1>6. ~Before(group, pos, h, j)
  BY <1>1, <1>3, <1>4 DEF IInv, PlanOrder
<1>7. ~(h = group /\ j = pos)
  BY <1>1, <1>3, <1>4
<1>8. Passed(h, j)
  BY <1>5, <1>6, <1>7 DEF Before, Passed
<1> QED BY <1>3, <1>8 DEF IInv, Repaired

\* The table of references and the index being written under are kept by every
\* step.
LEMMA NextReferences ==
  ASSUME IInv, [Next]_vars
  PROVE  ReferencesLead' /\ IndexIsOwn'
<1> TypeOK /\ ReferencesLead /\ IndexIsOwn
  BY DEF IInv
<1>t. TypeOK'
  BY NextTypeOK
<1> USE NoneApart DEF Written
<1>0. ASSUME UNCHANGED <<manifest, refs>> PROVE ReferencesLead'
  BY <1>0 DEF ReferencesLead
<1>n. ASSUME pc' \notin Writing PROVE IndexIsOwn'
  BY <1>n DEF IndexIsOwn
<1>e. ProcessEnds => pc' \notin Writing
  BY DEF ProcessEnds, Writing
<1>c. Trace' = Trace \/ ~UNCHANGED <<group, pos>>
  BY DEF Trace
<1>h. pc \in Writing => Trace \in Traces
  BY TraceHere DEF Writing, TypeOK
\* a step from one writing pc to the next one that leaves meta, manifest and refs
<1>w. ASSUME pc \in Writing, pc' \in Writing,
             UNCHANGED <<meta, manifest, refs, group, pos, index>>,
             pc' \notin {"info", "data", "media", "meta"} => pc \notin {"info", "data", "media", "meta"},
             pc' \in {"arrays", "refs", "counts"} => pc \in {"arrays", "refs", "counts"},
             pc' # "counts"
      PROVE  IndexIsOwn'
  BY <1>c, <1>w DEF IndexIsOwn
<1>1. CASE UNCHANGED vars
  BY <1>0, <1>1, <1>c DEF vars, files, batch, IndexIsOwn
<1>2. ASSUME NEW f \in BOOLEAN, Start(f) PROVE ReferencesLead' /\ IndexIsOwn'
  BY <1>0, <1>n, <1>2 DEF Start, files, Writing
<1>3. CASE Skip
  BY <1>0, <1>n, <1>3 DEF Skip, files, Writing
<1>4. CASE RunCommand
  BY <1>0, <1>n, <1>4 DEF RunCommand, files, Writing
<1>6. CASE EndCommand
  <2>1. pc' \notin Writing
    BY <1>e, <1>6 DEF EndCommand, Writing
  <2> QED BY <1>0, <1>n, <1>6, <2>1 DEF EndCommand, files
<1>7. CASE EndBatch
  BY <1>0, <1>e, <1>n, <1>7 DEF EndBatch, files
<1>8. ASSUME NEW l \in Lengths, Rollout(l) PROVE ReferencesLead' /\ IndexIsOwn'
  <2>1. ReferencesLead'
    BY <1>0, <1>8 DEF Rollout, files
  <2>2. Trace \in Traces
    BY <1>8, TraceHere DEF Rollout
  <2>3. UNCHANGED <<refs, meta, manifest>> /\ Trace' = Trace /\ pc' = "info"
    BY <1>8, <1>c DEF Rollout, files
  <2>4. PICK i \in Indices : IsIndex(i) /\ index' = i
    BY <1>8 DEF Rollout
  <2>5. CASE refs[Trace] # None
    <3>1. i = refs[Trace]
      BY <2>4, <2>5 DEF IsIndex
    <3>2. \A u \in Traces \ {Trace} : refs[u] # i
      BY <2>2, <2>5, <3>1 DEF ReferencesLead
    <3> QED BY <2>1, <2>3, <2>4, <3>1, <3>2 DEF IndexIsOwn
  <2>6. CASE refs[Trace] = None
    <3>1. i \notin Written
      BY <2>4, <2>6 DEF IsIndex, IsNext, Indices
    <3>2. \A u \in Traces : refs[u] # None => refs[u] \in Written
      BY <1>8, <2>6, NoneLost DEF Lost, Rollout
    <3>3. \A u \in Traces : refs[u] # i
      BY <3>1, <3>2
    <3> QED BY <2>1, <2>3, <2>4, <2>6, <3>3 DEF IndexIsOwn
  <2> QED BY <2>5, <2>6
<1>9. CASE RolloutFails
  BY <1>0, <1>e, <1>n, <1>9 DEF RolloutFails, files
<1>10. CASE WriteInfo
  BY <1>0, <1>w, <1>10 DEF WriteInfo, files, Writing
<1>11. CASE WriteData
  BY <1>0, <1>w, <1>11 DEF WriteData, Writing
<1>12. CASE WriteMedia
  BY <1>0, <1>w, <1>12 DEF WriteMedia, Writing
<1>13. CASE WriteMeta
  <2>1. /\ index \in Written' /\ UNCHANGED <<manifest, refs, index>> /\ Trace' = Trace
        /\ pc = "meta" /\ pc' = "stats"
    BY <1>13, <1>c DEF WriteMeta, TypeOK
  <2>2. IndexIsOwn'
    BY <2>1 DEF IndexIsOwn, Writing
  <2> QED BY <1>0, <2>1, <2>2
<1>14. CASE WriteStats
  <2>1. CASE torn = {}
    BY <1>0, <1>w, <1>14, <2>1 DEF WriteStats, files, Writing
  <2>2. CASE torn # {}
    BY <1>0, <1>e, <1>n, <1>14, <2>2 DEF WriteStats, files
  <2> QED BY <2>1, <2>2
\* the overlay of the index that is written is another one, as a manifest or none
<1>m. ASSUME pc \in Writing, UNCHANGED refs,
             manifest' \in {[manifest EXCEPT ![index] = v] : v \in {Trace, None, Cut}}
      PROVE  ReferencesLead'
  <2>1. PICK v \in {Trace, None, Cut} : manifest' = [manifest EXCEPT ![index] = v]
    BY <1>m
  <2> SUFFICES ASSUME NEW t \in Traces, refs[t] # None
               PROVE  /\ manifest'[refs[t]] \in {t, None, Cut}
                      /\ \A u \in Traces \ {t} : refs[u] # refs[t]
    BY <1>m DEF ReferencesLead
  <2>2. manifest[refs[t]] \in {t, None, Cut} /\ \A u \in Traces \ {t} : refs[u] # refs[t]
    BY DEF ReferencesLead
  <2>3. refs[t] \in Indices
    BY DEF TypeOK
  <2>4. refs[t] = index => t = Trace
    BY <1>m DEF IndexIsOwn
  <2>5. manifest'[refs[t]] = IF refs[t] = index THEN v ELSE manifest[refs[t]]
    BY <2>1, <2>3 DEF TypeOK
  <2> QED BY <2>2, <2>4, <2>5
<1>15. CASE RemoveOverlay
  <2>1. /\ UNCHANGED <<meta, refs, index>> /\ Trace' = Trace
        /\ pc = "overlay" /\ pc' = "manifest"
        /\ manifest' = [manifest EXCEPT ![index] = None]
    BY <1>15, <1>c DEF RemoveOverlay
  <2>2. ReferencesLead'
    BY <1>m, <2>1 DEF Writing
  <2> QED BY <2>1, <2>2 DEF IndexIsOwn, Writing
<1>16. CASE WriteManifest
  <2>1. /\ UNCHANGED <<meta, refs, index>> /\ Trace' = Trace
        /\ pc = "manifest" /\ pc' = "arrays"
        /\ manifest' = [manifest EXCEPT ![index] = Trace]
    BY <1>16, <1>c DEF WriteManifest
  <2>2. manifest'[index] = Trace
    BY <2>1 DEF TypeOK
  <2>3. ReferencesLead'
    BY <1>m, <2>1 DEF Writing
  <2> QED BY <2>1, <2>2, <2>3 DEF IndexIsOwn, Writing
<1>17. CASE WriteArrays
  BY <1>0, <1>w, <1>17 DEF WriteArrays, Writing
<1>18. CASE WriteRef
  <2>1. /\ UNCHANGED <<meta, manifest, index>> /\ pc = "refs" /\ pc' = "counts"
        /\ Trace' = Trace
    BY <1>18, <1>c DEF WriteRef
  <2>2. \A t \in Traces : refs'[t] = IF t = Trace THEN index ELSE refs[t]
    BY <1>18, <2>1 DEF WriteRef, IndexIsOwn, Writing
  <2>3. /\ index \in Written /\ manifest[index] = Trace
        /\ \A u \in Traces \ {Trace} : refs[u] # index
    BY <2>1 DEF IndexIsOwn, Writing
  <2>4. Trace \in Traces
    BY <1>h, <2>1 DEF Writing
  <2>5. ReferencesLead'
    BY <2>1, <2>2, <2>3 DEF ReferencesLead
  <2>6. IndexIsOwn'
    BY <2>1, <2>2, <2>3, <2>4 DEF IndexIsOwn
  <2> QED BY <2>5, <2>6
<1>19. CASE RefreshCounts
  BY <1>0, <1>n, <1>19 DEF RefreshCounts, files, Writing
<1>20. CASE Crash
  <2>1. IndexIsOwn'
    BY <1>e, <1>n, <1>20 DEF Crash
  <2>2. CASE UNCHANGED manifest
    BY <1>0, <1>20, <2>1, <2>2 DEF Crash
  <2>3. CASE pc \in {"manifest", "arrays"} /\ manifest' = [manifest EXCEPT ![index] = Cut]
    BY <1>m, <1>20, <2>1, <2>3 DEF Crash, Writing
  <2> QED BY <1>20, <2>2, <2>3 DEF Crash
<1> QED
  BY <1>1, <1>2, <1>3, <1>4, <1>6, <1>7, <1>8, <1>9, <1>10, <1>11, <1>12, <1>13,
     <1>14, <1>15, <1>16, <1>17, <1>18, <1>19, <1>20 DEF Next, Write

\* No step drops a reference; only WriteRef makes one, for the trace that is
\* captured.
LEMMA NextRefs ==
  ASSUME IInv, [Next]_vars
  PROVE  \/ UNCHANGED refs
         \/ /\ WriteRef
            /\ \A t \in Traces : refs'[t] = IF t = Trace THEN index ELSE refs[t]
            /\ refs[Trace] \in {None, index}
<1>1. CASE UNCHANGED vars
  BY <1>1 DEF vars, files
<1>2. CASE WriteRef
  <2>1. /\ \A u \in Traces \ {Trace} : refs[u] # index
        /\ refs[Trace] \in {None, index}
    BY <1>2 DEF IInv, IndexIsOwn, Writing, WriteRef
  <2> QED BY <1>2, <2>1 DEF WriteRef
<1>3. CASE Next /\ ~WriteRef
  BY <1>3 DEF Next, Write, Start, Skip, RunCommand, EndCommand, EndBatch, Rollout,
     RolloutFails, WriteInfo, WriteData, WriteMedia, WriteMeta, WriteStats,
     RemoveOverlay, WriteManifest, WriteArrays, RefreshCounts, Crash, files
<1> QED BY <1>1, <1>2, <1>3

LEMMA NextOrder == ASSUME IInv, [Next]_vars PROVE PlanOrder'
<1>1. CASE UNCHANGED refs
  BY <1>1 DEF IInv, PlanOrder
<1>2. CASE /\ WriteRef
           /\ \A t \in Traces : refs'[t] = IF t = Trace THEN index ELSE refs[t]
           /\ refs[Trace] \in {None, index}
  <2> SUFFICES ASSUME NEW g \in DOMAIN Groups, NEW h \in DOMAIN Groups,
                      NEW k \in DOMAIN Groups[g], NEW j \in DOMAIN Groups[h],
                      Before(g, k, h, j), refs'[Groups[h][j]] # None
               PROVE  refs'[Groups[g][k]] # None
    BY DEF PlanOrder
  <2>1. Groups[g][k] \in Traces /\ Groups[h][j] \in Traces
    BY PlaceType
  <2>2. TypeOK /\ pc = "refs"
    BY <1>2 DEF IInv, WriteRef
  <2>3. group \in DOMAIN Groups /\ pos \in DOMAIN Groups[group] /\ Trace = Groups[group][pos]
    BY <2>2, TraceHere DEF TypeOK
  <2>4. index # None
    BY <2>2, NoneApart DEF TypeOK
  <2>5. refs[Groups[g][k]] # None => refs'[Groups[g][k]] # None
    BY <1>2, <2>1, <2>4
  <2>6. CASE Groups[h][j] = Trace
    <3>1. h = group /\ j = pos
      BY <2>3, <2>6, OnePlace
    <3>2. Passed(g, k)
      BY <2>2, <3>1 DEF Passed, Before, Writing
    <3> QED BY <2>2, <2>5, <3>2 DEF IInv, Repaired
  <2>7. CASE Groups[h][j] # Trace
    <3>1. refs[Groups[h][j]] # None
      BY <1>2, <2>1, <2>7
    <3> QED BY <2>5, <3>1 DEF IInv, PlanOrder
  <2> QED BY <2>6, <2>7
<1> QED BY <1>1, <1>2, NextRefs

\* What the batch has passed stays referenced and keeps its episode.
LEMMA NextRepaired == ASSUME IInv, [Next]_vars PROVE Repaired'
<1> TypeOK /\ Repaired /\ IndexIsOwn
  BY DEF IInv
<1> DEFINE Good(t) == refs[t] # None /\ ~Lost(t)
<1>e. ASSUME ProcessEnds PROVE Repaired'
  BY <1>e DEF ProcessEnds, Repaired
\* what is in place stays so unless the process is killed
<1>g. ASSUME ~Crash \/ UNCHANGED vars, NEW t \in Traces, Good(t) PROVE Good(t)'
  <2>1. refs[t] \in Written /\ refs[t] \in Indices /\ index # None
    BY <1>g, NoneApart DEF Lost, TypeOK
  <2>2. Written \subseteq Written'
    <3>1. CASE WriteMeta
      BY <3>1, NoneApart DEF WriteMeta, Written, TypeOK
    <3>2. CASE ~WriteMeta
      <4>1. UNCHANGED meta
        BY <1>g, <3>2 DEF Next, Write, vars, Start, Skip, RunCommand, EndCommand, EndBatch,
           Rollout, RolloutFails, WriteInfo, WriteData, WriteMedia, WriteStats, RemoveOverlay,
           WriteManifest, WriteArrays, WriteRef, RefreshCounts, files
      <4> QED BY <4>1 DEF Written
    <3> QED BY <3>1, <3>2
  <2>3. refs'[t] = refs[t]
    BY <1>g, NextRefs
  <2> QED BY <1>g, <2>1, <2>2, <2>3 DEF Lost
\* a step that passes nothing new
<1>s. ASSUME ~Crash \/ UNCHANGED vars, pc # "off" \/ group' = 1, pc' # "off",
             \A g \in DOMAIN Groups : \A k \in DOMAIN Groups[g] :
               Passed(g, k)' => Passed(g, k) /\ pc # "off"
      PROVE  Repaired'
  <2> SUFFICES ASSUME NEW g \in DOMAIN Groups, NEW k \in DOMAIN Groups[g], Passed(g, k)'
               PROVE  Good(Groups[g][k])'
    BY <1>s DEF Repaired
  <2>1. Good(Groups[g][k])
    BY <1>s DEF Repaired
  <2>2. Groups[g][k] \in Traces
    BY PlaceType
  <2> QED BY <1>g, <1>s, <2>1, <2>2
\* a step inside a command
<1>i. ASSUME ~Crash, pc \in Writing \cup {"rollout"}, pc' \in Writing \cup {"rollout"},
             UNCHANGED <<group, pos>>
      PROVE  Repaired'
  BY <1>i, <1>s DEF Passed, Writing
<1>1. CASE UNCHANGED vars
  <2>1. CASE pc = "off"
    BY <1>1, <2>1 DEF vars, batch, Repaired
  <2>2. CASE pc # "off"
    BY <1>1, <1>s, <2>2 DEF vars, batch, Passed
  <2> QED BY <2>1, <2>2
<1>2. ASSUME NEW f \in BOOLEAN, Start(f) PROVE Repaired'
  <2>1. group' = 1 /\ pc' = "select"
    BY <1>2 DEF Start, Repaired
  <2>2. \A g \in DOMAIN Groups : \A k \in DOMAIN Groups[g] : ~Passed(g, k)'
    BY <2>1, PlaceType DEF Passed, Writing
  <2> QED BY <2>1, <2>2 DEF Repaired
<1>3. CASE Skip
  <2>1. /\ pc = "select" /\ pc' = "select" /\ group' = group + 1
        /\ UNCHANGED <<meta, refs>> /\ group \in 1 .. Len(Groups)
        /\ \A t \in ToSet(Groups[group]) : Exists(t)
    BY <1>3, Bounds DEF Skip, files, TypeOK
  <2> SUFFICES ASSUME NEW g \in DOMAIN Groups, NEW k \in DOMAIN Groups[g], Passed(g, k)'
               PROVE  Good(Groups[g][k])
    BY <2>1 DEF Repaired, Lost, Written
  <2>2. CASE g < group
    BY <2>1, <2>2 DEF Repaired, Passed
  <2>3. CASE g = group
    <3>1. Groups[g][k] \in ToSet(Groups[group]) /\ Groups[g][k] \in Traces
      BY <2>3, PlaceType DEF ToSet
    <3> QED BY <2>1, <3>1 DEF Exists, Valid
  <2>4. g < group \/ g = group
    BY <2>1, PlaceType DEF Passed, Writing
  <2> QED BY <2>2, <2>3, <2>4
<1>4. CASE RunCommand
  <2>1. /\ pc = "select" /\ pc' = "rollout" /\ pos' = 1 /\ group' = group /\ ~Crash
    BY <1>4 DEF RunCommand, Crash, ProcessEnds
  <2>2. ASSUME NEW g \in DOMAIN Groups, NEW k \in DOMAIN Groups[g], Passed(g, k)'
        PROVE  Passed(g, k)
    BY <2>1, <2>2, PlaceType DEF Passed
  <2> QED BY <1>s, <2>1, <2>2
<1>6. CASE EndCommand
  <2>1. CASE Opens
    <3>1. /\ pc = "rollout" /\ pc' = "select" /\ group' = group + 1
          /\ UNCHANGED <<meta, refs>> /\ group \in 1 .. Len(Groups)
          /\ pos > Len(Groups[group]) /\ pos \in Nat
      BY <1>6, <2>1, Bounds DEF EndCommand, files, TypeOK
    <3> SUFFICES ASSUME NEW g \in DOMAIN Groups, NEW k \in DOMAIN Groups[g], Passed(g, k)'
                 PROVE  Good(Groups[g][k])
      BY <3>1 DEF Repaired, Lost, Written
    <3>2. g \in Nat /\ k \in 1 .. Len(Groups[g]) /\ Len(Groups[g]) \in Nat
      BY PlaceType
    <3>3. g < group \/ g = group
      BY <3>1, <3>2 DEF Passed, Writing
    <3>4. Passed(g, k)
      BY <3>1, <3>2, <3>3 DEF Passed
    <3> QED BY <3>1, <3>4 DEF Repaired
  <2>2. CASE ~Opens
    BY <1>e, <1>6, <2>2 DEF EndCommand
  <2> QED BY <2>1, <2>2
<1>7. CASE EndBatch
  BY <1>e, <1>7 DEF EndBatch
<1>8. ASSUME NEW l \in Lengths, Rollout(l) PROVE Repaired'
  BY <1>8, <1>i DEF Rollout, Crash, ProcessEnds, Writing
<1>9. CASE RolloutFails
  BY <1>e, <1>9 DEF RolloutFails
<1>10. CASE WriteInfo
  BY <1>10, <1>i DEF WriteInfo, Crash, ProcessEnds, Writing
<1>11. CASE WriteData
  BY <1>11, <1>i DEF WriteData, Crash, ProcessEnds, Writing
<1>12. CASE WriteMedia
  BY <1>12, <1>i DEF WriteMedia, Crash, ProcessEnds, Writing
<1>13. CASE WriteMeta
  BY <1>13, <1>i DEF WriteMeta, Crash, ProcessEnds, Writing
<1>14. CASE WriteStats
  <2>1. CASE torn = {}
    BY <1>14, <1>i, <2>1 DEF WriteStats, Crash, ProcessEnds, Writing
  <2>2. CASE torn # {}
    BY <1>e, <1>14, <2>2 DEF WriteStats
  <2> QED BY <2>1, <2>2
<1>15. CASE RemoveOverlay
  BY <1>15, <1>i DEF RemoveOverlay, Crash, ProcessEnds, Writing
<1>16. CASE WriteManifest
  BY <1>16, <1>i DEF WriteManifest, Crash, ProcessEnds, Writing
<1>17. CASE WriteArrays
  BY <1>17, <1>i DEF WriteArrays, Crash, ProcessEnds, Writing
<1>18. CASE WriteRef
  BY <1>18, <1>i DEF WriteRef, Crash, ProcessEnds, Writing
<1>19. CASE RefreshCounts
  <2>1. /\ pc = "counts" /\ pc' = "rollout" /\ pos' = pos + 1 /\ group' = group
        /\ UNCHANGED <<meta, refs>> /\ pos \in Nat
    BY <1>19 DEF RefreshCounts, files, TypeOK
  <2>2. Good(Trace) /\ Trace = Groups[group][pos]
    BY <2>1, NoneApart DEF IndexIsOwn, Writing, Lost, TypeOK, Trace
  <2> SUFFICES ASSUME NEW g \in DOMAIN Groups, NEW k \in DOMAIN Groups[g], Passed(g, k)'
               PROVE  Good(Groups[g][k])
    BY <2>1 DEF Repaired, Lost, Written
  <2>3. Passed(g, k) \/ (g = group /\ k = pos)
    BY <2>1, PlaceType DEF Passed, Writing
  <2> QED BY <2>1, <2>2, <2>3 DEF Repaired
<1>20. CASE Crash
  BY <1>e, <1>20 DEF Crash
<1> QED
  BY <1>1, <1>2, <1>3, <1>4, <1>6, <1>7, <1>8, <1>9, <1>10, <1>11, <1>12, <1>13,
     <1>14, <1>15, <1>16, <1>17, <1>18, <1>19, <1>20 DEF Next, Write

LEMMA InvHolds == Spec => []IInv
<1>1. IInv /\ [Next]_vars => IInv'
  BY NextTypeOK, NextReferences, NextOrder, NextRepaired DEF IInv
<1> QED BY InitInv, <1>1, PTL DEF Spec

\* Every variable keeps its type.
THEOREM EpisodeTypes == Spec => []TypeOK
<1>1. IInv => TypeOK
  BY DEF IInv
<1> QED BY InvHolds, <1>1, PTL

\* The table of references stays one to one, and no overlay that a row leads to
\* names the trace of another row, wherever earlier batches were killed.
THEOREM ReferencesAlwaysLead == Spec => []ReferencesLead
<1>1. IInv => ReferencesLead
  BY DEF IInv
<1> QED BY InvHolds, <1>1, PTL

\* No capture, rerun or kill moves a trace to another index or drops it.
THEOREM ReferencesNeverMove == Spec => ReferencesStay
<1>1. ASSUME IInv, [Next]_vars
      PROVE  [\A t \in Traces : refs[t] # None => refs'[t] = refs[t]]_vars
  BY <1>1, NextRefs
<1> QED BY InvHolds, <1>1, PTL DEF Spec, ReferencesStay

-----------------------------------------------------------------------------
(* What is skipped is whole                                                  *)

\* Trace t is referenced and everything under its index is of its last rollout.
Whole(t) ==
  /\ refs[t] # None /\ ~Lost(t)
  /\ manifest[refs[t]] # None
  /\ parts[refs[t]] = Parts
  /\ <<"data", refs[t]>> \notin torn

AllReferenced(g) == \A k \in DOMAIN Groups[g] : refs[Groups[g][k]] # None
AllWhole(g) == \A k \in DOMAIN Groups[g] : Whole(Groups[g][k])

\* The trace every run begins with while the root does not validate.
First == Groups[1][1]

\* No batch gets past this any more: a table that every capture reads is cut
\* off, or the data of an episode that the first capture does not write, or a
\* trace after the first command has lost its metadata.
Blocked ==
  \/ \E f \in torn : f[1] # "data"
  \/ refs[First] # None /\ \E f \in torn : f[2] # refs[First]
  \/ \E g \in DOMAIN Groups \ {1} : \E k \in DOMAIN Groups[g] : Lost(Groups[g][k])

\* The batch leaves the first command, or ends a trace of it, only with files
\* that read, and the command only with a root that validates.
RootReads ==
  pc # "off" =>
    /\ group > 1 => Valid
    /\ pc \in {"overlay", "manifest", "arrays", "refs", "counts"} => torn = {}
    /\ pc \in Writing \cup {"rollout"} /\ pos > 1 => torn = {}

\* What the rollout in hand has written so far, and what its command has before.
PartsInHand ==
  /\ pc \in Writing \cup {"rollout"} =>
       \A k \in DOMAIN Groups[group] : k < pos => Whole(Groups[group][k])
  /\ pc = "media" => "data" \in parts[index]
  /\ pc = "meta" => {"data", "media"} \subseteq parts[index]
  /\ pc \in {"stats", "overlay", "manifest", "arrays"} =>
       {"data", "media", "meta"} \subseteq parts[index]
  /\ pc \in {"refs", "counts"} => parts[index] = Parts
  /\ pc = "refs" => manifest[index] = Trace
  /\ pc \notin {"info", "data"} /\ pc \in Writing => <<"data", index>> \notin torn

\* A command runs because a trace of it has no reference yet; else the batch is
\* blocked.
Capturing ==
  \/ pc \in Writing \ {"counts"}
  \/ pc = "counts" /\ pos < Len(Groups[group])
  \/ pc = "rollout" /\ pos <= Len(Groups[group])
RunsForNew == Capturing => Blocked \/ ~AllReferenced(group)

\* A command whose traces are all referenced is whole, or is never skipped again.
WholeOrBlocked == \A g \in DOMAIN Groups : AllReferenced(g) => Blocked \/ AllWhole(g)

WholeInv ==
  /\ ~force /\ RootReads /\ PartsInHand /\ RunsForNew /\ WholeOrBlocked

\* A trace whose writing is not under way has an index of its own.
LEMMA OtherIndex ==
  ASSUME IInv, pc \in Writing, NEW t \in Traces, t # Trace, refs[t] # None
  PROVE  refs[t] \in Indices /\ refs[t] # index
BY DEF IInv, TypeOK, IndexIsOwn

\* The trace that is written stands at its place of the plan.
LEMMA WritingHere ==
  ASSUME IInv, pc \in Writing
  PROVE  /\ group \in DOMAIN Groups /\ pos \in DOMAIN Groups[group]
         /\ Trace = Groups[group][pos] /\ Trace \in Traces
         /\ index \in Indices /\ index # None
BY TraceHere, NoneApart DEF IInv, TypeOK, Writing

\* Only the steps of an episode touch files.
LEMMA FilesKept ==
  ASSUME IInv, [Next]_vars, pc \notin Writing
  PROVE  UNCHANGED files
BY DEF Next, Write, vars, Start, Skip, RunCommand, EndCommand, EndBatch, Rollout,
   RolloutFails, WriteInfo, WriteData, WriteMedia, WriteMeta, WriteStats, RemoveOverlay,
   WriteManifest, WriteArrays, WriteRef, RefreshCounts, Crash, files, Writing, InPlace

\* They touch the files of the index being written.
LEMMA FilesOfIndex ==
  ASSUME IInv, [Next]_vars, NEW i \in Indices, i # index
  PROVE  /\ meta'[i] = meta[i] /\ manifest'[i] = manifest[i] /\ parts'[i] = parts[i]
         /\ \A n \in TornFiles : <<n, i>> \in torn' <=> <<n, i>> \in torn
<1> USE DEF IInv, TypeOK
<1>1. CASE UNCHANGED files
  BY <1>1 DEF files
<1>2. CASE WriteData
  BY <1>2 DEF WriteData
<1>3. CASE WriteMedia
  BY <1>3 DEF WriteMedia, AddPart
<1>4. CASE WriteMeta
  BY <1>4 DEF WriteMeta, AddPart
<1>5. CASE RemoveOverlay
  BY <1>5 DEF RemoveOverlay
<1>6. CASE WriteManifest
  BY <1>6 DEF WriteManifest
<1>7. CASE WriteArrays
  BY <1>7 DEF WriteArrays, AddPart
<1>8. CASE WriteRef
  BY <1>8 DEF WriteRef
<1>9. CASE Crash
  BY <1>9 DEF Crash
<1> QED
  BY <1>1, <1>2, <1>3, <1>4, <1>5, <1>6, <1>7, <1>8, <1>9 DEF Next, Write, vars, Start,
     Skip, RunCommand, EndCommand, EndBatch, Rollout, RolloutFails, WriteInfo, WriteStats,
     RefreshCounts, files

\* Capturing one trace leaves the others whole.
LEMMA WholeStays ==
  ASSUME IInv, [Next]_vars, NEW t \in Traces, Whole(t), pc \in Writing => t # Trace
  PROVE  Whole(t)'
<1>1. refs'[t] = refs[t] /\ refs[t] \in Indices
  <2>1. refs[t] \in Indices
    BY DEF Whole, IInv, TypeOK
  <2>2. CASE UNCHANGED refs
    BY <2>1, <2>2
  <2>3. CASE WriteRef /\ \A u \in Traces : refs'[u] = IF u = Trace THEN index ELSE refs[u]
    BY <2>1, <2>3 DEF WriteRef, Writing
  <2> QED BY <2>2, <2>3, NextRefs
<1>2. CASE pc \notin Writing
  <2>1. UNCHANGED files
    BY <1>2, FilesKept
  <2> QED BY <2>1 DEF Whole, Lost, Written, files
<1>3. CASE pc \in Writing
  <2>1. refs[t] # index
    BY <1>3, OtherIndex DEF Whole
  <2>2. /\ meta'[refs[t]] = meta[refs[t]] /\ manifest'[refs[t]] = manifest[refs[t]]
        /\ parts'[refs[t]] = parts[refs[t]]
        /\ <<"data", refs[t]>> \in torn' <=> <<"data", refs[t]>> \in torn
    BY <1>1, <2>1, FilesOfIndex DEF TornFiles
  <2> QED BY <1>1, <2>2 DEF Whole, Lost, Written
<1> QED BY <1>2, <1>3

LEMMA WholeUntouched ==
  ASSUME NEW t, Whole(t), UNCHANGED files
  PROVE  Whole(t)'
BY DEF Whole, Lost, Written, files

\* Nothing but a kill makes files unreadable.
LEMMA TornShrinks ==
  ASSUME IInv, [Next]_vars, ~Crash
  PROVE  torn' \subseteq torn
BY DEF Next, Write, vars, Start, Skip, RunCommand, EndCommand, EndBatch, Rollout,
   RolloutFails, WriteInfo, WriteData, WriteMedia, WriteMeta, WriteStats, RemoveOverlay,
   WriteManifest, WriteArrays, WriteRef, RefreshCounts, files

\* ... or takes the metadata of an episode away.
LEMMA WrittenGrows ==
  ASSUME IInv, [Next]_vars, ~Crash
  PROVE  Written \subseteq Written'
<1>1. CASE WriteMeta
  BY <1>1, NoneApart DEF WriteMeta, Written, IInv, TypeOK
<1>2. CASE ~WriteMeta
  <2>1. UNCHANGED meta
    BY <1>2 DEF Next, Write, vars, Start, Skip, RunCommand, EndCommand, EndBatch,
       Rollout, RolloutFails, WriteInfo, WriteData, WriteMedia, WriteStats, RemoveOverlay,
       WriteManifest, WriteArrays, WriteRef, RefreshCounts, files
  <2> QED BY <2>1 DEF Written
<1> QED BY <1>1, <1>2

\* A root that validates does so until the next kill.
LEMMA ValidStays ==
  ASSUME IInv, [Next]_vars, ~Crash, Valid
  PROVE  Valid'
<1>1. torn' = {}
  BY TornShrinks DEF Valid
<1>2. ASSUME NEW t \in Traces PROVE ~Lost(t)'
  <2>1. refs[t] # None => refs[t] \in Written'
    BY WrittenGrows DEF Valid, Lost
  <2>2. CASE UNCHANGED refs
    BY <2>1, <2>2 DEF Lost
  <2>3. CASE WriteRef /\ \A u \in Traces : refs'[u] = IF u = Trace THEN index ELSE refs[u]
    <3>1. index \in Written
      BY <2>3 DEF WriteRef, IInv, IndexIsOwn, Writing
    <3> QED BY <2>1, <2>3, <3>1, WrittenGrows DEF Lost
  <2> QED BY <2>2, <2>3, NextRefs
<1> QED BY <1>1, <1>2 DEF Valid

\* The first trace, when there is a command at all.
LEMMA FirstPlace ==
  ASSUME NEW g \in DOMAIN Groups
  PROVE  /\ 1 \in DOMAIN Groups /\ 1 \in DOMAIN Groups[1] /\ 1 \in DOMAIN Groups[g]
         /\ First \in Traces
<1>1. g \in 1 .. Len(Groups) /\ 1 \in 1 .. Len(Groups) /\ 1 \in DOMAIN Groups
  BY EpisodeAssumption
<1>2. ASSUME NEW h \in DOMAIN Groups PROVE 1 \in DOMAIN Groups[h]
  <2>1. Groups[h] \in Seq(Traces) /\ Groups[h] # <<>>
    BY GroupType, EpisodeAssumption
  <2> QED BY <2>1
<1> QED BY <1>1, <1>2, PlaceType DEF First

\* What blocks the batch stays.
LEMMA BlockedStays ==
  ASSUME IInv, RootReads, [Next]_vars, Blocked
  PROVE  Blocked'
<1> TypeOK
  BY DEF IInv
<1>0. pc \in Writing => First \in Traces
  BY WritingHere, FirstPlace
<1>r. ASSUME NEW t \in Traces, refs[t] # None PROVE refs'[t] = refs[t]
  BY <1>r, NextRefs, WritingHere, NoneApart DEF WriteRef, Writing
<1>t. ASSUME NEW f \in torn, f \notin torn' PROVE pc = "data" /\ f = <<"data", index>>
  BY <1>t DEF Next, Write, vars, Start, Skip, RunCommand, EndCommand, EndBatch, Rollout,
     RolloutFails, WriteInfo, WriteData, WriteMedia, WriteMeta, WriteStats, RemoveOverlay,
     WriteManifest, WriteArrays, WriteRef, RefreshCounts, Crash, files
<1>1. CASE \E f \in torn : f[1] # "data"
  BY <1>1, <1>t DEF Blocked
<1>2. CASE refs[First] # None /\ \E f \in torn : f[2] # refs[First]
  <2>1. PICK f \in torn : f[2] # refs[First]
    BY <1>2
  <2>2. refs'[First] = refs[First]
    <3>1. CASE pc \notin Writing
      BY <3>1, FilesKept DEF files
    <3>2. CASE pc \in Writing
      BY <1>0, <1>2, <1>r, <3>2
    <3> QED BY <3>1, <3>2
  <2>3. f \in torn'
    <3> SUFFICES ASSUME f \notin torn' PROVE FALSE
      OBVIOUS
    <3>1. pc = "data" /\ f = <<"data", index>>
      BY <1>t
    <3>2. group = 1 /\ pos = 1
      <4>1. ~(group > 1) /\ ~(pos > 1)
        BY <3>1 DEF RootReads, Valid, Writing
      <4>2. group \in DOMAIN Groups /\ pos \in DOMAIN Groups[group]
        BY <3>1, WritingHere DEF Writing
      <4> QED BY <4>1, <4>2, PlaceType
    <3>3. refs[First] = index
      BY <1>2, <3>1, <3>2 DEF IInv, IndexIsOwn, Writing, Trace, First
    <3> QED BY <2>1, <3>1, <3>3
  <2> QED BY <1>2, <2>1, <2>2, <2>3 DEF Blocked
<1>3. CASE \E g \in DOMAIN Groups \ {1} : \E k \in DOMAIN Groups[g] : Lost(Groups[g][k])
  <2>1. PICK g \in DOMAIN Groups \ {1} : \E k \in DOMAIN Groups[g] : Lost(Groups[g][k])
    BY <1>3
  <2>2. PICK k \in DOMAIN Groups[g] : Lost(Groups[g][k])
    BY <2>1
  <2> DEFINE x == Groups[g][k]
  <2>3. x \in Traces /\ refs[x] # None /\ refs[x] \notin Written /\ g \in 1 .. Len(Groups)
    BY <2>2, PlaceType DEF Lost
  <2>4. refs[x] \in Indices /\ refs'[x] = refs[x]
    BY <1>r, <2>3 DEF TypeOK
  <2>5. refs[x] \notin Written'
    <3>1. CASE pc \notin Writing
      BY <2>3, <3>1, FilesKept DEF files, Written
    <3>2. CASE pc \in Writing /\ refs[x] # index
      BY <2>3, <2>4, <3>2, FilesOfIndex DEF Written
    <3>3. CASE pc \in Writing /\ refs[x] = index
      <4>1. x = Trace
        BY <2>3, <3>3 DEF IInv, IndexIsOwn
      <4>2. group = g /\ group \in DOMAIN Groups
        BY <3>3, <4>1, WritingHere, OnePlace
      <4>3. group > 1
        BY <2>3, <4>2
      <4>4. ~Lost(x)
        BY <2>3, <3>3, <4>3 DEF RootReads, Valid, Writing
      <4> QED BY <2>2, <4>4
    <3> QED BY <3>1, <3>2, <3>3
  <2>6. Lost(x)'
    BY <2>3, <2>4, <2>5 DEF Lost
  <2> QED BY <2>6 DEF Blocked
<1> QED BY <1>1, <1>2, <1>3 DEF Blocked

\* The batch goes on in the same command: no step but these changes its place.
LEMMA NextPlace ==
  ASSUME IInv, [Next]_vars, pc' # "off"
  PROVE  \/ UNCHANGED <<pc, group, pos>>
         \/ pc = "off" /\ pc' = "select" /\ group' = 1
         \/ Skip /\ pc' = "select" /\ group' = group + 1
         \/ RunCommand /\ pc' = "rollout" /\ group' = group /\ pos' = 1
         \/ pc = "rollout" /\ Opens /\ UNCHANGED files /\ pc' = "select" /\ group' = group + 1
         \/ /\ pc = "rollout" /\ pos <= Len(Groups[group]) /\ pc' = "info"
            /\ UNCHANGED <<files, group, pos>>
         \/ pc \in Writing /\ pc' \in Writing /\ UNCHANGED <<group, pos, index>>
         \/ /\ pc = "counts" /\ pc' = "rollout" /\ group' = group /\ pos' = pos + 1
            /\ UNCHANGED files
<1>1. ASSUME NEW f \in BOOLEAN, Start(f) PROVE pc = "off" /\ pc' = "select" /\ group' = 1
  BY <1>1 DEF Start, IInv, Repaired
<1>2. ASSUME Write
      PROVE  \/ pc \in Writing /\ pc' \in Writing /\ UNCHANGED <<group, pos, index>>
             \/ /\ pc = "counts" /\ pc' = "rollout" /\ group' = group /\ pos' = pos + 1
                /\ UNCHANGED files
  BY <1>2 DEF Write, WriteInfo, WriteData, WriteMedia, WriteMeta, WriteStats, RemoveOverlay,
     WriteManifest, WriteArrays, WriteRef, RefreshCounts, ProcessEnds, Writing
<1>3. CASE Skip
  BY <1>3 DEF Skip
<1>4. CASE RunCommand
  BY <1>4 DEF RunCommand
<1>5. CASE EndCommand
  BY <1>5 DEF EndCommand, ProcessEnds
<1>6. ASSUME NEW l \in Lengths, Rollout(l)
      PROVE  /\ pc = "rollout" /\ pos <= Len(Groups[group]) /\ pc' = "info"
             /\ UNCHANGED <<files, group, pos>>
  BY <1>6 DEF Rollout
<1>7. CASE EndBatch \/ RolloutFails \/ Crash
  BY <1>7 DEF EndBatch, RolloutFails, Crash, ProcessEnds
<1>8. CASE UNCHANGED vars
  BY <1>8 DEF vars, batch
<1> QED BY <1>1, <1>2, <1>3, <1>4, <1>5, <1>6, <1>7, <1>8 DEF Next

\* What a skip needs: the root validates, and a command has a trace.
LEMMA SkipNeedsValid ==
  ASSUME IInv, Skip
  PROVE  /\ Valid /\ group \in DOMAIN Groups
         /\ \A k \in DOMAIN Groups[group] : Exists(Groups[group][k])
<1>1. group \in DOMAIN Groups
  BY Bounds, EpisodeAssumption DEF Skip, IInv, TypeOK
<1>2. 1 \in DOMAIN Groups[group]
  BY <1>1, FirstPlace
<1>3. \A k \in DOMAIN Groups[group] : Groups[group][k] \in ToSet(Groups[group])
  BY DEF ToSet
<1> QED BY <1>1, <1>2, <1>3 DEF Skip, Exists

LEMMA NextRootReads ==
  ASSUME IInv, RootReads, [Next]_vars
  PROVE  RootReads'
<1> SUFFICES ASSUME pc' # "off"
             PROVE  /\ group' > 1 => Valid'
                    /\ pc' \in {"overlay", "manifest", "arrays", "refs", "counts"} => torn' = {}
                    /\ pc' \in Writing \cup {"rollout"} /\ pos' > 1 => torn' = {}
  BY DEF RootReads
<1>1. ~Crash
  BY DEF Crash, ProcessEnds
<1>2. /\ Valid => Valid'
      /\ torn = {} => torn' = {}
  BY <1>1, ValidStays, TornShrinks
<1>3. CASE UNCHANGED <<pc, group, pos>>
  BY <1>2, <1>3 DEF RootReads
<1>4. CASE pc = "off" /\ pc' = "select" /\ group' = 1
  BY <1>4 DEF Writing
<1>5. CASE Skip /\ pc' = "select" /\ group' = group + 1
  BY <1>2, <1>5, SkipNeedsValid DEF Writing
<1>6. CASE RunCommand /\ pc' = "rollout" /\ group' = group /\ pos' = 1
  BY <1>2, <1>6 DEF RootReads, RunCommand
<1>7. CASE pc = "rollout" /\ Opens /\ UNCHANGED files /\ pc' = "select" /\ group' = group + 1
  BY <1>2, <1>7 DEF Opens, Writing
<1>8. CASE /\ pc = "rollout" /\ pos <= Len(Groups[group]) /\ pc' = "info"
           /\ UNCHANGED <<files, group, pos>>
  BY <1>2, <1>8 DEF RootReads
<1>9. CASE pc \in Writing /\ pc' \in Writing /\ UNCHANGED <<group, pos, index>>
  <2>1. group' > 1 => Valid'
    BY <1>2, <1>9 DEF RootReads, Writing
  <2>2. pos' > 1 => torn' = {}
    BY <1>2, <1>9 DEF RootReads, Writing
  <2>3. pc' \in {"overlay", "manifest", "arrays", "refs", "counts"} => torn = {}
    BY <1>9 DEF Next, Write, vars, batch, Start, Skip, RunCommand, EndCommand, EndBatch,
       Rollout, RolloutFails, WriteInfo, WriteData, WriteMedia, WriteMeta, WriteStats,
       RemoveOverlay, WriteManifest, WriteArrays, WriteRef, RefreshCounts, Crash,
       ProcessEnds, RootReads, Writing
  <2> QED BY <1>2, <2>1, <2>2, <2>3
<1>10. CASE /\ pc = "counts" /\ pc' = "rollout" /\ group' = group /\ pos' = pos + 1
            /\ UNCHANGED files
  BY <1>2, <1>10 DEF RootReads
<1> QED BY <1>3, <1>4, <1>5, <1>6, <1>7, <1>8, <1>9, <1>10, NextPlace

\* The clauses about the rollout in hand.
LEMMA NextPartsWritten ==
  ASSUME IInv, RootReads, PartsInHand, [Next]_vars
  PROVE  /\ pc' = "media" => "data" \in parts'[index']
         /\ pc' = "meta" => {"data", "media"} \subseteq parts'[index']
         /\ pc' \in {"stats", "overlay", "manifest", "arrays"} =>
              {"data", "media", "meta"} \subseteq parts'[index']
         /\ pc' \in {"refs", "counts"} => parts'[index'] = Parts
         /\ pc' = "refs" => manifest'[index'] = Trace'
         /\ pc' \notin {"info", "data"} /\ pc' \in Writing => <<"data", index'>> \notin torn'
<1> /\ TypeOK /\ IndexIsOwn
    /\ pc = "media" => "data" \in parts[index]
    /\ pc = "meta" => {"data", "media"} \subseteq parts[index]
    /\ pc \in {"stats", "overlay", "manifest", "arrays"} =>
         {"data", "media", "meta"} \subseteq parts[index]
    /\ pc \in {"refs", "counts"} => parts[index] = Parts
    /\ pc = "refs" => manifest[index] = Trace
    /\ pc \notin {"info", "data"} /\ pc \in Writing => <<"data", index>> \notin torn
  BY DEF IInv, PartsInHand
<1> DEFINE Goal == /\ pc' = "media" => "data" \in parts'[index']
                   /\ pc' = "meta" => {"data", "media"} \subseteq parts'[index']
                   /\ pc' \in {"stats", "overlay", "manifest", "arrays"} =>
                        {"data", "media", "meta"} \subseteq parts'[index']
                   /\ pc' \in {"refs", "counts"} => parts'[index'] = Parts
                   /\ pc' = "refs" => manifest'[index'] = Trace'
                   /\ pc' \notin {"info", "data"} /\ pc' \in Writing =>
                        <<"data", index'>> \notin torn'
<1> USE DEF Writing
<1>1. CASE pc' \in {"off", "select", "rollout", "info", "data"}
  BY <1>1
<1>2. CASE UNCHANGED vars
  BY <1>2 DEF vars, files, batch, Trace
<1>3. CASE WriteInfo
  BY <1>3 DEF WriteInfo
<1>4. CASE WriteData
  BY <1>4 DEF WriteData, TypeOK
<1>5. CASE WriteMedia
  BY <1>5 DEF WriteMedia, AddPart, TypeOK
<1>6. CASE WriteMeta
  BY <1>6 DEF WriteMeta, AddPart, TypeOK
<1>7. CASE WriteStats /\ torn = {}
  BY <1>7 DEF WriteStats, files
<1>8. CASE RemoveOverlay
  BY <1>8 DEF RemoveOverlay
<1>9. CASE WriteManifest
  BY <1>9 DEF WriteManifest
<1>10. CASE WriteArrays
  <2>1. Trace' = Trace /\ manifest'[index'] = Trace /\ pc' = "refs" /\ index' = index
    BY <1>10 DEF WriteArrays, Trace, IndexIsOwn
  <2>2. parts'[index'] = Parts
    BY <1>10 DEF WriteArrays, AddPart, TypeOK, Parts
  <2> QED BY <1>10, <2>1, <2>2 DEF WriteArrays
<1>11. CASE WriteRef
  BY <1>11 DEF WriteRef
<1> QED
  BY <1>1, <1>2, <1>3, <1>4, <1>5, <1>6, <1>7, <1>8, <1>9, <1>10, <1>11 DEF Next, Write,
     Start, Skip, RunCommand, EndCommand, EndBatch, Rollout, RolloutFails, WriteStats,
     RefreshCounts, Crash, ProcessEnds

\* The traces that the command captured before stay whole.
LEMMA NextPassedWhole ==
  ASSUME IInv, PartsInHand, [Next]_vars, pc' \in Writing \cup {"rollout"},
         NEW g, g = group', NEW k \in DOMAIN Groups[g], k < pos'
  PROVE  Whole(Groups[g][k])'
<1> DEFINE t == Groups[g][k]
<1>1. pc' # "off" /\ pc' # "select"
  BY DEF Writing
<1>2. g \in DOMAIN Groups
  <2>1. TypeOK'
    BY NextTypeOK DEF IInv
  <2> QED BY <1>1, <2>1, Bounds, EpisodeAssumption DEF TypeOK
<1>3. t \in Traces /\ k \in Nat /\ 1 <= k
  BY <1>2, PlaceType
<1>4. ASSUME pc \in Writing \cup {"rollout"}, g = group, k < pos
      PROVE  Whole(t)'
  <2>1. Whole(t)
    BY <1>4 DEF PartsInHand
  <2>2. pc \in Writing => t # Trace
    <3> SUFFICES ASSUME pc \in Writing, t = Trace PROVE FALSE
      OBVIOUS
    <3>1. k = pos
      BY <1>2, <1>4, WritingHere, OnePlace
    <3>2. pos \in Nat
      BY DEF IInv, TypeOK
    <3> QED BY <1>4, <3>1, <3>2
  <2> QED BY <1>3, <2>1, <2>2, WholeStays
<1>5. CASE UNCHANGED <<pc, group, pos>>
  BY <1>4, <1>5
<1>6. CASE pos' = 1
  BY <1>3, <1>6
<1>7. CASE /\ pc = "rollout" /\ pos <= Len(Groups[group]) /\ pc' = "info"
           /\ UNCHANGED <<files, group, pos>>
  BY <1>4, <1>7
<1>8. CASE pc \in Writing /\ pc' \in Writing /\ UNCHANGED <<group, pos, index>>
  BY <1>4, <1>8
<1>9. CASE /\ pc = "counts" /\ pc' = "rollout" /\ group' = group /\ pos' = pos + 1
           /\ UNCHANGED files
  <2>1. pos \in Nat
    BY DEF IInv, TypeOK
  <2>2. CASE k < pos
    BY <1>4, <1>9, <2>2 DEF Writing
  <2>3. CASE k = pos
    <3>1. t = Trace /\ Trace \in Traces /\ index # None
      BY <1>9, <2>3, WritingHere DEF Writing
    <3>2. /\ refs[t] = index /\ index \in Written /\ manifest[index] = t
          /\ parts[index] = Parts /\ <<"data", index>> \notin torn
      BY <1>9, <3>1 DEF IInv, IndexIsOwn, PartsInHand, Writing
    <3>3. Whole(t)
      BY <3>1, <3>2, NoneApart DEF Whole, Lost
    <3> QED BY <1>9, <3>3, WholeUntouched
  <2> QED BY <1>3, <1>9, <2>1, <2>2, <2>3
<1> QED BY <1>1, <1>5, <1>6, <1>7, <1>8, <1>9, NextPlace

LEMMA NextPartsInHand ==
  ASSUME IInv, RootReads, PartsInHand, [Next]_vars
  PROVE  PartsInHand'
<1>1. ASSUME pc' \in Writing \cup {"rollout"}, NEW g, g = group',
             NEW k \in DOMAIN Groups[g], k < pos'
      PROVE  Whole(Groups[g][k])'
  BY <1>1, NextPassedWhole
<1>2. (pc \in Writing \cup {"rollout"} =>
         \A k \in DOMAIN Groups[group] : k < pos => Whole(Groups[group][k]))'
  BY <1>1 DEF Whole, Lost, Written
<1> QED BY <1>2, NextPartsWritten DEF PartsInHand

\* A reference that completes its command is the one of its last trace.
LEMMA LastReference ==
  ASSUME IInv, WriteRef,
         \A t \in Traces : refs'[t] = IF t = Trace THEN index ELSE refs[t],
         ~AllReferenced(group), AllReferenced(group)'
  PROVE  \A k \in DOMAIN Groups[group] : k <= pos
<1>0. pc \in Writing
  BY DEF WriteRef, Writing
<1>1. /\ group \in DOMAIN Groups /\ pos \in DOMAIN Groups[group]
      /\ Trace = Groups[group][pos] /\ group' = group
  BY <1>0, WritingHere DEF WriteRef
<1>2. PICK k \in DOMAIN Groups[group] : refs[Groups[group][k]] = None
  BY DEF AllReferenced
<1>3. Groups[group][k] = Trace
  <2>1. refs'[Groups[group][k]] # None
    BY <1>1 DEF AllReferenced
  <2>2. Groups[group][k] \in Traces
    BY <1>1, PlaceType
  <2> QED BY <1>2, <2>1, <2>2
<1>4. SUFFICES ASSUME NEW j \in DOMAIN Groups[group], j > pos PROVE FALSE
  <2>1. \A j \in DOMAIN Groups[group] : j \in Nat
    BY <1>1, PlaceType
  <2>2. pos \in Nat
    BY DEF IInv, TypeOK
  <2> QED BY <1>4, <2>1, <2>2
<1>5. j \in Nat /\ pos \in Nat
  BY <1>1, PlaceType
<1>6. Groups[group][j] # Trace /\ Groups[group][j] \in Traces
  BY <1>1, <1>4, <1>5, OnePlace, PlaceType
<1>7. refs[Groups[group][j]] # None
  BY <1>1, <1>6 DEF AllReferenced
<1>8. Before(group, pos, group, j)
  BY <1>4 DEF Before
<1> QED BY <1>1, <1>2, <1>3, <1>7, <1>8 DEF IInv, PlanOrder

\* A command that runs unforced and can still be skipped some day has a trace
\* without a reference.
LEMMA RunFinds ==
  ASSUME IInv, WholeOrBlocked, ~force, RunCommand, ~Blocked
  PROVE  ~AllReferenced(group)
<1> SUFFICES ASSUME AllReferenced(group) PROVE FALSE
  OBVIOUS
<1>1. group \in DOMAIN Groups
  BY Bounds, EpisodeAssumption DEF RunCommand, IInv, TypeOK
<1>2. /\ 1 \in DOMAIN Groups /\ 1 \in DOMAIN Groups[1] /\ 1 \in DOMAIN Groups[group]
      /\ First \in Traces /\ group \in Nat /\ group >= 1
  BY <1>1, FirstPlace, PlaceType
<1>3. AllWhole(group)
  BY <1>1 DEF WholeOrBlocked
<1>4. AllReferenced(1)
  <2>1. CASE group = 1
    BY <2>1
  <2>2. CASE group # 1
    <3>1. refs[Groups[group][1]] # None
      BY <1>2 DEF AllReferenced
    <3>2. ASSUME NEW k \in DOMAIN Groups[1] PROVE Before(1, k, group, 1)
      BY <1>2, <2>2 DEF Before
    <3> QED BY <1>1, <1>2, <3>1, <3>2 DEF IInv, PlanOrder, AllReferenced
  <2> QED BY <2>1, <2>2
<1>5. AllWhole(1)
  BY <1>2, <1>4 DEF WholeOrBlocked
<1>6. torn = {}
  <2> SUFFICES ASSUME NEW f \in torn PROVE FALSE
    OBVIOUS
  <2>1. f = <<f[1], f[2]>>
    BY DEF IInv, TypeOK
  <2>2. Whole(First)
    BY <1>2, <1>5 DEF AllWhole, First
  <2>3. f[1] = "data" /\ f[2] = refs[First]
    BY <2>2 DEF Blocked, Whole
  <2> QED BY <2>1, <2>2, <2>3 DEF Whole
<1>7. ASSUME NEW t \in Traces PROVE ~Lost(t)
  <2>1. PICK h \in DOMAIN Groups : \E j \in DOMAIN Groups[h] : t = Groups[h][j]
    BY TracePlaces
  <2>2. PICK j \in DOMAIN Groups[h] : t = Groups[h][j]
    BY <2>1
  <2>3. CASE h = 1
    BY <1>5, <2>2, <2>3 DEF AllWhole, Whole
  <2>4. CASE h # 1
    BY <2>2, <2>4 DEF Blocked
  <2> QED BY <2>3, <2>4
<1>8. PICK t \in ToSet(Groups[group]) : ~Exists(t)
  BY DEF RunCommand
<1>9. PICK k \in DOMAIN Groups[group] : t = Groups[group][k]
  BY DEF ToSet
<1> QED BY <1>3, <1>6, <1>7, <1>8, <1>9 DEF AllWhole, Whole, Exists, Valid

LEMMA NextRunsForNew ==
  ASSUME IInv, WholeInv, [Next]_vars
  PROVE  RunsForNew'
<1> /\ ~force /\ RootReads /\ RunsForNew /\ WholeOrBlocked
  BY DEF WholeInv
<1> SUFFICES ASSUME Capturing', ~Blocked'
             PROVE  ~AllReferenced(group)'
  BY DEF RunsForNew
<1>1. ~Blocked
  BY BlockedStays
<1>2. pc' \in Writing \cup {"rollout"} /\ pc' # "off" /\ pc' # "select"
  BY DEF Capturing, Writing
<1>3. CASE RunCommand
  <2>1. group' = group /\ UNCHANGED refs
    BY <1>3 DEF RunCommand, files
  <2> QED BY <1>1, <1>3, <2>1, RunFinds DEF AllReferenced
<1>4. ASSUME Capturing, group' = group PROVE ~AllReferenced(group)'
  <2>1. ~AllReferenced(group)
    BY <1>1, <1>4 DEF RunsForNew
  <2>2. CASE UNCHANGED refs
    BY <1>4, <2>1, <2>2 DEF AllReferenced
  <2>3. CASE /\ WriteRef
             /\ \A u \in Traces : refs'[u] = IF u = Trace THEN index ELSE refs[u]
    <3> SUFFICES ASSUME AllReferenced(group)' PROVE FALSE
      OBVIOUS
    <3>1. \A k \in DOMAIN Groups[group] : k <= pos
      BY <2>1, <2>3, LastReference
    <3>2. pc' = "counts" /\ pos' = pos
      BY <2>3 DEF WriteRef
    <3>3. pos < Len(Groups[group])
      BY <1>4, <3>2 DEF Capturing, Writing
    <3>4. Groups[group] \in Seq(Traces) /\ pos \in Nat
      BY <2>3, WritingHere, EpisodeAssumption DEF WriteRef, Writing, IInv, TypeOK
    <3>5. Len(Groups[group]) \in DOMAIN Groups[group] /\ Len(Groups[group]) \in Nat
      BY <3>3, <3>4
    <3> QED BY <3>1, <3>3, <3>4, <3>5
  <2> QED BY <2>2, <2>3, NextRefs
<1>5. CASE UNCHANGED <<pc, group, pos>>
  BY <1>4, <1>5 DEF Capturing
<1>6. CASE /\ pc = "rollout" /\ pos <= Len(Groups[group]) /\ pc' = "info"
           /\ UNCHANGED <<files, group, pos>>
  BY <1>4, <1>6 DEF Capturing
<1>7. CASE pc \in Writing /\ pc' \in Writing /\ UNCHANGED <<group, pos, index>>
  <2>1. Capturing
    <3>1. CASE pc # "counts"
      BY <1>7, <3>1 DEF Capturing
    <3>2. CASE pc = "counts"
      <4>1. pc' = "counts"
        BY <1>7, <3>2 DEF Next, Write, vars, batch, Start, Skip, RunCommand, EndCommand,
           EndBatch, Rollout, RolloutFails, WriteInfo, WriteData, WriteMedia, WriteMeta,
           WriteStats, RemoveOverlay, WriteManifest, WriteArrays, WriteRef, RefreshCounts,
           Crash, ProcessEnds, Writing
      <4> QED BY <1>7, <3>2, <4>1 DEF Capturing
    <3> QED BY <3>1, <3>2
  <2> QED BY <1>4, <1>7, <2>1
<1>8. CASE /\ pc = "counts" /\ pc' = "rollout" /\ group' = group /\ pos' = pos + 1
           /\ UNCHANGED files
  <2>1. pos + 1 <= Len(Groups[group])
    BY <1>8 DEF Capturing, Writing
  <2>2. Groups[group] \in Seq(Traces) /\ pos \in Nat
    BY <1>8, WritingHere, EpisodeAssumption DEF Writing, IInv, TypeOK
  <2>3. Capturing
    BY <1>8, <2>1, <2>2 DEF Capturing
  <2> QED BY <1>4, <1>8, <2>3
<1> QED BY <1>2, <1>3, <1>5, <1>6, <1>7, <1>8, NextPlace

\* The last trace of a command gets its reference when the ones before it and
\* itself are whole.
LEMMA CommandCompleted ==
  ASSUME IInv, PartsInHand, [Next]_vars, WriteRef,
         \A t \in Traces : refs'[t] = IF t = Trace THEN index ELSE refs[t],
         ~AllReferenced(group), AllReferenced(group)'
  PROVE  AllWhole(group)'
<1>0. pc \in Writing /\ pc = "refs"
  BY DEF WriteRef, Writing
<1>1. /\ group \in DOMAIN Groups /\ pos \in DOMAIN Groups[group]
      /\ Trace = Groups[group][pos] /\ Trace \in Traces /\ group' = group
      /\ index \in Indices /\ index # None
      /\ UNCHANGED <<meta, manifest, parts, torn>>
  BY <1>0, WritingHere DEF WriteRef
<1>2. \A k \in DOMAIN Groups[group] : k <= pos
  BY LastReference
<1>3. ASSUME NEW k \in DOMAIN Groups[group] PROVE Whole(Groups[group][k])'
  <2> DEFINE t == Groups[group][k]
  <2>1. t \in Traces /\ k \in Nat /\ pos \in Nat
    BY <1>1, PlaceType
  <2>2. CASE k = pos
    <3>1. /\ refs'[t] = index /\ index \in Written /\ manifest[index] = Trace
          /\ parts[index] = Parts /\ <<"data", index>> \notin torn
      BY <1>0, <1>1, <2>2 DEF PartsInHand, IInv, IndexIsOwn
    <3> QED BY <1>1, <3>1, NoneApart DEF Whole, Lost, Written
  <2>3. CASE k # pos
    <3>1. k < pos
      BY <1>2, <2>1, <2>3
    <3>2. Whole(t)
      BY <1>0, <3>1 DEF PartsInHand
    <3>3. refs'[t] = refs[t]
      BY <1>1, <2>1, <2>3, OnePlace
    <3> QED BY <1>1, <3>2, <3>3 DEF Whole, Lost, Written
  <2> QED BY <2>2, <2>3
<1> QED BY <1>1, <1>3 DEF AllWhole, Whole, Lost, Written

LEMMA NextWholeOrBlocked ==
  ASSUME IInv, WholeInv, [Next]_vars
  PROVE  WholeOrBlocked'
<1> /\ ~force /\ RootReads /\ PartsInHand /\ RunsForNew /\ WholeOrBlocked
  BY DEF WholeInv
<1> SUFFICES ASSUME NEW g \in DOMAIN Groups, AllReferenced(g)', ~Blocked'
             PROVE  AllWhole(g)'
  BY DEF WholeOrBlocked
<1>1. ~Blocked
  BY BlockedStays
<1>2. CASE UNCHANGED files
  <2>1. AllWhole(g)
    BY <1>1, <1>2 DEF WholeOrBlocked, AllReferenced, files
  <2> QED BY <1>2, <2>1 DEF AllWhole, Whole, Lost, Written, files
<1>3. CASE pc \in Writing /\ ~Capturing
  <2>1. pc = "counts"
    BY <1>3 DEF Capturing
  <2>2. CASE Crash
    <3>1. UNCHANGED files \/ torn' = torn \cup {<<"info", index>>}
      BY <2>1, <2>2 DEF Crash, InPlace, files
    <3>2. CASE torn' = torn \cup {<<"info", index>>}
      <4>1. <<"info", index>> \in torn' /\ <<"info", index>>[1] # "data"
        BY <3>2
      <4> QED BY <4>1 DEF Blocked
    <3> QED BY <1>2, <3>1, <3>2
  <2>3. CASE ~Crash
    <3>1. UNCHANGED files
      BY <2>1, <2>3 DEF Next, Write, vars, Start, Skip, RunCommand, EndCommand, EndBatch,
         Rollout, RolloutFails, WriteInfo, WriteData, WriteMedia, WriteMeta, WriteStats,
         RemoveOverlay, WriteManifest, WriteArrays, WriteRef, RefreshCounts, files
    <3> QED BY <1>2, <3>1
  <2> QED BY <2>2, <2>3
<1>4. CASE pc \in Writing /\ Capturing
  <2>1. ~AllReferenced(group)
    BY <1>1, <1>4 DEF RunsForNew
  <2>2. /\ group \in DOMAIN Groups /\ pos \in DOMAIN Groups[group]
        /\ Trace = Groups[group][pos]
    BY <1>4, WritingHere
  <2>3. CASE g # group
    <3>1. ASSUME NEW k \in DOMAIN Groups[g]
          PROVE  Groups[g][k] \in Traces /\ Groups[g][k] # Trace
      BY <2>2, <2>3, OnePlace, PlaceType
    <3>2. \A k \in DOMAIN Groups[g] : refs[Groups[g][k]] # None
      BY <3>1, NextRefs DEF AllReferenced
    <3>3. AllWhole(g)
      BY <1>1, <3>2 DEF WholeOrBlocked, AllReferenced
    <3>4. ASSUME NEW k \in DOMAIN Groups[g] PROVE Whole(Groups[g][k])'
      BY <3>1, <3>3, WholeStays DEF AllWhole
    <3> QED BY <3>4 DEF AllWhole, Whole, Lost, Written
  <2>4. CASE g = group
    <3>1. CASE UNCHANGED refs
      BY <2>1, <2>4, <3>1 DEF AllReferenced
    <3>2. CASE /\ WriteRef
               /\ \A u \in Traces : refs'[u] = IF u = Trace THEN index ELSE refs[u]
      <4>1. group' = group
        BY <3>2 DEF WriteRef
      <4>2. AllReferenced(group)'
        BY <2>4, <4>1 DEF AllReferenced
      <4>3. AllWhole(group)'
        BY <2>1, <3>2, <4>2, CommandCompleted
      <4> QED BY <2>4, <4>1, <4>3 DEF AllWhole, Whole, Lost, Written
    <3> QED BY <3>1, <3>2, NextRefs
  <2> QED BY <2>3, <2>4
<1>5. CASE pc \notin Writing
  BY <1>2, <1>5, FilesKept
<1> QED BY <1>3, <1>4, <1>5

LEMMA InitWholeInv ==
  ASSUME Init
  PROVE  WholeInv
<1> USE DEF Init
<1>1. ~force /\ RootReads /\ PartsInHand /\ RunsForNew
  BY DEF RootReads, PartsInHand, RunsForNew, Capturing, Writing
<1>2. ASSUME NEW g \in DOMAIN Groups PROVE ~AllReferenced(g)
  <2>1. 1 \in DOMAIN Groups[g] /\ Groups[g][1] \in Traces
    BY FirstPlace, PlaceType
  <2> QED BY <2>1 DEF AllReferenced
<1> QED BY <1>1, <1>2 DEF WholeInv, WholeOrBlocked

LEMMA NextUnforced ==
  ASSUME Forced = FALSE, ~force, [Next]_vars
  PROVE  ~force'
BY DEF Next, Write, vars, batch, Start, Skip, RunCommand, EndCommand, EndBatch, Rollout,
   RolloutFails, WriteInfo, WriteData, WriteMedia, WriteMeta, WriteStats, RemoveOverlay,
   WriteManifest, WriteArrays, WriteRef, RefreshCounts, Crash, ProcessEnds

\* A command that is skipped has captured each of its traces whole
\* (plan_capture.py skips a group when _expected_trace_exists for all of it),
\* for every plan and any kills, as long as nobody recaptures with --force.
THEOREM SkippedAlwaysWhole ==
  ASSUME Forced = FALSE
  PROVE  Spec => SkippedAreWhole
<1>1. Init => IInv /\ WholeInv
  BY InitInv, InitWholeInv
<1>2. IInv /\ WholeInv /\ [Next]_vars => (IInv /\ WholeInv)'
  <2> SUFFICES ASSUME IInv, WholeInv, [Next]_vars PROVE (IInv /\ WholeInv)'
    OBVIOUS
  <2>1. IInv'
    BY NextTypeOK, NextReferences, NextOrder, NextRepaired DEF IInv
  <2>2. ~force' /\ RootReads' /\ PartsInHand'
    BY NextUnforced, NextRootReads, NextPartsInHand DEF WholeInv
  <2> QED BY <2>1, <2>2, NextRunsForNew, NextWholeOrBlocked DEF WholeInv
<1>3. ASSUME IInv, WholeInv, [Next]_vars
      PROVE  [Skip => \A t \in ToSet(Groups[group]) :
                        refs[t] # None /\ parts[refs[t]] = Parts]_vars
  <2> SUFFICES ASSUME Skip, NEW t \in ToSet(Groups[group])
               PROVE  refs[t] # None /\ parts[refs[t]] = Parts
    OBVIOUS
  <2>1. /\ Valid /\ group \in DOMAIN Groups
        /\ \A k \in DOMAIN Groups[group] : Exists(Groups[group][k])
    BY <1>3, SkipNeedsValid
  <2>2. AllReferenced(group)
    BY <2>1 DEF AllReferenced, Exists
  <2>3. ~Blocked
    BY <2>1, PlaceType DEF Blocked, Valid
  <2>4. AllWhole(group)
    BY <1>3, <2>1, <2>2, <2>3 DEF WholeInv, WholeOrBlocked
  <2> QED BY <2>4 DEF AllWhole, Whole, ToSet
<1> QED BY <1>1, <1>2, <1>3, PTL DEF Spec, SkippedAreWhole
=============================================================================
