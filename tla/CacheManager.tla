---------------------------- MODULE CacheManager ----------------------------
(***************************************************************************)
(* The managed cache below .vla_cache (cache.py) for one key: workers that *)
(* get or build the entry and then read it (selectors.py), one pruner and  *)
(* an operator who pins.  Locks, directories and manifests of different    *)
(* keys are disjoint and prune goes key by key, so one key shows what can  *)
(* happen to it.                                                           *)
(*                                                                         *)
(* A process can die between any two file operations.  Its lock is an      *)
(* flock and dies with it; directories stay as they were.  rmtree removes  *)
(* one file after the other, so a directory is seen damaged in between; a  *)
(* Zarr array opens although chunks are missing, and reads as fill values. *)
(*                                                                         *)
(* A build reads arrays from the files, but takes the tables that say      *)
(* which samples to use from the open dataset, which reads each of them    *)
(* once and keeps it for as long as it is open (traces/bundle.py,          *)
(* dataset/bundle.py).  The fingerprint looks at the files.                *)
(***************************************************************************)
EXTENDS Naturals, FiniteSets

CONSTANTS
    Workers,     \* processes that call get_or_build
    Pruner,      \* the process that runs prune --apply
    NoOne,       \* holder of a free lock
    MaxSource,   \* bound: how often the captured data changes
    MaxBuilds,   \* bound: manifests created
    MaxTouches,  \* bound: accesses at least 60 s after the last one
    MaxCrashes   \* bound: deaths of a process

ASSUME CacheAssumption ==
    /\ Pruner \notin Workers
    /\ NoOne \notin Workers \union {Pruner}
    /\ {MaxSource, MaxBuilds, MaxTouches, MaxCrashes} \subseteq Nat

Attempts == 2    \* tries of a reader whose entry disappears
Places == {"entry", "old", "tmp"}

VARIABLES
    legacy,    \* the callers of this key adopt entries without a manifest;
               \* they put the sources into the key, which so never change
    source,    \* version of the captured data on disk
    dir,       \* the entry, its stashed predecessor and the build in progress
    lock,      \* who holds the lock file of the key
    pc,        \* what each process does next
    asked,     \* the source fingerprint a worker computed for its call
    tries,     \* get_or_build calls of the current read
    previous,  \* the pin a builder read from the manifest it replaces
    got,       \* what the last read returned: versions, and whether it was whole
    plan,      \* the manifests the pruner chose
    builds,    \* manifests created so far; the number identifies a manifest
    touches,
    crashes,
    cut        \* a process has died while it removed a directory

vars == <<legacy, source, dir, lock, pc, asked, tries, previous, got, plan, builds,
          touches, crashes, cut>>

Manifests == [src : 1..MaxSource + 1, pinned : BOOLEAN,
              id : 1..MaxBuilds, accessed : 0..MaxTouches]
NoManifest == [id |-> 0]
\* The data of a directory: whole, opens with chunks missing, does not open.
Data == {"whole", "holes", "broken"}
\* ver is the version of the arrays it was built from, tables that of the tables;
\* they are held if the builder's dataset had read them before the sources changed.
Dirs == [man : Manifests \union {NoManifest}, ver : 1..MaxSource + 1,
         tables : 1..MaxSource + 1, held : BOOLEAN, data : Data]
Gone == [gone |-> TRUE]
Reads == [ver : 1..MaxSource + 1, tables : 1..MaxSource + 1, held : BOOLEAN, whole : BOOLEAN]
NoRead == [ver |-> 0]
Locked == {"recover", "drop", "check", "build", "commit", "swap", "discard"}

TypeOK ==
    /\ legacy \in BOOLEAN
    /\ source \in 1..MaxSource + 1
    /\ dir \in [Places -> Dirs \union {Gone}]
    /\ lock \in Workers \union {Pruner, NoOne}
    /\ pc \in [Workers \union {Pruner} ->
                   Locked \union {"idle", "wait", "read", "failed", "planned", "remove"}]
    /\ asked \in [Workers -> 1..MaxSource + 1]
    /\ tries \in [Workers -> 0..Attempts]
    /\ previous \in [Workers -> BOOLEAN]
    /\ got \in [Workers -> Reads \union {NoRead}]
    /\ plan \in SUBSET Manifests
    /\ builds \in 0..MaxBuilds
    /\ touches \in 0..MaxTouches
    /\ crashes \in 0..MaxCrashes
    /\ cut \in BOOLEAN

Init ==
    /\ legacy \in BOOLEAN
    /\ source = 1
    \* Nothing yet, or what a writer before the manager left.
    /\ dir \in {[p \in Places |-> IF p = "entry" THEN e ELSE Gone] :
                    e \in {Gone, [man |-> NoManifest, ver |-> 1, tables |-> 1, held |-> FALSE,
                                 data |-> "whole"]}}
    /\ lock = NoOne
    /\ pc = [p \in Workers \union {Pruner} |-> "idle"]
    /\ asked = [w \in Workers |-> 1]
    /\ tries = [w \in Workers |-> 0]
    /\ previous = [w \in Workers |-> FALSE]
    /\ got = [w \in Workers |-> NoRead]
    /\ plan = {}
    /\ builds = 0 /\ touches = 0 /\ crashes = 0 /\ cut = FALSE

-----------------------------------------------------------------------------
(* What the code reads off a directory.                                    *)

HasManifest(d) == d # Gone /\ d.man # NoManifest
\* The validators open the data and compare shapes; they do not see holes.
Validated(d) == d # Gone /\ d.data # "broken"

\* Fault: the fingerprint of the sources is not compared.
ValidForAny(d, s) == HasManifest(d) /\ Validated(d)

ValidFor(d, s) == HasManifest(d) /\ d.man.src = s /\ Validated(d)

\* rmtree under way: the manifest is gone, some data is gone, or both.
Damaged(d) ==
    [man : {d.man, NoManifest}, ver : {d.ver}, tables : {d.tables}, held : {d.held},
     data : CASE d.data = "whole" -> Data
              [] d.data = "holes" -> {"holes", "broken"}
              [] OTHER -> {"broken"}] \ {d}

Goto(p, label) == pc' = [pc EXCEPT ![p] = label]
Unlock(p) == lock' = NoOne

-----------------------------------------------------------------------------
(* get_or_build                                                            *)

\* A read starts, or starts over: the fingerprint of the sources is taken.
Ask(w) ==
    /\ pc[w] \in {"idle", "failed"}
    /\ asked' = [asked EXCEPT ![w] = source]
    /\ tries' = [tries EXCEPT ![w] = 1]
    /\ got' = [got EXCEPT ![w] = NoRead]
    /\ Goto(w, "wait")
    /\ UNCHANGED <<legacy, source, dir, lock, previous, plan, builds, touches, crashes, cut>>

\* Fault: the lock does not exclude.
AcquireShared(w) ==
    /\ pc[w] = "wait"
    /\ lock' = w
    /\ Goto(w, "recover")
    /\ UNCHANGED <<legacy, source, dir, asked, tries, previous, got, plan, builds, touches, crashes, cut>>

Acquire(w) ==
    /\ pc[w] = "wait" /\ lock = NoOne
    /\ lock' = w
    /\ Goto(w, "recover")
    /\ UNCHANGED <<legacy, source, dir, asked, tries, previous, got, plan, builds, touches, crashes, cut>>

TimesOut(w) ==
    /\ pc[w] \in {"wait", "read"} /\ lock # NoOne
    /\ Goto(w, "failed")
    /\ UNCHANGED <<legacy, source, dir, lock, asked, tries, previous, got, plan, builds, touches, crashes, cut>>

Recover(w) ==
    /\ pc[w] = "recover"
    /\ IF dir["entry"] = Gone \/ dir["old"] = Gone
       THEN /\ dir' = [entry |-> IF dir["entry"] = Gone THEN dir["old"] ELSE dir["entry"],
                       old |-> Gone, tmp |-> Gone]
            /\ Goto(w, "check")
       ELSE /\ \E d \in Damaged(dir["old"]) \union {dir["old"]} :
                   dir' = [dir EXCEPT !["old"] = d, !["tmp"] = Gone]
            /\ Goto(w, "drop")
    /\ UNCHANGED <<legacy, source, lock, asked, tries, previous, got, plan, builds, touches, crashes, cut>>

Drop(w) ==
    /\ pc[w] = "drop"
    /\ dir' = [dir EXCEPT !["old"] = Gone]
    /\ Goto(w, "check")
    /\ UNCHANGED <<legacy, source, lock, asked, tries, previous, got, plan, builds, touches, crashes, cut>>

\* A valid entry is returned; its access time is written at most once a minute.
Hit(w) ==
    /\ pc[w] = "check"
    /\ ValidFor(dir["entry"], asked[w])
    /\ \/ UNCHANGED <<dir, touches>>
       \/ /\ touches < MaxTouches
          /\ touches' = touches + 1
          /\ dir' = [dir EXCEPT !["entry"].man.accessed = touches + 1]
    /\ Goto(w, "read") /\ Unlock(w)
    /\ UNCHANGED <<legacy, source, asked, tries, previous, got, plan, builds, crashes, cut>>

NewManifest(w, pin) ==
    [src |-> asked[w], pinned |-> pin, id |-> builds + 1, accessed |-> touches]

Adopt(w) ==
    /\ pc[w] = "check"
    /\ legacy
    /\ Validated(dir["entry"]) /\ ~HasManifest(dir["entry"])
    /\ builds < MaxBuilds
    /\ builds' = builds + 1
    /\ dir' = [dir EXCEPT !["entry"].man = NewManifest(w, FALSE)]
    /\ Goto(w, "read") /\ Unlock(w)
    /\ UNCHANGED <<legacy, source, asked, tries, previous, got, plan, touches, crashes, cut>>

\* What a build may start from: the arrays as they are now, and the tables as they
\* are now or as the open dataset read them at any earlier time.
Starts ==
    {[man |-> NoManifest, ver |-> source, tables |-> t, held |-> t < source, data |-> "broken"] :
        t \in 1..source}

\* Fault: the pin of the entry that is replaced is not read.
MissUnpinned(w) ==
    /\ pc[w] = "check"
    /\ ~ValidFor(dir["entry"], asked[w])
    /\ ~(legacy /\ Validated(dir["entry"]) /\ ~HasManifest(dir["entry"]))
    /\ previous' = [previous EXCEPT ![w] = FALSE]
    /\ \E d \in Starts : dir' = [dir EXCEPT !["tmp"] = d]
    /\ Goto(w, "build")
    /\ UNCHANGED <<legacy, source, lock, asked, tries, got, plan, builds, touches, crashes, cut>>

Miss(w) ==
    /\ pc[w] = "check"
    /\ ~ValidFor(dir["entry"], asked[w])
    /\ ~(legacy /\ Validated(dir["entry"]) /\ ~HasManifest(dir["entry"]))
    /\ previous' = [previous EXCEPT ![w] =
                        IF HasManifest(dir["entry"]) THEN dir["entry"].man.pinned ELSE FALSE]
    /\ \E d \in Starts : dir' = [dir EXCEPT !["tmp"] = d]
    /\ Goto(w, "build")
    /\ UNCHANGED <<legacy, source, lock, asked, tries, got, plan, builds, touches, crashes, cut>>

Build(w) ==
    /\ pc[w] = "build"
    /\ builds < MaxBuilds
    /\ builds' = builds + 1
    /\ dir' = [dir EXCEPT !["tmp"].man = NewManifest(w, previous[w]), !["tmp"].data = "whole"]
    /\ Goto(w, "commit")
    /\ UNCHANGED <<legacy, source, lock, asked, tries, previous, got, plan, touches, crashes, cut>>

\* The builder raises, or the validator refuses what it built.
BuildFails(w) ==
    /\ pc[w] = "build"
    /\ dir' = [dir EXCEPT !["tmp"] = Gone]
    /\ Goto(w, "failed") /\ Unlock(w)
    /\ UNCHANGED <<legacy, source, asked, tries, previous, got, plan, builds, touches, crashes, cut>>

Stash(w) ==
    /\ pc[w] = "commit"
    /\ dir' = [dir EXCEPT !["entry"] = Gone, !["old"] = dir["entry"]]
    /\ Goto(w, "swap")
    /\ UNCHANGED <<legacy, source, lock, asked, tries, previous, got, plan, builds, touches, crashes, cut>>

Swap(w) ==
    /\ pc[w] = "swap"
    /\ dir' = [dir EXCEPT !["entry"] = dir["tmp"], !["tmp"] = Gone]
    /\ IF dir["old"] = Gone THEN Goto(w, "read") /\ Unlock(w)
                            ELSE Goto(w, "discard") /\ UNCHANGED lock
    /\ UNCHANGED <<legacy, source, asked, tries, previous, got, plan, builds, touches, crashes, cut>>

\* The second rename raises: the predecessor is put back.
SwapFails(w) ==
    /\ pc[w] = "swap"
    /\ dir' = [entry |-> dir["old"], old |-> Gone, tmp |-> Gone]
    /\ Goto(w, "failed") /\ Unlock(w)
    /\ UNCHANGED <<legacy, source, asked, tries, previous, got, plan, builds, touches, crashes, cut>>

Discard(w) ==
    /\ pc[w] = "discard"
    /\ \/ /\ \E d \in Damaged(dir["old"]) : dir' = [dir EXCEPT !["old"] = d]
          /\ UNCHANGED <<pc, lock>>
       \/ /\ dir' = [dir EXCEPT !["old"] = Gone]
          /\ Goto(w, "read") /\ Unlock(w)
    /\ UNCHANGED <<legacy, source, asked, tries, previous, got, plan, builds, touches, crashes, cut>>

Contents(d) == [ver |-> d.ver, tables |-> d.tables, held |-> d.held, whole |-> d.data = "whole"]

\* Fault: the retry of a read is not counted out.
ReadForever(w) ==
    /\ pc[w] = "read" /\ lock = NoOne
    /\ IF Validated(dir["entry"])
       THEN Goto(w, "idle") /\ UNCHANGED <<asked, tries>>
       ELSE /\ asked' = [asked EXCEPT ![w] = source]
            /\ tries' = [tries EXCEPT ![w] = @ + 1]
            /\ Goto(w, "wait")
    /\ UNCHANGED <<legacy, source, dir, lock, previous, got, plan, builds, touches, crashes, cut>>

\* The returned path is read under the lock, and only if it still validates.
Read(w) ==
    /\ pc[w] = "read" /\ lock = NoOne
    /\ \/ /\ Validated(dir["entry"])
          /\ got' = [got EXCEPT ![w] = Contents(dir["entry"])]
          /\ Goto(w, "idle")
          /\ UNCHANGED <<asked, tries>>
       \/ /\ ~Validated(dir["entry"]) /\ tries[w] < Attempts
          /\ asked' = [asked EXCEPT ![w] = source]
          /\ tries' = [tries EXCEPT ![w] = @ + 1]
          /\ Goto(w, "wait")
          /\ UNCHANGED got
       \/ /\ ~Validated(dir["entry"]) /\ tries[w] = Attempts
          /\ Goto(w, "failed")
          /\ UNCHANGED <<asked, tries, got>>
    /\ UNCHANGED <<legacy, source, dir, lock, previous, plan, builds, touches, crashes, cut>>

-----------------------------------------------------------------------------
(* prune, pin and unpin                                                    *)

\* The plan is made from the manifests as they are, without any lock; also
\* hidden siblings of the entry match the pattern.  How many of them the
\* space that is needed asks for is left open.
Plan ==
    /\ pc[Pruner] = "idle"
    /\ \E chosen \in SUBSET {dir[p].man : p \in {q \in Places : HasManifest(dir[q])}} :
           /\ chosen # {}
           /\ \A m \in chosen : ~m.pinned
           /\ plan' = chosen
    /\ Goto(Pruner, "planned")
    /\ UNCHANGED <<legacy, source, dir, lock, asked, tries, previous, got, builds, touches, crashes, cut>>

\* The entry is removed if its manifest is still one of the plan.
PruneEntry ==
    /\ pc[Pruner] = "planned" /\ lock = NoOne
    /\ LET e == dir["entry"] IN
       IF HasManifest(e) /\ e.man \in plan /\ ~e.man.pinned
       THEN /\ \E d \in Damaged(e) : dir' = [dir EXCEPT !["entry"] = d]
            /\ lock' = Pruner
            /\ Goto(Pruner, "remove")
       ELSE /\ Goto(Pruner, "idle")
            /\ UNCHANGED <<dir, lock>>
    /\ plan' = {}
    /\ UNCHANGED <<legacy, source, asked, tries, previous, got, builds, touches, crashes, cut>>

FinishRemoval ==
    /\ pc[Pruner] = "remove"
    /\ dir' = [dir EXCEPT !["entry"] = Gone]
    /\ Goto(Pruner, "idle") /\ Unlock(Pruner)
    /\ UNCHANGED <<legacy, source, asked, tries, previous, got, plan, builds, touches, crashes, cut>>

\* One manifest is rewritten under the lock; the write is one rename.
SetPinned(pin) ==
    /\ lock = NoOne
    /\ HasManifest(dir["entry"])
    /\ dir' = [dir EXCEPT !["entry"].man.pinned = pin]
    /\ UNCHANGED <<legacy, source, lock, pc, asked, tries, previous, got, plan, builds, touches, crashes, cut>>

-----------------------------------------------------------------------------
(* The world                                                               *)

SourceChanges ==
    /\ ~legacy
    /\ source <= MaxSource
    /\ source' = source + 1
    /\ UNCHANGED <<legacy, dir, lock, pc, asked, tries, previous, got, plan, builds, touches, crashes, cut>>

Crash(p) ==
    /\ crashes < MaxCrashes
    /\ pc[p] \notin {"idle", "failed"}
    /\ crashes' = crashes + 1
    /\ cut' = (cut \/ pc[p] \in {"drop", "discard", "remove"})
    /\ lock' = IF lock = p THEN NoOne ELSE lock
    /\ Goto(p, IF p = Pruner THEN "idle" ELSE "failed")
    /\ plan' = IF p = Pruner THEN {} ELSE plan
    /\ UNCHANGED <<legacy, source, dir, asked, tries, previous, got, builds, touches>>

WorkerStep(w) ==
    \/ Ask(w) \/ Acquire(w) \/ TimesOut(w) \/ Recover(w) \/ Drop(w)
    \/ Hit(w) \/ Adopt(w) \/ Miss(w) \/ Build(w) \/ BuildFails(w)
    \/ Stash(w) \/ Swap(w) \/ SwapFails(w) \/ Discard(w) \/ Read(w)

Next ==
    \/ \E w \in Workers : WorkerStep(w)
    \/ Plan \/ PruneEntry \/ FinishRemoval
    \/ \E pin \in BOOLEAN : SetPinned(pin)
    \/ SourceChanges
    \/ \E p \in Workers \union {Pruner} : Crash(p)

Spec == Init /\ [][Next]_vars

-----------------------------------------------------------------------------
(* Properties                                                              *)

\* What a read returns was made from arrays at least as new as the sources were
\* when the read began, whatever workers, pruner and deaths did since the entry was
\* checked: the path is used after the lock was dropped.  So were the tables, unless
\* the process that built it, which need not be the reader, had read them before
\* and kept them.  It is whole, too, unless a process has died in the middle of an
\* rmtree: the validators pass what that leaves.
FreshRead ==
    \A w \in Workers : got[w] # NoRead =>
        /\ got[w].ver >= asked[w]
        /\ got[w].tables >= asked[w] \/ got[w].held
        /\ got[w].whole \/ cut

\* One process builds at a time, and never what is already there: a worker
\* that waited for another's build must find it.
BuildsOnce ==
    /\ \A w \in Workers : pc[w] \in {"build", "commit"} => ~ValidFor(dir["entry"], asked[w])
    /\ \A p, q \in Workers \union {Pruner} :
           pc[p] \in Locked \union {"remove"} /\ pc[q] \in Locked \union {"remove"} => p = q

\* The copy a caller can get: the entry, or its predecessor while the entry
\* is between the two renames of a commit.
Visible == IF dir["entry"] # Gone THEN dir["entry"] ELSE dir["old"]

Managed == INSTANCE ManagedCopy WITH
    Versions <- 1..MaxSource + 1,
    copy <- IF HasManifest(Visible) /\ Visible.data = "whole"
            THEN [ver |-> Visible.ver, pinned |-> Visible.man.pinned]
            ELSE [ver |-> 0, pinned |-> FALSE, none |-> TRUE]

\* Renames, deaths between them and recovery are invisible: a usable copy is
\* only replaced by one with arrays at least as new and the same pin, and only
\* an unpinned copy is ever removed.
ImplementsCopy == Managed!Spec
=============================================================================
