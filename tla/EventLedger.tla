----------------------------- MODULE EventLedger -----------------------------
(***************************************************************************)
(* Agents appending to the event directory (research_events.py): they read *)
(* the ledger without a lock to prepare an event, then append it under the *)
(* flock of .append.lock.  A process may die at any step.                  *)
(*                                                                         *)
(* The sha256 of an event file commits to everything before it, so it is   *)
(* represented by the events up to and including that file.  The reducer   *)
(* is abstracted to the earlier events an event must cite, and to the      *)
(* ledger tip that child_locked and execution_authorized events must name. *)
(* Temporary files are not part of the ledger: _event_paths does not list  *)
(* them.                                                                   *)
(***************************************************************************)
EXTENDS Naturals, FiniteSets, Sequences, Functions

CONSTANTS
    Agents,
    Events,      \* event ids; an id stands for the event document made for it
    Needs,       \* the earlier events an event cites
    TipBound,    \* child_locked and execution_authorized events: they name the tip
    EndsWith,    \* pairs <<e, d>> of ids where -e.json ends with -d.json
    MaxCrashes,  \* bound: processes that die
    None

ASSUME LedgerAssumption ==
    /\ Needs \in [Events -> SUBSET Events]
    /\ TipBound \subseteq Events
    /\ EndsWith \subseteq Events \X Events
    /\ \A e \in Events : <<e, e>> \in EndsWith
    /\ MaxCrashes \in Nat
    /\ None \notin Agents \cup Events

VARIABLES
    files,    \* the event files: {sequence:06d}-{event}.json and what they hold
    holder,   \* the process that holds the flock, or None
    phase,    \* where each agent is
    request,  \* the event each agent is preparing or appending
    listing,  \* the event files each agent listed last
    tip,      \* the history each agent read when it prepared its event
    crashes   \* processes that died so far

vars == <<files, holder, phase, request, listing, tip, crashes>>

File == [sequence : Nat \ {0}, event : Events, previous : Seq(Events), tip : Seq(Events)]
Phases == {"idle", "scanning", "prepared", "locked", "writing", "linked"}
Locked == {"locked", "writing", "linked"}

TypeOK ==
    /\ files \in SUBSET File
    /\ holder \in Agents \cup {None}
    /\ phase \in [Agents -> Phases]
    /\ request \in [Agents -> Events \cup {None}]
    /\ listing \in [Agents -> SUBSET File]
    /\ tip \in [Agents -> Seq(Events)]
    /\ crashes \in 0..MaxCrashes

-----------------------------------------------------------------------------
(* Reading the ledger *)

Hash(f) == Append(f.previous, f.event)

\* last_event_sha256: the hash of the last listed file.
Tip(listed) ==
    IF listed = {} THEN <<>>
    ELSE Hash(CHOOSE f \in listed : \A g \in listed : g.sequence <= f.sequence)

\* The reducer accepts event e, prepared at tip t, after history h.
Legal(e, t, h) ==
    /\ Needs[e] \subseteq Range(h)
    /\ e \in TipBound => t = h

\* Fault: files are neither counted nor chained.
VerifiesUnchained(listed) ==
    /\ \A f, g \in listed : f.event = g.event => f = g
    /\ \A f \in listed : Legal(f.event, f.tip, f.previous)

\* verify_research_event_ledger reports no issue for the listed files.
Verifies(listed) ==
    /\ {f.sequence : f \in listed} = 1..Cardinality(listed)
    /\ \A f, g \in listed : f.event = g.event => f = g
    /\ \A f \in listed :
          /\ f.sequence = 1 => f.previous = <<>>
          /\ \A g \in listed : f.sequence = g.sequence + 1 => f.previous = Hash(g)
          /\ Legal(f.event, f.tip, f.previous)

\* Some file name ends with the id, which is then taken for a duplicate.
Taken(e, listed) == \E f \in listed : <<f.event, e>> \in EndsWith

\* Fault: a listed event may be appended again.
AppendableAgain(a) ==
    /\ Verifies(listing[a])
    /\ Legal(request[a], tip[a], Tip(listing[a]))

\* append_research_event refuses nothing about the agent's event.
Appendable(a) ==
    /\ Verifies(listing[a])
    /\ ~Taken(request[a], listing[a])
    /\ Legal(request[a], tip[a], Tip(listing[a]))

-----------------------------------------------------------------------------
(* Steps of the agents *)

Init ==
    /\ files = {}
    /\ holder = None
    /\ phase = [a \in Agents |-> "idle"]
    /\ request = [a \in Agents |-> None]
    /\ listing = [a \in Agents |-> {}]
    /\ tip = [a \in Agents |-> <<>>]
    /\ crashes = 0

\* An agent reads the ledger before it prepares event e.
Scan(a, e) ==
    /\ phase[a] = "idle"
    /\ phase' = [phase EXCEPT ![a] = "scanning"]
    /\ request' = [request EXCEPT ![a] = e]
    /\ listing' = [listing EXCEPT ![a] = files]
    /\ UNCHANGED <<files, holder, tip, crashes>>

\* A directory that changes while it is listed shows any of the files linked
\* meanwhile.  The agent prepares nothing from a ledger that does not verify.
Scanned(a) ==
    /\ phase[a] = "scanning"
    /\ \E added \in SUBSET (files \ listing[a]) :
          LET seen == listing[a] \cup added
          IN /\ listing' = [listing EXCEPT ![a] = seen]
             /\ IF Verifies(seen)
                THEN /\ phase' = [phase EXCEPT ![a] = "prepared"]
                     /\ tip' = [tip EXCEPT ![a] = Tip(seen)]
                ELSE phase' = [phase EXCEPT ![a] = "idle"] /\ UNCHANGED tip
    /\ UNCHANGED <<files, holder, request, crashes>>

\* Fault: appends are not serialized.
AcquireShared(a) ==
    /\ phase[a] = "prepared"
    /\ holder' = a
    /\ phase' = [phase EXCEPT ![a] = "locked"]
    /\ listing' = [listing EXCEPT ![a] = files]
    /\ UNCHANGED <<files, request, tip, crashes>>

\* Taking the flock and listing the directory under it.
Acquire(a) ==
    /\ phase[a] = "prepared"
    /\ holder = None
    /\ holder' = a
    /\ phase' = [phase EXCEPT ![a] = "locked"]
    /\ listing' = [listing EXCEPT ![a] = files]
    /\ UNCHANGED <<files, request, tip, crashes>>

\* Fault: a refused append is tried again.
RefuseAndRetry(a) ==
    /\ phase[a] = "locked"
    /\ ~Appendable(a)
    /\ phase' = [phase EXCEPT ![a] = "prepared"]
    /\ holder' = None
    /\ UNCHANGED <<files, request, listing, tip, crashes>>

Refuse(a) ==
    /\ phase[a] = "locked"
    /\ ~Appendable(a)
    /\ phase' = [phase EXCEPT ![a] = "idle"]
    /\ holder' = None
    /\ UNCHANGED <<files, request, listing, tip, crashes>>

\* The event is accepted and its bytes are in a temporary file.
Write(a) ==
    /\ phase[a] = "locked"
    /\ Appendable(a)
    /\ phase' = [phase EXCEPT ![a] = "writing"]
    /\ UNCHANGED <<files, holder, request, listing, tip, crashes>>

EventFile(a) ==
    [sequence |-> Cardinality(listing[a]) + 1, event |-> request[a],
     previous |-> Tip(listing[a]), tip |-> tip[a]]

\* Linking creates the file or fails when its name exists.
Link(a) ==
    /\ phase[a] = "writing"
    /\ LET new == EventFile(a)
           exists == \E f \in files : f.sequence = new.sequence /\ f.event = new.event
       IN files' = IF exists THEN files ELSE files \cup {new}
    /\ phase' = [phase EXCEPT ![a] = "linked"]
    /\ UNCHANGED <<holder, request, listing, tip, crashes>>

\* The temporary file is removed and the flock dropped.
Release(a) ==
    /\ phase[a] = "linked"
    /\ phase' = [phase EXCEPT ![a] = "idle"]
    /\ holder' = None
    /\ UNCHANGED <<files, request, listing, tip, crashes>>

\* The process dies: the kernel drops its flock, a temporary file stays.
Crash(a) ==
    /\ crashes < MaxCrashes
    /\ phase[a] # "idle"
    /\ phase' = [phase EXCEPT ![a] = "idle"]
    /\ holder' = IF holder = a THEN None ELSE holder
    /\ crashes' = crashes + 1
    /\ UNCHANGED <<files, request, listing, tip>>

Step(a) == Scanned(a) \/ Refuse(a) \/ Write(a) \/ Link(a) \/ Release(a)

Next ==
    \E a \in Agents :
        \/ \E e \in Events : Scan(a, e)
        \/ Step(a)
        \/ Acquire(a)
        \/ Crash(a)

Spec == Init /\ [][Next]_vars

\* A running process goes on, and the kernel wakes the processes blocked on a
\* flock.
Fairness == \A a \in Agents : WF_vars(Step(a)) /\ SF_vars(Acquire(a))

FairSpec == Spec /\ Fairness

-----------------------------------------------------------------------------
(* Properties *)

\* However appends, readers and crashes interleave, the event files are one hash
\* chain without gaps, in which every event id occurs once and every lock and
\* preflight receipt directly follows the tip it was made at.
LedgerVerifies == Verifies(files)

\* The state an agent derived when it prepared its event is that of a prefix of
\* the ledger, also when the directory changed while it was being listed.
ReadersSeePrefix ==
    \A a \in Agents : phase[a] = "prepared" =>
        /\ {f.event : f \in listing[a]} = Range(tip[a])
        /\ Len(tip[a]) <= Len(Tip(files))
        /\ \A n \in DOMAIN tip[a] : tip[a][n] = Tip(files)[n]

\* An attempt to append ends, whatever happens to the processes ahead of it.
AppendsEnd == \A a \in Agents : phase[a] = "prepared" ~> phase[a] = "idle"

\* Refinement: the directory is the append-only history of CampaignLog.
Log == INSTANCE CampaignLog WITH history <- Tip(files)

ImplementsLog == Log!Spec

=============================================================================
