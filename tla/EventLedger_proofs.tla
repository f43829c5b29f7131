-------------------------- MODULE EventLedger_proofs --------------------------
(***************************************************************************)
(* Theorems about EventLedger, for any number of agents, events and        *)
(* crashes.                                                                *)
(***************************************************************************)
EXTENDS EventLedger, FiniteSetTheorems, TLAPS

-----------------------------------------------------------------------------
(* Sets of event files *)

\* The hash of a file lists the events of the files up to it.
HashIsHistory(S) ==
    \A f \in S : /\ Len(f.previous) + 1 = f.sequence
                 /\ \A g \in S : g.sequence <= f.sequence => Hash(f)[g.sequence] = g.event

Chain(S) ==
    /\ S \subseteq File
    /\ IsFiniteSet(S)
    /\ Verifies(S)
    /\ \A f, g \in S : f.sequence = g.sequence => f = g
    /\ HashIsHistory(S)

\* Hashing a file adds its event to what precedes it (file_sha256).
LEMMA HashOfFile ==
    ASSUME NEW f \in File
    PROVE  /\ Hash(f) \in Seq(Events)
           /\ Len(Hash(f)) = Len(f.previous) + 1
           /\ Hash(f)[Len(f.previous) + 1] = f.event
           /\ Len(f.previous) \in Nat
           /\ \A n \in 1..Len(f.previous) : Hash(f)[n] = f.previous[n]
BY DEF File, Hash

\* A listing that verifies ends in its file with the largest sequence
\* (verify_research_event_ledger).
LEMMA TipIsLast ==
    ASSUME NEW S, S \subseteq File, IsFiniteSet(S), S # {},
           {f.sequence : f \in S} = 1..Cardinality(S)
    PROVE  \E f \in S : /\ f.sequence = Cardinality(S)
                        /\ Tip(S) = Hash(f)
                        /\ \A g \in S : g.sequence <= f.sequence
<1>1. Cardinality(S) \in Nat \ {0}
  BY FS_CardinalityType, FS_EmptySet
<1>2. \A g \in S : g.sequence \in Nat /\ g.sequence <= Cardinality(S)
  BY <1>1 DEF File
<1>3. PICK g \in S : g.sequence = Cardinality(S)
  BY <1>1
<1>. DEFINE f == CHOOSE f \in S : \A x \in S : x.sequence <= f.sequence
<1>4. f \in S /\ \A x \in S : x.sequence <= f.sequence
  BY <1>2, <1>3
<1>5. Tip(S) = Hash(f)
  BY DEF Tip
<1>. HIDE DEF f
<1>6. f.sequence = Cardinality(S)
  BY <1>1, <1>2, <1>3, <1>4
<1>. QED BY <1>4, <1>5, <1>6

\* The tip of a chain names its events in the order of their sequences.
LEMMA TipOfChain ==
    ASSUME NEW S, Chain(S)
    PROVE  /\ Tip(S) \in Seq(Events)
           /\ Cardinality(S) \in Nat
           /\ Len(Tip(S)) = Cardinality(S)
           /\ \A f \in S : f.sequence \in 1..Cardinality(S) /\ Tip(S)[f.sequence] = f.event
           /\ \A n \in 1..Cardinality(S) : \E f \in S : f.sequence = n
<1>1. /\ S \subseteq File /\ IsFiniteSet(S)
      /\ {f.sequence : f \in S} = 1..Cardinality(S)
      /\ HashIsHistory(S)
  BY DEF Chain, Verifies
<1>2. Cardinality(S) \in Nat
  BY <1>1, FS_CardinalityType
<1>3. \A f \in S : f.sequence \in 1..Cardinality(S)
  BY <1>1
<1>4. \A n \in 1..Cardinality(S) : \E f \in S : f.sequence = n
  BY <1>1
<1>5. CASE S = {}
  BY <1>2, <1>5, FS_EmptySet DEF Tip
<1>6. CASE S # {}
  <2>1. PICK f \in S : f.sequence = Cardinality(S) /\ Tip(S) = Hash(f)
    BY <1>1, <1>6, TipIsLast
  <2>2. Hash(f) \in Seq(Events) /\ Len(Hash(f)) = Cardinality(S)
    BY <1>1, <2>1, HashOfFile DEF HashIsHistory
  <2>3. \A g \in S : Hash(f)[g.sequence] = g.event
    BY <1>1, <1>2, <1>3, <2>1 DEF HashIsHistory
  <2>. QED BY <1>2, <1>3, <1>4, <2>1, <2>2, <2>3
<1>. QED BY <1>5, <1>6

\* The tip of a chain holds exactly the events of its files.
LEMMA TipHoldsEvents ==
    ASSUME NEW S, Chain(S)
    PROVE  {f.event : f \in S} = Range(Tip(S))
<1>1. DOMAIN Tip(S) = 1..Cardinality(S)
  BY TipOfChain
<1>. QED BY <1>1, TipOfChain DEF Range

\* Any part of a chain that verifies is a prefix of it: it has the files with the
\* smallest sequences (verify_research_event_ledger).
LEMMA PartIsPrefix ==
    ASSUME NEW S, Chain(S), NEW T \in SUBSET S, Verifies(T)
    PROVE  /\ Chain(T)
           /\ Len(Tip(T)) <= Len(Tip(S))
           /\ \A n \in DOMAIN Tip(T) : Tip(T)[n] = Tip(S)[n]
<1>1. IsFiniteSet(T) /\ Cardinality(T) <= Cardinality(S)
  BY FS_Subset DEF Chain
<1>2. Chain(T)
  BY <1>1 DEF Chain, HashIsHistory
<1>3. DOMAIN Tip(T) = 1..Cardinality(T)
  BY <1>2, TipOfChain
<1>4. ASSUME NEW n \in 1..Cardinality(T)
      PROVE  Tip(T)[n] = Tip(S)[n]
  <2>1. PICK f \in T : f.sequence = n
    BY <1>2, TipOfChain
  <2>. QED BY <1>2, <2>1, TipOfChain
<1>. QED BY <1>1, <1>2, <1>3, <1>4, TipOfChain

\* An event that append_research_event accepts extends a chain by one file.
LEMMA ChainExtends ==
    ASSUME NEW S, Chain(S), NEW e \in Events, NEW t \in Seq(Events),
           ~Taken(e, S), Legal(e, t, Tip(S)), NEW new,
           new = [sequence |-> Cardinality(S) + 1, event |-> e, previous |-> Tip(S), tip |-> t]
    PROVE  /\ Chain(S \cup {new})
           /\ Tip(S \cup {new}) = Append(Tip(S), e)
<1>. DEFINE n == Cardinality(S)
            T == S \cup {new}
<1>1. /\ S \subseteq File /\ IsFiniteSet(S) /\ n \in Nat
      /\ Tip(S) \in Seq(Events) /\ Len(Tip(S)) = n
      /\ \A f \in S : f.sequence \in 1..n /\ Tip(S)[f.sequence] = f.event
      /\ {f.sequence : f \in S} = 1..n
      /\ \A k \in 1..n : \E f \in S : f.sequence = k
  BY TipOfChain DEF Chain, Verifies
<1>2. /\ new \in File
      /\ new.sequence = n + 1 /\ new.event = e /\ new.previous = Tip(S) /\ new.tip = t
      /\ Hash(new) = Append(Tip(S), e)
  BY <1>1 DEF File, Hash
<1>3. \A f \in S : f.event # e
  BY LedgerAssumption DEF Taken
<1>. HIDE DEF n
<1>4. new \notin S
  BY <1>1, <1>2
<1>5. T \subseteq File /\ IsFiniteSet(T) /\ Cardinality(T) = n + 1
  <2>1. IsFiniteSet(S) /\ T \subseteq File
    BY <1>1, <1>2
  <2>2. IsFiniteSet(T) /\ Cardinality(T) = n + 1
    BY <1>4, <2>1, FS_AddElement DEF n
  <2>. QED BY <2>1, <2>2
<1>6. {f.sequence : f \in T} = 1..(n + 1)
  <2>1. {f.sequence : f \in T} = {f.sequence : f \in S} \cup {new.sequence}
    OBVIOUS
  <2>2. (1..n) \cup {n + 1} = 1..(n + 1)
    BY <1>1
  <2>. QED BY <1>1, <1>2, <2>1, <2>2
<1>7. \A f, g \in T : f.event = g.event => f = g
  BY <1>2, <1>3 DEF Chain, Verifies
<1>8. \A f, g \in T : f.sequence = g.sequence => f = g
  BY <1>1, <1>2 DEF Chain
<1>9. ASSUME NEW f \in T
      PROVE  /\ f.sequence = 1 => f.previous = <<>>
             /\ \A g \in T : f.sequence = g.sequence + 1 => f.previous = Hash(g)
             /\ Legal(f.event, f.tip, f.previous)
  <2>1. CASE f \in S
    <3>1. f.sequence # new.sequence + 1
      BY <1>1, <1>2, <2>1
    <3>. QED BY <2>1, <3>1 DEF Chain, Verifies
  <2>2. CASE f = new
    <3>1. Legal(f.event, f.tip, f.previous)
      BY <1>2, <2>2
    <3>2. f.sequence = 1 => f.previous = <<>>
      <4>1. n = 0 => Tip(S) = <<>>
        BY <1>1
      <4>. QED BY <1>1, <1>2, <2>2, <4>1
    <3>3. ASSUME NEW g \in T, f.sequence = g.sequence + 1
          PROVE  f.previous = Hash(g)
      <4>1. g \in S /\ g.sequence = n
        BY <1>1, <1>2, <2>2, <3>3
      <4>2. PICK h \in S : h.sequence = n /\ Tip(S) = Hash(h)
        BY <1>1, <4>1, TipIsLast DEF n
      <4>. QED BY <1>2, <2>2, <4>1, <4>2 DEF Chain
    <3>. QED BY <3>1, <3>2, <3>3
  <2>. QED BY <2>1, <2>2
<1>10. Verifies(T)
  BY <1>5, <1>6, <1>7, <1>9 DEF Verifies
<1>11. HashIsHistory(T)
  <2>1. \A f \in S : f.sequence <= n /\ ~(new.sequence <= f.sequence)
    BY <1>1, <1>2
  <2>2. \A g \in S : Hash(new)[g.sequence] = g.event
    BY <1>1, <1>2
  <2>3. Hash(new)[n + 1] = e
    BY <1>1, <1>2
  <2>. QED BY <1>1, <1>2, <2>1, <2>2, <2>3 DEF Chain, HashIsHistory
<1>12. Tip(T) = Append(Tip(S), e)
  <2>1. PICK f \in T : f.sequence = n + 1 /\ Tip(T) = Hash(f)
    BY <1>5, <1>6, TipIsLast
  <2>2. f \notin S
    BY <1>1, <2>1
  <2>. QED BY <1>2, <2>1, <2>2
<1>. QED BY <1>5, <1>8, <1>10, <1>11, <1>12 DEF Chain

-----------------------------------------------------------------------------
(* The inductive invariant *)

\* Only the holder of the flock is inside it, and while it is, the directory is
\* what it listed.
LockProtects ==
    \A a \in Agents :
        /\ phase[a] \in Locked => holder = a
        /\ phase[a] \in {"locked", "writing"} => listing[a] = files
        /\ phase[a] = "writing" => Appendable(a)

\* What an agent listed is part of the ledger, and what it prepared from verified.
ListingsArePart ==
    \A a \in Agents :
        /\ listing[a] \subseteq files
        /\ phase[a] = "prepared" => Verifies(listing[a]) /\ tip[a] = Tip(listing[a])
        /\ phase[a] # "idle" => request[a] \in Events

LedgerInvariant ==
    /\ TypeOK
    /\ Chain(files)
    /\ LockProtects
    /\ ListingsArePart

\* The empty ledger is a chain.
LEMMA LedgerInit == Init => LedgerInvariant
<1>. SUFFICES ASSUME Init PROVE LedgerInvariant
  OBVIOUS
<1>1. TypeOK
  BY LedgerAssumption DEF Init, TypeOK, Phases
<1>2. Chain(files)
  <2>1. files = {} /\ IsFiniteSet({}) /\ Cardinality({}) = 0
    BY FS_EmptySet DEF Init
  <2>. QED BY <2>1 DEF Chain, Verifies, HashIsHistory
<1>3. LockProtects /\ ListingsArePart
  BY DEF Init, LockProtects, ListingsArePart, Locked
<1>. QED BY <1>1, <1>2, <1>3 DEF LedgerInvariant

\* Linking is the only step that changes the ledger, and it adds the event its
\* agent found appendable to the directory as it still is (append_research_event).
LEMMA LinkExtends ==
    ASSUME LedgerInvariant, NEW a \in Agents, Link(a)
    PROVE  /\ Chain(files')
           /\ files' = files \cup {EventFile(a)}
           /\ EventFile(a) \in File
           /\ Tip(files') = Append(Tip(files), request[a])
           /\ Log!Follows(request[a], Tip(files))
<1>. DEFINE new == EventFile(a)
<1>1. /\ phase[a] = "writing" /\ listing[a] = files /\ Appendable(a)
      /\ request[a] \in Events /\ tip[a] \in Seq(Events)
      /\ Chain(files)
  BY DEF LedgerInvariant, LockProtects, ListingsArePart, TypeOK, Link
<1>2. ~Taken(request[a], files) /\ Legal(request[a], tip[a], Tip(files))
  BY <1>1 DEF Appendable
<1>3. new = [sequence |-> Cardinality(files) + 1, event |-> request[a],
             previous |-> Tip(files), tip |-> tip[a]]
  BY <1>1 DEF EventFile
<1>4. \A f \in files : f.event # request[a]
  BY <1>1, <1>2, LedgerAssumption DEF Taken
<1>5. files' = files \cup {new}
  BY <1>3, <1>4 DEF Link
<1>. HIDE DEF new
<1>6. Chain(files \cup {new}) /\ Tip(files \cup {new}) = Append(Tip(files), request[a])
  BY <1>1, <1>2, <1>3, ChainExtends
<1>7. new \in File
  BY <1>6 DEF Chain
<1>8. Log!Follows(request[a], Tip(files))
  <2>1. request[a] \notin Range(Tip(files))
    BY <1>1, <1>4, TipHoldsEvents
  <2>2. Needs[request[a]] \subseteq Range(Tip(files))
    BY <1>2 DEF Legal
  <2>. QED BY <2>1, <2>2 DEF Log!Follows, Log!Range, Range
<1>. QED BY <1>5, <1>6, <1>7, <1>8 DEF new

\* The invariant is inductive: one step per action of an agent.
LEMMA LedgerStep == LedgerInvariant /\ [Next]_vars => LedgerInvariant'
<1>. SUFFICES ASSUME LedgerInvariant, [Next]_vars
              PROVE  LedgerInvariant'
  OBVIOUS
<1>. USE DEF LedgerInvariant
<1>1. ASSUME NEW a \in Agents, NEW e \in Events, Scan(a, e)
      PROVE  LedgerInvariant'
  <2>1. TypeOK'
    BY <1>1 DEF Scan, TypeOK, Phases
  <2>2. Chain(files)'
    BY <1>1 DEF Scan
  <2>3. LockProtects'
    BY <1>1 DEF Scan, TypeOK, LockProtects, Locked, Appendable
  <2>4. ListingsArePart'
    BY <1>1 DEF Scan, TypeOK, ListingsArePart
  <2>. QED BY <2>1, <2>2, <2>3, <2>4
<1>2. ASSUME NEW a \in Agents, Scanned(a)
      PROVE  LedgerInvariant'
  <2>1. PICK added \in SUBSET (files \ listing[a]) :
           LET seen == listing[a] \cup added
           IN /\ listing' = [listing EXCEPT ![a] = seen]
              /\ IF Verifies(seen)
                 THEN /\ phase' = [phase EXCEPT ![a] = "prepared"]
                      /\ tip' = [tip EXCEPT ![a] = Tip(seen)]
                 ELSE phase' = [phase EXCEPT ![a] = "idle"] /\ UNCHANGED tip
    BY <1>2 DEF Scanned
  <2>. DEFINE seen == listing[a] \cup added
  <2>2. seen \subseteq files /\ seen \subseteq File
    BY DEF ListingsArePart, TypeOK
  <2>3. Verifies(seen) => Tip(seen) \in Seq(Events)
    BY <2>2, PartIsPrefix, TipOfChain
  <2>4. UNCHANGED <<files, holder, request, crashes>> /\ phase[a] = "scanning"
    BY <1>2 DEF Scanned
  <2>. HIDE DEF seen
  <2>5. TypeOK'
    BY <2>1, <2>2, <2>3, <2>4 DEF TypeOK, Phases, seen
  <2>6. LockProtects'
    BY <2>1, <2>4 DEF TypeOK, LockProtects, Locked, Appendable
  <2>7. ListingsArePart'
    BY <2>1, <2>2, <2>4 DEF TypeOK, ListingsArePart, seen
  <2>. QED BY <2>4, <2>5, <2>6, <2>7
<1>3. ASSUME NEW a \in Agents, Acquire(a)
      PROVE  LedgerInvariant'
  <2>1. TypeOK'
    BY <1>3 DEF Acquire, TypeOK, Phases
  <2>2. Chain(files)'
    BY <1>3 DEF Acquire
  <2>3. LockProtects'
    BY <1>3, LedgerAssumption DEF Acquire, TypeOK, LockProtects, Locked, Appendable
  <2>4. ListingsArePart'
    BY <1>3 DEF Acquire, TypeOK, ListingsArePart
  <2>. QED BY <2>1, <2>2, <2>3, <2>4
<1>4. ASSUME NEW a \in Agents, Write(a)
      PROVE  LedgerInvariant'
  <2>1. TypeOK' /\ Chain(files)'
    BY <1>4 DEF Write, TypeOK, Phases
  <2>2. LockProtects'
    BY <1>4 DEF Write, TypeOK, LockProtects, Locked, Appendable
  <2>3. ListingsArePart'
    BY <1>4 DEF Write, TypeOK, ListingsArePart
  <2>. QED BY <2>1, <2>2, <2>3
<1>5. ASSUME NEW a \in Agents, Link(a)
      PROVE  LedgerInvariant'
  <2>1. /\ Chain(files') /\ files \subseteq files' /\ files' \subseteq File
        /\ UNCHANGED <<holder, request, listing, tip, crashes>>
        /\ phase' = [phase EXCEPT ![a] = "linked"]
        /\ phase[a] = "writing"
    BY <1>5, LinkExtends DEF Link, TypeOK
  <2>2. TypeOK' /\ Chain(files)'
    BY <2>1 DEF TypeOK, Phases
  <2>3. \A b \in Agents : phase'[b] \notin {"locked", "writing"}
    BY <2>1 DEF LockProtects, Locked, TypeOK
  <2>4. LockProtects'
    BY <2>1, <2>3 DEF TypeOK, LockProtects, Locked
  <2>5. ListingsArePart'
    BY <2>1 DEF TypeOK, ListingsArePart
  <2>. QED BY <2>2, <2>4, <2>5
<1>6. ASSUME NEW a \in Agents, Refuse(a) \/ Release(a) \/ Crash(a)
      PROVE  LedgerInvariant'
  <2>1. /\ UNCHANGED <<files, request, listing, tip>>
        /\ phase' = [phase EXCEPT ![a] = "idle"]
        /\ holder' \in {holder, None}
        /\ crashes' \in 0..MaxCrashes
    BY <1>6, LedgerAssumption DEF Refuse, Release, Crash, TypeOK
  <2>2. TypeOK' /\ Chain(files)'
    BY <2>1 DEF TypeOK, Phases
  <2>3. \A b \in Agents : phase'[b] \in Locked => holder' = b
    BY <1>6, <2>1, LedgerAssumption DEF Refuse, Release, Crash, TypeOK, LockProtects, Locked
  <2>4. LockProtects'
    BY <2>1, <2>3 DEF TypeOK, LockProtects, Appendable
  <2>5. ListingsArePart'
    BY <2>1 DEF TypeOK, ListingsArePart
  <2>. QED BY <2>2, <2>4, <2>5
<1>7. CASE UNCHANGED vars
  <2>1. TypeOK' /\ Chain(files)' /\ ListingsArePart'
    BY <1>7 DEF vars, TypeOK, ListingsArePart
  <2>2. LockProtects'
    BY <1>7 DEF vars, LockProtects, Appendable
  <2>. QED BY <2>1, <2>2
<1>. QED BY <1>1, <1>2, <1>3, <1>4, <1>5, <1>6, <1>7 DEF Next, Step

\* The invariant holds in every state the agents reach.
THEOREM LedgerInvariantHolds == Spec => []LedgerInvariant
BY LedgerInit, LedgerStep, PTL DEF Spec

\* Every variable keeps its type.
THEOREM LedgerTypeCorrect == Spec => []TypeOK
<1>1. LedgerInvariant => TypeOK
  BY DEF LedgerInvariant
<1>. QED BY <1>1, LedgerInvariantHolds, PTL

\* The directory always verifies, whatever agents append, read or die.
THEOREM LedgerVerifiesHolds == Spec => []LedgerVerifies
<1>1. LedgerInvariant => LedgerVerifies
  BY DEF LedgerInvariant, Chain, LedgerVerifies
<1>. QED BY <1>1, LedgerInvariantHolds, PTL

\* An agent derives the state of a prefix of the ledger, although it reads
\* without the lock.
THEOREM ReadersSeePrefixHolds == Spec => []ReadersSeePrefix
<1>1. LedgerInvariant => ReadersSeePrefix
  BY PartIsPrefix, TipHoldsEvents DEF LedgerInvariant, ListingsArePart, ReadersSeePrefix
<1>. QED BY <1>1, LedgerInvariantHolds, PTL

\* The event directory is an append-only history of legal, distinct events.
THEOREM ImplementsLogHolds == Spec => ImplementsLog
<1>1. Init => Log!Init
  BY DEF Init, Log!Init, Tip
<1>2. LedgerInvariant /\ [Next]_vars => [Log!Next]_(Tip(files))
  <2>. SUFFICES ASSUME LedgerInvariant, [Next]_vars
                PROVE  [Log!Next]_(Tip(files))
    OBVIOUS
  <2>1. ASSUME NEW a \in Agents, Link(a)
        PROVE  Log!Next
    <3>1. request[a] \in Events
      BY <2>1 DEF LedgerInvariant, ListingsArePart, Link
    <3>. QED BY <2>1, <3>1, LinkExtends DEF Log!Next, Log!Extend
  <2>2. files' = files => UNCHANGED Tip(files)
    OBVIOUS
  <2>3. \/ files' = files
        \/ \E a \in Agents : Link(a)
    BY DEF Next, Step, vars, Scan, Scanned, Acquire, Refuse, Write, Release, Crash
  <2>. QED BY <2>1, <2>2, <2>3
<1>. QED BY <1>1, <1>2, LedgerInvariantHolds, PTL DEF Spec, ImplementsLog, Log!Spec

=============================================================================
