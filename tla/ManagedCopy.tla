---------------------------- MODULE ManagedCopy ----------------------------
(***************************************************************************)
(* What the managed cache promises for one key, without files, locks or   *)
(* processes: there is a usable copy or there is none.  A copy is only     *)
(* ever replaced by one whose arrays are at least as new and that keeps    *)
(* its pin, and only a copy that is not pinned is ever removed.            *)
(***************************************************************************)
EXTENDS Naturals

CONSTANT Versions  \* how new the arrays behind a copy are

VARIABLE copy      \* the usable copy, [ver, pinned], or NoCopy

Copies == [ver : Versions, pinned : BOOLEAN]
NoCopy == [ver |-> 0, pinned |-> FALSE, none |-> TRUE]

Init == copy \in Copies \union {NoCopy}

Publish(c) ==
    /\ copy # NoCopy => c.ver >= copy.ver /\ c.pinned = copy.pinned
    /\ copy' = c

SetPinned(p) ==
    /\ copy # NoCopy
    /\ copy' = [copy EXCEPT !.pinned = p]

Remove ==
    /\ copy # NoCopy
    /\ ~copy.pinned
    /\ copy' = NoCopy

Next ==
    \/ \E c \in Copies : Publish(c)
    \/ \E p \in BOOLEAN : SetPinned(p)
    \/ Remove

Spec == Init /\ [][Next]_copy
=============================================================================
