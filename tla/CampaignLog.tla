----------------------------- MODULE CampaignLog -----------------------------
(***************************************************************************)
(* What the event ledger promises its readers: one history, only ever      *)
(* extended at its end, in which every event id occurs once and every      *)
(* event was legal when it was appended.                                   *)
(***************************************************************************)
EXTENDS Sequences, Functions

CONSTANTS
    Events,  \* event ids; an id stands for the event document made for it
    Needs    \* the earlier events an event cites

VARIABLE history  \* the events of the ledger, oldest first

\* The reducer accepts event e after history h (_resolve_event_ref,
\* reduce_campaign_events).
Follows(e, h) == e \notin Range(h) /\ Needs[e] \subseteq Range(h)

Init == history = <<>>

Extend(e) ==
    /\ Follows(e, history)
    /\ history' = Append(history, e)

Next == \E e \in Events : Extend(e)

Spec == Init /\ [][Next]_history

=============================================================================
