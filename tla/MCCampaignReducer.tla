--------------------------- MODULE MCCampaignReducer ---------------------------
(***************************************************************************)
(* Small programs for CampaignReducer.                                     *)
(***************************************************************************)
EXTENDS CampaignReducer, TLC

CONSTANTS Source, Successor  \* the studies of the programs

\* A chained program: Successor needs a positive Source and its gate names it.
ChainRequiresAll == (Source :> {}) @@ (Successor :> {Source})
ChainRequiresAnyPositive == ChainRequiresAll
ChainAllTerminal == ChainRequiresAll
ChainAllActivated == (Source :> {}) @@ (Successor :> {})
ChainLockBefore ==
    (Source :> {}) @@
    (Successor :> {[child |-> Successor, source |-> Source, outcome |-> "positive"]})

\* Studies without entry conditions or gates.
Free == [s \in Studies |-> {}]

Small == [cumulative |-> 1, ephemeral |-> 1]
Large == [cumulative |-> 2, ephemeral |-> 1]
SmallOnly == {Small}
SmallOrLarge == {Small, Large}
UseOnly == {[cumulative |-> 1, ephemeral |-> 0]}
UseOrNothing == {NoUse, [cumulative |-> 1, ephemeral |-> 0]}
AmpleCap == [cumulative |-> 9, ephemeral |-> 9]
TightCap == [cumulative |-> 3, ephemeral |-> 2]
EveryStudyAmple == [s \in Studies |-> AmpleCap]

Symmetry ==
    Permutations(Instances) \cup Permutations(Reservations) \cup Permutations(Attempts)

=============================================================================
