--------------------------- MODULE MCEpisodeStore ---------------------------
(* Two commands on one root, the second with two traces; a recapture may take  *)
(* another number of steps.                                                   *)
EXTENDS EpisodeStore

CONSTANTS s1, s2, s3

MCGroups == <<<<s1>>, <<s2, s3>>>>
MCLengths == {1, 2}
=============================================================================
