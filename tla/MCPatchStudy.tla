---------------------------- MODULE MCPatchStudy ----------------------------
(* Two pairs, one of them with two trials; a rerun may measure another value. *)
EXTENDS PatchStudy

CONSTANTS t1, t2, t3, v1, v2

MCPairs == <<<<t1, t2>>, <<t3>>>>
MCValues == {v1, v2}
=============================================================================
