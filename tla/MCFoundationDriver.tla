-------------------------- MODULE MCFoundationDriver --------------------------
(* FoundationDriver for two drivers and two trials; two crashes and one failed *)
(* launch are enough for each recovery path to meet another driver.         *)
EXTENDS FoundationDriver
=============================================================================
