---------------------------- MODULE MCAtChannel ----------------------------
(* AtChannel for TLC: the constants are numbers and come from the .cfg. *)
EXTENDS AtChannel
============================================================================
