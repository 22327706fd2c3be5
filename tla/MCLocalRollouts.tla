--------------------------- MODULE MCLocalRollouts ---------------------------
(* Instances of LocalRollouts for TLC; the constants are in the .cfg files. *)
EXTENDS LocalRollouts
=============================================================================
