--------------------------- MODULE MCActorRollouts ---------------------------
(* Instances of ActorRollouts for TLC. The actors are interchangeable.       *)
EXTENDS ActorRollouts, TLC

Symmetry == Permutations(Actors)
=============================================================================
