----------------------------- MODULE MCActorLink -----------------------------
(* Instances of ActorLink for TLC; the constants are in the .cfg files.      *)
EXTENDS ActorLink
=============================================================================
