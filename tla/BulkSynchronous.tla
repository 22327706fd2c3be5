--------------------------- MODULE BulkSynchronous ---------------------------
(***************************************************************************)
(* Bulk synchronous training: what the multi-learner of mnist_spread_peer  *)
(* is meant to be. A peer contributes the change of a round and merges the *)
(* round when everyone has contributed to it; it contributes to the next   *)
(* round only after that.                                                  *)
(***************************************************************************)
EXTENDS Naturals

CONSTANTS Peers, NumRounds

VARIABLES
  contributed,   \* contributed[p]: rounds p has given its change to
  merged         \* merged[p]: rounds p has added everyone's changes of

bspVars == <<contributed, merged>>

BSPInit ==
  /\ contributed = [p \in Peers |-> 0]
  /\ merged = [p \in Peers |-> 0]

Contribute(p) ==
  /\ contributed[p] = merged[p]
  /\ contributed[p] < NumRounds
  /\ contributed' = [contributed EXCEPT ![p] = @ + 1]
  /\ UNCHANGED merged

Merge(p) ==
  /\ \A q \in Peers : contributed[q] > merged[p]
  /\ merged' = [merged EXCEPT ![p] = @ + 1]
  /\ UNCHANGED contributed

BSPNext == \E p \in Peers : Contribute(p) \/ Merge(p)

BSPSpec == BSPInit /\ [][BSPNext]_bspVars
=============================================================================
