------------------------------- MODULE MCGroups -------------------------------
(* Three daemons with a client each; two of them are in a ring. A client does *)
(* one thing that Calls lists, or a daemon crashes.                           *)
EXTENDS Groups, TLC

CONSTANTS c1, c2, c3

Three == 1..3
MCHome == (c1 :> 1) @@ (c2 :> 2) @@ (c3 :> 3)
TwoAndOne == <<{1, 2}, {3}>>

\* Clients 1 and 3 are members at first, client 2 is not.
SomeCalls == {<<c2, "join">>, <<c1, "leave">>, <<c3, "kill">>,
              <<c1, "agreed">>, <<c2, "reliable">>}
=============================================================================
