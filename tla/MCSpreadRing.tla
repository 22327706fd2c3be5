----------------------------- MODULE MCSpreadRing -----------------------------
(* A ring of three daemons. A safe message waits at one when the ring is   *)
(* installed, and a client of another one sends a fifo or a reliable       *)
(* message at any time, perhaps while the token is held. One slot, so that *)
(* the second packet needs the place of the first.                         *)
EXTENDS SpreadRing

MCWaiting == <<<<>>, <<"safe">>, <<>>>>
MCLate == <<0, 0, 1>>
=============================================================================
