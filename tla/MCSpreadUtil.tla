---------------------------- MODULE MCSpreadUtil ----------------------------
(* Instances of SpreadUtil for TLC.                                        *)
EXTENDS SpreadUtil

CONSTANTS p1, p2, p3

TwoPeers == {p1, p2}
ThreePeers == {p1, p2, p3}

\* How many messages each peer begins to send.
TwoAndOne == [p \in Peers |-> IF p = p1 THEN 2 ELSE IF p = p2 THEN 1 ELSE 0]
OneEach == [p \in Peers |-> 1]

\* Bound: p3 listens; what the others' listeners do meanwhile is no concern
\* of p3, so they wait with their first message.
OneListens == \A p \in {p1, p2} : rcvMsgNum[p] = 0 /\ ~stopping[p] /\ ~polled[p]

\* Bound: only p1 is killed, and START is sent again only for it.
OneCrashes ==
  /\ starts = 2 => crashes = 1
  /\ crashes = 1 => \A p \in {p2, p3} : phase[p] = "listen" /\ ~stopping[p]
=============================================================================
