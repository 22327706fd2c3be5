---------------------------- MODULE OrderedDelivery ----------------------------
(***************************************************************************)
(* What the daemons of a ring promise the clients between two membership   *)
(* changes: the packets of all daemons are put into one order; every       *)
(* daemon hands them to its clients in that order, each once, except that  *)
(* a reliable packet may come before earlier ones, and a safe packet comes *)
(* only when every daemon of the ring has it.                              *)
(*                                                                         *)
(* A step of a daemon may number several packets, receive some and hand    *)
(* over a batch.                                                           *)
(***************************************************************************)
EXTENDS Naturals, Sequences, SequencesExt

CONSTANTS Daemons, Services

VARIABLES
  order,    \* order[s] = [seq |-> s, from, svc]: the packet with number s
  has,      \* has[d]: numbers of the packets that have reached daemon d
  handed    \* handed[d]: the numbers handed to the clients of d, in this order

vars == <<order, has, handed>>

Packet == [seq : Nat, from : Daemons, svc : Services]

Init ==
  /\ order = <<>>
  /\ has = [d \in Daemons |-> {}]
  /\ handed = [d \in Daemons |-> <<>>]

\* With the numbers in before already handed over, s may be next.
MayHand(s, before) ==
  /\ s \notin before
  /\ order'[s].svc = "reliable" \/ 1..(s - 1) \subseteq before
  /\ order'[s].svc = "safe" => \A e \in Daemons : s \in has'[e]

Step(d) ==
  /\ \A e \in Daemons \ {d} : has'[e] = has[e] /\ handed'[e] = handed[e]
  /\ order' \in Seq(Packet) /\ IsPrefix(order, order')
  /\ \A s \in (Len(order) + 1)..Len(order') :
       order'[s].seq = s /\ order'[s].from = d
  /\ has' \in [Daemons -> SUBSET Nat] /\ handed' \in [Daemons -> Seq(Nat)]
  /\ has[d] \subseteq has'[d] /\ has'[d] \subseteq 1..Len(order')
  /\ IsPrefix(handed[d], handed'[d])
  /\ \A k \in (Len(handed[d]) + 1)..Len(handed'[d]) :
       /\ handed'[d][k] \in has'[d]
       /\ MayHand(handed'[d][k], {handed'[d][j] : j \in 1..(k - 1)})

Next == \E d \in Daemons : Step(d)

Spec == Init /\ [][Next]_vars

-----------------------------------------------------------------------------
(* What clients may conclude from it.                                      *)

Reliable(s) == order[s].svc = "reliable"
BeforeIn(d, k) == {handed[d][j] : j \in 1..(k - 1)}

\* A packet that is not reliable comes after all packets with lower numbers
\* (Deliver_agreed_packets).
InOrder ==
  \A d \in Daemons : \A k \in 1..Len(handed[d]) :
    Reliable(handed[d][k]) \/ 1..(handed[d][k] - 1) \subseteq BeforeIn(d, k)

\* No packet is handed over twice, though Deliver_reliable_packets,
\* Deliver_agreed_packets and Discard_packets all do it.
Once ==
  \A d \in Daemons : \A j, k \in 1..Len(handed[d]) :
    handed[d][j] = handed[d][k] => j = k

\* A safe packet is handed over only when all daemons have it (Discard_packets).
SafeEverywhere ==
  \A d \in Daemons : \A k \in 1..Len(handed[d]) :
    order[handed[d][k]].svc = "safe" => \A e \in Daemons : handed[d][k] \in has[e]

\* Packets that are not reliable come in the order of their numbers, which are
\* the same everywhere.
SameOrder ==
  \A d \in Daemons : \A j, k \in 1..Len(handed[d]) :
    /\ j < k
    /\ ~Reliable(handed[d][j]) /\ ~Reliable(handed[d][k])
    => handed[d][j] < handed[d][k]
=============================================================================
