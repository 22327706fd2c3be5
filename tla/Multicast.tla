------------------------------ MODULE Multicast ------------------------------
(***************************************************************************)
(* What the learners are promised by their multicast: whole messages, in   *)
(* one order for the whole group, each one handed exactly once to every    *)
(* member but its sender. SpreadUtil implements it with fragments;         *)
(* SyncPeers and A3CSpread are written on top of it.                       *)
(***************************************************************************)
EXTENDS Naturals, Sequences

CONSTANTS
  Peers,       \* the members of the group
  Messages     \* what they may send, records with a field "from"

VARIABLES
  sent,        \* the messages in the order of the group
  cursor,      \* cursor[p]: position in sent of the last one p was handed
  inbox        \* inbox[p]: what p was handed (everything put in inc_msg_q)

multicastVars == <<sent, cursor, inbox>>

MulticastInit ==
  /\ sent = <<>>
  /\ cursor = [p \in Peers |-> 0]
  /\ inbox = [p \in Peers |-> <<>>]

\* send_chunks(m) by m.from has sent its last fragment.
Multicast(m) ==
  /\ sent' = Append(sent, m)
  /\ UNCHANGED <<cursor, inbox>>

\* Mutant: the order of each sender only, as a bare FIFO service promises.
IsNext_PerSender(p, i) ==
  LET had == {inbox[p][k] : k \in DOMAIN inbox[p]} IN
  /\ sent[i].from # p
  /\ sent[i] \notin had
  /\ \A j \in 1..(i - 1) : sent[j].from = sent[i].from => sent[j] \in had

\* sent[i] is the next message for p: only p's own lie in between.
IsNext(p, i) ==
  /\ cursor[p] < i
  /\ sent[i].from # p
  /\ \A j \in 1..Len(sent) : cursor[p] < j /\ j < i => sent[j].from = p

\* The listener of p has the last fragment of a message: queue.put.
Deliver(p) ==
  \E i \in 1..Len(sent) :
    /\ IsNext(p, i)
    /\ cursor' = [cursor EXCEPT ![p] = i]
    /\ inbox' = [inbox EXCEPT ![p] = Append(@, sent[i])]
    /\ UNCHANGED sent

MulticastNext ==
  \/ \E m \in Messages : Multicast(m)
  \/ \E p \in Peers : Deliver(p)

MulticastSpec == MulticastInit /\ [][MulticastNext]_multicastVars
=============================================================================
