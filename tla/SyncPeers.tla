------------------------------ MODULE SyncPeers ------------------------------
(***************************************************************************)
(* The multi-learner of mnist_spread_peer.py: num_peers programs train the *)
(* same model on disjoint batches. In each round a peer trains one step,   *)
(* multicasts the change of its weights (send_chunks), waits until its     *)
(* queue holds num_peers - 1 messages and adds that many to its own        *)
(* weights (train). The listener thread fills the queue all the while.     *)
(*                                                                         *)
(* A change of the weights is abstracted to who computed it and in which   *)
(* round; the weights of a peer are the changes added to them so far.      *)
(* Every peer has joined and taken its START signal in the initial state   *)
(* (SpreadUtil models what precedes it).                                   *)
(***************************************************************************)
EXTENDS Naturals, Sequences, FiniteSets

CONSTANTS
  Peers,
  NumRounds    \* num_rounds, the same argument given to every peer

ASSUME SyncPeersAssumption ==
  /\ IsFiniteSet(Peers)
  /\ Cardinality(Peers) >= 2
  /\ NumRounds \in Nat \ {0}

VARIABLES
  sent, cursor, inbox,   \* the multicast (module Multicast)
  pc,          \* pc[p]: where the main thread of p is in train
  round,       \* round[p]: rounds begun by p, the loop variable plus one
  taken,       \* taken[p]: messages got from inc_msg_q
  toApply,     \* toApply[p]: messages left of num_new_msg
  model        \* model[p][d]: how often change d is in the weights of p

vars == <<sent, cursor, inbox, pc, round, taken, toApply, model>>
trainVars == <<pc, round, taken, toApply, model>>

Deltas == [from : Peers, round : 1..NumRounds]

M == INSTANCE Multicast WITH Messages <- Deltas

\* Mutant: one message too few.
NumOthers_OneShort == Cardinality(Peers) - 2

\* num_peers - 1: one message of every other peer.
NumOthers == Cardinality(Peers) - 1

\* inc_msg_q.qsize()
QSize(p) == Len(inbox[p]) - taken[p]

Init ==
  /\ M!MulticastInit
  /\ pc = [p \in Peers |-> "train"]
  /\ round = [p \in Peers |-> 1]
  /\ taken = [p \in Peers |-> 0]
  /\ toApply = [p \in Peers |-> 0]
  /\ model = [p \in Peers |-> [d \in Deltas |-> 0]]

\* sess.run(train_step) on the batch of p: the change is in its own weights.
Train(p) ==
  /\ pc[p] = "train"
  /\ model' = [model EXCEPT ![p][[from |-> p, round |-> round[p]]] = @ + 1]
  /\ pc' = [pc EXCEPT ![p] = "send"]
  /\ UNCHANGED <<sent, cursor, inbox, round, taken, toApply>>

\* send_chunks(deltas_data)
SendDelta(p) ==
  /\ pc[p] = "send"
  /\ M!Multicast([from |-> p, round |-> round[p]])
  /\ pc' = [pc EXCEPT ![p] = "wait"]
  /\ UNCHANGED <<round, taken, toApply, model>>

\* Mutant: the test for equality of a3c.py.
QueueFilled_Exactly(p) ==
  /\ pc[p] = "wait"
  /\ QSize(p) = NumOthers
  /\ toApply' = [toApply EXCEPT ![p] = NumOthers]
  /\ pc' = [pc EXCEPT ![p] = "apply"]
  /\ UNCHANGED <<sent, cursor, inbox, round, taken, model>>

\* while inc_msg_q.qsize() < num_peers - 1: sleep
QueueFilled(p) ==
  /\ pc[p] = "wait"
  /\ QSize(p) >= NumOthers
  /\ toApply' = [toApply EXCEPT ![p] = NumOthers]
  /\ pc' = [pc EXCEPT ![p] = "apply"]
  /\ UNCHANGED <<sent, cursor, inbox, round, taken, model>>

\* get(False), W.assign(W + other_delta_W); the last one ends the round.
ApplyDelta(p) ==
  /\ pc[p] = "apply"
  /\ QSize(p) > 0
  /\ LET d == inbox[p][taken[p] + 1]
     IN  model' = [model EXCEPT ![p][d] = @ + 1]
  /\ taken' = [taken EXCEPT ![p] = @ + 1]
  /\ toApply' = [toApply EXCEPT ![p] = @ - 1]
  /\ IF toApply[p] > 1
     THEN UNCHANGED <<pc, round>>
     ELSE IF round[p] < NumRounds
          THEN /\ pc' = [pc EXCEPT ![p] = "train"]
               /\ round' = [round EXCEPT ![p] = @ + 1]
          ELSE /\ pc' = [pc EXCEPT ![p] = "stop"]
               /\ UNCHANGED round
  /\ UNCHANGED <<sent, cursor, inbox>>

\* The listener thread puts a message in the queue; it still may, until it
\* sees the stop event.
Listen(p) ==
  /\ pc[p] # "done"
  /\ M!Deliver(p)
  /\ UNCHANGED trainVars

\* stop(); rcv_msg_num = ret_val.get(); train returns
Finish(p) ==
  /\ pc[p] = "stop"
  /\ pc' = [pc EXCEPT ![p] = "done"]
  /\ UNCHANGED <<sent, cursor, inbox, round, taken, toApply, model>>

Step(p) == \/ Train(p) \/ SendDelta(p) \/ QueueFilled(p)
           \/ ApplyDelta(p) \/ Finish(p)

Next == \E p \in Peers : Step(p) \/ Listen(p)

\* Both threads of every peer keep running.
Fairness == \A p \in Peers : WF_vars(Step(p)) /\ WF_vars(Listen(p))

Spec == Init /\ [][Next]_vars
FairSpec == Spec /\ Fairness

-----------------------------------------------------------------------------
TypeOK ==
  /\ sent \in Seq(Deltas)
  /\ cursor \in [Peers -> Nat]
  /\ \A p \in Peers : cursor[p] <= Len(sent)
  /\ inbox \in [Peers -> Seq(Deltas)]
  /\ pc \in [Peers -> {"train", "send", "wait", "apply", "stop", "done"}]
  /\ round \in [Peers -> 1..NumRounds]
  /\ taken \in [Peers -> Nat]
  /\ \A p \in Peers : taken[p] <= Len(inbox[p])
  /\ toApply \in [Peers -> 0..NumOthers]
  /\ \A p \in Peers : toApply[p] > 0 <=> pc[p] = "apply"
  /\ model \in [Peers -> [Deltas -> Nat]]

\* The rounds p has completed.
Completed(p) == IF pc[p] \in {"stop", "done"} THEN NumRounds ELSE round[p] - 1

\* RoundAligned: the messages a peer takes in a round are the changes of that
\* very round, one of every other peer, although train only counts messages:
\* after k rounds every peer's weights are the changes of the first k rounds
\* of everyone, each added once (train, lines 149-166).
RoundAligned ==
  \A p \in Peers : pc[p] \notin {"send", "wait", "apply"} =>
    \A d \in Deltas : model[p][d] = IF d.round <= Completed(p) THEN 1 ELSE 0

\* Lockstep: the peers implement bulk synchronous training. A round is
\* complete at a peer only when every peer has sent the change of that round,
\* and only then does the peer send the change of the next one.
HasSent(p) == IF pc[p] \in {"train", "send"} THEN round[p] - 1 ELSE round[p]

BSP == INSTANCE BulkSynchronous WITH
         contributed <- [p \in Peers |-> HasSent(p)],
         merged <- [p \in Peers |-> Completed(p)]

Lockstep == BSP!BSPSpec

\* QueueBounded: inc_msg_q, an unbounded Queue, never holds more than two
\* messages of each other peer.
QueueBounded == \A p \in Peers : QSize(p) <= 2 * NumOthers

\* QueueDrained: when a peer has done its last round no message of the others
\* is left, in its queue or on its way: the "final handling" that train has
\* commented out (lines 168-181) is not needed.
QueueDrained == \A p \in Peers : pc[p] \in {"stop", "done"} =>
    /\ QSize(p) = 0
    /\ \A q \in Peers : HasSent(q) = NumRounds

\* Termination: the wait for num_peers - 1 messages never blocks the group for
\* ever; every peer completes its rounds.
Termination == <>(\A p \in Peers : pc[p] = "done")
=============================================================================
