---------------------------- MODULE ActorRollouts ----------------------------
(***************************************************************************)
(* The rollout pipeline with remote actors (num_actors > 0): a thread per  *)
(* actor (SocketRecvThread) collects rollouts and writes each to the one   *)
(* slot global_rollout[0]; the runner thread, in the generator env_runner, *)
(* polls the slot and puts what it finds there in the queue.               *)
(*                                                                         *)
(* A thread's exchange with its actor is module ActorLink; here it makes a *)
(* whole rollout in one step, since nobody else sees it before it is in    *)
(* the slot. The weights it acted with (ver) are left out: nothing bounds  *)
(* their age here. Python compares rollouts by identity: no two are equal. *)
(***************************************************************************)
EXTENDS RolloutQueue

CONSTANTS
  Actors,
  MaxProduced     \* bound: steps of each actor

ASSUME ActorsAssumption == Actors # {} /\ MaxProduced \in Nat

VARIABLES
  connected,   \* actors whose connection is accepted: their threads run
  produced,    \* produced[a]: steps of a so far
  episode,     \* episode[a]: the episode of a
  slot,        \* global_rollout[0]
  runner,      \* where the runner thread is
  lastRollout, \* last_rollout
  yielded,     \* what the generator has yielded and put is putting in the queue
  trainedTo    \* history: trainedTo[a]: the last step of a that was trained on

actorVars == <<connected, produced, episode, slot>>
runnerVars == <<runner, lastRollout, yielded>>
vars == <<learnerVars, actorVars, runnerVars, trainedTo>>

Init ==
  /\ LearnerInit
  /\ connected = {}
  /\ produced = [a \in Actors |-> 0]
  /\ episode = [a \in Actors |-> 1]
  /\ slot = EmptyRollout
  /\ runner = "accept"
  /\ lastRollout = EmptyRollout
  /\ yielded = EmptyRollout
  /\ trainedTo = [a \in Actors |-> 0]

\* server_socket.accept(), recv_thread.start(); after num_actors of them the
\* generator goes on to its loop.
Accept(a) ==
  /\ runner = "accept"
  /\ a \notin connected
  /\ connected' = connected \cup {a}
  /\ runner' = IF connected' = Actors THEN "poll" ELSE "accept"
  /\ UNCHANGED <<learnerVars, produced, episode, slot,
                 lastRollout, yielded, trainedTo>>

\* A thread ends a rollout of k steps: at a terminal step, at the time limit
\* (end, but not terminal) or because it has LocalSteps steps.
Publish(a, k, terminal, end) ==
  /\ a \in connected
  /\ produced[a] + k <= MaxProduced
  /\ terminal => end
  /\ end \/ k = LocalSteps
  /\ produced' = [produced EXCEPT ![a] = @ + k]
  /\ episode' = [episode EXCEPT ![a] = IF end THEN @ + 1 ELSE @]
  /\ slot' = [steps |-> [i \in 1..k |-> [actor |-> a, ep |-> episode[a],
                                         n |-> produced[a] + i, ver |-> 0,
                                         last |-> terminal /\ i = k]],
              r |-> IF end THEN 0 ELSE produced[a] + k,
              terminal |-> terminal]
  /\ UNCHANGED <<learnerVars, connected, runner, lastRollout, yielded, trainedTo>>

\* if Global[0] != last_rollout
Poll ==
  /\ runner = "poll"
  /\ slot # lastRollout
  /\ runner' = "yield"
  /\ UNCHANGED <<learnerVars, actorVars, lastRollout, yielded, trainedTo>>

\* yield Global[0]: the slot is read again.
Yield ==
  /\ runner = "yield"
  /\ yielded' = slot
  /\ runner' = "put"
  /\ UNCHANGED <<learnerVars, actorVars, lastRollout, trainedTo>>

\* self.queue.put(..., timeout=600.0)
PutRollout ==
  /\ runner = "put"
  /\ Len(queue) < QueueSize
  /\ queue' = Append(queue, yielded)
  /\ runner' = "reread"
  /\ UNCHANGED <<learner, batch, version, globalStep, actorVars,
                 lastRollout, yielded, trainedTo>>

PutTimesOut ==
  /\ runner = "put"
  /\ Len(queue) = QueueSize
  /\ runner' = "dead"
  /\ UNCHANGED <<learnerVars, actorVars, lastRollout, yielded, trainedTo>>

\* Mutant: last_rollout keeps the rollout of the beginning.
Reread_Never ==
  /\ runner = "reread"
  /\ runner' = "poll"
  /\ UNCHANGED <<learnerVars, actorVars, lastRollout, yielded, trainedTo>>

\* last_rollout = Global[0], a third read of the slot.
Reread ==
  /\ runner = "reread"
  /\ lastRollout' = slot
  /\ runner' = "poll"
  /\ UNCHANGED <<learnerVars, actorVars, yielded, trainedTo>>

\* The last step of actor a in the batch that is trained on.
LastTrained(a) ==
  LET own == {i \in 1..Len(batch.steps) : batch.steps[i].actor = a}
  IN  IF own = {} THEN trainedTo[a]
      ELSE batch.steps[CHOOSE i \in own : \A j \in own : j <= i].n

Train == TrainBatch /\ trainedTo' = [a \in Actors |-> LastTrained(a)]

Runner == Poll \/ Yield \/ PutRollout \/ Reread \/ PutTimesOut

Next ==
  \/ \E a \in Actors : Accept(a)
  \/ \E a \in Actors, k \in 1..LocalSteps, terminal, end \in BOOLEAN :
       Publish(a, k, terminal, end)
  \/ Runner
  \/ (GetRollout \/ ExtendBatch \/ GetTimesOut)
       /\ UNCHANGED <<actorVars, runnerVars, trainedTo>>
  \/ Train /\ UNCHANGED <<actorVars, runnerVars>>

Spec == Init /\ [][Next]_vars

-----------------------------------------------------------------------------
Steps == [actor : Actors, ep : Nat, n : Nat, ver : Nat, last : BOOLEAN]
Rollouts == [steps : Seq(Steps), r : Nat, terminal : BOOLEAN]

TypeOK ==
  /\ queue \in Seq(Rollouts) /\ Len(queue) <= QueueSize
  /\ learner \in {"get", "extend", "stop", "dead"}
  /\ batch \in Rollouts
  /\ version \in Nat
  /\ globalStep \in Nat
  /\ connected \subseteq Actors
  /\ produced \in [Actors -> 0..MaxProduced]
  /\ episode \in [Actors -> Nat]
  /\ slot \in Rollouts /\ lastRollout \in Rollouts /\ yielded \in Rollouts
  /\ runner \in {"accept", "poll", "yield", "put", "reread", "dead"}
  /\ runner # "accept" => connected = Actors
  /\ trainedTo \in [Actors -> Nat]

StepsOf(rollout) == {rollout.steps[j] : j \in 1..Len(rollout.steps)}

\* The steps the learner has taken from the queue or will take from it.
Ahead == StepsOf(batch) \cup UNION {StepsOf(queue[i]) : i \in 1..Len(queue)}

\* The steps of each actor come in its order, in one rollout and in two that
\* are trained on one after the other.
Ordered(rollout) ==
  \A j, k \in 1..Len(rollout.steps) :
    j < k /\ rollout.steps[j].actor = rollout.steps[k].actor
      => rollout.steps[j].n < rollout.steps[k].n

Follows(later, earlier) ==
  \A s \in StepsOf(earlier), t \in StepsOf(later) : s.actor = t.actor => s.n < t.n

\* TrainedInOrder: although the slot is read three times for one rollout and
\* written by several threads, no step is trained on twice and those of one
\* actor come in their order.
TrainedInOrder ==
  /\ Ordered(batch)
  /\ \A i \in 1..Len(queue) : Ordered(queue[i]) /\ Follows(queue[i], batch)
  /\ \A i, j \in 1..Len(queue) : i < j => Follows(queue[j], queue[i])
  /\ \A s \in Ahead : s.n > trainedTo[s.actor]
=============================================================================
