---------------------------- MODULE RolloutQueue ----------------------------
(***************************************************************************)
(* The learner's half of the rollout pipeline of ps_a3c.py: the bounded    *)
(* queue of RunnerThread and the main thread, which copies the weights,    *)
(* pulls a batch from the queue and trains on it until the global step is  *)
(* reached. What fills the queue is added by the modules that extend this  *)
(* one: LocalRollouts and ActorRollouts.                                   *)
(*                                                                         *)
(* A step of experience is a record with the fields                        *)
(*   actor   the environment it comes from                                 *)
(*   ep, n   its episode and its number at that actor                      *)
(*   ver     the copy of the weights the policy acted with                 *)
(*   last    whether the environment said that the episode ends with it    *)
(* A rollout keeps its steps, whether the last of them was terminal, and r,*)
(* the number of the step after which the value function was asked for the *)
(* bootstrap value, 0 when it was not.                                     *)
(***************************************************************************)
EXTENDS Naturals, Sequences

CONSTANTS
  QueueSize,        \* 5 in RunnerThread
  LocalSteps,       \* num_local_steps, 20 in A3C
  NumGlobalSteps    \* num_global_steps, 10^8 in run

ASSUME QueueAssumption ==
  /\ QueueSize \in Nat \ {0}
  /\ LocalSteps \in Nat \ {0}
  /\ NumGlobalSteps \in Nat \ {0}

VARIABLES
  queue,        \* RunnerThread.queue
  learner,      \* where the main thread is in process
  batch,        \* the rollout pull_batch_from_queue is putting together
  version,      \* how often the weights were copied to the local network
  globalStep    \* global_step: the steps trained on (one worker)

learnerVars == <<queue, learner, batch, version, globalStep>>

EmptyRollout == [steps |-> <<>>, r |-> 0, terminal |-> FALSE]

\* PartialRollout.add
Add(rollout, step, terminal) ==
  [steps |-> Append(rollout.steps, step), r |-> rollout.r, terminal |-> terminal]

\* Mutant: the bootstrap value is not taken over.
Extend_KeepsR(rollout, other) ==
  [steps |-> rollout.steps \o other.steps,
   r |-> rollout.r, terminal |-> other.terminal]

\* PartialRollout.extend
Extend(rollout, other) ==
  [steps |-> rollout.steps \o other.steps,
   r |-> other.r, terminal |-> other.terminal]

LearnerInit ==
  /\ queue = <<>>
  /\ learner = "get"
  /\ batch = EmptyRollout
  /\ version = 1      \* sess.run(trainer.sync) and the first sync of process
  /\ globalStep = 0

\* Mutant: what is newest comes first.
GetRollout_Newest ==
  /\ learner = "get"
  /\ queue # <<>>
  /\ batch' = queue[Len(queue)]
  /\ queue' = SubSeq(queue, 1, Len(queue) - 1)
  /\ learner' = "extend"
  /\ UNCHANGED <<version, globalStep>>

\* rollout = self.runner.queue.get(timeout=600.0)
GetRollout ==
  /\ learner = "get"
  /\ queue # <<>>
  /\ batch' = Head(queue)
  /\ queue' = Tail(queue)
  /\ learner' = "extend"
  /\ UNCHANGED <<version, globalStep>>

\* queue.Empty after 600 seconds is not caught: the worker's loop ends.
GetTimesOut ==
  /\ learner = "get"
  /\ queue = <<>>
  /\ learner' = "dead"
  /\ UNCHANGED <<queue, batch, version, globalStep>>

\* Mutant: the test for a terminal rollout is missing.
ExtendBatch_Always ==
  /\ learner = "extend"
  /\ queue # <<>>
  /\ batch' = Extend(batch, Head(queue))
  /\ queue' = Tail(queue)
  /\ UNCHANGED <<learner, version, globalStep>>

\* while not rollout.terminal: rollout.extend(self.runner.queue.get_nowait())
ExtendBatch ==
  /\ learner = "extend"
  /\ ~batch.terminal
  /\ queue # <<>>
  /\ batch' = Extend(batch, Head(queue))
  /\ queue' = Tail(queue)
  /\ UNCHANGED <<learner, version, globalStep>>

\* Mutant: a terminal rollout also waits for the queue to be empty.
TrainBatch_WaitsForEmpty ==
  /\ learner = "extend"
  /\ queue = <<>>
  /\ globalStep' = globalStep + Len(batch.steps)
  /\ batch' = EmptyRollout
  /\ IF globalStep' < NumGlobalSteps
     THEN /\ version' = version + 1
          /\ learner' = "get"
     ELSE /\ learner' = "stop"
          /\ UNCHANGED version
  /\ UNCHANGED queue

\* The batch is complete: train_op, inc_step, then the loop of run and, when
\* it goes on, the sync of the next process.
TrainBatch ==
  /\ learner = "extend"
  /\ batch.terminal \/ queue = <<>>
  /\ globalStep' = globalStep + Len(batch.steps)
  /\ batch' = EmptyRollout
  /\ IF globalStep' < NumGlobalSteps
     THEN /\ version' = version + 1
          /\ learner' = "get"
     ELSE /\ learner' = "stop"
          /\ UNCHANGED version
  /\ UNCHANGED queue

Learn == GetRollout \/ ExtendBatch \/ TrainBatch

-----------------------------------------------------------------------------
\* The batch is given to the train operation by the next step of the learner.
BatchComplete == learner = "extend" /\ (batch.terminal \/ queue = <<>>)

\* LastEndsBatch: rewards are never added up across the end of an episode:
\* however many rollouts a batch is put together from, no step follows one that
\* ended an episode ("assert not self.terminal" in extend, line 177). An episode
\* cut at the time limit has no such step, and the next one may follow it.
LastEndsBatch == \A i \in 1..Len(batch.steps) - 1 : ~batch.steps[i].last
=============================================================================
