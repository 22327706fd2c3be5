---------------------------- MODULE LocalRollouts ----------------------------
(***************************************************************************)
(* The rollout pipeline with the environment in the worker's own process   *)
(* (num_actors = 0; env_runner, RunnerThread): one thread steps the        *)
(* environment and puts rollouts in the queue, the main thread trains.     *)
(* MaxProduced bounds the steps the thread makes.                          *)
(***************************************************************************)
EXTENDS RolloutQueue

CONSTANTS
  TimestepLimit,    \* wrapper_config.TimeLimit.max_episode_steps
  MaxProduced       \* bound: steps of the environment

ASSUME LocalAssumption == TimestepLimit \in Nat \ {0} /\ MaxProduced \in Nat

VARIABLES
  runner,      \* where the thread is: "run", "put" or "dead"
  rollout,     \* the rollout it is collecting
  length,      \* steps of the episode
  episode,     \* the number of the episode
  produced     \* steps of the environment so far

runnerVars == <<runner, rollout, length, episode, produced>>
vars == <<learnerVars, runnerVars>>

Init ==
  /\ LearnerInit
  /\ runner = "run"
  /\ rollout = EmptyRollout
  /\ length = 0
  /\ episode = 1
  /\ produced = 0

\* Mutant: the bootstrap value also at the end of an episode.
RunStep_AlwaysValue(terminal) ==
  LET step == [actor |-> "env", ep |-> episode, n |-> produced + 1, ver |-> version,
               last |-> terminal]
      added == Add(rollout, step, terminal)
      terminalEnd == terminal \/ length + 1 >= TimestepLimit
      full == Len(added.steps) = LocalSteps
  IN
  /\ runner = "run"
  /\ produced < MaxProduced
  /\ produced' = produced + 1
  /\ length' = IF terminalEnd THEN 0 ELSE length + 1
  /\ episode' = IF terminalEnd THEN episode + 1 ELSE episode
  /\ rollout' = IF full THEN [added EXCEPT !.r = step.n] ELSE added
  /\ runner' = IF terminalEnd \/ full THEN "put" ELSE "run"
  /\ UNCHANGED learnerVars

\* One turn of the loop of env_runner: policy.act, env.step, rollout.add; at
\* the end of the episode a new one begins; a rollout that ends otherwise asks
\* for the value of the state it stops in.
RunStep(terminal) ==
  LET step == [actor |-> "env", ep |-> episode, n |-> produced + 1, ver |-> version,
               last |-> terminal]
      added == Add(rollout, step, terminal)
      terminalEnd == terminal \/ length + 1 >= TimestepLimit
      full == Len(added.steps) = LocalSteps
  IN
  /\ runner = "run"
  /\ produced < MaxProduced
  /\ produced' = produced + 1
  /\ length' = IF terminalEnd THEN 0 ELSE length + 1
  /\ episode' = IF terminalEnd THEN episode + 1 ELSE episode
  /\ rollout' = IF full /\ ~terminalEnd THEN [added EXCEPT !.r = step.n] ELSE added
  /\ runner' = IF terminalEnd \/ full THEN "put" ELSE "run"
  /\ UNCHANGED learnerVars

\* Mutant: an unbounded queue.
PutRollout_Unbounded ==
  /\ runner = "put"
  /\ queue' = Append(queue, rollout)
  /\ rollout' = EmptyRollout
  /\ runner' = "run"
  /\ UNCHANGED <<learner, batch, version, globalStep, length, episode, produced>>

\* self.queue.put(next(rollout_provider), timeout=600.0)
PutRollout ==
  /\ runner = "put"
  /\ Len(queue) < QueueSize
  /\ queue' = Append(queue, rollout)
  /\ rollout' = EmptyRollout
  /\ runner' = "run"
  /\ UNCHANGED <<learner, batch, version, globalStep, length, episode, produced>>

\* queue.Full after 600 seconds is not caught: the thread ends.
PutTimesOut ==
  /\ runner = "put"
  /\ Len(queue) = QueueSize
  /\ runner' = "dead"
  /\ UNCHANGED <<learnerVars, rollout, length, episode, produced>>

Run == PutRollout \/ \E terminal \in BOOLEAN : RunStep(terminal)

Next ==
  \/ Run
  \/ PutTimesOut
  \/ (Learn \/ GetTimesOut) /\ UNCHANGED runnerVars

\* Both threads keep running; that a timeout ever happens is not assumed.
Fairness == WF_vars(Run) /\ WF_vars(Learn /\ UNCHANGED runnerVars)

Spec == Init /\ [][Next]_vars
FairSpec == Spec /\ Fairness

-----------------------------------------------------------------------------
Steps == [actor : {"env"}, ep : Nat, n : Nat, ver : Nat, last : BOOLEAN]
Rollouts == [steps : Seq(Steps), r : Nat, terminal : BOOLEAN]

TypeOK ==
  /\ queue \in Seq(Rollouts) /\ Len(queue) <= QueueSize
  /\ learner \in {"get", "extend", "stop", "dead"}
  /\ batch \in Rollouts
  /\ version \in Nat
  /\ globalStep \in Nat
  /\ runner \in {"run", "put", "dead"}
  /\ rollout \in Rollouts /\ Len(rollout.steps) <= LocalSteps
  /\ runner = "run" => Len(rollout.steps) < LocalSteps
  /\ length \in 0..TimestepLimit - 1
  /\ episode \in Nat
  /\ produced \in 0..MaxProduced

\* The number of the last step in front of queue[i], and of the rollout being
\* collected when i is one more than the length of the queue.
Before(i) ==
  IF i = 1 THEN globalStep + Len(batch.steps)
  ELSE queue[i - 1].steps[Len(queue[i - 1].steps)].n

\* EachStepOnce: between the environment and the train operation no step is
\* lost, repeated or overtaken, whatever the two threads do and whichever
\* timeout hits: the steps trained on, in the batch, in the queue and in the
\* rollout being collected are the steps of the environment in their order.
EachStepOnce ==
  LET end == Len(queue) + 1 IN
  /\ \A j \in 1..Len(batch.steps) : batch.steps[j].n = globalStep + j
  /\ \A i \in 1..Len(queue) :
       /\ queue[i].steps # <<>>
       /\ \A j \in 1..Len(queue[i].steps) : queue[i].steps[j].n = Before(i) + j
  /\ \A j \in 1..Len(rollout.steps) : rollout.steps[j].n = Before(end) + j
  /\ produced = Before(end) + Len(rollout.steps)

\* Bootstrapped: a batch that stops inside an episode has the value of the
\* state its last step led to, and one that stops at the episode's end has none
\* (lines 277-278, and extend, which takes over r of the piece it appends).
Bootstrapped ==
  BatchComplete =>
    LET last == batch.steps[Len(batch.steps)]
        ended == episode > last.ep
    IN  /\ batch.terminal => batch.r = 0
        /\ ~ended => batch.r = last.n
        /\ batch.r # 0 => batch.r = last.n

\* PolicyLag: the learner trains off-policy, on steps chosen with old weights,
\* but the bounded queue keeps them from being older than QueueSize + 1 copies.
PolicyLag ==
  \A i \in 1..Len(batch.steps) : version <= batch.steps[i].ver + QueueSize + 1

\* TerminalIsTrained: a rollout that ended an episode, and every step in front
\* of it in the queue, is trained on, unless the training has reached its last
\* global step or given up on an empty queue: nothing is added to the batch it
\* becomes part of, whatever the thread goes on to put in the queue and whether
\* or not it dies. (Nothing like it holds of a rollout cut by its length or by
\* the time limit: "while not rollout.terminal" may go on for ever with those.)
TerminalIsTrained ==
  \A n \in 1..MaxProduced :
    (\E i, k \in 1..Len(queue) :
        /\ i <= k /\ queue[k].terminal
        /\ \E j \in 1..Len(queue[i].steps) : queue[i].steps[j].n = n)
      ~> (globalStep >= n \/ learner \in {"stop", "dead"})
=============================================================================
