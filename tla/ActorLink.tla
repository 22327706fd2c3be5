------------------------------ MODULE ActorLink ------------------------------
(***************************************************************************)
(* The TCP connection between a remote actor (actor.py, which runs the     *)
(* environment) and its thread in the worker (SocketRecvThread in          *)
(* ps_a3c.py, which runs the policy). The worker sends an action or the    *)
(* word 'rest'; the actor answers with an observation, a header of four    *)
(* bytes and a body. A stream delivers what was sent, in order, and then   *)
(* the end of the stream when the actor's process has ended.               *)
(*                                                                         *)
(* Observations and actions are numbered in the order they are made.       *)
(***************************************************************************)
EXTENDS Naturals, Sequences

CONSTANTS
  LocalSteps,      \* num_local_steps
  TimestepLimit,   \* conf['timestep_limit']
  Autoreset,       \* conf['autoreset']
  MaxObs,          \* bound: observations the actor makes
  MaxStale,        \* bound: steps the thread adds after the actor's end
  MayCrash         \* whether the actor's process may end

ASSUME LinkAssumption ==
  /\ {LocalSteps, TimestepLimit} \subseteq Nat \ {0}
  /\ {MaxObs, MaxStale} \subseteq Nat
  /\ {Autoreset, MayCrash} \subseteq BOOLEAN

VARIABLES
  actor,      \* where actor.py is: "recv", "head" or "body" (to be sent), "dead"
  obs,        \* observations made so far
  reply,      \* the message the actor is sending or has sent
  toWorker,   \* the stream of headers and bodies
  toActor,    \* the stream of actions, by number, and 'rest', written 0
  reset,      \* the worker's side has learnt that the peer is gone (TCP reset)
  thread,     \* where SocketRecvThread is: "act", "header", "body", "dead"
  waitFor,    \* which of its three receives the thread is in
  message,    \* recovered_message
  acts,       \* actions sent so far
  lastState,  \* last_state, the number of the observation
  rollout,    \* the steps of the rollout being collected
  length,     \* length
  stale       \* steps added after the end of the stream

actorVars == <<actor, obs, reply>>
threadVars == <<thread, waitFor, message, acts, lastState, rollout, length, stale>>
vars == <<actorVars, toWorker, toActor, reset, threadVars>>

Rest == 0
NoMessage == [kind |-> "none", act |-> 0, obs |-> 0, terminal |-> FALSE]

\* env.reset() and send_us(observation, 0, 0, 0) at the start of main
Init ==
  /\ actor = "head"
  /\ obs = 1
  /\ reply = [kind |-> "reset", act |-> 0, obs |-> 1, terminal |-> FALSE]
  /\ toWorker = <<>>
  /\ toActor = <<>>
  /\ reset = FALSE
  /\ thread = "header"
  /\ waitFor = "first"
  /\ message = NoMessage
  /\ acts = 0
  /\ lastState = 0
  /\ rollout = <<>>
  /\ length = 0
  /\ stale = 0

-----------------------------------------------------------------------------
(* The actor                                                               *)

Reply(command, terminal) ==
  IF command = Rest
  THEN [kind |-> "reset", act |-> 0, obs |-> obs + 1, terminal |-> FALSE]
  ELSE [kind |-> "step", act |-> command, obs |-> obs + 1, terminal |-> terminal]

\* Mutant: the observation of a reset is not sent.
ActorRecv_SilentReset(terminal) ==
  /\ actor = "recv"
  /\ toActor # <<>>
  /\ obs < MaxObs
  /\ obs' = obs + 1
  /\ reply' = Reply(Head(toActor), terminal)
  /\ toActor' = Tail(toActor)
  /\ actor' = IF Head(toActor) = Rest THEN "recv" ELSE "head"
  /\ UNCHANGED <<toWorker, reset, threadVars>>

\* recv(4), then env.reset or env.step
ActorRecv(terminal) ==
  /\ actor = "recv"
  /\ toActor # <<>>
  /\ obs < MaxObs
  /\ obs' = obs + 1
  /\ reply' = Reply(Head(toActor), terminal)
  /\ toActor' = Tail(toActor)
  /\ actor' = "head"
  /\ UNCHANGED <<toWorker, reset, threadVars>>

\* send_payload: the header and the body are two calls of send
ActorSend ==
  /\ actor \in {"head", "body"}
  /\ toWorker' = Append(toWorker, [part |-> actor, of |-> reply])
  /\ actor' = IF actor = "head" THEN "body" ELSE "recv"
  /\ UNCHANGED <<obs, reply, toActor, reset, threadVars>>

\* The actor's process ends; the kernel closes its connection.
ActorEnds ==
  /\ MayCrash
  /\ actor # "dead"
  /\ actor' = "dead"
  /\ UNCHANGED <<obs, reply, toWorker, toActor, reset, threadVars>>

\* What the thread has sent to the closed connection is answered by a reset.
ResetArrives ==
  /\ actor = "dead"
  /\ toActor # <<>>
  /\ ~reset
  /\ reset' = TRUE
  /\ UNCHANGED <<actorVars, toWorker, toActor, threadVars>>

-----------------------------------------------------------------------------
(* The thread                                                              *)

\* What the thread does with recovered_message after each of its receives.
AfterFirst(m) ==
  /\ lastState' = m.obs
  /\ thread' = "act"
  /\ UNCHANGED <<toActor, waitFor, rollout, length>>

\* Mutant: after 'rest' the observation of the reset is not received.
AfterStep_NoRest(m) ==
  LET added == Append(rollout, [obs |-> lastState, act |-> acts, reply |-> m])
      terminalEnd == m.terminal \/ length + 1 >= TimestepLimit
  IN
  /\ rollout' = IF terminalEnd \/ Len(added) = LocalSteps THEN <<>> ELSE added
  /\ lastState' = m.obs
  /\ length' = IF terminalEnd THEN 0 ELSE length + 1
  /\ IF terminalEnd /\ (length + 1 >= TimestepLimit \/ ~Autoreset)
     THEN toActor' = Append(toActor, Rest)
     ELSE UNCHANGED toActor
  /\ thread' = "act"
  /\ UNCHANGED waitFor

\* rollout.add; at the end of an episode that the environment does not start
\* again by itself, 'rest' is sent and its answer received. A rollout that is
\* finished is published and a new one begun.
AfterStep(m) ==
  LET added == Append(rollout, [obs |-> lastState, act |-> acts, reply |-> m])
      terminalEnd == m.terminal \/ length + 1 >= TimestepLimit
  IN
  /\ rollout' = IF terminalEnd \/ Len(added) = LocalSteps THEN <<>> ELSE added
  /\ lastState' = m.obs
  /\ length' = IF terminalEnd THEN 0 ELSE length + 1
  /\ IF terminalEnd /\ (length + 1 >= TimestepLimit \/ ~Autoreset)
     THEN /\ toActor' = Append(toActor, Rest)
          /\ thread' = "header"
          /\ waitFor' = "rest"
     ELSE /\ thread' = "act"
          /\ UNCHANGED <<toActor, waitFor>>

After(m) ==
  \/ waitFor \in {"first", "rest"} /\ AfterFirst(m)
  \/ waitFor = "step" /\ AfterStep(m)

\* policy.act(last_state), send(pack(action))
Act ==
  /\ thread = "act"
  /\ ~reset
  /\ acts' = acts + 1
  /\ toActor' = Append(toActor, acts')
  /\ thread' = "header"
  /\ waitFor' = "step"
  /\ UNCHANGED <<actorVars, toWorker, reset, message, lastState, rollout, length, stale>>

\* recv(4) returns the header
RecvHeader ==
  /\ thread = "header"
  /\ toWorker # <<>>
  /\ toWorker' = Tail(toWorker)
  /\ thread' = "body"
  /\ UNCHANGED <<actorVars, toActor, reset, waitFor, message, acts, lastState,
                 rollout, length, stale>>

\* _frag_recv and pickle.loads, then what follows the receive
RecvBody ==
  /\ thread = "body"
  /\ toWorker # <<>>
  /\ LET m == Head(toWorker).of
     IN  message' = m /\ After(m)
  /\ toWorker' = Tail(toWorker)
  /\ UNCHANGED <<actorVars, reset, acts, stale>>

\* recv(4) returns '': "if raw_message_len" skips the receive of the body and
\* recovered_message is still the last one. The first receive has none yet:
\* the thread ends with an exception.
RecvEnd ==
  /\ thread = "header"
  /\ toWorker = <<>>
  /\ actor = "dead"
  /\ ~reset
  /\ IF waitFor = "first"
     THEN /\ thread' = "dead"
          /\ UNCHANGED <<toActor, waitFor, lastState, rollout, length, stale>>
     ELSE /\ stale < MaxStale
          /\ After(message)
          /\ stale' = stale + 1
  /\ UNCHANGED <<actorVars, toWorker, reset, message, acts>>

\* Mutant: the error is swallowed.
ConnectionError_Ignored == FALSE

\* send and recv raise after a reset: the thread ends.
ConnectionError ==
  /\ reset
  /\ thread # "dead"
  /\ thread' = "dead"
  /\ UNCHANGED <<actorVars, toWorker, toActor, reset, waitFor, message, acts,
                 lastState, rollout, length, stale>>

Actor == ActorSend \/ \E terminal \in BOOLEAN : ActorRecv(terminal)
Thread == Act \/ RecvHeader \/ RecvBody \/ RecvEnd \/ ConnectionError

Next == Actor \/ Thread \/ ActorEnds \/ ResetArrives

Spec == Init /\ [][Next]_vars

\* Both programs keep running and the network delivers the reset.
FairSpec == Spec /\ WF_vars(Actor) /\ WF_vars(Thread) /\ WF_vars(ResetArrives)

-----------------------------------------------------------------------------
Replies ==
  [kind : {"none", "reset", "step"}, act : Nat, obs : Nat, terminal : BOOLEAN]

\* The types of both programs' variables; a rollout that is complete and an
\* episode at its limit do not stay in them.
TypeOK ==
  /\ actor \in {"recv", "head", "body", "dead"}
  /\ obs \in Nat
  /\ reply \in Replies
  /\ toWorker \in Seq([part : {"head", "body"}, of : Replies])
  /\ toActor \in Seq(Nat)
  /\ reset \in BOOLEAN
  /\ thread \in {"act", "header", "body", "dead"}
  /\ waitFor \in {"first", "step", "rest"}
  /\ message \in Replies
  /\ acts \in Nat
  /\ lastState \in Nat
  /\ rollout \in Seq([obs : Nat, act : Nat, reply : Replies])
  /\ Len(rollout) < LocalSteps
  /\ length \in 0..TimestepLimit - 1
  /\ stale \in Nat

\* Paired: the reward, the terminal flag and the next state the thread adds
\* with an action are the environment's answer to that action in the state the
\* policy chose it for: the two programs only count on taking turns, no message
\* says what it answers ("collect the experience", line 84). It fails when the
\* thread reads the end of the stream (stale > 0): then recovered_message is
\* still the last one, and is added again as the answer to a new action.
Paired ==
  stale = 0 => \A i \in 1..Len(rollout) :
    LET step == rollout[i]
    IN  /\ step.reply.kind = "step"
        /\ step.reply.act = step.act
        /\ step.reply.obs = step.obs + 1
        /\ ~step.reply.terminal

\* TakingTurns: there is never more than one message on its way between the
\* two, and a header is never taken for a body or the other way round, up to the
\* end of the stream.
TakingTurns ==
  /\ stale = 0 =>
       /\ Len(toActor) <= 1
       /\ toActor # <<>> => toWorker = <<>>
       /\ \A i, j \in 1..Len(toWorker) : toWorker[i].part = toWorker[j].part => i = j
  /\ toWorker # <<>> /\ thread \in {"header", "body"} =>
       Head(toWorker).part = IF thread = "header" THEN "head" ELSE "body"
  /\ actor = "recv" /\ toActor = <<>> /\ toWorker = <<>> => thread = "act"

\* KeepsPlaying: neither side ever waits for the other while that one waits, as
\* long as the actor lives.
KeepsPlaying == <>(obs = MaxObs \/ actor = "dead")

\* OrphanEnds: the thread of an actor that is gone does not go on for ever; it
\* ends with an error, or stays in _frag_recv when the body of a message is
\* missing (where it keeps the processor busy, lines 39-46).
OrphanEnds ==
  actor = "dead" ~> \/ thread = "dead"
                    \/ thread = "body" /\ toWorker = <<>>
=============================================================================
