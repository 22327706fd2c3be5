------------------------------ MODULE A3CSpread ------------------------------
(***************************************************************************)
(* The peer-to-peer A3C workers of universe-starter-agent/a3c.py, run by   *)
(* run.py with --num-workers > 1: worker 0 multicasts its initial weights, *)
(* then every worker trains on its own rollouts, and at every              *)
(* NEONRACE_SYNC_FREQUENCY-th step multicasts how its weights have changed *)
(* since the last such step and waits for the messages of the others.      *)
(*                                                                         *)
(* Weights are abstracted to the set of contributions that were added up   *)
(* in them: <<w, 0>> stands for the random initial values of worker w,     *)
(* <<w, k + 1>> for what train_op of w added at its local step k. All      *)
(* workers have joined the group and taken START in the initial state.     *)
(***************************************************************************)
EXTENDS Naturals, Sequences, FiniteSets

CONSTANTS
  Workers,
  Leader,          \* the worker with worker_id 0
  SyncFrequency,   \* params.NEONRACE_SYNC_FREQUENCY
  MaxSteps         \* bound: local steps a worker makes (the code has no end)

ASSUME A3CSpreadAssumption ==
  /\ IsFiniteSet(Workers) /\ Cardinality(Workers) >= 2
  /\ Leader \in Workers
  /\ SyncFrequency \in Nat \ {0}
  /\ MaxSteps \in Nat

VARIABLES
  sent, cursor, inbox,   \* the multicast (module Multicast)
  pc,           \* pc[w]: where the main thread of w is
  localSteps,   \* localSteps[w]: local_steps
  taken,        \* taken[w]: messages got from inc_msg_q
  toApply,      \* toApply[w]: messages left of num_expected_msg
  weights,      \* weights[w]: local_network.var_list
  var0          \* var0[w]: the weights at the last sync, NoWeights for None

workerVars == <<pc, localSteps, taken, toApply, weights, var0>>
vars == <<sent, cursor, inbox, workerVars>>

Contributions == Workers \X Nat
NoWeights == {}

Messages ==
  [kind : {"init", "diff"}, from : Workers, step : Nat,
   data : SUBSET Contributions]

M == INSTANCE Multicast WITH Peers <- Workers

\* Mutant: one message too few.
NumOthers_OneShort == Cardinality(Workers) - 2

\* num_expected_msg
NumOthers == Cardinality(Workers) - 1
QSize(w) == Len(inbox[w]) - taken[w]
NextMessage(w) == inbox[w][taken[w] + 1]

Init ==
  /\ M!MulticastInit
  /\ pc = [w \in Workers |-> "setup"]
  /\ localSteps = [w \in Workers |-> 0]
  /\ taken = [w \in Workers |-> 0]
  /\ toApply = [w \in Workers |-> 0]
  /\ weights = [w \in Workers |-> {<<w, 0>>}]
  /\ var0 = [w \in Workers |-> NoWeights]

\* start_listen_thread: until now messages wait in the mailbox.
StartListenThread(w) ==
  /\ pc[w] = "setup"
  /\ pc' = [pc EXCEPT ![w] = "init"]
  /\ UNCHANGED <<sent, cursor, inbox, localSteps, taken, toApply, weights,
                 var0>>

\* sync_initial_weights at worker 0.
SendInitialWeights(w) ==
  /\ pc[w] = "init" /\ w = Leader
  /\ M!Multicast([kind |-> "init", from |-> w, step |-> 0,
                  data |-> weights[w]])
  /\ pc' = [pc EXCEPT ![w] = "train"]
  /\ UNCHANGED <<localSteps, taken, toApply, weights, var0>>

\* sync_initial_weights elsewhere: the first message must be the weights.
TakeInitialWeights(w) ==
  /\ pc[w] = "init" /\ w # Leader
  /\ QSize(w) > 0
  /\ taken' = [taken EXCEPT ![w] = @ + 1]
  /\ IF NextMessage(w).kind = "init"
     THEN /\ weights' = [weights EXCEPT ![w] = NextMessage(w).data]
          /\ pc' = [pc EXCEPT ![w] = "train"]
     ELSE /\ pc' = [pc EXCEPT ![w] = "exit"]          \* sys.exit(-1)
          /\ UNCHANGED weights
  /\ UNCHANGED <<sent, cursor, inbox, localSteps, toApply, var0>>

\* process, up to sess.run(train_op); then a sync, every so many steps.
Train(w) ==
  /\ pc[w] = "train"
  /\ localSteps[w] < MaxSteps
  /\ weights' = [weights EXCEPT ![w] = @ \cup {<<w, localSteps[w] + 1>>}]
  /\ IF localSteps[w] % SyncFrequency = 0
     THEN /\ pc' = [pc EXCEPT ![w] = "sync"]
          /\ UNCHANGED localSteps
     ELSE /\ localSteps' = [localSteps EXCEPT ![w] = @ + 1]
          /\ UNCHANGED pc
  /\ UNCHANGED <<sent, cursor, inbox, taken, toApply, var0>>

\* Mutant: the worker goes on without waiting for the others.
SendDiff_NoWait(w) ==
  /\ pc[w] = "sync"
  /\ IF var0[w] # NoWeights
     THEN M!Multicast([kind |-> "diff", from |-> w, step |-> localSteps[w],
                       data |-> weights[w] \ var0[w]])
     ELSE UNCHANGED <<sent, cursor, inbox>>
  /\ var0' = [var0 EXCEPT ![w] = weights[w]]
  /\ pc' = [pc EXCEPT ![w] = "train"]
  /\ localSteps' = [localSteps EXCEPT ![w] = @ + 1]
  /\ UNCHANGED <<taken, toApply, weights>>

\* Mutant: var0 is set once and never again.
SendDiff_StaleVar0(w) ==
  /\ pc[w] = "sync"
  /\ IF var0[w] # NoWeights
     THEN /\ M!Multicast([kind |-> "diff", from |-> w,
                          step |-> localSteps[w],
                          data |-> weights[w] \ var0[w]])
          /\ UNCHANGED var0
     ELSE /\ UNCHANGED <<sent, cursor, inbox>>
          /\ var0' = [var0 EXCEPT ![w] = weights[w]]
  /\ IF localSteps[w] # 0
     THEN /\ pc' = [pc EXCEPT ![w] = "wait"]
          /\ UNCHANGED localSteps
     ELSE /\ pc' = [pc EXCEPT ![w] = "train"]
          /\ localSteps' = [localSteps EXCEPT ![w] = @ + 1]
  /\ UNCHANGED <<taken, toApply, weights>>

\* Send var1 - var0 unless var0 is None, take the new var0; wait for the
\* others unless this is step 0.
SendDiff(w) ==
  /\ pc[w] = "sync"
  /\ IF var0[w] # NoWeights
     THEN M!Multicast([kind |-> "diff", from |-> w, step |-> localSteps[w],
                       data |-> weights[w] \ var0[w]])
     ELSE UNCHANGED <<sent, cursor, inbox>>
  /\ var0' = [var0 EXCEPT ![w] = weights[w]]
  /\ IF localSteps[w] # 0
     THEN /\ pc' = [pc EXCEPT ![w] = "wait"]
          /\ UNCHANGED localSteps
     ELSE /\ pc' = [pc EXCEPT ![w] = "train"]
          /\ localSteps' = [localSteps EXCEPT ![w] = @ + 1]
  /\ UNCHANGED <<taken, toApply, weights>>

\* while inc_msg_q.qsize() != num_expected_msg: sleep
QueueExact(w) ==
  /\ pc[w] = "wait"
  /\ QSize(w) = NumOthers
  /\ toApply' = [toApply EXCEPT ![w] = QSize(w)]
  /\ pc' = [pc EXCEPT ![w] = "apply"]
  /\ UNCHANGED <<sent, cursor, inbox, localSteps, taken, weights, var0>>

\* Take one message. add_op is a list of sums that are computed and dropped:
\* no variable is assigned.
ApplyDiff(w) ==
  /\ pc[w] = "apply"
  /\ QSize(w) > 0
  /\ taken' = [taken EXCEPT ![w] = @ + 1]
  /\ toApply' = [toApply EXCEPT ![w] = @ - 1]
  /\ IF toApply[w] > 1
     THEN UNCHANGED <<pc, localSteps>>
     ELSE /\ pc' = [pc EXCEPT ![w] = "train"]
          /\ localSteps' = [localSteps EXCEPT ![w] = @ + 1]
  /\ UNCHANGED <<sent, cursor, inbox, weights, var0>>

\* The listener thread puts a message in inc_msg_q.
Listen(w) ==
  /\ pc[w] \notin {"setup", "exit"}
  /\ M!Deliver(w)
  /\ UNCHANGED workerVars

Step(w) == \/ StartListenThread(w) \/ SendInitialWeights(w)
           \/ TakeInitialWeights(w) \/ Train(w) \/ SendDiff(w)
           \/ QueueExact(w) \/ ApplyDiff(w)

Next == \E w \in Workers : Step(w) \/ Listen(w)

\* Both threads of every worker keep running.
Fairness == \A w \in Workers : WF_vars(Step(w)) /\ WF_vars(Listen(w))

Spec == Init /\ [][Next]_vars
FairSpec == Spec /\ Fairness

-----------------------------------------------------------------------------
\* The types of the variables of a3c.py and of the queue: no message is taken
\* that was not put, and of those to be applied one is left while it applies.
TypeOK ==
  /\ sent \in Seq(Messages)
  /\ cursor \in [Workers -> 0..Len(sent)]
  /\ inbox \in [Workers -> Seq(Messages)]
  /\ pc \in [Workers -> {"setup", "init", "train", "sync", "wait", "apply",
                         "exit"}]
  /\ localSteps \in [Workers -> Nat]
  /\ taken \in [Workers -> Nat]
  /\ \A w \in Workers : taken[w] <= Len(inbox[w])
  /\ toApply \in [Workers -> 0..NumOthers]
  /\ \A w \in Workers : pc[w] = "apply" => toApply[w] > 0
  /\ weights \in [Workers -> SUBSET Contributions]
  /\ var0 \in [Workers -> SUBSET Contributions]

\* CommonStart: every worker starts to train from the initial weights of
\* worker 0 and from no others, however fast the other workers get on to send
\* their own changes; "Received data other than initial weights" is never
\* reached (sync_initial_weights).
CommonStart ==
  \A w \in Workers :
    /\ pc[w] # "exit"
    /\ pc[w] \notin {"setup", "init"} =>
         {c \in weights[w] : c[2] = 0} = {<<Leader, 0>>}

\* DiffsAligned: the changes a worker takes at a sync are those the others
\* sent at the same local step (process, lines 514-528).
DiffsAligned ==
  \A w \in Workers : pc[w] = "apply" =>
    /\ NextMessage(w).kind = "diff"
    /\ NextMessage(w).step = localSteps[w]

\* DriftBounded: no worker gets more than SyncFrequency steps ahead of another.
DriftBounded ==
  \A w, v \in Workers : localSteps[w] <= localSteps[v] + SyncFrequency

\* DiffsTile: the changes a worker has sent, taken together, are each of its
\* own updates after step 0 up to its last sync, none of them twice: var0 and
\* var1 leave no update out and count none double.
DiffsOf(w) == {i \in DOMAIN sent : sent[i].from = w /\ sent[i].kind = "diff"}
DiffsTile ==
  \A w \in Workers :
    /\ UNION {sent[i].data : i \in DiffsOf(w)}
         = {c \in var0[w] : c[1] = w /\ c[2] > 1}
    /\ \A i, j \in DiffsOf(w) : i # j => sent[i].data \cap sent[j].data = {}

\* MessagesHandled: a worker that waits to "handle each message in the socket
\* queue" gets to handle them.
MessagesHandled ==
  \A w \in Workers : (pc[w] = "wait") ~> (pc[w] = "apply")
=============================================================================
