# A TLA+ model of VDL

VDL ("Distributed reinforcement learning in virtual environment") trains
networks with several programs at once: *learners* that exchange weights,
*actors* that play an environment and feed a learner, and a parameter server.
The code is Python 2 with TensorFlow; the learners talk over the Spread group
communication toolkit, over UDP multicast, or through a TensorFlow parameter
server, and the actors over TCP.

This directory holds TLA+ modules for the parts of VDL in which several
threads, programs or machines interact, TLC configurations that check them on
small instances, and theorems that TLAPS proves for all instances.
`PROJECT.json` lists the components, the runs, the mutants, the source lines
behind every definition, the hazards and the findings.

    tlc -workers 2 -config SyncPeers.cfg MCSyncPeers.tla
    tlapm SyncPeersProofs.tla

The lowest layer, the daemons of the Spread toolkit that the repository
carries (`src/spread/spread-src-4.4.0`, C), is modelled too where the learners
depend on it: the ring protocol, the recovery after a membership change, and
the process groups.


## 1. Inventory

Paths are relative to `src/`; USA stands for `universe-starter-agent`.

### Learners over Spread

| part | code | state | operations |
|---|---|---|---|
| transport | `USA/spread_util.py` (same file in `tensorflow_MNIST/`), `start_spread.py` | per peer: the mailbox; `sender_dict` (what is collected of each sender's message); `inc_msg_q`; `queue_cnt`, `rcv_msg_num`; the stop event | `set_up_spread_peer`, `await_start_spread`, `send_chunks`, `recv`, `recv_chunks`, the listener thread, `stop`, `reconstruct_received_message`; the starter |
| MNIST learners | `tensorflow_MNIST/mnist_spread_peer.py` | weights W, b; the round; the number of messages to take | `train`: train a step, send the change, wait for num_peers - 1 messages, add them |
| A3C learners | `USA/a3c.py`, `USA/run.py` | local weights; `var0`, the snapshot of the last sync; `local_steps` | `start_listen_thread`, `sync_initial_weights`, `process` |

A program has a main thread and a listener thread. They share `inc_msg_q`
(thread-safe) and the stop event. The programs share nothing but messages.
Hard: fragments of several senders interleave; a sender can die in the middle
of a message and return; `recv` times out at any point; the main thread
*counts* messages while the listener puts them and never looks at which round
they belong to; each round is a barrier of the whole group.
Right means: queues hold whole messages in the group's order; the counts mean
rounds; weights are the sum of the same changes everywhere; nobody waits for
ever.

### Worker with a parameter server and actors

| part | code | state | operations |
|---|---|---|---|
| rollout pipeline | `USA/ps_a3c.py` (RunnerThread, env_runner, PartialRollout, A3C), `USA/ps_run.py` | `queue.Queue(5)`; the rollout being collected; episode length; local copy of the weights; `global_step` | `env_runner`'s loop, `put`, `pull_batch_from_queue`, `process`, the loop of `run` |
| actor threads | SocketRecvThread and the second half of `env_runner` in `USA/ps_a3c.py` | one slot `global_rollout[0]` for all threads; `last_rollout` | accept, collect and publish a rollout; poll, yield, re-read the slot |
| actor link | `USA/actor.py`, SocketRecvThread | two byte streams; `recovered_message`, `last_state`, the rollout, `length` | act/step, 'rest'/reset, the end of either side |

Threads share the queue (thread-safe), the slot (a list element, no lock) and
the local network (weights copied in while another thread acts with them).
Hard: the age of the policy behind a step; batches of unknown length; one slot
written by many threads and read three times; a protocol in which no message
says what it answers; the end of an actor's process, which `recv` reports as an
empty string and not as an error.
Right means: every step is trained on once, in order; a batch is one piece of
one episode with the right bootstrap value; rewards belong to the actions they
are stored with; the lag of the policy is bounded.

### Spread daemons

Paths are relative to `spread/spread-src-4.4.0/daemon/`.

| part | code | state | operations |
|---|---|---|---|
| ring protocol | `protocol.c`, `flow_control.c`, `configuration.c` (order of the members) | `Packets[]`, `My_aru`, `Aru`, `Highest_seq`, `Last_delivered`, `Last_discarded`, `Last_token`, the down queue | `Prot_handle_token`, `Prot_handle_bcast`, `Answer_retrans`, `Send_new_packets`, `Deliver_agreed_packets`, `Deliver_reliable_packets`, `Discard_packets`, `FC_allowed`, hurry packets and the timers |
| groups | `groups.c`, `session.c` (delivery) | `GroupsList` (of each group its id, its daemons and their members), `MySyncedSet`, `Gathered`, `Groups_bufs`, `Gstate` | `G_handle_reg_memb`, `G_handle_trans_memb`, `G_handle_join`, `G_handle_leave`, `G_handle_kill`, `G_handle_groups` |
| recovery | `membership.c` (`Create_form1`, `Fill_form1`, `Read_form2`, `Memb_commit`, `Backoff_membership`, `Memb_token_loss`, `Memb_regular`), the state EVS of `protocol.c` | `Membership`, `Future_membership`, `Commit_set`, the dummies in `Packets[]`, what each old ring still holds | the form1 and form2 tokens, the exchange of what is missed, the transitional signal, installing the ring, falling back when the token is lost |

A daemon is one thread that reacts to packets, tokens and timers; daemons share
nothing but datagrams.
Hard: datagrams are lost, overtaken and sent twice; a token is sent again when
its successor's is late; `Packets[]` is a ring of slots; three different places
hand messages over; a member may install a new ring while another falls back to
the old one; rings change in the midst of the exchange in which daemons tell
each other what they know of the groups.
Right means: one order of all packets at all daemons, safe packets only when
everyone has them, nothing given up that somebody misses, no assertion of a
daemon fails, and after a membership change daemons that went together have
handed over the same; daemons that had the same messages know the same of every
group.

### Not modelled

| part | why |
|---|---|
| UDP transport (`socket_util.py`, both copies), MNIST and A3C learners over UDP | line 143 of `socket_util.py` is a statement cut off in the middle, a syntax error: no program that imports it starts, so there is no behaviour to be faithful to |
| parameter server | TensorFlow's; asynchronous updates of several workers are what A3C is meant to do, and the repository states nothing of them that could fail |
| rollouts of `a3c.py` | the pipeline of `ps_a3c.py` with the exchange in its main thread: LocalRollouts and A3CSpread each model their half |
| `learner-actor/` | a speed benchmark; its exchange is an early form of the one in ActorLink |
| `envs.py` | sequential bookkeeping of one environment, arithmetic on frames |
| Spread: discovery of members (alive, join, refer, foreign messages; SEG, GATHER, REPRESENTED) | its result, who is gathered, is a free choice in SpreadRecovery: any daemon may try with any others |
| Spread: the merge of several old rings in one form token | every old ring keeps a list of its own in the token; with one old ring the branch of `Fill_form1` for the first member of another ring is not exercised |
| Spread: sessions, network, client library, bindings, parser | buffers of a client's socket; system calls; generated code |
| `worker.py`, `train.py`, tables of addresses, `model.py` | no state, or the same control as `ps_run.py` |
| benchmark, gym-demo, neonrace, arm-pose, owi-arm, older MNIST programs | single loops, plots, hardware |


## 2. Plan

Order: first the barrier of the Spread learners (the system's central
promise), on top of an abstract multicast; below it the fragments that
implement the multicast; then the worker's pipeline; then the actors; then
the daemons below Spread's clients.

    BulkSynchronous <--implements-- SyncPeers --uses--> Multicast <--uses-- A3CSpread
                                                            ^
                                       SpreadUtil --implements--+      Reconstruct (bytes)
                                            |
                       (one order of fragments)
                                            v
                                     OrderedDelivery <--implements-- SpreadRing
                                            ^          SpreadRecovery (between two rings)
                                            |                 ^
                                          Groups -------------+   (takes both for granted)

    RolloutQueue <--extends-- LocalRollouts
                 <--extends-- ActorRollouts ... ActorLink (one of its threads)

All of this is done. SpreadUtil takes one log of fragments for granted;
OrderedDelivery is where that comes from, and SpreadRing implements it. Left
for later, in this order: theorems about Groups; several old rings in SpreadRecovery,
with the merge of partitions; termination of the recovery.


## 3. Modules

**SpreadUtil.** The Spread ring is one log of fragments; `cursor[p]` is how far
p's mailbox is. `Launch`, `Join`, `Start`, `AwaitStart` are the programs'
start-up; `SendChunks` begins a message and `Send` puts one fragment in the log
(chunks of several senders interleave); `Receive` is one pass of the loop of
`recv_chunks`, with all its branches (`Reassembled`, `Completes`, `EndCycle`);
`Poll` and `Timeout` are the two halves of a timed `recv`; `Stop` sets the
event; `Crash` kills a process, which may be launched again under its name. A
chunk is a number, not text; what the NUL handling does to bytes is in
**Reconstruct**, one pass of the loop of `reconstruct_received_message` per
step. Reconstruct is not model-checked: what matters about it is proved for
every string (section 6).

**Multicast.** The abstract service: a sequence of messages, and each peer is
handed the others' messages in that order. SpreadUtil is shown to implement it
(`WholeMessages`); SyncPeers and A3CSpread are built on it.

**SyncPeers.** `mnist_spread_peer.train`: `Train`, `SendDelta`, `QueueFilled`,
`ApplyDelta` (the last one ends the round), `Finish`; `Listen` is the listener.
The weights are a bag of changes. **BulkSynchronous** is the specification it
implements (`Lockstep`): a peer contributes to a round and merges it when
everyone has contributed.

**A3CSpread.** The exchange of `a3c.py`: `SendInitialWeights`,
`TakeInitialWeights`, then `Train`, `SendDiff`, `QueueExact`, `ApplyDiff`.
Weights are the set of contributions added up in them. `ApplyDiff` changes no
weights, because the code does not: `add_op` is computed and not assigned.

**RolloutQueue.** The learner's half of `ps_a3c.py`: `GetRollout`,
`ExtendBatch`, `TrainBatch` (train, count, sync again), `GetTimesOut`.
**LocalRollouts** adds the environment thread (`RunStep`, `PutRollout`,
`PutTimesOut`); **ActorRollouts** adds the actor threads (`Accept`, `Publish`)
and the runner thread with its three reads of the slot (`Poll`, `Yield`,
`Reread`). A step of experience carries its actor, episode, number and the copy
of the weights it was chosen with; a rollout's `r` is the number of the step
whose outcome was valued.

**ActorLink.** One connection, both programs: `ActorRecv`, `ActorSend` (header
and body separately), `ActorEnds`; `Act`, `RecvHeader`, `RecvBody`, `RecvEnd`
(the empty string), `ConnectionError`. `AfterStep` is what the thread does with
an answer, the exchange of 'rest' included.

**OrderedDelivery.** What a ring of daemons promises its clients: one order of
all packets; each daemon hands them over in it, each once; reliable packets may
come early, safe ones only when all daemons have them. A step may number,
receive and hand over several packets at once, as one handler does. What clients
may conclude is stated there too: `InOrder`, `Once`, `SafeEverywhere`, `SameOrder`.

**SpreadRing.** The ring protocol between two membership changes. A daemon is a
record of the C globals and the functions of `protocol.c` are operators from
record to record, applied in the order of the calls (`DeliverAgreed`,
`DeliverReliable`, `Discard`, `Answered`, `NewPackets`, `FlowControl`, `AruOf`).
The actions are the handlers: `HandleToken` (`TakeToken`, `RepeatToken` or
`Swallow`), `HandleBcast`, `NewMessage`, `HandleHurry`, `HurryTimeout`; `Lose`
and the extra copies of `SendToken` are the network and the retransmission
timer.

**SpreadRecovery.** From a lost token to the next ring: `CreateForm1`,
`FillForm1`, `ReadForm2` (which puts dummies where no member has a packet),
`HandleToken` in EVS (what is missed is exchanged, and when everyone has
everything `Install` runs `Discard_packets` with the transitional signal),
`HandleBcast` for packets that come late, `TokenLoss` in any state (with
`Backoff_membership` for a daemon that had only committed).

**Groups.** What a daemon knows of one group, and how daemons that come
together learn it from each other. A daemon is a record of the globals of
`groups.c`; the handlers are operators from record to record (`Join`, `Leave`,
`ToGroup`, `HandleGroups`, `TransMemb`, `RegMemb` with its three branches, and
`Merge`, `ComputeAndNotify`, `NotifyNetwork` that they call). `Send` is a call
of a client, `SendGroups` puts what waits in the down queue in the order of the
ring, `DeliverNext` hands over the next message of that order, `HandReliable` a
reliable one before its turn. `Change`, `Recover` and `Install` are the ring as
SpreadRecovery promises it: any daemons may come together, those that went
together have the same messages before the transitional membership and after
it, and a daemon installs when it gets to it. `Crash` starts a daemon afresh.

Mutants are operators named `<definition>_<what is wrong>`, beside the
definition they change.


## 4. Runs

| run | what it shows | bounds |
|---|---|---|
| spread_crash | `DeliveredExactly`: the queue is exactly the messages heard whole, though two senders' fragments interleave, a process is killed in the middle of a message and START comes twice; `WholeMessages` (refinement of Multicast until one of these two happens): a peer that hears two senders gets whole messages in one order; `TypeOK` | 3 peers: two send at once, up to 2 and 1 messages of up to 2 chunks, the third listens; 1 crash (558,901 states) |
| spread_live | `Delivery`, `StopReturns` | 2 peers, 1 message each |
| sync | `RoundAligned`: after k rounds the weights are everyone's first k changes, each once; `QueueBounded`; `QueueDrained`; `Lockstep` (refinement of BulkSynchronous); `Termination` | 3 peers, 3 rounds |
| a3c_safety | `CommonStart`, `DiffsAligned`, `DriftBounded`, `DiffsTile` | 3 workers, two syncs |
| a3c_stall | finding, see section 5 | 2 workers |
| local | `EachStepOnce`, `Bootstrapped`, `PolicyLag`, `TerminalIsTrained` | queue of 2, rollouts of 2, time limit 3, 7 steps made, 6 to train on |
| actors | `TrainedInOrder`, `LastEndsBatch` with rollouts of two actors in one batch | 2 actors, queue of 1, 3 steps each |
| link | `Paired`, `TakingTurns`, `KeepsPlaying`, `OrphanEnds` | rollouts of 3, time limit 4, 9 observations; autoreset; the actor ends at any point |
| spread_ring | `NoAlarm` (no assertion of `protocol.c` about sequence numbers and packets fails), `DiscardedByAll`, `WindowKept`, `DeliverySpec` (refinement of OrderedDelivery); `AllDelivered`: everything comes to the clients of every daemon, though the leader holds the token of an idle ring and the hurry packet may be lost | 3 daemons, a safe packet waiting, a fifo or reliable one sent at any time, 1 slot, window 1, room for 1 retransmission request in the token, ARQ modulo 3, 1 fault (322,640 states) |
| spread_recovery | `SelfDelivery`, `InstalledTogether`; and as long as form1 counts in what comes late: `CountedNoAlarm`, `CountedSynchrony`, `CountedSafe`, `CountedCausal` | 3 daemons that lose their ring's token, each with any part of 2 packets, 2 attempts in any groups, room for 1 retransmission request in the token |
| recovery_synchrony | finding, see section 5: `VirtualSynchrony` without the restriction | the same, `Ahead = {}` |
| groups | `NoGroupsAlarm`; `Agreement`: who had the same messages knows the same; `SyncedSets`; `OwnVsSet`: a view lists together only who was together; `Concludes`: no exchange is left over | 3 daemons of two rings, 2 changes of the ring, 1 message of a client or crash (1,590,000 states) |

`TypeOK` is checked by the run of SpreadUtil and proved of SpreadUtil,
SyncPeers, A3CSpread, LocalRollouts, ActorRollouts and ActorLink.

Why the bounds are enough. Two chunks are the least with a middle and an end,
a third peer is the least that hears two senders at once, and the second message
of one of them the least whose order could be lost (spread_crash; in spread_live,
which is about the ends of a message and of the listener, two peers send one each).
In SyncPeers a peer is at most one round ahead of another, so three rounds show every overlap
of rounds, and the theorems of section 6 remove the bound. A3CSpread needs two
syncs for a change to overtake another. The pipeline needs a queue that is
full, a rollout that is full and one that is not, and several batches; the
lag is proved for every size. ActorLink runs through both ways an episode ends
(terminal, time limit) at every place in a rollout. Bounds that are not
constants of the program (`MsgLimit`, `MaxStarts`, `MaxCrashes`, `MaxSteps`,
`MaxProduced`, `MaxObs`, `MaxStale`, `MaxAttempts`, `MaxRings`, `MaxEvents`) stand in guards and are named as bounds
where they are declared; behaviours may stop when they are reached, and the
training itself stops in LocalRollouts, ActorRollouts and SyncPeers, which is
why the configurations do not check for deadlock. That nobody blocks is what
`Termination`, `Delivery`, `StopReturns`, `KeepsPlaying`, `OrphanEnds` and
`AllDelivered` say.

SpreadRing needs a member that is neither the sender nor the next holder of the
token, hence three; with one slot for two packets, a window of one and no
gap, the first packet must be discarded and its slot used again within the run, and
the ARQ field wraps around. One fault at any place is a lost packet, a lost hurry packet
or a token sent twice; a lost packet makes the token carry a retransmission
request and lowers the aru. `MaxRequests`
is the room for such requests in a token: hundreds in the code, the lowest numbers
first; one in the runs, any positive number in the proofs. (With room for just one
the code asks for none, `retrans_allowed > 1`; a token never is that small.)
SpreadRecovery needs three members so that two can go on together and the third
can be the sender of a packet that only one of them has; two packets are the
least with a hole below a packet; two attempts are the least with a fall-back
(969,950 states).
Groups needs two daemons that know the same and one that does not; from two
rings, a first change merges them and a second one splits the new ring, or brings
in the daemon that the first left out, in the midst of the exchange that the first
began. There is no third change, and what a daemon knows fits in one message
(`Parts = 1`; the module has two as well, which are out of reach of a run with the
rest). The only event is a join, a leave, a client's end, a message or a crash, at
any point.

### Fairness

- SpreadUtil: weak fairness of `Send`, `Receive`, `Poll` and `Timeout` of each
  peer: the listener is a thread in a loop (`while not self.stopped()`), `recv`
  polls in a loop, and a running `send_chunks` has no wait but a sleep. `Stop`,
  `Crash`, `Launch` and new messages are not assumed.
- SyncPeers, A3CSpread: weak fairness of the main and of the listener thread of
  each program: no lock is held while either waits.
- LocalRollouts: weak fairness of each of the two threads, not of the timeouts.
  Without fairness of `PutTimesOut` a learner that stops leaves the other
  thread waiting, as in the code (it is a daemon thread).
- ActorLink: weak fairness of both programs and of the network's reset.
- SpreadRing: a daemon that has a token or a packet to read reads one again and
  again (the event loop), and the hurry timer of an idle ring goes off again and
  again (`E_queue` on every call). The conditions are written out with `[]<>`: they
  are `WF` with its `ENABLED` spelled out, since a handler is enabled exactly when
  there is something to read. The network's loss is bounded by `MaxFaults`.
- SpreadRecovery has no fairness: termination of the recovery depends on timers
  and on who is gathered, and no run checks it. Nor has Groups: that an exchange
  ends is stated as a state property (`Concludes`): when all that was sent has
  been handed over, nobody waits for more.


## 5. Findings

The findings of runs, counterexamples to what the repository says:

- **a3c_stall** — the wait of `a3c.py:517` tests `qsize() !=` the expected number;
  a queue that overshoots between two polls is never tested equal again, and the
  group stands still. The MNIST learner tests `<` (`mnist_spread_peer.py:149`).
- **recovery_synchrony** — `Prot_handle_bcast` takes every packet of the old ring
  that it does not have, also one numbered above every `highest_seq` of the form
  token, which reaches one member only, after its form1. That member hands it over
  and one that installed the new ring before does not.
  `release_announcement_4.4.txt:55-56` speaks of "virtual synchrony delivery
  guarantees, even in case of computer failures and network partitions"; the rule
  of `membership.c:2231-2233` ("all who did get it must now forget it") covers only
  holes up to the highest number that form1 knew.

  The same packet ends a daemon, so `NoRecoveryAlarm` without the restriction fails
  with `Ahead = {}` as well (no run is kept for it): after form2 it raises
  `Highest_seq` over numbers that are neither there nor dummies, which
  `Discard_packets` calls impossible (`protocol.c:1613-1614`); between form1 and form2
  `Read_form2` lowers `Highest_seq` below it, and it is left over when all others are
  delivered (`protocol.c:1678-1680`).

  Such a packet is rare: its sender must have been out of the attempt but able to
  send (a daemon that held the old token while the others gave it up), or the
  datagram must have been under way longer than the gathering. `counted` of
  SpreadRecovery records whether one came. What is checked and proved only until
  then says so in its name (`CountedSynchrony` and so on: `SafeDelivery` and
  `CausalDelivery` fail with the packet too, `SelfDelivery` and `InstalledTogether` do
  not). Since `My_aru` is then greater than `Highest_seq` of the token, the test for
  the end of the exchange (`protocol.c:747`) may not be met either, which the
  workaround for "too many rounds in EVS" (`protocol.c:850-873`) ends.

Other deviations met while modelling, for which no run is kept; the models
behave as the code does:

- START sent "after all 4 learner programs have been started"
  (`docs/multi_learner.rst:24`) misses a program that has not joined the group yet,
  since a learner joins only after loading its data; its assertion
  (`spread_util.py:111`) fails on the first message it hears then.
- `add_op` (`a3c.py:522-527`) computes sums and assigns nothing: remote changes are
  taken from the queue and dropped.
- `G_build_new_groups_bufs` sends the group's `memb_id` for every daemon of the
  group (`groups.c:2185`), also for one that is partitioned or new. The vs_sets
  that a view gives for *other* daemons' members may therefore list together
  members that were not, which the comments at `groups.c:1893-1896` and 2115 do
  not foresee. For a member's own vs_set it makes no difference: `OwnVsSet`.
- A group's id can name two views, though `docs/SP_equal_group_ids.3:14-17` says
  that equal ids "represent the exact same group membership view": a daemon has
  handed over its own client's join, the ring breaks before the others have that
  message, and as none of the group's daemons is lost on the other side the group
  keeps its id there; the next join gets the same index. (Two daemons, two joins,
  one change of the ring are enough.) `OwnVsSet` compares views with one id that
  list each other's members.
- Reliable packets behind a hole may be handed over at one of two daemons that go
  together, as `Deliver_reliable_packets` asks nobody. `VirtualSynchrony`,
  `CausalDelivery` and the part of `SafeDelivery` after the signal therefore leave
  reliable packets out. The run of SpreadRecovery has fifo and safe packets; the
  theorems hold with any services.
- `rcv_msg_num` (`spread_util.py`) is documented as a number of messages and
  counts fragments, so a loss rate computed from it can be negative.
- An episode cut at the time limit is not terminal (`ps_a3c.py:267`), so the next
  episode's first rollout is appended to it in one batch; rollouts of different
  actors are appended to each other too (`ps_a3c.py:417`). `LastEndsBatch` says
  what is left: nothing is appended to a terminal rollout.
- A rollout published while the previous one is being put is remembered as
  handled by the second read of the slot (`ps_a3c.py:311`) and never put.
  `TrainedInOrder` therefore allows gaps.
- After the actor's end the last message is added again as the answer to a new
  action (`ps_a3c.py:85-86`), until the publishing code or `send` fails.
  `Paired` and `TakingTurns` are stated up to that point (`stale = 0`).

`WholeMessages`, `Lockstep`, `RoundAligned`, `EachStepOnce`, `PolicyLag` and the
others of section 4 hold.


## 6. Proofs

All proofs are for arbitrary constants under the assumptions the modules state.

**SyncPeersProofs** (any finite group of two or more, any positive number of
rounds). `RoundAligned` is far from inductive, since a peer only counts. The
strengthening `IInv` says

- of the group's log: it holds each peer's changes once (`SentRounds`,
  `SentAll`), and rounds never decrease along it (`SentSorted`);
- of each queue: it is the others' part of the log up to the cursor
  (`InboxFromSent`, `InboxHasAll`, `InboxSorted`);
- of the rounds: nobody has completed a round whose change somebody has not
  sent (`NoneBehind`), and between two waits a whole number of rounds has been
  taken (`TakenCount`);
- of the weights: they are the own changes and those taken (`ModelCount`).

Two counting lemmas tie the counts to the rounds. `EnoughMeansAll`: a queue
that has been filled with NumOthers * r messages has everyone's change of round
r, because without one of them the pairs (sender, round) that can have been
sent are too few. `TakenExactly`: its first NumOthers * c messages are the
changes of the first c rounds, because a later one would have all of those
before it in the log. Each action then preserves `IInv` (one lemma per action),
and `RoundAlignedAlways`, `QueueBoundedAlways`, `QueueDrainedAlways` and the
refinement `LockstepHolds` follow. In the last one `SendDelta` is `Contribute`,
the last `ApplyDelta` of a round is `Merge`, and every other step stutters.

**A3CSpreadProofs** (any finite group of two or more, any sync frequency, any
number of steps). `CommonStart` needs `Start`: until worker 0 has sent, nobody
has, so the first message of the group is its initial weights, and the first in
everybody's queue is the first of the group. `DiffsTile` is proved contribution
by contribution (`SentIsOwn`, `OwnIsSent`, `SentOnce`) and needs `Snapshot`: var0
is None exactly until step 0 is over, and from then on a worker's weights differ
from it by own updates only. (That holds because the code drops what it
receives; if it added the changes of others, they would be sent back.)

The changes taken at a sync, `DiffsAligned` and `DriftBounded`, are counts again,
with one more difficulty: the code tests for *equality*. `SInv` says that the
group's order of messages is an order of syncs (`SentGiven`, `SentSorted`,
`GivenSent`), because nobody gets past a sync before all have sent their change for
it; that a queue is the others' part of that order (`InboxInv`); and that a worker
between two syncs has taken the changes of the syncs it did, a worker at a sync
has sent its own, and nobody is a sync ahead of a change that is missing (`AtSync`,
`NoneBehind`, `TakenKeys`). A queue of exactly the expected length then holds this
sync's changes and no others.

**ActorLinkProofs** (any rollout length, any time limit). What makes `Paired`
inductive is where the conversation is: the thread is choosing (both streams are
empty), it has asked (one action is on its way and the actor has nothing to
say), or an answer is on its way, header before body (`Sending`); and what the
actor last did is what the thread last asked.

**ActorRolloutsProofs** (any number of actors and rollouts). `TrainedInOrder`
needs what the three reads of the one slot can mean (`OrderInv`): a slot that
differs from `last_rollout` was written after everything that was put, so that
whatever the second and third read return is newer than what was put before,
whoever wrote it.

**LocalRolloutsProofs** (any queue size, rollout length, time limit).
`PolicyLag` is strengthened by the same bound for each place in the queue (a
rollout with n others before it is at most n + 1 copies old) and for the
rollout that is being collected. `EachStepOnce` is inductive with `TypeOK` and
`PlacedInv`: what is put in the queue is complete (`Placed`: terminal exactly when
its last step and no other ended the episode, and otherwise with the value of the
state that step led to), and what is being collected has no end of an episode in
it (`Collected`). `LastEndsBatch` and `Bootstrapped` follow.

**SpreadUtilProofs** (any finite set of two or more peers, any number of messages,
chunks, crashes and START signals). `DeliveredExactly` rests on two halves.
`LogInv`, of the order of the ring: the head of a message is in it once; a
chunk comes right behind the fragment before it among those of its sender,
although others' lie in between; START comes from the starter only; and what a
running send_chunks has yet to send continues what it has sent. `PeerInv`, of one
listener: for each sender, the entry of sender_dict is open with the chunks up to
the last one heard, or closed (`OpenEntry`, `ClosedEntry`); and there is an
increasing list of ends of messages that is the queue (`Lists`). That list is
`HeardWhole` in order, because an increasing enumeration is unique (`Enumerates`).
The next entry of a mailbox is a least number, which `LeastNumber` gets from the
well-foundedness of the naturals, as the induction theorems cannot be used.

`WholeMessagesHold` says that SpreadUtil implements Multicast step by step as long
as START is sent once and nobody is killed (`Quiet`). Without either it does not: a
peer that a second START sets going has missed what came before, and a killed process
loses its queue. The last fragment of a message is `Multicast`, the `Receive` that completes
one is `Deliver`, every other step stutters. With one START every listener began at
entry 1 of the log (`OneStart`), so it has heard from its head every message whose
end it has gone past, unless it is its own (`HeardAll`). A fragment is in the log
once (`FragOnce`), so a message of the queue stands for one place in the order of
the ends (`TakenIsHeard`); and the place of the next one is behind those of
the queue with only own messages in between (`Places`). That the ends in
the log can be listed in their order is an invariant too (`Listed`): it grows with the
log, which stands in for the induction over finite sets that cannot be used.

The module also proves Reconstruct, by an instance of it (any string of bytes).
`PiecesFit` is inductive: what is glued together is the prefix of the wire that
was read. `RoundTrip` follows: at the end the prefix is everything, and its last
byte is the terminator that is stripped.

**SpreadRingProofs** (any number of daemons, messages, faults and values of the
other constants). `NoAlarm`, `DiscardedByAll` and `DeliverySpec` have one hypothesis
besides the assumptions of the module: `SlotsSuffice`, that `SeqGap` and one batch (the
smaller of the two windows) fit in the slots. 1600 and 20 do in 8192, but a
configuration file may set windows that do not, and nothing compares them
(`config_parse.y` takes any number); with one slot and a gap of one, TLC finds
a new packet in a slot still in use. The invariant `IInv` says that there is a
daemon `h` that took the token last (`Ring`), and of it

- `Good`: each daemon is `Sound`, that is its numbers are in order
  (Last_discarded, My_aru, Highest_seq, at most the slots apart), a slot in use
  has the packet of its number and nothing up to My_aru is missing, and what was handed over before its
  turn is reliable (`Early`); every packet on its way is one that was numbered;
- `Arqs`, `Links`: the ARQ of the daemons up to `h` is the leader's, of the others
  the one before; all tokens on their way are old, but those on their way to the
  daemon after `h`, which are copies of what `h` sent (so only that
  daemon finds a token new);
- `Seqs`: the last token numbers all packets, nobody's My_aru is below the aru
  it has seen (`AruSeen`), and what is discarded is what is up to Aru;
- `Arus`: the heart of it. Nobody's Aru is above what any other has seen; among
  those who took the token after d (`Age`), nobody has seen less than the smaller of
  what d saw and what the token says now; and those who took it since its aru was
  last set saw no more than it says.

The last is what makes it safe that a daemon raises the aru only if it set it
last or the aru is the highest number, and that everyone believes the smaller
of two tokens in a row; it is stated of the numbers alone (`ArusOf`) and proved for one turn
of the token (`ArusNext`). The buffers are the other half: every operator of the
model from `Deliver` to `TokenDone` keeps a daemon `Sound` and raises no alarm.
TLC checked `IInv` before, also where the slots just suffice (two slots and a gap
of one).

`DeliveryHolds`, that SpreadRing implements OrderedDelivery, needs one more thing
of every state (`Clients`, with `IInv` the invariant `RInv`): what a daemon's clients
have been handed is what counts as delivered and the buffered packets marked 2,
and a slot that is not in use says so. Of each operator that delivers, `Deliver`,
`DeliverAgreed`, `DeliverReliable` and `Discard`, the module then proves that it
`Serves` the clients: what it hands over continues what they have, in turn
(`Continues`), and what has reached the daemon stays with it or is delivered
(`Keeps`). Every step serves one daemon and what the others have stays (`GotStays`).
A safe packet is handed over by `Discard` alone, up to the new Aru, and by
`Arus` nobody's Aru is above what any other has seen: everybody has it
(`DiscardedGot`). A loop over sequence numbers is `Ascending`, the list of
a set of numbers. That there is one for every finite interval follows without an induction over
sets: a number's place is how many of the set are not above it (`AscendingIs`).

What clients may conclude of the ring follows from the refinement, for every ring
(`PromisesAlways`): a packet that is not reliable comes after all before it
(`InOrderAlways`), nothing comes twice (`OnceAlways`), safe packets have reached
everyone (`SafeAlways`), and therefore any two daemons hand over the packets that
are not reliable in one order (`SameOrderAlways`). This is what Multicast takes for
granted: the learners' messages are fifo (`spread_util.py:96`), START reliable
(line 68).

**SpreadRecoveryProofs** (any number of daemons, packets of any services, any
number of attempts in any groups). `NoAlarmEver`, `SynchronyHolds`, `SafeIsSafe` and
`CausesCome` state the four properties of the run that hold until a packet comes that
form1 does not count in. `OwnPacketsCome` and `AllAreInstalled` are proved up to there
too (`counted => ...`); that these two hold beyond it only the run shows, since the
invariant below is lost with that packet. The one hypothesis besides the assumptions of
the module is `NumbersFit`: the packets' numbers and the 3333 that form1 adds stay
below 2^31 - 1, the aru of the first regular token. `counted` never becomes TRUE again
(`CountedBefore`), so `counted => IInv` is inductive when each step with `counted'`
preserves `IInv`. The invariant `IInv` says

- of a daemon that waits (`Waits`): its buffer fits its numbers (`Buffer`), its
  clients have what it counts as handed over (`Clients`), and it keeps all it had
  when the old ring ended, and all that those may have handed over with whom it has
  committed, now or in an earlier attempt (`Commitment`);
- of one that has come to a new ring (`Arrived`): it has handed over its own
  packets, those it could have handed over before, and the causes of each; what
  it handed over is `Firm` at those in its signal's set: they keep it, and
  will hand it over whatever becomes of the attempt for them;
- of a form token (`Info`): nothing of a daemon it has been to is a hole or above
  its highest number, nor is anything that those may have handed over who committed
  with such a daemon;
- of the regular token, when it comes to daemon h: the order in which the others had
  it (`Sooner`) and what arus they sent on (`Arus`). A daemon believes the lower
  of two rounds, so one that sees the highest aru twice knows that everyone has all
  there is (`AllReady`), and who has the token after it does too;
- of those who have come to the same ring: they have handed over the same (`Same`).
  What is handed over, and what of it before the signal, depends on the form2
  token alone (`Settled`, `First`, `Result`), which is the same for all.

`Commitment` is what carries over from one attempt to the next. A packet that one
daemon handed over when it came to the new ring must never become a hole in the
attempt of another that lost the token then, and it does not because that one
had committed (`Committed`) before the token could come to the first a second time, and
says so in its next form1 (`RingInfo`, `Filled`). There is one lemma for each action
(`CreateKeeps`, `FillKeeps`, `Form2Keeps`, `HandleKeeps`, `BcastKeeps`, `LossKeeps`).
TLC checked `IInv` on small instances before it was proved.

Only model-checked: liveness (the prover has no ENABLED; this is also
`TerminalIsTrained` of LocalRollouts), of SpreadRing `WindowKept`, a sum over the daemons
that only an induction over data can take apart, of SpreadRecovery `SelfDelivery`
and `InstalledTogether` after a packet that form1 does not count in, of ActorRollouts
`LastEndsBatch` (it is proved of LocalRollouts), and the properties of Groups, of which
nothing is proved.


## 7. Abstractions

- Weights and gradients are who computed them and when; sums are bags (or sets
  where nothing can be added twice).
- SpreadUtil: a fragment is a head or a chunk by its kind. The code looks for
  "Arnold" at its beginning (`spread_util.py:205`, 217), so a chunk of a pickled change
  that happens to begin with these bytes would be taken for a head; chunks have no
  content here, and the case is left out.
- SpreadUtil, Multicast: Spread gives one order of the messages of a group to
  all members (OrderedDelivery), and a member hears what is ordered after its
  join. The programs ignore membership messages and set `SelfDiscard`, so a crash
  of a daemon is nothing they could act on.
- SpreadRing: the initial state is that of a ring that has just been installed,
  with its token at the leader; that nobody misses a packet of the old ring
  then is `InstalledTogether` of SpreadRecovery. A message is one packet. A token
  is consumed when it arrives; a copy may be late by up to one round (the ARQ
  field has four bits, and the code relies on the same). The delivery threshold
  is open; Groups closes it during its exchange, as `groups.c` does.
- SpreadRecovery: one old ring. Who is gathered is a free choice. A copy of any
  packet that was sent may arrive at any daemon, between two attempts or while
  one is under way. One token for each attempt; a daemon that belongs to another
  attempt by then swallows it. Clients' messages wait outside the state OP.
  A daemon loses the token only while another attempt is left.
- Groups: one group, since groups do not interact. The ring is one order of
  messages per membership; when it breaks, at most one message is missing at those
  who go together. The transitional signal that members get carries no more than
  the id and is left out; so are masks, reloading of the configuration and the
  order of bytes. What a member got between two views counts agreed messages
  only, since a reliable one may come on either side of a view.
- SyncPeers and A3CSpread begin when everyone has joined and taken START, and
  nobody dies: the code has no way on after that but to wait.
- The queue's `put` and `get` are atomic, as Python's Queue is. The timeouts of
  600 seconds may happen whenever the queue is full (empty).
- A TCP stream delivers headers and bodies as units: a receive of four bytes
  that returns fewer needs a segment boundary inside a header.
- ActorRollouts makes a thread's rollout in one step, since the thread shares
  nothing until it writes the slot.
- RolloutQueue: `TrainBatch` is the `queue.Empty` that ends a batch, the training,
  and the sync of the next `process`, in one step (`ps_a3c.py:418-449`, 429). The
  environment thread's steps that could fall between them only add to the queue, which
  the learner does not look at there, or act with the old weights, which they may
  as well do before the step.
- LocalRollouts: nothing bounds the loop that extends a batch (`ps_a3c.py:415`) but
  the end of an episode. With an environment thread as fast as the loop it may go on
  for ever, so `TerminalIsTrained` speaks of the rollouts up to one that ended an
  episode, for which the loop does end, whether or not the thread stops at `MaxProduced`.
- ActorLink: `Paired` looks at the rollout that is being collected. The last step of
  a rollout and a terminal one leave it in the step that adds them; they are stored by
  the same code (`AfterStep`) as the others.
- One worker at the parameter server: `globalStep` is the number of steps
  trained on.
