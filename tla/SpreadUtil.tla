----------------------------- MODULE SpreadUtil -----------------------------
(***************************************************************************)
(* The fragmented multicast of spread_util.py: peers of one Spread group   *)
(* exchange messages that send_chunks cuts into a head fragment            *)
(* ("Arnold" + length) and data chunks, and that the listener thread       *)
(* (SpreadListenThread, recv_chunks) glues together again per sender.      *)
(*                                                                         *)
(* The Spread daemons are represented by what their clients see of them:   *)
(* one totally ordered log of fragments of which each mailbox is handed    *)
(* the entries that follow its join, its own excepted (SelfDiscard).       *)
(***************************************************************************)
EXTENDS Naturals, Sequences, FiniteSets, FiniteSetsExt

CONSTANTS
  Peers,        \* the mailboxes "vyan1_mbox" of the hosts in the group
  Starter,      \* the mailbox of start_spread.py
  MaxChunks,    \* a message has 1..MaxChunks data chunks
  MsgLimit,     \* bound: messages host p begins to send, restarts included
  MaxStarts,    \* bound: how often the operator runs start_spread.py
  MaxCrashes    \* bound: how many peer processes are killed

ASSUME SpreadUtilAssumption ==
  /\ IsFiniteSet(Peers) /\ Cardinality(Peers) >= 2
  /\ Starter \notin Peers
  /\ MaxChunks \in Nat \ {0}
  /\ MsgLimit \in [Peers -> Nat] /\ MaxStarts \in Nat /\ MaxCrashes \in Nat

VARIABLES
  log,        \* fragments in the order of the ring, [from, frag] records
  cursor,     \* cursor[p]: entries of log the mailbox of p has gone past
  phase,      \* phase[p]: where the program of p is
  since,      \* history: cursor[p] when p took its START signal
  outbox,     \* outbox[p]: fragments the running send_chunks has yet to send
  serial,     \* serial[p]: messages begun at host p
  dict,       \* dict[p][s]: sender_dict of p, [rem, data]
  queue,      \* queue[p]: the messages p's listener has put in inc_msg_q
  queueCnt,   \* queueCnt[p]: queue_cnt of the running recv_chunks
  rcvMsgNum,  \* rcvMsgNum[p]: rcv_msg_num of the listener
  polled,     \* polled[p]: the running recv has seen an empty mailbox
  stopping,   \* stopping[p]: the _stop event of the listener thread
  starts,     \* how often start_spread.py ran
  crashes     \* how many processes were killed

procVars == <<since, outbox, dict, queue, queueCnt, rcvMsgNum, polled, stopping>>
vars == <<log, cursor, phase, procVars, serial, starts, crashes>>

Phases == {"off", "booting", "await", "listen", "exited", "failed"}
Senders == Peers \cup {Starter}

\* A message: who sends it, its number at that host, and its length in chunks.
MsgIds == UNION {[from : {p}, serial : 1..MsgLimit[p], size : 1..MaxChunks] :
                  p \in Peers}

StartSignal == [kind |-> "start"]
HeadOf(m) == [kind |-> "head", id |-> m]
Chunk(m, i) == [kind |-> "chunk", id |-> m, idx |-> i]
Fragments == {StartSignal} \cup {HeadOf(m) : m \in MsgIds}
             \cup {Chunk(m, i) : m \in MsgIds, i \in 1..MaxChunks}

\* The chunks of m in order: the msg_str that was given to send_chunks.
Payload(m) == [i \in 1..m.size |-> Chunk(m, i)]

\* What send_chunks(msg_str) sends: the head fragment, then every chunk.
Fragmented(m) == <<HeadOf(m)>> \o Payload(m)

EmptyEntry == [rem |-> 0, data |-> <<>>]

-----------------------------------------------------------------------------
(* The mailbox: entries of other senders that follow cursor[p].            *)

Pending(p) == {i \in (cursor[p] + 1)..Len(log) : log[i].from # p}
NextEntry(p) == Min(Pending(p))

Init ==
  /\ log = <<>>
  /\ cursor = [p \in Peers |-> 0]
  /\ phase = [p \in Peers |-> "off"]
  /\ since = [p \in Peers |-> 0]
  /\ outbox = [p \in Peers |-> <<>>]
  /\ serial = [p \in Peers |-> 0]
  /\ dict = [p \in Peers |-> [s \in Senders |-> EmptyEntry]]
  /\ queue = [p \in Peers |-> <<>>]
  /\ queueCnt = [p \in Peers |-> 0]
  /\ rcvMsgNum = [p \in Peers |-> 0]
  /\ polled = [p \in Peers |-> FALSE]
  /\ stopping = [p \in Peers |-> FALSE]
  /\ starts = 0
  /\ crashes = 0

\* The operator launches the program of p: it loads its data and its model.
Launch(p) ==
  /\ phase[p] = "off"
  /\ phase' = [phase EXCEPT ![p] = "booting"]
  /\ UNCHANGED <<log, cursor, procVars, serial, starts, crashes>>

\* set_up_spread_peer: connect, join the group, allocate the messages. The
\* mailbox gets what is ordered after its join.
Join(p) ==
  /\ phase[p] = "booting"
  /\ phase' = [phase EXCEPT ![p] = "await"]
  /\ cursor' = [cursor EXCEPT ![p] = Len(log)]
  /\ UNCHANGED <<log, procVars, serial, starts, crashes>>

\* start_spread.py, run when every program was started (docs/multi_learner).
Start ==
  /\ starts < MaxStarts
  /\ \A p \in Peers : phase[p] # "off"
  /\ log' = Append(log, [from |-> Starter, frag |-> StartSignal])
  /\ starts' = starts + 1
  /\ UNCHANGED <<cursor, phase, procVars, serial, crashes>>

\* await_start_spread: blocks for ONE message and asserts that it is START;
\* then the listener thread is started. A failed assert ends the program.
AwaitStart(p) ==
  /\ phase[p] = "await"
  /\ Pending(p) # {}
  /\ LET i == NextEntry(p) IN
     /\ cursor' = [cursor EXCEPT ![p] = i]
     /\ IF log[i].frag = StartSignal
        THEN /\ phase' = [phase EXCEPT ![p] = "listen"]
             /\ since' = [since EXCEPT ![p] = i]
        ELSE /\ phase' = [phase EXCEPT ![p] = "failed"]
             /\ UNCHANGED since
  /\ UNCHANGED <<log, outbox, dict, queue, queueCnt, rcvMsgNum, polled,
                 stopping, serial, starts, crashes>>

-----------------------------------------------------------------------------
(* Sending.                                                                *)

\* The main thread calls send_chunks with a message of n chunks.
SendChunks(p, n) ==
  /\ phase[p] = "listen" /\ ~stopping[p]
  /\ outbox[p] = <<>>
  /\ serial[p] < MsgLimit[p]
  /\ serial' = [serial EXCEPT ![p] = @ + 1]
  /\ outbox' = [outbox EXCEPT ![p] =
        Fragmented([from |-> p, serial |-> serial[p] + 1, size |-> n])]
  /\ UNCHANGED <<log, cursor, phase, since, dict, queue, queueCnt, rcvMsgNum,
                 polled, stopping, starts, crashes>>

\* One send() of the running send_chunks: the fragment gets its place in the
\* order of the ring.
Send(p) ==
  /\ phase[p] = "listen"
  /\ outbox[p] # <<>>
  /\ log' = Append(log, [from |-> p, frag |-> Head(outbox[p])])
  /\ outbox' = [outbox EXCEPT ![p] = Tail(@)]
  /\ UNCHANGED <<cursor, phase, since, dict, queue, queueCnt, rcvMsgNum, polled,
                 stopping, serial, starts, crashes>>

-----------------------------------------------------------------------------
(* Receiving: SpreadListenThread.run, recv_chunks and recv.                *)

\* Mutant: a head fragment does not drop what was collected before it.
Reassembled_KeepsOld(entry, f) ==
  IF f.kind = "head" THEN [rem |-> f.id.size, data |-> entry.data]
  ELSE IF entry.rem = 0 THEN entry
  ELSE [rem |-> entry.rem - 1, data |-> Append(entry.data, f)]

\* Mutant: a fragment without its head is collected as well.
Reassembled_NoHead(entry, f) ==
  IF f.kind = "head" THEN [rem |-> f.id.size, data |-> <<>>]
  ELSE [rem |-> entry.rem - 1, data |-> Append(entry.data, f)]

\* The sender_dict entry after fragment f, and whether it completes a message.
Reassembled(entry, f) ==
  IF f.kind = "head" THEN [rem |-> f.id.size, data |-> <<>>]
  ELSE IF entry.rem = 0 THEN entry            \* fragment without its head
  ELSE [rem |-> entry.rem - 1, data |-> Append(entry.data, f)]

\* Mutant: the length is compared one chunk too early.
Completes_Early(entry, f) == f.kind # "head" /\ entry.rem \in {1, 2}

Completes(entry, f) == f.kind # "head" /\ entry.rem = 1

\* Mutant: one entry for all senders.
FiledUnder_One(i) == Starter

\* The key of sender_dict.
FiledUnder(i) == log[i].from

\* Mutant: the loop of run does not look at the stop event.
EndCycle_IgnoresStop(p) ==
  /\ queueCnt' = [queueCnt EXCEPT ![p] = 0]
  /\ UNCHANGED phase

\* recv_chunks has returned to run: a new cycle, or the end of the thread.
EndCycle(p) ==
  /\ queueCnt' = [queueCnt EXCEPT ![p] = 0]
  /\ phase' = [phase EXCEPT ![p] = IF stopping[p] THEN "exited" ELSE @]

\* recv returns a fragment and recv_chunks files it under its sender.
Receive(p) ==
  /\ phase[p] = "listen"
  /\ Pending(p) # {}
  /\ LET i == NextEntry(p)
         s == FiledUnder(i)
         f == log[i].frag
         e == Reassembled(dict[p][s], f)
     IN
     /\ cursor' = [cursor EXCEPT ![p] = i]
     /\ polled' = [polled EXCEPT ![p] = FALSE]
     /\ rcvMsgNum' = [rcvMsgNum EXCEPT ![p] = @ + 1]
     /\ IF Completes(dict[p][s], f)
        THEN /\ queue' = [queue EXCEPT ![p] = Append(@, e.data)]
             /\ dict' = [dict EXCEPT ![p][s] = EmptyEntry]
             /\ IF queueCnt[p] + 1 < Cardinality(Peers) - 1
                THEN /\ queueCnt' = [queueCnt EXCEPT ![p] = @ + 1]
                     /\ UNCHANGED phase
                ELSE EndCycle(p)
        ELSE /\ dict' = [dict EXCEPT ![p][s] = e]
             /\ UNCHANGED <<queue, queueCnt, phase>>
  /\ UNCHANGED <<log, since, outbox, stopping, serial, starts, crashes>>

\* mbox.poll() finds no message: recv sleeps.
Poll(p) ==
  /\ phase[p] = "listen"
  /\ ~polled[p]
  /\ Pending(p) = {}
  /\ polled' = [polled EXCEPT ![p] = TRUE]
  /\ UNCHANGED <<log, cursor, phase, since, outbox, dict, queue, queueCnt,
                 rcvMsgNum, stopping, serial, starts, crashes>>

\* Mutant: what is collected lives in recv_chunks only and is lost with it.
Timeout_DropsPartial(p) ==
  /\ phase[p] = "listen"
  /\ polled[p]
  /\ polled' = [polled EXCEPT ![p] = FALSE]
  /\ EndCycle(p)
  /\ dict' = [dict EXCEPT ![p] = [s \in Senders |-> EmptyEntry]]
  /\ UNCHANGED <<log, cursor, since, outbox, queue, rcvMsgNum, stopping,
                 serial, starts, crashes>>

\* The flag of the timer is seen after a sleep, whatever arrived meanwhile.
Timeout(p) ==
  /\ phase[p] = "listen"
  /\ polled[p]
  /\ polled' = [polled EXCEPT ![p] = FALSE]
  /\ EndCycle(p)
  /\ UNCHANGED <<log, cursor, since, outbox, dict, queue, rcvMsgNum, stopping,
                 serial, starts, crashes>>

\* The main thread calls stop() between two messages of its own.
Stop(p) ==
  /\ phase[p] = "listen" /\ ~stopping[p]
  /\ outbox[p] = <<>>
  /\ stopping' = [stopping EXCEPT ![p] = TRUE]
  /\ UNCHANGED <<log, cursor, phase, since, outbox, dict, queue, queueCnt,
                 rcvMsgNum, polled, serial, starts, crashes>>

\* The process of p is killed or has failed: its memory is lost, what it gave
\* to Spread is not. The operator may launch it again under the same name.
Crash(p) ==
  /\ phase[p] \in {"await", "listen", "failed"}
  /\ crashes < MaxCrashes
  /\ crashes' = crashes + 1
  /\ phase' = [phase EXCEPT ![p] = "off"]
  /\ since' = [since EXCEPT ![p] = 0]
  /\ outbox' = [outbox EXCEPT ![p] = <<>>]
  /\ dict' = [dict EXCEPT ![p] = [s \in Senders |-> EmptyEntry]]
  /\ queue' = [queue EXCEPT ![p] = <<>>]
  /\ queueCnt' = [queueCnt EXCEPT ![p] = 0]
  /\ rcvMsgNum' = [rcvMsgNum EXCEPT ![p] = 0]
  /\ polled' = [polled EXCEPT ![p] = FALSE]
  /\ stopping' = [stopping EXCEPT ![p] = FALSE]
  /\ UNCHANGED <<log, cursor, serial, starts>>

Next ==
  \/ Start
  \/ \E p \in Peers :
       \/ Launch(p) \/ Join(p) \/ AwaitStart(p)
       \/ \E n \in 1..MaxChunks : SendChunks(p, n)
       \/ Send(p) \/ Receive(p) \/ Poll(p) \/ Timeout(p)
       \/ Stop(p) \/ Crash(p)

\* The daemon serves every client and both threads of a live program run: a
\* step of recv or of send_chunks that stays possible is taken.
Fairness ==
  \A p \in Peers :
    /\ WF_vars(Send(p))
    /\ WF_vars(Receive(p))
    /\ WF_vars(Poll(p))
    /\ WF_vars(Timeout(p))

Spec == Init /\ [][Next]_vars
FairSpec == Spec /\ Fairness

-----------------------------------------------------------------------------
(* Properties.                                                             *)

Entry == [rem : 0..MaxChunks, data : Seq(Fragments)]

TypeOK ==
  /\ log \in Seq([from : Senders, frag : Fragments])
  /\ cursor \in [Peers -> 0..Len(log)]
  /\ phase \in [Peers -> Phases]
  /\ since \in [Peers -> 0..Len(log)]
  /\ outbox \in [Peers -> Seq(Fragments)]
  /\ serial \in [Peers -> Nat]
  /\ dict \in [Peers -> [Senders -> Entry]]
  /\ queue \in [Peers -> Seq(Seq(Fragments))]
  /\ queueCnt \in [Peers -> 0..(Cardinality(Peers) - 2)]
  /\ rcvMsgNum \in [Peers -> Nat]
  /\ polled \in [Peers -> BOOLEAN]
  /\ stopping \in [Peers -> BOOLEAN]
  /\ starts \in 0..MaxStarts
  /\ crashes \in 0..MaxCrashes

\* Where message m of the log begins, and the entries that end a message.
HeadIndex(m) == CHOOSE h \in 1..Len(log) : log[h].frag = HeadOf(m)
Ends(i) == log[i].frag.kind = "chunk" /\ log[i].frag.idx = log[i].frag.id.size

\* The messages of other peers that p has heard from their head to their end.
HeardWhole(p) ==
  {i \in (since[p] + 1)..cursor[p] :
     Ends(i) /\ log[i].from # p /\ HeadIndex(log[i].frag.id) > since[p]}

\* How many elements of E come up to i, and the k-th smallest one.
UpTo(E, i) == Cardinality({j \in E : j <= i})
Nth(E, k) == CHOOSE i \in E : UpTo(E, i) = k

\* DeliveredExactly: the listener has put in inc_msg_q exactly the messages
\* whose head and chunks it received since it was started - each one once,
\* complete, unmixed, in the order in which they were finished - whatever
\* fragments of several senders interleave, whoever crashed in the middle of
\* a message and started again, and whenever recv timed out (recv_chunks).
DeliveredExactly ==
  \A p \in Peers : phase[p] \in {"listen", "exited"} =>
    LET ends == HeardWhole(p)
    IN queue[p] = [k \in 1..Cardinality(ends) |->
                     Payload(log[Nth(ends, k)].frag.id)]

\* Delivery: a message completely sent after a peer began to listen reaches
\* the peer's queue unless the peer is stopped or killed.
Sent(m) == \E i \in 1..Len(log) : Ends(i) /\ log[i].frag.id = m
Wants(p, m) == /\ phase[p] = "listen" /\ m.from # p
               /\ Sent(m) /\ HeadIndex(m) > since[p]
Delivery ==
  \A p \in Peers, m \in MsgIds :
    Wants(p, m) ~> \/ \E k \in DOMAIN queue[p] : queue[p][k] = Payload(m)
                   \/ phase[p] # "listen"

\* StopReturns: ret_val.get() in train does not block for ever: a listener
\* that was told to stop leaves its loop.
StopReturns == \A p \in Peers : stopping[p] ~> phase[p] # "listen"

\* WholeMessages: as long as no process is killed and START is sent once, the
\* fragments implement the abstract multicast: every message that is put in a
\* queue is the next one, in the order in which the messages were finished,
\* that the peer has not sent itself (send_chunks, recv_chunks).
Finished == {i \in 1..Len(log) : Ends(i)}
FinishedIds ==
  [k \in 1..Cardinality(Finished) |-> log[Nth(Finished, k)].frag.id]
InboxIds(p) == [k \in DOMAIN queue[p] |-> queue[p][k][1].id]

\* The messages up to the last one of the queue.
Taken(p) ==
  {i \in Finished : \E k \in DOMAIN queue[p] : queue[p][k] = Payload(log[i].frag.id)}
LastTaken(p) == Cardinality({i \in Finished : \E l \in Taken(p) : i <= l})

M == INSTANCE Multicast WITH
       Messages <- MsgIds,
       sent <- FinishedIds,
       cursor <- [p \in Peers |-> LastTaken(p)],
       inbox <- [p \in Peers |-> InboxIds(p)]

Quiet == starts <= 1 /\ crashes = 0

WholeMessages ==
  /\ M!MulticastInit
  /\ [][Quiet' => UNCHANGED M!multicastVars \/ M!MulticastNext]_vars
=============================================================================
