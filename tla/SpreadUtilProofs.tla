-------------------------- MODULE SpreadUtilProofs --------------------------
(***************************************************************************)
(* Proofs about SpreadUtil for every number of peers, messages and chunks, *)
(* of crashes and of START signals: type correctness, and that every       *)
(* listener puts in its queue exactly the messages it heard as a whole.    *)
(* At the end Reconstruct, the bytes of one fragment, for every string.    *)
(***************************************************************************)
EXTENDS SpreadUtil, FiniteSetTheorems, FunctionTheorems, SequenceTheorems,
        WellFoundedInduction, TLAPS

\* Fragment k of a message: the head fragment is number 0.
Frag(m, k) == IF k = 0 THEN HeadOf(m) ELSE Chunk(m, k)

-----------------------------------------------------------------------------
\* The least-number principle, and with it the next entry of a mailbox.
LEMMA LeastNumber ==
  ASSUME NEW T \in SUBSET Nat, T # {}
  PROVE  \E x \in T : \A y \in T : x <= y
<1> DEFINE R == OpToRel(<, Nat)
<1>1. IsWellFoundedOn(R, Nat)
  BY NatLessThanWellFounded
<1>2. \A x, y \in Nat : x < y => <<x, y>> \in R
  BY DEF OpToRel
<1> HIDE DEF R
<1>3. PICK x \in T : \A y \in T : ~(<<y, x>> \in R)
  BY <1>1, WFMin
<1>4. ASSUME NEW y \in T PROVE x <= y
  <2>1. x \in Nat /\ y \in Nat /\ ~(<<y, x>> \in R)
    BY <1>3
  <2>2. ~(y < x)
    BY <1>2, <2>1
  <2> QED
    BY <2>1, <2>2
<1> QED
  BY <1>4

LEMMA NextEntryIsFirst ==
  ASSUME NEW p \in Peers, cursor[p] \in Nat, Len(log) \in Nat, Pending(p) # {}
  PROVE  /\ NextEntry(p) \in 1..Len(log) /\ NextEntry(p) > cursor[p]
         /\ log[NextEntry(p)].from # p
         /\ \A l \in 1..Len(log) : cursor[p] < l /\ l < NextEntry(p) => log[l].from = p
<1>1. Pending(p) \in SUBSET Nat
  BY DEF Pending
<1>2. \E x \in Pending(p) : \A y \in Pending(p) : x =< y
  BY <1>1, LeastNumber
<1>3. NextEntry(p) \in Pending(p) /\ \A y \in Pending(p) : NextEntry(p) =< y
  BY <1>2 DEF NextEntry, Min
<1>4. /\ NextEntry(p) \in (cursor[p] + 1)..Len(log) /\ log[NextEntry(p)].from # p
      /\ NextEntry(p) \in Nat
  BY <1>1, <1>3 DEF Pending
<1>5. ASSUME NEW l \in 1..Len(log), cursor[p] < l, l < NextEntry(p), log[l].from # p
      PROVE  FALSE
  <2>1. l \in (cursor[p] + 1)..Len(log)
    BY <1>5
  <2>2. l \in Pending(p)
    BY <1>5, <2>1 DEF Pending
  <2>3. NextEntry(p) =< l
    BY <1>3, <2>2
  <2> QED
    BY <1>4, <1>5, <2>3
<1> QED
  BY <1>4, <1>5

-----------------------------------------------------------------------------
\* What fragments are made of.
LEMMA MessageParts ==
  ASSUME NEW m \in MsgIds
  PROVE  /\ m.from \in Peers /\ m.serial \in Nat /\ m.serial > 0
         /\ m.size \in 1..MaxChunks /\ m.size \in Nat
         /\ m.from # Starter
         /\ m.serial <= MsgLimit[m.from]
         /\ m = [from |-> m.from, serial |-> m.serial, size |-> m.size]
<1>1. PICK p \in Peers : m \in [from : {p}, serial : 1..MsgLimit[p], size : 1..MaxChunks]
  BY DEF MsgIds
<1>2. MsgLimit[p] \in Nat /\ MaxChunks \in Nat
  BY SpreadUtilAssumption
<1>3. m.from = p /\ m.serial \in 1..MsgLimit[p] /\ m.size \in 1..MaxChunks
  BY <1>1
<1>4. m = [from |-> m.from, serial |-> m.serial, size |-> m.size]
  BY <1>1
<1> QED
  BY <1>2, <1>3, <1>4, SpreadUtilAssumption

LEMMA MessageIsId ==
  ASSUME NEW p \in Peers, NEW s \in 1..MsgLimit[p], NEW n \in 1..MaxChunks
  PROVE  [from |-> p, serial |-> s, size |-> n] \in MsgIds
  BY DEF MsgIds

LEMMA FragmentKinds ==
  /\ StartSignal.kind = "start"
  /\ \A m : HeadOf(m).kind = "head" /\ HeadOf(m).id = m
  /\ \A m, i : Chunk(m, i).kind = "chunk" /\ Chunk(m, i).id = m /\ Chunk(m, i).idx = i
  BY DEF StartSignal, HeadOf, Chunk

LEMMA FragmentCases ==
  ASSUME NEW f \in Fragments
  PROVE  \/ f = StartSignal
         \/ \E m \in MsgIds : f = HeadOf(m)
         \/ \E m \in MsgIds : \E i \in 1..MaxChunks : f = Chunk(m, i)
  BY DEF Fragments

LEMMA FragIsFragment ==
  ASSUME NEW m \in MsgIds, NEW k \in 0..m.size
  PROVE  Frag(m, k) \in Fragments
<1>1. m.size \in 1..MaxChunks /\ MaxChunks \in Nat
  BY MessageParts, SpreadUtilAssumption
<1>2. k # 0 => k \in 1..MaxChunks
  BY <1>1
<1> QED
  BY <1>2 DEF Frag, Fragments

\* A fragment tells its message and its number.
LEMMA FragInjective ==
  ASSUME NEW m, NEW o, NEW k \in Nat, NEW l \in Nat, Frag(m, k) = Frag(o, l)
  PROVE  m = o /\ k = l
<1>1. k = 0 <=> l = 0
  <2>1. "head" # "chunk"
    OBVIOUS
  <2> QED
    BY <2>1, FragmentKinds DEF Frag
<1>2. CASE k = 0
  BY <1>1, <1>2, FragmentKinds DEF Frag
<1>3. CASE k # 0
  BY <1>1, <1>3, FragmentKinds DEF Frag
<1> QED
  BY <1>2, <1>3

\* What send_chunks is to send.
LEMMA FragmentedParts ==
  ASSUME NEW m \in MsgIds
  PROVE  /\ Payload(m) \in Seq(Fragments) /\ Len(Payload(m)) = m.size
         /\ Fragmented(m) \in Seq(Fragments)
         /\ Fragmented(m) = [j \in 1..m.size + 1 |-> Frag(m, j - 1)]
<1> DEFINE n == m.size
           whole == [j \in 1..n + 1 |-> Frag(m, j - 1)]
<1>1. n \in 1..MaxChunks /\ n \in Nat /\ MaxChunks \in Nat
  BY MessageParts, SpreadUtilAssumption
<1>2. Payload(m) = [i \in 1..n |-> Chunk(m, i)]
  BY DEF Payload
<1>3. \A i \in 1..n : Chunk(m, i) \in Fragments
  BY <1>1 DEF Fragments
<1>4. Payload(m) \in [1..n -> Fragments]
  BY <1>2, <1>3
<1>5. Payload(m) \in Seq(Fragments) /\ Len(Payload(m)) = n
  BY <1>1, <1>4, LenProperties
<1>6. HeadOf(m) \in Fragments
  BY DEF Fragments
<1>7. <<HeadOf(m)>> \in Seq(Fragments) /\ Len(<<HeadOf(m)>>) = 1 /\ <<HeadOf(m)>>[1] = HeadOf(m)
  BY <1>6
<1> DEFINE h == <<HeadOf(m)>>
           b == Payload(m)
<1>8. /\ h \in Seq(Fragments) /\ Len(h) = 1 /\ h[1] = HeadOf(m)
      /\ b \in Seq(Fragments) /\ Len(b) = n
      /\ \A i \in 1..n : b[i] = Chunk(m, i)
      /\ Fragmented(m) = h \o b
  BY <1>2, <1>5, <1>7 DEF Fragmented
<1> HIDE DEF h, b, n
<1>9. /\ h \o b \in Seq(Fragments) /\ Len(h \o b) = n + 1
      /\ \A i \in 1..n + 1 : (h \o b)[i] = IF i <= 1 THEN h[i] ELSE b[i - 1]
  <2>1. /\ h \o b \in Seq(Fragments) /\ Len(h \o b) = Len(h) + Len(b)
        /\ \A i \in 1..Len(h) + Len(b) : (h \o b)[i] = IF i <= Len(h) THEN h[i] ELSE b[i - Len(h)]
    BY <1>8, ConcatProperties
  <2>2. Len(h) + Len(b) = n + 1
    BY <1>1, <1>8
  <2> QED
    BY <1>8, <2>1, <2>2
<1>10. \A i \in 1..n + 1 : (h \o b)[i] = Frag(m, i - 1)
  <2> SUFFICES ASSUME NEW i \in 1..n + 1 PROVE (h \o b)[i] = Frag(m, i - 1)
    OBVIOUS
  <2>1. CASE i = 1
    BY <1>8, <1>9, <2>1 DEF Frag
  <2>2. CASE i # 1
    <3>1. i - 1 \in 1..n /\ ~(i <= 1) /\ i - 1 # 0
      BY <1>1, <2>2
    <3> QED
      BY <1>8, <1>9, <3>1 DEF Frag
  <2> QED
    BY <2>1, <2>2
<1>11. h \o b = whole
  <2>1. h \o b \in [1..n + 1 -> Fragments]
    BY <1>9, LenProperties
  <2> QED
    BY <1>10, <2>1
<1> QED
  BY <1>5, <1>8, <1>9, <1>11 DEF n

-----------------------------------------------------------------------------
\* Filing a fragment keeps the entry of sender_dict well-formed.
LEMMA ReassembledType ==
  ASSUME NEW e \in Entry, NEW f \in Fragments
  PROVE  Reassembled(e, f) \in Entry
<1>1. e.rem \in 0..MaxChunks /\ e.data \in Seq(Fragments) /\ MaxChunks \in Nat
  BY SpreadUtilAssumption DEF Entry
<1>2. CASE f.kind = "head"
  <2>1. PICK m \in MsgIds : f = HeadOf(m)
    BY <1>2, FragmentCases, FragmentKinds
  <2>2. f.id.size \in 0..MaxChunks
    BY <1>1, <2>1, FragmentKinds, MessageParts
  <2>3. <<>> \in Seq(Fragments)
    OBVIOUS
  <2> QED
    BY <1>2, <2>2, <2>3 DEF Reassembled, Entry
<1>3. CASE f.kind # "head" /\ e.rem = 0
  BY <1>3 DEF Reassembled
<1>4. CASE f.kind # "head" /\ e.rem # 0
  <2>1. e.rem - 1 \in 0..MaxChunks /\ Append(e.data, f) \in Seq(Fragments)
    BY <1>1, <1>4
  <2> QED
    BY <1>4, <2>1 DEF Reassembled, Entry
<1> QED
  BY <1>2, <1>3, <1>4

LEMMA EmptyEntryType == EmptyEntry \in Entry
<1>1. 0 \in 0..MaxChunks /\ <<>> \in Seq(Fragments)
  BY SpreadUtilAssumption
<1> QED
  BY <1>1 DEF EmptyEntry, Entry

\* What the type invariant says of the log and of one peer.
LEMMA TypeParts ==
  ASSUME TypeOK
  PROVE  /\ Len(log) \in Nat
         /\ \A i \in 1..Len(log) : log[i].from \in Senders /\ log[i].frag \in Fragments
         /\ \A p \in Peers : /\ cursor[p] \in Nat /\ cursor[p] <= Len(log)
                             /\ since[p] \in Nat /\ since[p] <= Len(log)
                             /\ outbox[p] \in Seq(Fragments)
                             /\ serial[p] \in Nat
                             /\ dict[p] \in [Senders -> Entry]
                             /\ queue[p] \in Seq(Seq(Fragments))
         /\ Cardinality(Peers) \in Nat
<1>1. log \in Seq([from : Senders, frag : Fragments])
  BY DEF TypeOK
<1>2. Len(log) \in Nat /\ \A i \in 1..Len(log) : log[i] \in [from : Senders, frag : Fragments]
  <2> DEFINE R == [from : Senders, frag : Fragments]
  <2>1. log \in Seq(R)
    BY <1>1
  <2> HIDE DEF R
  <2>2. Len(log) \in Nat /\ \A i \in 1..Len(log) : log[i] \in R
    BY <2>1
  <2> QED
    BY <2>2 DEF R
<1>3. \A p \in Peers : cursor[p] \in 0..Len(log) /\ since[p] \in 0..Len(log)
  BY DEF TypeOK
<1>4. \A p \in Peers : cursor[p] \in Nat /\ cursor[p] <= Len(log)
                       /\ since[p] \in Nat /\ since[p] <= Len(log)
  BY <1>2, <1>3
<1>5. Cardinality(Peers) \in Nat
  BY SpreadUtilAssumption, FS_CardinalityType
<1> QED
  BY <1>2, <1>4, <1>5 DEF TypeOK

\* The log grows by one fragment.
LEMMA AppendLog ==
  ASSUME TypeOK, NEW s \in Senders, NEW f \in Fragments,
         log' = Append(log, [from |-> s, frag |-> f])
  PROVE  /\ log' \in Seq([from : Senders, frag : Fragments])
         /\ Len(log') = Len(log) + 1
         /\ \A i \in 1..Len(log) : log'[i] = log[i]
         /\ log'[Len(log) + 1].from = s /\ log'[Len(log) + 1].frag = f
<1> DEFINE R == [from : Senders, frag : Fragments]
           e == [from |-> s, frag |-> f]
<1>1. log \in Seq(R) /\ e \in R /\ e.from = s /\ e.frag = f
  BY DEF TypeOK
<1> HIDE DEF R, e
<1>2. /\ Append(log, e) \in Seq(R) /\ Len(Append(log, e)) = Len(log) + 1
      /\ \A i \in 1..Len(log) : Append(log, e)[i] = log[i]
      /\ Append(log, e)[Len(log) + 1] = e
  BY <1>1, AppendProperties
<1> QED
  BY <1>1, <1>2 DEF R, e

-----------------------------------------------------------------------------
\* Type correctness: the variables of spread_util's peers keep their types, and
\* queue_cnt stays below the number of the other peers.
THEOREM TypeCorrect == Spec => []TypeOK
<1> USE SpreadUtilAssumption
<1>1. Init => TypeOK
  <2> SUFFICES ASSUME Init PROVE TypeOK
    OBVIOUS
  <2>1. log = <<>> /\ Len(log) = 0 /\ log \in Seq([from : Senders, frag : Fragments])
    BY DEF Init
  <2>2. 0 \in 0..(Cardinality(Peers) - 2)
    <3>1. Cardinality(Peers) \in Nat /\ Cardinality(Peers) >= 2
      BY FS_CardinalityType
    <3> QED
      BY <3>1
  <2> QED
    BY <2>1, <2>2, EmptyEntryType DEF Init, TypeOK, Phases
<1>2. TypeOK /\ [Next]_vars => TypeOK'
  <2> SUFFICES ASSUME TypeOK, [Next]_vars PROVE TypeOK'
    OBVIOUS
  <2>t. /\ Len(log) \in Nat
        /\ \A i \in 1..Len(log) : log[i].from \in Senders /\ log[i].frag \in Fragments
        /\ Cardinality(Peers) \in Nat /\ Cardinality(Peers) >= 2
    BY TypeParts
  \* A longer log.
  <2>g. ASSUME NEW s \in Senders, NEW f \in Fragments,
               log' = Append(log, [from |-> s, frag |-> f])
        PROVE  /\ log' \in Seq([from : Senders, frag : Fragments])
               /\ cursor \in [Peers -> 0..Len(log')] /\ since \in [Peers -> 0..Len(log')]
    <3>1. log' \in Seq([from : Senders, frag : Fragments]) /\ Len(log') = Len(log) + 1
      BY <2>g, AppendLog
    <3>2. 0..Len(log) \subseteq 0..Len(log')
      BY <2>t, <3>1
    <3> QED
      BY <3>1, <3>2 DEF TypeOK
  <2>1. CASE Start
    <3>1. Starter \in Senders /\ StartSignal \in Fragments
      BY DEF Senders, Fragments
    <3>2. /\ log' \in Seq([from : Senders, frag : Fragments])
          /\ cursor \in [Peers -> 0..Len(log')] /\ since \in [Peers -> 0..Len(log')]
      BY <2>1, <2>g, <3>1 DEF Start
    <3>3. starts' \in 0..MaxStarts
      BY <2>1 DEF Start, TypeOK
    <3> QED
      BY <2>1, <3>2, <3>3 DEF Start, TypeOK, procVars
  <2>2. ASSUME NEW p \in Peers, Launch(p) PROVE TypeOK'
    BY <2>2 DEF Launch, TypeOK, procVars, Phases
  <2>3. ASSUME NEW p \in Peers, Join(p) PROVE TypeOK'
    <3>1. Len(log) \in 0..Len(log)
      BY <2>t
    <3> QED
      BY <2>3, <3>1 DEF Join, TypeOK, procVars, Phases
  <2>4. ASSUME NEW p \in Peers, AwaitStart(p) PROVE TypeOK'
    <3> DEFINE i == NextEntry(p)
    <3>1. i \in 0..Len(log)
      <4>1. i \in 1..Len(log)
        BY <2>4, TypeParts, NextEntryIsFirst DEF AwaitStart
      <4> HIDE DEF i
      <4> QED
        BY <2>t, <4>1
    <3>2. /\ cursor' = [cursor EXCEPT ![p] = i]
          /\ \/ phase' = [phase EXCEPT ![p] = "listen"] /\ since' = [since EXCEPT ![p] = i]
             \/ phase' = [phase EXCEPT ![p] = "failed"] /\ UNCHANGED since
          /\ UNCHANGED <<log, outbox, dict, queue, queueCnt, rcvMsgNum, polled,
                         stopping, serial, starts, crashes>>
      BY <2>4 DEF AwaitStart
    <3> HIDE DEF i
    <3>3. /\ cursor' \in [Peers -> 0..Len(log)] /\ since' \in [Peers -> 0..Len(log)]
          /\ phase' \in [Peers -> Phases]
      <4>1. /\ cursor \in [Peers -> 0..Len(log)] /\ since \in [Peers -> 0..Len(log)]
            /\ phase \in [Peers -> Phases] /\ "listen" \in Phases /\ "failed" \in Phases
        BY DEF TypeOK, Phases
      <4> QED
        BY <3>1, <3>2, <4>1
    <3> QED
      BY <3>2, <3>3 DEF TypeOK
  <2>5. ASSUME NEW p \in Peers, NEW n \in 1..MaxChunks, SendChunks(p, n) PROVE TypeOK'
    <3> DEFINE m == [from |-> p, serial |-> serial[p] + 1, size |-> n]
    <3>1. serial[p] \in Nat /\ serial[p] < MsgLimit[p] /\ MsgLimit[p] \in Nat
      BY <2>5 DEF SendChunks, TypeOK
    <3>2. serial[p] + 1 \in 1..MsgLimit[p]
      BY <3>1
    <3>3. m \in MsgIds
      BY <3>2, MessageIsId
    <3>4. outbox' = [outbox EXCEPT ![p] = Fragmented(m)]
          /\ serial' = [serial EXCEPT ![p] = @ + 1]
          /\ UNCHANGED <<log, cursor, phase, since, dict, queue, queueCnt, rcvMsgNum,
                         polled, stopping, starts, crashes>>
      BY <2>5 DEF SendChunks
    <3> HIDE DEF m
    <3>5. Fragmented(m) \in Seq(Fragments)
      BY <3>3, FragmentedParts
    <3> QED
      BY <3>4, <3>5 DEF TypeOK
  <2>6. ASSUME NEW p \in Peers, Send(p) PROVE TypeOK'
    <3>1. outbox[p] \in Seq(Fragments) /\ outbox[p] # <<>> /\ p \in Senders
      BY <2>6 DEF Send, TypeOK, Senders
    <3>2. Head(outbox[p]) \in Fragments /\ Tail(outbox[p]) \in Seq(Fragments)
      BY <3>1
    <3>3. /\ log' \in Seq([from : Senders, frag : Fragments])
          /\ cursor \in [Peers -> 0..Len(log')] /\ since \in [Peers -> 0..Len(log')]
      BY <2>6, <2>g, <3>1, <3>2 DEF Send
    <3> QED
      BY <2>6, <3>2, <3>3 DEF Send, TypeOK
  \* recv_chunks returns: the count is back at zero.
  <2>7. ASSUME NEW p \in Peers, EndCycle(p)
        PROVE  queueCnt' \in [Peers -> 0..(Cardinality(Peers) - 2)] /\ phase' \in [Peers -> Phases]
    <3>1. 0 \in 0..(Cardinality(Peers) - 2)
      BY <2>t
    <3> QED
      BY <2>7, <3>1 DEF EndCycle, TypeOK, Phases
  <2>8. ASSUME NEW p \in Peers, Receive(p) PROVE TypeOK'
    <3> DEFINE i == NextEntry(p)
               s == log[i].from
               f == log[i].frag
               e == Reassembled(dict[p][s], f)
    <3>1. i \in 1..Len(log)
      BY <2>8, TypeParts, NextEntryIsFirst DEF Receive
    <3>2. s \in Senders /\ f \in Fragments /\ dict[p][s] \in Entry
      <4> HIDE DEF i
      <4> QED
        BY <2>t, <3>1, TypeParts
    <3>3. e \in Entry
      BY <3>2, ReassembledType
    <3>4. e.data \in Seq(Fragments)
      <4> HIDE DEF e
      <4> QED
        BY <3>3 DEF Entry
    <3>5. /\ cursor' = [cursor EXCEPT ![p] = i]
          /\ polled' = [polled EXCEPT ![p] = FALSE]
          /\ rcvMsgNum' = [rcvMsgNum EXCEPT ![p] = @ + 1]
          /\ UNCHANGED <<log, since, outbox, stopping, serial, starts, crashes>>
      BY <2>8 DEF Receive
    <3>6. /\ queue' \in {queue, [queue EXCEPT ![p] = Append(@, e.data)]}
          /\ dict' \in {[dict EXCEPT ![p][s] = EmptyEntry], [dict EXCEPT ![p][s] = e]}
          /\ \/ EndCycle(p)
             \/ UNCHANGED <<queueCnt, phase>>
             \/ /\ queueCnt[p] + 1 < Cardinality(Peers) - 1
                /\ queueCnt' = [queueCnt EXCEPT ![p] = @ + 1] /\ UNCHANGED phase
      BY <2>8 DEF Receive, FiledUnder
    <3> HIDE DEF s, f, e
    <3>7. queue' \in [Peers -> Seq(Seq(Fragments))]
      <4>1. queue[p] \in Seq(Seq(Fragments)) /\ queue \in [Peers -> Seq(Seq(Fragments))]
        BY DEF TypeOK
      <4>2. Append(queue[p], e.data) \in Seq(Seq(Fragments))
        BY <3>4, <4>1
      <4> QED
        BY <3>6, <4>1, <4>2
    <3>8. dict' \in [Peers -> [Senders -> Entry]]
      <4>1. dict \in [Peers -> [Senders -> Entry]]
        BY DEF TypeOK
      <4>2. ASSUME NEW x \in Entry
            PROVE  [dict EXCEPT ![p][s] = x] \in [Peers -> [Senders -> Entry]]
        <5>1. [dict[p] EXCEPT ![s] = x] \in [Senders -> Entry]
          BY <3>2, <4>1
        <5> QED
          BY <4>1, <5>1
      <4> QED
        BY <3>3, <3>6, <4>2, EmptyEntryType
    <3>9. queueCnt' \in [Peers -> 0..(Cardinality(Peers) - 2)] /\ phase' \in [Peers -> Phases]
      <4>1. queueCnt \in [Peers -> 0..(Cardinality(Peers) - 2)] /\ phase \in [Peers -> Phases]
        BY DEF TypeOK
      <4>2. queueCnt[p] + 1 < Cardinality(Peers) - 1
              => queueCnt[p] + 1 \in 0..(Cardinality(Peers) - 2)
        <5>1. queueCnt[p] \in 0..(Cardinality(Peers) - 2)
          BY <4>1
        <5> DEFINE c == Cardinality(Peers)
                   q == queueCnt[p]
        <5>2. c \in Nat /\ q \in 0..(c - 2)
          BY <2>t, <5>1
        <5> HIDE DEF c, q
        <5>3. q + 1 < c - 1 => q + 1 \in 0..(c - 2)
          BY <5>2
        <5> QED
          BY <5>3 DEF c, q
      <4> QED
        BY <2>7, <3>6, <4>1, <4>2
    <3>10. i \in 0..Len(log)
      <4> HIDE DEF i
      <4> QED
        BY <2>t, <3>1
    <3> HIDE DEF i
    <3>11. /\ cursor' \in [Peers -> 0..Len(log)]
           /\ polled' \in [Peers -> BOOLEAN]
           /\ rcvMsgNum' \in [Peers -> Nat]
      BY <3>5, <3>10 DEF TypeOK
    <3> QED
      BY <3>5, <3>7, <3>8, <3>9, <3>11 DEF TypeOK
  <2>9. ASSUME NEW p \in Peers, Poll(p) PROVE TypeOK'
    BY <2>9 DEF Poll, TypeOK
  <2>10. ASSUME NEW p \in Peers, Timeout(p) PROVE TypeOK'
    BY <2>7, <2>10 DEF Timeout, TypeOK
  <2>11. ASSUME NEW p \in Peers, Stop(p) PROVE TypeOK'
    BY <2>11 DEF Stop, TypeOK
  <2>12. ASSUME NEW p \in Peers, Crash(p) PROVE TypeOK'
    <3>1. 0 \in 0..(Cardinality(Peers) - 2) /\ 0 \in 0..Len(log)
      BY <2>t
    <3>2. crashes' \in 0..MaxCrashes
      BY <2>12 DEF Crash, TypeOK
    <3>3. dict' \in [Peers -> [Senders -> Entry]] /\ queue' \in [Peers -> Seq(Seq(Fragments))]
          /\ outbox' \in [Peers -> Seq(Fragments)]
      BY <2>12, EmptyEntryType DEF Crash, TypeOK
    <3>4. /\ since' \in [Peers -> 0..Len(log)]
          /\ queueCnt' \in [Peers -> 0..(Cardinality(Peers) - 2)]
          /\ rcvMsgNum' \in [Peers -> Nat] /\ polled' \in [Peers -> BOOLEAN]
          /\ stopping' \in [Peers -> BOOLEAN] /\ phase' \in [Peers -> Phases]
      BY <2>12, <3>1 DEF Crash, TypeOK, Phases
    <3> QED
      BY <2>12, <3>2, <3>3, <3>4 DEF Crash, TypeOK
  <2>13. CASE UNCHANGED vars
    BY <2>13 DEF vars, procVars, TypeOK
  <2> QED
    BY <2>1, <2>2, <2>3, <2>4, <2>5, <2>6, <2>8, <2>9, <2>10, <2>11, <2>12, <2>13 DEF Next
<1> QED
  BY <1>1, <1>2, PTL DEF Spec

-----------------------------------------------------------------------------
(***************************************************************************)
(* The order of the ring. Whatever the programs do, the entries of one     *)
(* sender are heads and chunks in their order, for nobody else sends under *)
(* its name and a killed program begins with a new message.                *)
(***************************************************************************)

\* Entry j is the last one of sender s among the first c.
LastOf(s, j, c) ==
  j \in 1..c /\ log[j].from = s /\ \A l \in j + 1..c : log[l].from # s

\* A head comes from its message's sender, and only once.
LogHeads ==
  \A h \in 1..Len(log), m \in MsgIds : log[h].frag = HeadOf(m) =>
    /\ log[h].from = m.from /\ m.serial <= serial[m.from]
    /\ \A g \in 1..Len(log), o \in MsgIds :
         log[g].frag = HeadOf(o) /\ o.from = m.from /\ o.serial = m.serial => g = h

\* A chunk comes right behind the fragment before it of its message.
LogChunks ==
  \A i \in 1..Len(log), m \in MsgIds, k \in 1..MaxChunks : log[i].frag = Chunk(m, k) =>
    /\ log[i].from = m.from /\ k <= m.size
    /\ \E h \in 1..i - 1 : log[h].frag = HeadOf(m)
    /\ \E j \in 1..i - 1 : log[j].frag = Frag(m, k - 1) /\ LastOf(m.from, j, i - 1)

\* Nobody else sends START.
LogStarts == \A i \in 1..Len(log) : log[i].frag = StartSignal => log[i].from = Starter

\* What send_chunks of p has yet to send are the fragments from number k on of
\* p's newest message, and fragment k - 1 is the last of p in the log.
Sending(p, m, k) ==
  /\ m.from = p /\ m.serial = serial[p]
  /\ outbox[p] = [j \in 1..m.size + 1 - k |-> Frag(m, k + j - 1)]
  /\ k = 0 => \A h \in 1..Len(log), o \in MsgIds :
                log[h].frag = HeadOf(o) /\ o.from = p => o.serial < serial[p]
  /\ k # 0 => /\ \E h \in 1..Len(log) : log[h].frag = HeadOf(m)
              /\ \E j \in 1..Len(log) : LastOf(p, j, Len(log)) /\ log[j].frag = Frag(m, k - 1)

Outboxes ==
  \A p \in Peers : outbox[p] # <<>> => \E m \in MsgIds : \E k \in 0..m.size : Sending(p, m, k)

LogInv == LogHeads /\ LogChunks /\ LogStarts /\ Outboxes

-----------------------------------------------------------------------------
\* Where a message begins in the log.
LEMMA HeadIndexValue ==
  ASSUME LogHeads, NEW m \in MsgIds, NEW h \in 1..Len(log), log[h].frag = HeadOf(m)
  PROVE  HeadIndex(m) = h
<1>1. ASSUME NEW g \in 1..Len(log), log[g].frag = HeadOf(m) PROVE g = h
  BY <1>1 DEF LogHeads
<1> QED
  BY <1>1 DEF HeadIndex

\* Every fragment in the log comes from the sender of its message, not before
\* the head.
LEMMA FragInLog ==
  ASSUME TypeOK, LogInv, NEW m \in MsgIds, NEW k \in 0..m.size,
         NEW i \in 1..Len(log), log[i].frag = Frag(m, k)
  PROVE  /\ log[i].from = m.from
         /\ HeadIndex(m) \in 1..i /\ log[HeadIndex(m)].frag = HeadOf(m)
<1>0. Len(log) \in Nat /\ m.size \in 1..MaxChunks /\ MaxChunks \in Nat /\ i \in Nat
  BY TypeParts, MessageParts, SpreadUtilAssumption
<1>1. CASE k = 0
  <2>1. log[i].frag = HeadOf(m)
    BY <1>1 DEF Frag
  <2>2. HeadIndex(m) = i
    BY <2>1, HeadIndexValue DEF LogInv
  <2>3. log[i].from = m.from
    BY <2>1 DEF LogInv, LogHeads
  <2> QED
    BY <1>0, <2>1, <2>2, <2>3
<1>2. CASE k # 0
  <2>1. k \in 1..MaxChunks /\ log[i].frag = Chunk(m, k)
    BY <1>0, <1>2 DEF Frag
  <2>2. log[i].from = m.from /\ \E h \in 1..i - 1 : log[h].frag = HeadOf(m)
    BY <2>1 DEF LogInv, LogChunks
  <2>3. PICK h \in 1..i - 1 : log[h].frag = HeadOf(m)
    BY <2>2
  <2>4. h \in 1..Len(log) /\ h \in 1..i
    BY <1>0
  <2>5. HeadIndex(m) = h
    BY <2>3, <2>4, HeadIndexValue DEF LogInv
  <2> QED
    BY <2>2, <2>3, <2>4, <2>5
<1> QED
  BY <1>1, <1>2

\* A longer log says the same of its beginning.
LEMMA LastOfKept ==
  ASSUME TypeOK, NEW n \in Nat, n = Len(log),
         \A l \in 1..n : log'[l] = log[l]
  PROVE  \A s : \A j, c \in Nat : c <= n => (LastOf(s, j, c)' <=> LastOf(s, j, c))
<1> SUFFICES ASSUME NEW s, NEW j \in Nat, NEW c \in Nat, c <= n
             PROVE  LastOf(s, j, c)' <=> LastOf(s, j, c)
  OBVIOUS
<1>1. j \in 1..c => log'[j] = log[j]
  OBVIOUS
<1>2. j \in 1..c => \A l \in j + 1..c : log'[l] = log[l]
  OBVIOUS
<1> QED
  BY <1>1, <1>2 DEF LastOf

-----------------------------------------------------------------------------
\* A new entry that is no second head keeps the heads apart.
LEMMA AppendHeads ==
  ASSUME TypeOK, LogHeads, NEW s \in Senders, NEW f \in Fragments,
         log' = Append(log, [from |-> s, frag |-> f]), serial' = serial,
         \A m \in MsgIds : f = HeadOf(m) =>
           /\ s = m.from /\ m.serial <= serial[m.from]
           /\ \A h \in 1..Len(log), o \in MsgIds :
                log[h].frag = HeadOf(o) /\ o.from = m.from => o.serial # m.serial
  PROVE  LogHeads'
<1> DEFINE n == Len(log)
<1>1. /\ n \in Nat /\ Len(log') = n + 1
      /\ \A i \in 1..n : log'[i] = log[i]
      /\ log'[n + 1].from = s /\ log'[n + 1].frag = f
  BY AppendLog, TypeParts
<1> HIDE DEF n
<1>2. SUFFICES ASSUME NEW h \in 1..n + 1, NEW m \in MsgIds, log'[h].frag = HeadOf(m)
               PROVE  /\ log'[h].from = m.from /\ m.serial <= serial[m.from]
                      /\ \A g \in 1..n + 1, o \in MsgIds :
                           log'[g].frag = HeadOf(o) /\ o.from = m.from /\ o.serial = m.serial
                             => g = h
  BY <1>1 DEF LogHeads
<1>3. log'[h].from = m.from /\ m.serial <= serial[m.from]
  <2>1. CASE h = n + 1
    BY <1>1, <1>2, <2>1
  <2>2. CASE h # n + 1
    <3>1. h \in 1..n
      BY <1>1, <2>2
    <3> QED
      BY <1>1, <1>2, <3>1 DEF LogHeads, n
  <2> QED
    BY <2>1, <2>2
<1>4. ASSUME NEW g \in 1..n + 1, NEW o \in MsgIds,
             log'[g].frag = HeadOf(o), o.from = m.from, o.serial = m.serial
      PROVE  g = h
  <2>1. CASE h \in 1..n /\ g \in 1..n
    BY <1>1, <1>2, <1>4, <2>1 DEF LogHeads, n
  <2>2. CASE h = n + 1 /\ g \in 1..n
    BY <1>1, <1>2, <1>4, <2>2 DEF n
  <2>3. CASE h \in 1..n /\ g = n + 1
    <3>1. log[h].frag = HeadOf(m) /\ f = HeadOf(o)
      BY <1>1, <1>2, <1>4, <2>3
    <3> QED
      BY <1>4, <2>3, <3>1 DEF n
  <2>4. CASE h = n + 1 /\ g = n + 1
    BY <2>4
  <2>5. (h \in 1..n \/ h = n + 1) /\ (g \in 1..n \/ g = n + 1)
    BY <1>1
  <2> QED
    BY <2>1, <2>2, <2>3, <2>4, <2>5
<1> QED
  BY <1>3, <1>4

\* A new entry that is the next fragment of its message keeps the chunks behind
\* one another.
LEMMA AppendChunks ==
  ASSUME TypeOK, LogChunks, NEW s \in Senders, NEW f \in Fragments,
         log' = Append(log, [from |-> s, frag |-> f]),
         \A m \in MsgIds, k \in 1..MaxChunks : f = Chunk(m, k) =>
           /\ s = m.from /\ k <= m.size
           /\ \E h \in 1..Len(log) : log[h].frag = HeadOf(m)
           /\ \E j \in 1..Len(log) : log[j].frag = Frag(m, k - 1) /\ LastOf(m.from, j, Len(log))
  PROVE  LogChunks'
<1> DEFINE n == Len(log)
<1>1. /\ n \in Nat /\ Len(log') = n + 1
      /\ \A i \in 1..n : log'[i] = log[i]
      /\ log'[n + 1].from = s /\ log'[n + 1].frag = f
  BY AppendLog, TypeParts
<1>2. \A a : \A j, c \in Nat : c <= n => (LastOf(a, j, c)' <=> LastOf(a, j, c))
  BY <1>1, LastOfKept
<1>3. SUFFICES ASSUME NEW i \in 1..n + 1, NEW m \in MsgIds, NEW k \in 1..MaxChunks,
                      log'[i].frag = Chunk(m, k)
               PROVE  /\ log'[i].from = m.from /\ k <= m.size
                      /\ \E h \in 1..i - 1 : log'[h].frag = HeadOf(m)
                      /\ \E j \in 1..i - 1 : log'[j].frag = Frag(m, k - 1)
                                             /\ LastOf(m.from, j, i - 1)'
  BY <1>1 DEF LogChunks
<1>4. CASE i \in 1..n
  <2>1. log[i].frag = Chunk(m, k) /\ log'[i] = log[i]
    BY <1>1, <1>3, <1>4
  <2>2. log[i].from = m.from /\ k <= m.size
    BY <1>4, <2>1 DEF LogChunks
  <2>3. PICK h \in 1..i - 1 : log[h].frag = HeadOf(m)
    BY <1>4, <2>1 DEF LogChunks
  <2>4. PICK j \in 1..i - 1 : log[j].frag = Frag(m, k - 1) /\ LastOf(m.from, j, i - 1)
    BY <1>4, <2>1 DEF LogChunks
  <2> HIDE DEF n
  <2>5. h \in 1..n /\ j \in 1..n /\ j \in Nat /\ i - 1 \in Nat /\ i - 1 <= n
    BY <1>1, <1>4
  <2> QED
    BY <1>1, <1>2, <2>1, <2>2, <2>3, <2>4, <2>5
<1>5. CASE i = n + 1
  <2>1. f = Chunk(m, k) /\ log'[i].from = s
    BY <1>1, <1>3, <1>5
  <2>2. PICK h \in 1..n : log[h].frag = HeadOf(m)
    BY <2>1
  <2>3. PICK j \in 1..n : log[j].frag = Frag(m, k - 1) /\ LastOf(m.from, j, n)
    BY <2>1
  <2>4. s = m.from /\ k <= m.size
    BY <2>1
  <2> HIDE DEF n
  <2>5. i - 1 = n /\ j \in Nat /\ n <= n
    BY <1>1, <1>5
  <2> QED
    BY <1>1, <1>2, <2>1, <2>2, <2>3, <2>4, <2>5
<1> QED
  BY <1>1, <1>4, <1>5

\* A new entry of somebody else leaves the sending of p as it is.
LEMMA AppendSending ==
  ASSUME TypeOK, NEW p \in Peers, NEW m \in MsgIds, NEW k \in 0..m.size, Sending(p, m, k),
         NEW s \in Senders \ {p}, NEW f \in Fragments,
         log' = Append(log, [from |-> s, frag |-> f]),
         serial'[p] = serial[p], outbox'[p] = outbox[p],
         \A o \in MsgIds : f = HeadOf(o) => o.from = s
  PROVE  Sending(p, m, k)'
<1>0. PICK n : n = Len(log)
  OBVIOUS
<1>1. /\ n \in Nat /\ Len(log') = n + 1
      /\ \A i \in 1..n : log'[i] = log[i]
      /\ log'[n + 1].from = s /\ log'[n + 1].frag = f
  BY <1>0, AppendLog, TypeParts
<1>2. \A i \in 1..n + 1 : i \in 1..n \/ i = n + 1
  BY <1>1
<1>3. k = 0 => \A h \in 1..n + 1, o \in MsgIds :
                 log'[h].frag = HeadOf(o) /\ o.from = p => o.serial < serial[p]
  <2> SUFFICES ASSUME k = 0, NEW h \in 1..n + 1, NEW o \in MsgIds,
                      log'[h].frag = HeadOf(o), o.from = p
               PROVE  o.serial < serial[p]
    OBVIOUS
  <2>1. CASE h \in 1..n
    BY <1>0, <1>1, <2>1 DEF Sending
  <2>2. CASE h = n + 1
    BY <1>1, <2>2
  <2> QED
    BY <1>2, <2>1, <2>2
<1>4. ASSUME k # 0
      PROVE  /\ \E h \in 1..n + 1 : log'[h].frag = HeadOf(m)
             /\ \E j \in 1..n + 1 : /\ log'[j].from = p
                                    /\ \A l \in j + 1..n + 1 : log'[l].from # p
                                    /\ log'[j].frag = Frag(m, k - 1)
  <2>1. PICK h \in 1..n : log[h].frag = HeadOf(m)
    BY <1>0, <1>4 DEF Sending
  <2>2. PICK j \in 1..n : LastOf(p, j, n) /\ log[j].frag = Frag(m, k - 1)
    BY <1>0, <1>4 DEF Sending
  <2>3. h \in 1..n + 1 /\ j \in 1..n + 1
    BY <1>1
  <2>4. \A l \in j + 1..n + 1 : log'[l].from # p
    <3> SUFFICES ASSUME NEW l \in j + 1..n + 1 PROVE log'[l].from # p
      OBVIOUS
    <3>1. CASE l \in j + 1..n
      BY <1>1, <2>2, <3>1 DEF LastOf
    <3>2. CASE l = n + 1
      BY <1>1, <3>2
    <3> QED
      BY <1>1, <3>1, <3>2
  <2>5. log'[j].from = p
    BY <1>1, <2>2 DEF LastOf
  <2> QED
    BY <1>1, <2>1, <2>2, <2>3, <2>4, <2>5
<1>5. Len(log') = n + 1
  BY <1>1
<1>6. k = 0 => \A h \in 1..Len(log'), o \in MsgIds :
                 log'[h].frag = HeadOf(o) /\ o.from = p => o.serial < serial'[p]
  BY <1>3, <1>5
<1>7. k # 0 => /\ \E h \in 1..Len(log') : log'[h].frag = HeadOf(m)
               /\ \E j \in 1..Len(log') : /\ j \in 1..Len(log') /\ log'[j].from = p
                                          /\ \A l \in j + 1..Len(log') : log'[l].from # p
                                          /\ log'[j].frag = Frag(m, k - 1)
  BY <1>4, <1>5
<1>8. m.from = p /\ m.serial = serial'[p]
      /\ outbox'[p] = [j \in 1..m.size + 1 - k |-> Frag(m, k + j - 1)]
  BY DEF Sending
<1> QED
  BY <1>6, <1>7, <1>8 DEF Sending, LastOf

-----------------------------------------------------------------------------
\* start_spread.py sends its signal.
LEMMA StartLog ==
  ASSUME TypeOK, LogInv, Start
  PROVE  LogInv'
<1>1. /\ log' = Append(log, [from |-> Starter, frag |-> StartSignal])
      /\ UNCHANGED <<serial, outbox>>
      /\ Starter \in Senders /\ StartSignal \in Fragments
  BY DEF Start, procVars, Senders, Fragments
<1>2. /\ \A m : StartSignal # HeadOf(m)
      /\ \A m, k : StartSignal # Chunk(m, k)
  <2>1. "start" # "head" /\ "start" # "chunk"
    OBVIOUS
  <2> QED
    BY <2>1, FragmentKinds
<1>3. LogHeads'
  BY <1>1, <1>2, AppendHeads DEF LogInv
<1>4. LogChunks'
  BY <1>1, <1>2, AppendChunks DEF LogInv
<1>5. LogStarts'
  BY <1>1, AppendLog, TypeParts DEF LogInv, LogStarts
<1>6. Outboxes'
  <2> SUFFICES ASSUME NEW p \in Peers, outbox'[p] # <<>>
               PROVE  \E m \in MsgIds : \E k \in 0..m.size : Sending(p, m, k)'
    BY DEF Outboxes
  <2>1. PICK m \in MsgIds : \E k \in 0..m.size : Sending(p, m, k)
    BY <1>1 DEF LogInv, Outboxes
  <2>2. PICK k \in 0..m.size : Sending(p, m, k)
    BY <2>1
  <2>3. Starter \in Senders \ {p}
    BY <1>1, SpreadUtilAssumption
  <2>4. Sending(p, m, k)'
    BY <1>1, <1>2, <2>2, <2>3, AppendSending
  <2> QED
    BY <2>4
<1> QED
  BY <1>3, <1>4, <1>5, <1>6 DEF LogInv

\* send_chunks begins with a new message.
LEMMA SameLog ==
  ASSUME LogInv, log' = log
  PROVE  LogChunks' /\ LogStarts'
<1>1. \A s, j, c : LastOf(s, j, c)' <=> LastOf(s, j, c)
  BY DEF LastOf
<1>2. LogChunks'
  BY <1>1 DEF LogInv, LogChunks
<1>3. LogStarts'
  BY DEF LogInv, LogStarts
<1> QED
  BY <1>2, <1>3

LEMMA SendChunksLog ==
  ASSUME TypeOK, LogInv, NEW p \in Peers, NEW n \in 1..MaxChunks, SendChunks(p, n)
  PROVE  LogInv'
<1> DEFINE new == [from |-> p, serial |-> serial[p] + 1, size |-> n]
<1>1. /\ serial \in [Peers -> Nat] /\ outbox \in [Peers -> Seq(Fragments)]
      /\ serial[p] \in Nat /\ serial[p] < MsgLimit[p] /\ MsgLimit[p] \in Nat
      /\ serial' = [serial EXCEPT ![p] = serial[p] + 1]
      /\ outbox' = [outbox EXCEPT ![p] = Fragmented(new)]
      /\ UNCHANGED log
  BY SpreadUtilAssumption DEF SendChunks, TypeOK
<1>2. new \in MsgIds /\ new.from = p /\ new.serial = serial[p] + 1
  <2>1. serial[p] + 1 \in 1..MsgLimit[p]
    BY <1>1
  <2> QED
    BY <2>1, MessageIsId
<1> HIDE DEF new
<1>3. \A q \in Peers : serial'[q] \in Nat /\ serial[q] \in Nat /\ serial[q] <= serial'[q]
  BY <1>1
<1>4. serial'[p] = serial[p] + 1 /\ outbox'[p] = Fragmented(new)
      /\ \A q \in Peers : q # p => serial'[q] = serial[q] /\ outbox'[q] = outbox[q]
  BY <1>1
<1>5. LogHeads'
  <2>1. \A m \in MsgIds : m.serial <= serial[m.from] => m.serial <= serial'[m.from]
    BY <1>3, MessageParts
  <2> QED
    BY <1>1, <2>1 DEF LogInv, LogHeads
<1>6. LogChunks' /\ LogStarts'
  <2>1. log' = log
    BY <1>1
  <2> QED
    BY <2>1, SameLog
<1>7. ASSUME NEW q \in Peers, outbox'[q] # <<>>
      PROVE  \E m \in MsgIds : \E k \in 0..m.size : Sending(q, m, k)'
  <2>1. CASE q = p
    <3>1. \A h \in 1..Len(log), o \in MsgIds :
            log[h].frag = HeadOf(o) /\ o.from = p => o.serial < serial'[p]
      <4> SUFFICES ASSUME NEW h \in 1..Len(log), NEW o \in MsgIds,
                          log[h].frag = HeadOf(o), o.from = p
                   PROVE  o.serial < serial'[p]
        OBVIOUS
      <4>1. o.serial <= serial[p]
        BY DEF LogInv, LogHeads
      <4>2. o.serial \in Nat
        BY MessageParts
      <4> QED
        BY <1>1, <1>4, <4>1, <4>2
    <3>2. new.size \in Nat /\ 0 \in 0..new.size
      BY <1>2, MessageParts
    <3>3. Fragmented(new) = [j \in 1..new.size + 1 - 0 |-> Frag(new, 0 + j - 1)]
      <4>1. Fragmented(new) = [j \in 1..new.size + 1 |-> Frag(new, j - 1)]
        BY <1>2, FragmentedParts
      <4>2. new.size + 1 - 0 = new.size + 1 /\ \A j \in 1..new.size + 1 : 0 + j - 1 = j - 1
        BY <3>2
      <4> QED
        BY <4>1, <4>2
    <3>4. PICK m \in MsgIds : m = new
      BY <1>2
    <3>5. Sending(p, m, 0)'
      BY <1>1, <1>2, <1>4, <3>1, <3>3, <3>4 DEF Sending
    <3> QED
      BY <2>1, <3>2, <3>4, <3>5
  <2>2. CASE q # p
    <3>1. PICK m \in MsgIds : \E k \in 0..m.size : Sending(q, m, k)
      BY <1>4, <1>7, <2>2 DEF LogInv, Outboxes
    <3>2. PICK k \in 0..m.size : Sending(q, m, k)
      BY <3>1
    <3>3. Sending(q, m, k)'
      BY <1>1, <1>4, <2>2, <3>2 DEF Sending, LastOf
    <3> QED
      BY <3>3
  <2> QED
    BY <2>1, <2>2
<1> QED
  BY <1>5, <1>6, <1>7 DEF LogInv, Outboxes

\* The next fragment gets its place in the order of the ring.
LEMMA SendLog ==
  ASSUME TypeOK, LogInv, NEW p \in Peers, Send(p)
  PROVE  LogInv'
<1>1. /\ outbox[p] # <<>> /\ outbox[p] \in Seq(Fragments) /\ p \in Senders
      /\ outbox \in [Peers -> Seq(Fragments)]
      /\ log' = Append(log, [from |-> p, frag |-> Head(outbox[p])])
      /\ outbox' = [outbox EXCEPT ![p] = Tail(outbox[p])]
      /\ serial' = serial
  BY DEF Send, TypeOK, Senders
<1>2. PICK m \in MsgIds : \E k \in 0..m.size : Sending(p, m, k)
  BY <1>1 DEF LogInv, Outboxes
<1>3. PICK k \in 0..m.size : Sending(p, m, k)
  BY <1>2
<1>4. m.size \in 1..MaxChunks /\ m.size \in Nat /\ MaxChunks \in Nat /\ k \in Nat /\ k <= m.size
  BY MessageParts, SpreadUtilAssumption
<1> DEFINE left == m.size + 1 - k
<1>5. /\ left \in Nat /\ left >= 1
      /\ outbox[p] = [j \in 1..left |-> Frag(m, k + j - 1)]
  BY <1>3, <1>4 DEF Sending
<1>6. /\ Head(outbox[p]) = Frag(m, k)
      /\ Tail(outbox[p]) \in Seq(Fragments)
      /\ Len(Tail(outbox[p])) = left - 1
      /\ \A j \in 1..left - 1 : Tail(outbox[p])[j] = Frag(m, (k + 1) + j - 1)
  <2> DEFINE o == outbox[p]
  <2>1. o \in Seq(Fragments) /\ o # <<>> /\ o = [j \in 1..left |-> Frag(m, k + j - 1)]
    BY <1>1, <1>5
  <2>2. Len(o) = left
    <3> HIDE DEF o, left
    <3>1. o \in [1..Len(o) -> Fragments] /\ Len(o) \in Nat
      BY <2>1, LenProperties
    <3>2. DOMAIN o = 1..Len(o) /\ DOMAIN o = 1..left
      BY <2>1, <3>1
    <3>3. 1..Len(o) = 1..left
      BY <3>2
    <3> QED
      BY <1>5, <2>1, <3>1, <3>3, LenProperties
  <2> HIDE DEF o, left
  <2>3. /\ Head(o) = o[1] /\ Tail(o) \in Seq(Fragments) /\ Len(Tail(o)) = Len(o) - 1
        /\ \A j \in 1..Len(Tail(o)) : Tail(o)[j] = o[j + 1]
    <3>1. o \in Seq(Fragments) /\ o # <<>>
      BY <2>1
    <3>2. /\ Head(o) \in Fragments /\ Tail(o) \in Seq(Fragments) /\ Len(Tail(o)) = Len(o) - 1
          /\ \A j \in 1..Len(Tail(o)) : Tail(o)[j] = o[j + 1]
      BY <3>1, HeadTailProperties
    <3>3. Head(o) = o[1]
      BY <3>1
    <3> QED
      BY <3>2, <3>3
  <2>4. o[1] = Frag(m, k)
    <3>1. 1 \in 1..left /\ k + 1 - 1 = k
      BY <1>4, <1>5
    <3> QED
      BY <2>1, <3>1
  <2>5. ASSUME NEW j \in 1..left - 1 PROVE Tail(o)[j] = Frag(m, (k + 1) + j - 1)
    <3>1. j + 1 \in 1..left /\ k + (j + 1) - 1 = (k + 1) + j - 1
      BY <1>4, <1>5
    <3>2. Tail(o)[j] = o[j + 1]
      BY <2>2, <2>3
    <3> QED
      BY <2>1, <3>1, <3>2
  <2> QED
    BY <2>2, <2>3, <2>4, <2>5 DEF o
<1>7. Frag(m, k) \in Fragments /\ log' = Append(log, [from |-> p, frag |-> Frag(m, k)])
  BY <1>1, <1>6, FragIsFragment
<1>8. m.from = p /\ m.serial = serial[p]
  BY <1>3 DEF Sending
<1>9. \A o : Frag(m, k) = HeadOf(o) => o = m /\ k = 0
  <2> SUFFICES ASSUME NEW o, Frag(m, k) = HeadOf(o) PROVE o = m /\ k = 0
    OBVIOUS
  <2>1. Frag(o, 0) = HeadOf(o)
    BY DEF Frag
  <2> QED
    BY <1>4, <2>1, FragInjective
<1>10. \A o, l : Frag(m, k) = Chunk(o, l) => o = m /\ k = l /\ k # 0
  <2> SUFFICES ASSUME NEW o, NEW l, Frag(m, k) = Chunk(o, l) PROVE o = m /\ k = l /\ k # 0
    OBVIOUS
  <2>1. "head" # "chunk"
    OBVIOUS
  <2>2. k # 0
    BY <2>1, FragmentKinds DEF Frag
  <2> QED
    BY <2>2, FragmentKinds DEF Frag
<1>11. LogHeads'
  <2>1. ASSUME k = 0
        PROVE  /\ m.serial <= serial[m.from]
               /\ \A h \in 1..Len(log), o \in MsgIds :
                    log[h].frag = HeadOf(o) /\ o.from = m.from => o.serial # m.serial
    <3>1. m.serial \in Nat
      BY MessageParts
    <3>2. \A h \in 1..Len(log), o \in MsgIds :
            log[h].frag = HeadOf(o) /\ o.from = p => o.serial < serial[p]
      BY <1>3, <2>1 DEF Sending
    <3>3. \A o \in MsgIds : o.serial \in Nat
      BY MessageParts
    <3> QED
      BY <1>8, <3>1, <3>2, <3>3
  <2> QED
    BY <1>1, <1>7, <1>8, <1>9, <2>1, AppendHeads DEF LogInv
<1>12. LogChunks'
  <2>1. k # 0 => /\ \E h \in 1..Len(log) : log[h].frag = HeadOf(m)
                 /\ \E j \in 1..Len(log) : log[j].frag = Frag(m, k - 1) /\ LastOf(m.from, j, Len(log))
    BY <1>3, <1>8 DEF Sending
  <2> QED
    BY <1>1, <1>4, <1>7, <1>8, <1>10, <2>1, AppendChunks DEF LogInv
<1>13. LogStarts'
  <2>1. Frag(m, k) # StartSignal
    <3>1. "start" # "head" /\ "start" # "chunk"
      OBVIOUS
    <3> QED
      BY <3>1, FragmentKinds DEF Frag
  <2> QED
    BY <1>1, <1>7, <2>1, AppendLog, TypeParts DEF LogInv, LogStarts
<1>14. ASSUME NEW q \in Peers, outbox'[q] # <<>>
       PROVE  \E o \in MsgIds : \E l \in 0..o.size : Sending(q, o, l)'
  <2>1. CASE q = p
    <3>1. outbox'[p] = Tail(outbox[p])
      BY <1>1
    <3>2. left - 1 # 0
      <4>1. Tail(outbox[p]) # <<>>
        BY <1>14, <2>1, <3>1
      <4>2. Len(Tail(outbox[p])) # 0
        BY <1>6, <4>1
      <4> QED
        BY <1>6, <4>2
    <3>3. k + 1 \in 0..m.size /\ left - 1 = m.size + 1 - (k + 1)
      BY <1>4, <1>5, <3>2
    <3>4. outbox'[p] = [j \in 1..m.size + 1 - (k + 1) |-> Frag(m, (k + 1) + j - 1)]
      <4> DEFINE t == Tail(outbox[p])
      <4>1. t \in [1..left - 1 -> Fragments]
        <5>1. t \in Seq(Fragments) /\ Len(t) = left - 1
          BY <1>6
        <5> HIDE DEF t, left
        <5> QED
          BY <5>1, LenProperties
      <4>2. \A j \in 1..left - 1 : t[j] = Frag(m, (k + 1) + j - 1)
        BY <1>6
      <4> HIDE DEF t, left
      <4>3. t = [j \in 1..left - 1 |-> Frag(m, (k + 1) + j - 1)]
        BY <4>1, <4>2
      <4> QED
        BY <3>1, <3>3, <4>3 DEF t
    <3>5. PICK n : n = Len(log)
      OBVIOUS
    <3>6. /\ n \in Nat /\ Len(log') = n + 1
          /\ \A i \in 1..n : log'[i] = log[i]
          /\ log'[n + 1].from = p /\ log'[n + 1].frag = Frag(m, k)
      BY <1>1, <1>7, <3>5, AppendLog, TypeParts
    <3>7. \E h \in 1..n + 1 : log'[h].frag = HeadOf(m)
      <4>1. CASE k = 0
        BY <3>6, <4>1 DEF Frag
      <4>2. CASE k # 0
        <5>1. PICK h \in 1..n : log[h].frag = HeadOf(m)
          BY <1>3, <3>5, <4>2 DEF Sending
        <5>2. h \in 1..n + 1
          BY <3>6
        <5> QED
          BY <3>6, <5>1, <5>2
      <4> QED
        BY <4>1, <4>2
    <3>8. \E j \in 1..n + 1 : /\ j \in 1..n + 1 /\ log'[j].from = p
                              /\ \A l \in j + 1..n + 1 : log'[l].from # p
                              /\ log'[j].frag = Frag(m, (k + 1) - 1)
      <4>1. n + 1 \in 1..n + 1 /\ (k + 1) - 1 = k /\ (n + 1) + 1..n + 1 = {}
        BY <1>4, <3>6
      <4> QED
        BY <3>6, <4>1
    <3>9. k + 1 # 0
      BY <1>4
    <3>10. PICK l : l = k + 1
      OBVIOUS
    <3>11. Sending(p, m, l)'
      BY <1>1, <1>8, <3>4, <3>6, <3>7, <3>8, <3>9, <3>10 DEF Sending, LastOf
    <3> QED
      BY <2>1, <3>3, <3>10, <3>11
  <2>2. CASE q # p
    <3>1. outbox'[q] = outbox[q]
      BY <1>1, <2>2
    <3>2. PICK o \in MsgIds : \E l \in 0..o.size : Sending(q, o, l)
      BY <1>14, <3>1 DEF LogInv, Outboxes
    <3>3. PICK l \in 0..o.size : Sending(q, o, l)
      BY <3>2
    <3>4. p \in Senders \ {q} /\ serial'[q] = serial[q]
      BY <1>1, <2>2
    <3>5. PICK f : f = Frag(m, k)
      OBVIOUS
    <3>6. f \in Fragments /\ log' = Append(log, [from |-> p, frag |-> f])
      BY <1>7, <3>5
    <3>7. \A x \in MsgIds : f = HeadOf(x) => x.from = p
      BY <1>8, <1>9, <3>5
    <3>8. Sending(q, o, l)'
      BY <3>1, <3>3, <3>4, <3>6, <3>7, AppendSending
    <3> QED
      BY <3>8
  <2> QED
    BY <2>1, <2>2
<1> QED
  BY <1>11, <1>12, <1>13, <1>14 DEF LogInv, Outboxes

\* A step that sends nothing; a killed program forgets what it had to send.
LEMMA QuietLog ==
  ASSUME TypeOK, LogInv, UNCHANGED <<log, serial>>,
         \A p \in Peers : outbox'[p] = outbox[p] \/ outbox'[p] = <<>>
  PROVE  LogInv'
<1>1. LogHeads' /\ LogChunks' /\ LogStarts'
  <2>1. LogHeads'
    BY DEF LogInv, LogHeads
  <2> QED
    BY <2>1, SameLog
<1>2. ASSUME NEW q \in Peers, outbox'[q] # <<>>
      PROVE  \E m \in MsgIds : \E k \in 0..m.size : Sending(q, m, k)'
  <2>1. outbox'[q] = outbox[q]
    BY <1>2
  <2>2. PICK m \in MsgIds : \E k \in 0..m.size : Sending(q, m, k)
    BY <1>2, <2>1 DEF LogInv, Outboxes
  <2>3. PICK k \in 0..m.size : Sending(q, m, k)
    BY <2>2
  <2>4. Sending(q, m, k)'
    BY <2>1, <2>3 DEF Sending, LastOf
  <2> QED
    BY <2>4
<1> QED
  BY <1>1, <1>2 DEF LogInv, Outboxes

LEMMA LogStep ==
  ASSUME TypeOK, LogInv, [Next]_vars
  PROVE  LogInv'
<1>1. CASE Start
  BY <1>1, StartLog
<1>2. ASSUME NEW p \in Peers, NEW n \in 1..MaxChunks, SendChunks(p, n) PROVE LogInv'
  BY <1>2, SendChunksLog
<1>3. ASSUME NEW p \in Peers, Send(p) PROVE LogInv'
  BY <1>3, SendLog
<1>4. ASSUME NEW p \in Peers,
             \/ Launch(p) \/ Join(p) \/ AwaitStart(p) \/ Receive(p) \/ Poll(p)
             \/ Timeout(p) \/ Stop(p)
      PROVE  LogInv'
  <2>1. UNCHANGED <<log, serial, outbox>>
    BY <1>4 DEF Launch, Join, AwaitStart, Receive, Poll, Timeout, Stop, procVars
  <2> QED
    BY <2>1, QuietLog
<1>5. ASSUME NEW p \in Peers, Crash(p) PROVE LogInv'
  <2>1. /\ UNCHANGED <<log, serial>> /\ outbox' = [outbox EXCEPT ![p] = <<>>]
        /\ outbox \in [Peers -> Seq(Fragments)]
    BY <1>5 DEF Crash, TypeOK
  <2>2. \A q \in Peers : outbox'[q] = outbox[q] \/ outbox'[q] = <<>>
    BY <2>1
  <2> QED
    BY <2>1, <2>2, QuietLog
<1>6. CASE UNCHANGED vars
  <2>1. UNCHANGED <<log, serial, outbox>>
    BY <1>6 DEF vars, procVars
  <2> QED
    BY <2>1, QuietLog
<1> QED
  BY <1>1, <1>2, <1>3, <1>4, <1>5, <1>6 DEF Next

-----------------------------------------------------------------------------
(***************************************************************************)
(* The listener. For every sender, sender_dict holds either nothing or the *)
(* beginning of the message the sender's last entry belongs to, and every  *)
(* message heard as a whole is in the queue, in the order of their ends.   *)
(***************************************************************************)

Listening(p) == phase[p] \in {"listen", "exited"}

\* Among the entries p has gone past, the last one of s is fragment k of m and
\* came after START.
LastHeard(p, s, m, k, j) ==
  LastOf(s, j, cursor[p]) /\ j > since[p] /\ log[j].frag = Frag(m, k)

\* The chunks up to number k are collected, the message is not complete.
OpenEntry(p, s, m, k, j) ==
  /\ LastHeard(p, s, m, k, j) /\ HeadIndex(m) > since[p]
  /\ dict[p][s] = [rem |-> m.size - k, data |-> [i \in 1..k |-> Chunk(m, i)]]

\* Nothing is collected: the last message is complete or was heard in part.
ClosedEntry(p, s) ==
  /\ dict[p][s] = EmptyEntry
  /\ \A m \in MsgIds : \A k \in 0..m.size, j \in 1..Len(log) :
       LastHeard(p, s, m, k, j) => k = m.size \/ HeadIndex(m) <= since[p]

EntryOK(p, s) ==
  \/ \E m \in MsgIds : \E k \in 0..m.size - 1, j \in 1..Len(log) : OpenEntry(p, s, m, k, j)
  \/ ClosedEntry(p, s)

\* f lists the ends of the messages heard as a whole, and the queue has them.
Lists(p, f) ==
  /\ f \in [1..Len(queue[p]) -> HeardWhole(p)]
  /\ \A a, b \in 1..Len(queue[p]) : a < b => f[a] < f[b]
  /\ \A i \in HeardWhole(p) : \E a \in 1..Len(queue[p]) : f[a] = i
  /\ \A a \in 1..Len(queue[p]) : queue[p][a] = Payload(log[f[a]].frag.id)

PeerInv(p) ==
  IF Listening(p)
  THEN /\ since[p] <= cursor[p]
       /\ \A s \in Senders \ {p} : EntryOK(p, s)
       /\ \E f : Lists(p, f)
  ELSE /\ \A s \in Senders : dict[p][s] = EmptyEntry
       /\ queue[p] = <<>>

\* The inductive invariant.
RecvInv == TypeOK /\ LogInv /\ \A p \in Peers : PeerInv(p)

-----------------------------------------------------------------------------
\* The end of a message: its head is in the log before it.
LEMMA EndsParts ==
  ASSUME TypeOK, LogInv, NEW i \in 1..Len(log), Ends(i)
  PROVE  \E m \in MsgIds : /\ log[i].frag = Frag(m, m.size) /\ log[i].frag.id = m
                           /\ log[i].frag = Chunk(m, m.size)
                           /\ HeadIndex(m) \in 1..i /\ log[HeadIndex(m)].frag = HeadOf(m)
<1>1. log[i].frag \in Fragments /\ log[i].frag.kind = "chunk"
  BY TypeParts DEF Ends
<1>2. "start" # "chunk" /\ "head" # "chunk"
  OBVIOUS
<1>3. PICK m \in MsgIds : \E k \in 1..MaxChunks : log[i].frag = Chunk(m, k)
  BY <1>1, <1>2, FragmentCases, FragmentKinds
<1>4. log[i].frag = Chunk(m, m.size) /\ log[i].frag.id = m
  BY <1>3, FragmentKinds DEF Ends
<1>5. m.size \in Nat /\ m.size # 0 /\ m.size \in 0..m.size
  <2>1. m.size \in 1..MaxChunks /\ m.size \in Nat
    BY MessageParts
  <2>2. m.size # 0
    BY <2>1, SpreadUtilAssumption
  <2> QED
    BY <2>1, <2>2
<1>6. log[i].frag = Frag(m, m.size)
  BY <1>4, <1>5 DEF Frag
<1> QED
  BY <1>4, <1>5, <1>6, FragInLog

\* A longer log has the heads of its beginning where they were.
LEMMA HeadIndexKept ==
  ASSUME LogInv, LogInv', Len(log) \in Nat, Len(log') \in Nat, Len(log) <= Len(log'),
         \A i \in 1..Len(log) : log'[i] = log[i],
         NEW m \in MsgIds, NEW h \in 1..Len(log), log[h].frag = HeadOf(m)
  PROVE  HeadIndex(m)' = h /\ HeadIndex(m) = h
<1>1. h \in 1..Len(log') /\ log'[h].frag = HeadOf(m)
  OBVIOUS
<1>2. ASSUME NEW g \in 1..Len(log'), log'[g].frag = HeadOf(m) PROVE g = h
  BY <1>1, <1>2 DEF LogInv, LogHeads
<1>3. HeadIndex(m)' = h
  BY <1>1, <1>2 DEF HeadIndex
<1>4. HeadIndex(m) = h
  BY HeadIndexValue DEF LogInv
<1> QED
  BY <1>3, <1>4

\* What p has heard does not change when others send.
LEMMA HeardKept ==
  ASSUME TypeOK, LogInv, TypeOK', LogInv', NEW p \in Peers,
         Len(log) <= Len(log'), \A i \in 1..Len(log) : log'[i] = log[i],
         cursor'[p] = cursor[p], since'[p] = since[p]
  PROVE  HeardWhole(p)' = HeardWhole(p)
<1>1. /\ Len(log) \in Nat /\ Len(log') \in Nat
      /\ cursor[p] \in Nat /\ cursor[p] <= Len(log) /\ since[p] \in Nat
  <2>1. Len(log) \in Nat /\ cursor[p] \in Nat /\ cursor[p] <= Len(log) /\ since[p] \in Nat
    BY TypeParts
  <2>2. log' \in Seq([from : Senders, frag : Fragments])
    BY DEF TypeOK
  <2> DEFINE R == [from : Senders, frag : Fragments]
  <2>3. log' \in Seq(R)
    BY <2>2
  <2> HIDE DEF R
  <2>4. Len(log') \in Nat
    BY <2>3
  <2> QED
    BY <2>1, <2>4
<1>2. ASSUME NEW i \in (since[p] + 1)..cursor[p]
      PROVE  /\ i \in 1..Len(log) /\ log'[i] = log[i]
             /\ Ends(i)' <=> Ends(i)
             /\ Ends(i) => HeadIndex(log[i].frag.id)' = HeadIndex(log[i].frag.id)
  <2>1. i \in 1..Len(log) /\ log'[i] = log[i]
    BY <1>1
  <2>2. Ends(i)' <=> Ends(i)
    BY <2>1 DEF Ends
  <2>3. ASSUME Ends(i) PROVE HeadIndex(log[i].frag.id)' = HeadIndex(log[i].frag.id)
    <3>1. PICK m \in MsgIds : /\ log[i].frag.id = m
                              /\ HeadIndex(m) \in 1..i /\ log[HeadIndex(m)].frag = HeadOf(m)
      BY <2>1, <2>3, EndsParts
    <3>2. HeadIndex(m) \in 1..Len(log)
      BY <2>1, <3>1
    <3>3. HeadIndex(m)' = HeadIndex(m)
      BY <1>1, <3>1, <3>2, HeadIndexKept
    <3> QED
      BY <2>1, <3>1, <3>3 DEF HeadIndex
  <2> QED
    BY <2>1, <2>2, <2>3
<1> QED
  BY <1>2 DEF HeardWhole

\* A peer that receives nothing keeps what it has, whoever sends.
LEMMA PeerKept ==
  ASSUME TypeOK, LogInv, TypeOK', LogInv', NEW p \in Peers, PeerInv(p),
         Len(log) <= Len(log'), \A i \in 1..Len(log) : log'[i] = log[i],
         cursor'[p] = cursor[p], since'[p] = since[p],
         dict'[p] = dict[p], queue'[p] = queue[p], Listening(p), Listening(p)'
  PROVE  PeerInv(p)'
<1>1. PICK n : n = Len(log)
  OBVIOUS
<1>2. PICK c : c = cursor[p]
  OBVIOUS
<1>3. n \in Nat /\ c \in Nat /\ c <= n /\ since[p] \in Nat /\ 1..Len(log) \subseteq 1..Len(log')
  <2>1. n \in Nat /\ c \in Nat /\ c <= n /\ since[p] \in Nat
    BY <1>1, <1>2, TypeParts
  <2>2. ASSUME NEW i \in 1..Len(log) PROVE i \in 1..Len(log')
    <3>1. i \in Nat /\ 1 <= i /\ i <= Len(log')
      <4>1. log' \in Seq([from : Senders, frag : Fragments])
        BY DEF TypeOK
      <4> DEFINE R == [from : Senders, frag : Fragments]
                 l == Len(log')
      <4>2. log' \in Seq(R)
        BY <4>1
      <4> HIDE DEF R
      <4>3. l \in Nat
        BY <4>2
      <4>4. n <= l /\ i \in 1..n
        BY <1>1
      <4> HIDE DEF l
      <4>5. i \in Nat /\ 1 <= i /\ i <= l
        BY <2>1, <4>3, <4>4
      <4> QED
        BY <4>5 DEF l
    <3> QED
      BY <3>1
  <2> QED
    BY <2>1, <2>2
<1>4. \A s : \A j \in Nat : LastOf(s, j, c)' <=> LastOf(s, j, c)
  BY <1>1, <1>3, LastOfKept
<1>5. \A s, m, k : \A j \in Nat : LastHeard(p, s, m, k, j)' <=> LastHeard(p, s, m, k, j)
  <2> SUFFICES ASSUME NEW s, NEW m, NEW k, NEW j \in Nat
               PROVE  LastHeard(p, s, m, k, j)' <=> LastHeard(p, s, m, k, j)
    OBVIOUS
  <2>1. LastHeard(p, s, m, k, j) <=> LastOf(s, j, c) /\ j > since[p] /\ log[j].frag = Frag(m, k)
    BY <1>2 DEF LastHeard
  <2>2. LastHeard(p, s, m, k, j)' <=> /\ LastOf(s, j, c)' /\ j > since[p]
                                      /\ log'[j].frag = Frag(m, k)
    BY <1>2 DEF LastHeard, LastOf
  <2>3. LastOf(s, j, c) => log'[j] = log[j]
    <3>1. j \in 1..c => j \in 1..Len(log)
      BY <1>1, <1>3
    <3> QED
      BY <3>1 DEF LastOf
  <2> QED
    BY <1>4, <2>1, <2>2, <2>3
<1>6. ASSUME NEW s, NEW m \in MsgIds, NEW k \in 0..m.size, NEW j \in Nat,
             LastHeard(p, s, m, k, j)
      PROVE  HeadIndex(m)' = HeadIndex(m) /\ j \in 1..Len(log)
  <2>1. j \in 1..Len(log) /\ log[j].frag = Frag(m, k)
    <3>1. j \in 1..c /\ log[j].frag = Frag(m, k)
      BY <1>2, <1>6 DEF LastHeard, LastOf
    <3> QED
      BY <1>1, <1>3, <3>1
  <2>2. HeadIndex(m) \in 1..j /\ log[HeadIndex(m)].frag = HeadOf(m)
    BY <2>1, FragInLog
  <2>3. HeadIndex(m) \in 1..Len(log)
    BY <1>1, <1>3, <2>1, <2>2
  <2>4. Len(log) \in Nat /\ Len(log') \in Nat
    <3> DEFINE R == [from : Senders, frag : Fragments]
    <3>1. log \in Seq(R) /\ log' \in Seq(R)
      BY DEF TypeOK
    <3> HIDE DEF R
    <3> QED
      BY <3>1
  <2> QED
    BY <2>1, <2>2, <2>3, <2>4, HeadIndexKept
<1>7. ASSUME NEW s \in Senders \ {p} PROVE EntryOK(p, s)'
  <2>1. EntryOK(p, s)
    BY DEF PeerInv
  <2>2. CASE \E m \in MsgIds : \E k \in 0..m.size - 1, j \in 1..Len(log) : OpenEntry(p, s, m, k, j)
    <3>1. PICK m \in MsgIds : \E k \in 0..m.size - 1, j \in 1..Len(log) : OpenEntry(p, s, m, k, j)
      BY <2>2
    <3>2. PICK k \in 0..m.size - 1, j \in 1..Len(log) : OpenEntry(p, s, m, k, j)
      BY <3>1
    <3>3. k \in 0..m.size /\ j \in Nat /\ LastHeard(p, s, m, k, j)
      BY <3>2, MessageParts DEF OpenEntry
    <3>4. HeadIndex(m)' = HeadIndex(m) /\ LastHeard(p, s, m, k, j)'
      BY <1>5, <1>6, <3>3
    <3>5. OpenEntry(p, s, m, k, j)'
      BY <3>2, <3>4 DEF OpenEntry
    <3>6. j \in 1..Len(log')
      BY <1>3
    <3> QED
      BY <3>5, <3>6 DEF EntryOK
  <2>3. CASE ClosedEntry(p, s)
    <3>1. ASSUME NEW m \in MsgIds, NEW k \in 0..m.size, NEW j \in 1..Len(log'),
                 LastHeard(p, s, m, k, j)'
          PROVE  k = m.size \/ HeadIndex(m)' <= since[p]
      <4>1. LastHeard(p, s, m, k, j) /\ j \in Nat
        BY <1>5, <3>1
      <4>2. HeadIndex(m)' = HeadIndex(m) /\ j \in 1..Len(log)
        BY <1>6, <4>1
      <4> QED
        BY <2>3, <4>1, <4>2 DEF ClosedEntry
    <3>2. dict'[p][s] = EmptyEntry
      BY <2>3 DEF ClosedEntry
    <3>3. ClosedEntry(p, s)'
      BY <3>1, <3>2 DEF ClosedEntry
    <3> QED
      BY <3>3 DEF EntryOK
  <2> QED
    BY <2>1, <2>2, <2>3 DEF EntryOK
<1>8. \E f : Lists(p, f)'
  <2>1. PICK f : Lists(p, f)
    BY DEF PeerInv
  <2>2. HeardWhole(p)' = HeardWhole(p)
    BY HeardKept
  <2>3. \A i \in HeardWhole(p) : log'[i] = log[i]
    <3>1. \A i \in HeardWhole(p) : i \in 1..Len(log)
      BY <1>1, <1>2, <1>3 DEF HeardWhole
    <3> QED
      BY <3>1
  <2>4. Lists(p, f)'
    BY <2>1, <2>2, <2>3 DEF Lists
  <2> QED
    BY <2>4
<1>9. since'[p] <= cursor'[p]
  BY DEF PeerInv
<1> QED
  BY <1>7, <1>8, <1>9 DEF PeerInv

\* A peer whose listener does not run has nothing.
LEMMA PeerIdle ==
  ASSUME NEW p \in Peers, PeerInv(p), ~Listening(p), ~Listening(p)',
         dict'[p] = dict[p], queue'[p] = queue[p]
  PROVE  PeerInv(p)'
  BY DEF PeerInv

-----------------------------------------------------------------------------
\* What Receive does, seen from sender_dict's entry for the sender s of the next
\* entry i.
Hears(p, i, s) ==
  LET f == log[i].frag
      d == dict[p][s]
  IN /\ i \in 1..Len(log) /\ cursor[p] < i
     /\ s \in Senders /\ s # p /\ log[i].from = s
     /\ \A l \in 1..Len(log) : cursor[p] < l /\ l < i => log[l].from = p
     /\ log' = log /\ since' = since /\ cursor'[p] = i
     /\ phase[p] = "listen" /\ Listening(p)'
     /\ \A r \in Senders \ {s} : dict'[p][r] = dict[p][r]
     /\ dict'[p][s] = IF Completes(d, f) THEN EmptyEntry ELSE Reassembled(d, f)
     /\ queue'[p] = IF Completes(d, f) THEN Append(queue[p], Reassembled(d, f).data)
                    ELSE queue[p]

LEMMA ReceiveHears ==
  ASSUME TypeOK, NEW p \in Peers, Receive(p)
  PROVE  /\ \E i \in 1..Len(log), s \in Senders : Hears(p, i, s)
         /\ \A q \in Peers \ {p} : /\ dict'[q] = dict[q] /\ queue'[q] = queue[q]
                                   /\ cursor'[q] = cursor[q] /\ phase'[q] = phase[q]
         /\ log' = log /\ since' = since
<1> DEFINE i == NextEntry(p)
           s == log[i].from
           f == log[i].frag
           d == dict[p][s]
           e == Reassembled(d, f)
<1>1. /\ i \in 1..Len(log) /\ i > cursor[p] /\ s # p
      /\ \A l \in 1..Len(log) : cursor[p] < l /\ l < i => log[l].from = p
  BY TypeParts, NextEntryIsFirst DEF Receive
<1>2. s \in Senders
  <2> HIDE DEF i
  <2> QED
    BY <1>1, TypeParts
<1>3. cursor[p] \in Nat /\ Len(log) \in Nat
  BY TypeParts
<1>4. cursor[p] < i
  <2> HIDE DEF i
  <2> QED
    BY <1>1, <1>3
<1>5. /\ cursor' = [cursor EXCEPT ![p] = i]
      /\ log' = log /\ since' = since /\ phase[p] = "listen"
  BY DEF Receive
<1>6. IF Completes(d, f)
      THEN /\ queue' = [queue EXCEPT ![p] = Append(@, e.data)]
           /\ dict' = [dict EXCEPT ![p][s] = EmptyEntry]
      ELSE /\ queue' = queue
           /\ dict' = [dict EXCEPT ![p][s] = e]
  BY DEF Receive, FiledUnder
<1>7. \/ phase' = phase
      \/ phase' = [phase EXCEPT ![p] = IF stopping[p] THEN "exited" ELSE @]
  BY DEF Receive, EndCycle
<1> HIDE DEF e
<1>8. /\ cursor \in [Peers -> 0..Len(log)] /\ queue \in [Peers -> Seq(Seq(Fragments))]
      /\ dict \in [Peers -> [Senders -> Entry]] /\ phase \in [Peers -> Phases]
  BY DEF TypeOK
<1> HIDE DEF i, s, f, d
<1>9. Listening(p)' /\ \A q \in Peers \ {p} : phase'[q] = phase[q]
  BY <1>5, <1>7, <1>8 DEF Listening
<1>10. cursor'[p] = i /\ \A q \in Peers \ {p} : cursor'[q] = cursor[q]
  BY <1>5, <1>8
<1>11. /\ queue'[p] = IF Completes(d, f) THEN Append(queue[p], e.data) ELSE queue[p]
       /\ \A q \in Peers \ {p} : queue'[q] = queue[q]
  BY <1>6, <1>8
<1>12. /\ dict'[p][s] = IF Completes(d, f) THEN EmptyEntry ELSE e
       /\ \A r \in Senders \ {s} : dict'[p][r] = dict[p][r]
       /\ \A q \in Peers \ {p} : dict'[q] = dict[q]
  <2>1. ASSUME NEW x, dict' = [dict EXCEPT ![p][s] = x]
        PROVE  /\ dict'[p][s] = x
               /\ \A r \in Senders \ {s} : dict'[p][r] = dict[p][r]
               /\ \A q \in Peers \ {p} : dict'[q] = dict[q]
    BY <1>2, <1>8, <2>1
  <2> QED
    BY <1>6, <2>1
<1>13. Hears(p, i, s)
  BY <1>1, <1>2, <1>4, <1>5, <1>9, <1>10, <1>11, <1>12 DEF Hears, s, f, d, e
<1> QED
  BY <1>1, <1>2, <1>5, <1>9, <1>10, <1>11, <1>12, <1>13

\* The last entry of a sender is one entry.
LEMMA LastOfUnique ==
  ASSUME NEW s, NEW c \in Nat, NEW j \in Nat, NEW l \in Nat, LastOf(s, j, c), LastOf(s, l, c)
  PROVE  j = l
<1>1. ~(j < l)
  <2>1. j < l => l \in j + 1..c
    BY DEF LastOf
  <2> QED
    BY <2>1 DEF LastOf
<1>2. ~(l < j)
  <2>1. l < j => j \in l + 1..c
    BY DEF LastOf
  <2> QED
    BY <2>1 DEF LastOf
<1> QED
  BY <1>1, <1>2

\* The next entry is the last one of its sender; the others' last ones stay.
LEMMA OthersLast ==
  ASSUME NEW p \in Peers, NEW s \in Senders, NEW c \in Nat, NEW i \in Nat, c < i,
         log[i].from = s, \A l \in Nat : c < l /\ l < i => log[l].from = p,
         NEW r, r # s, r # p, NEW j \in Nat
  PROVE  LastOf(r, j, i) <=> LastOf(r, j, c)
<1>0. \A l \in c + 1..i - 1 : log[l].from = p
  OBVIOUS
<1>1. ASSUME LastOf(r, j, i) PROVE LastOf(r, j, c)
  <2>1. j \in 1..i /\ log[j].from = r /\ \A l \in j + 1..i : log[l].from # r
    BY <1>1 DEF LastOf
  <2>2. j # i
    BY <2>1
  <2>3. ~(j \in c + 1..i - 1)
    BY <1>0, <2>1
  <2>4. j \in 1..c /\ \A l \in j + 1..c : l \in j + 1..i
    BY <2>1, <2>2, <2>3
  <2> QED
    BY <2>1, <2>4 DEF LastOf
<1>2. ASSUME LastOf(r, j, c) PROVE LastOf(r, j, i)
  <2>1. j \in 1..c /\ log[j].from = r /\ \A l \in j + 1..c : log[l].from # r
    BY <1>2 DEF LastOf
  <2>2. ASSUME NEW l \in j + 1..i PROVE log[l].from # r
    <3>1. CASE l = i
      BY <3>1
    <3>2. CASE l \in c + 1..i - 1
      BY <1>0, <3>2
    <3>3. CASE l \in j + 1..c
      BY <2>1, <3>3
    <3> QED
      BY <2>1, <3>1, <3>2, <3>3
  <2>3. j \in 1..i
    BY <2>1
  <2> QED
    BY <2>1, <2>2, <2>3 DEF LastOf
<1> QED
  BY <1>1, <1>2

\* The last entry of the sender before the next one is one p has gone past.
LEMMA BeforeLast ==
  ASSUME NEW p \in Peers, NEW s \in Senders, s # p, NEW c \in Nat, NEW i \in Nat, c < i,
         \A l \in Nat : c < l /\ l < i => log[l].from = p,
         NEW j \in Nat, LastOf(s, j, i - 1)
  PROVE  LastOf(s, j, c)
<1>0. \A l \in c + 1..i - 1 : log[l].from = p
  OBVIOUS
<1>1. j \in 1..i - 1 /\ log[j].from = s /\ \A l \in j + 1..i - 1 : log[l].from # s
  BY DEF LastOf
<1>2. ~(j \in c + 1..i - 1)
  BY <1>0, <1>1
<1>3. j \in 1..c /\ \A l \in j + 1..c : l \in j + 1..i - 1
  BY <1>1, <1>2
<1> QED
  BY <1>1, <1>3 DEF LastOf

LEMMA HearsLast ==
  ASSUME TypeOK, NEW p \in Peers, NEW i \in Nat, NEW s \in Senders, Hears(p, i, s),
         since[p] <= cursor[p]
  PROVE  /\ cursor[p] \in Nat /\ since[p] \in Nat /\ since[p] < i
         /\ LastOf(s, i, i) /\ \A j \in Nat : LastOf(s, j, i) => j = i
         /\ \A r : r # s /\ r # p => \A j \in Nat : LastOf(r, j, i) <=> LastOf(r, j, cursor[p])
         /\ \A j \in Nat : LastOf(s, j, i - 1) => LastOf(s, j, cursor[p])
         /\ \A r, m, k, j : LastHeard(p, r, m, k, j)' <=>
              LastOf(r, j, i) /\ j > since[p] /\ log[j].frag = Frag(m, k)
<1>1. PICK c : c = cursor[p]
  OBVIOUS
<1>2. PICK n : n = Len(log)
  OBVIOUS
<1>3. n \in Nat /\ c \in Nat /\ since[p] \in Nat
  BY <1>1, <1>2, TypeParts
<1>4. i \in 1..n /\ c < i /\ s # p /\ log[i].from = s
  BY <1>1, <1>2 DEF Hears
<1>5. \A l \in 1..n : c < l /\ l < i => log[l].from = p
  BY <1>1, <1>2 DEF Hears
<1>6. i \in Nat /\ since[p] < i
  BY <1>1, <1>3, <1>4
<1>7. \A l \in Nat : c < l /\ l < i => log[l].from = p
  <2>1. \A l \in Nat : c < l /\ l < i => l \in 1..n
    BY <1>3, <1>4
  <2> QED
    BY <1>5, <2>1
<1>8. /\ LastOf(s, i, i) /\ \A j \in Nat : LastOf(s, j, i) => j = i
      /\ \A r : r # s /\ r # p => \A j \in Nat : LastOf(r, j, i) <=> LastOf(r, j, c)
      /\ \A j \in Nat : LastOf(s, j, i - 1) => LastOf(s, j, c)
  <2>1. LastOf(s, i, i)
    BY <1>3, <1>4 DEF LastOf
  <2>2. ASSUME NEW j \in Nat, LastOf(s, j, i) PROVE j = i
    BY <1>6, <2>1, <2>2, LastOfUnique
  <2>3. ASSUME NEW r, r # s, r # p, NEW j \in Nat
        PROVE  LastOf(r, j, i) <=> LastOf(r, j, c)
    <3>1. c \in Nat /\ c < i /\ log[i].from = s
      BY <1>3, <1>4
    <3> QED
      BY <1>7, <2>3, <3>1, OthersLast
  <2>4. ASSUME NEW j \in Nat, LastOf(s, j, i - 1) PROVE LastOf(s, j, c)
    <3>1. c \in Nat /\ c < i /\ s # p
      BY <1>3, <1>4
    <3> QED
      BY <1>7, <2>4, <3>1, BeforeLast
  <2> QED
    BY <2>1, <2>2, <2>3, <2>4
<1>9. \A r, m, k, j : LastHeard(p, r, m, k, j)' <=>
        LastOf(r, j, i) /\ j > since[p] /\ log[j].frag = Frag(m, k)
  <2>1. log' = log /\ since' = since /\ cursor'[p] = i
    BY DEF Hears
  <2> QED
    BY <2>1 DEF LastHeard, LastOf
<1> QED
  BY <1>1, <1>3, <1>6, <1>8, <1>9

\* The entries of the other senders are as they were.
LEMMA OtherEntry ==
  ASSUME TypeOK, NEW p \in Peers, NEW i \in Nat, NEW s \in Senders, Hears(p, i, s),
         since[p] <= cursor[p], NEW r \in Senders \ {p}, r # s, EntryOK(p, r)
  PROVE  EntryOK(p, r)'
<1>1. /\ log' = log /\ since' = since /\ dict'[p][r] = dict[p][r]
  BY DEF Hears
<1>2. \A m : HeadIndex(m)' = HeadIndex(m)
  BY <1>1 DEF HeadIndex
<1>3. \A m, k : \A j \in Nat : LastHeard(p, r, m, k, j)' <=> LastHeard(p, r, m, k, j)
  <2>1. \A j \in Nat : LastOf(r, j, i) <=> LastOf(r, j, cursor[p])
    BY HearsLast
  <2>2. \A m, k, j : LastHeard(p, r, m, k, j)' <=>
          LastOf(r, j, i) /\ j > since[p] /\ log[j].frag = Frag(m, k)
    BY HearsLast
  <2> QED
    BY <2>1, <2>2 DEF LastHeard
<1>4. CASE \E m \in MsgIds : \E k \in 0..m.size - 1, j \in 1..Len(log) : OpenEntry(p, r, m, k, j)
  <2>1. PICK m \in MsgIds : \E k \in 0..m.size - 1, j \in 1..Len(log) : OpenEntry(p, r, m, k, j)
    BY <1>4
  <2>2. PICK k \in 0..m.size - 1, j \in 1..Len(log) : OpenEntry(p, r, m, k, j)
    BY <2>1
  <2>3. j \in Nat
    OBVIOUS
  <2>4. OpenEntry(p, r, m, k, j)'
    BY <1>1, <1>2, <1>3, <2>2, <2>3 DEF OpenEntry
  <2> QED
    BY <1>1, <2>4 DEF EntryOK
<1>5. CASE ClosedEntry(p, r)
  <2>1. ASSUME NEW m \in MsgIds, NEW k \in 0..m.size, NEW j \in 1..Len(log),
               LastHeard(p, r, m, k, j)'
        PROVE  k = m.size \/ HeadIndex(m)' <= since[p]
    <3>1. LastHeard(p, r, m, k, j)
      BY <1>3, <2>1
    <3> QED
      BY <1>2, <1>5, <3>1 DEF ClosedEntry
  <2>2. ClosedEntry(p, r)'
    BY <1>1, <1>5, <2>1 DEF ClosedEntry
  <2> QED
    BY <2>2 DEF EntryOK
<1> QED
  BY <1>4, <1>5 DEF EntryOK

\* The next entry is heard last, and nothing else of its sender.
LEMMA HeardNow ==
  ASSUME TypeOK, NEW p \in Peers, NEW i \in Nat, NEW s \in Senders, Hears(p, i, s),
         since[p] <= cursor[p]
  PROVE  /\ \A m, k : log[i].frag = Frag(m, k) => LastHeard(p, s, m, k, i)'
         /\ \A m, k : \A j \in Nat : LastHeard(p, s, m, k, j)' => j = i /\ log[i].frag = Frag(m, k)
<1>1. \A m, k, j : LastHeard(p, s, m, k, j)' <=>
        LastOf(s, j, i) /\ j > since[p] /\ log[j].frag = Frag(m, k)
  BY HearsLast
<1>2. LastOf(s, i, i) /\ i > since[p]
  <2>1. since[p] \in Nat /\ since[p] < i /\ LastOf(s, i, i)
    BY HearsLast
  <2> QED
    BY <2>1
<1>3. \A j \in Nat : LastOf(s, j, i) => j = i
  BY <1>2, LastOfUnique
<1> QED
  BY <1>1, <1>2, <1>3

\* The messages heard as a whole: the entry may end one more.
LEMMA HeardOneMore ==
  ASSUME TypeOK, NEW p \in Peers, NEW i \in Nat, NEW s \in Senders, Hears(p, i, s),
         since[p] <= cursor[p]
  PROVE  HeardWhole(p)' =
           IF Ends(i) /\ HeadIndex(log[i].frag.id) > since[p]
           THEN HeardWhole(p) \cup {i} ELSE HeardWhole(p)
<1>1. PICK c : c = cursor[p]
  OBVIOUS
<1>2. PICK b : b = since[p]
  OBVIOUS
<1>3. c \in Nat /\ b \in Nat /\ b <= c
  BY <1>1, <1>2, TypeParts
<1>4. /\ log' = log /\ since'[p] = b /\ cursor'[p] = i /\ c < i /\ i \in 1..Len(log)
      /\ log[i].from # p
      /\ \A l \in 1..Len(log) : c < l /\ l < i => log[l].from = p
  BY <1>1, <1>2 DEF Hears
<1>5. Len(log) \in Nat
  BY TypeParts
<1>6. \A l : /\ Ends(l)' <=> Ends(l)
             /\ HeadIndex(log[l].frag.id)' = HeadIndex(log[l].frag.id)
  BY <1>4 DEF Ends, HeadIndex
<1>7. HeardWhole(p)' = {l \in (b + 1)..i : Ends(l) /\ log[l].from # p
                                            /\ HeadIndex(log[l].frag.id) > b}
  BY <1>4, <1>6 DEF HeardWhole
<1>8. HeardWhole(p) = {l \in (b + 1)..c : Ends(l) /\ log[l].from # p
                                          /\ HeadIndex(log[l].frag.id) > b}
  BY <1>1, <1>2 DEF HeardWhole
<1>9. \A l \in (b + 1)..i : l \in (b + 1)..c \/ l = i \/ (l \in 1..Len(log) /\ c < l /\ l < i)
  BY <1>3, <1>4, <1>5
<1>10. \A l \in (b + 1)..c : l \in (b + 1)..i
  BY <1>3, <1>4
<1>11. i \in (b + 1)..i
  BY <1>3, <1>4
<1> QED
  BY <1>2, <1>4, <1>7, <1>8, <1>9, <1>10, <1>11

LEMMA FragEnds ==
  ASSUME NEW i \in 1..Len(log), NEW m \in MsgIds, NEW k \in 0..m.size, log[i].frag = Frag(m, k)
  PROVE  /\ log[i].frag.id = m
         /\ Ends(i) <=> k = m.size
         /\ log[i].frag.kind = IF k = 0 THEN "head" ELSE "chunk"
<1>1. m.size \in Nat /\ m.size # 0 /\ "head" # "chunk"
  <2>1. m.size \in 1..MaxChunks /\ m.size \in Nat
    BY MessageParts
  <2> QED
    BY <2>1, SpreadUtilAssumption
<1>2. CASE k = 0
  BY <1>1, <1>2, FragmentKinds DEF Frag, Ends
<1>3. CASE k # 0
  BY <1>1, <1>3, FragmentKinds DEF Frag, Ends
<1> QED
  BY <1>2, <1>3

\* An entry of the log is START or a fragment of its sender's.
LEMMA EntryCases ==
  ASSUME TypeOK, LogInv, NEW i \in 1..Len(log)
  PROVE  \/ log[i].frag = StartSignal /\ log[i].from = Starter
         \/ \E m \in MsgIds : \E k \in 0..m.size : log[i].frag = Frag(m, k) /\ log[i].from = m.from
<1>1. log[i].frag \in Fragments
  BY TypeParts
<1>2. CASE log[i].frag = StartSignal
  BY <1>2 DEF LogInv, LogStarts
<1>3. ASSUME NEW m \in MsgIds, log[i].frag = HeadOf(m)
      PROVE  /\ 0 \in 0..m.size /\ log[i].frag = Frag(m, 0) /\ log[i].from = m.from
  <2>1. 0 \in 0..m.size
    BY MessageParts
  <2>2. log[i].frag = Frag(m, 0)
    BY <1>3 DEF Frag
  <2> QED
    BY <2>1, <2>2, FragInLog
<1>4. ASSUME NEW m \in MsgIds, NEW k \in 1..MaxChunks, log[i].frag = Chunk(m, k)
      PROVE  k \in 0..m.size /\ log[i].frag = Frag(m, k) /\ log[i].from = m.from
  <2>1. k <= m.size /\ log[i].from = m.from
    BY <1>4 DEF LogInv, LogChunks
  <2>2. k \in 0..m.size /\ k # 0
    <3>1. m.size \in Nat /\ MaxChunks \in Nat
      BY MessageParts, SpreadUtilAssumption
    <3> QED
      BY <2>1, <3>1
  <2> QED
    BY <1>4, <2>1, <2>2 DEF Frag
<1> QED
  BY <1>1, <1>2, <1>3, <1>4, FragmentCases

\* The fragment before a chunk is the last that was heard of its sender.
LEMMA BeforeChunk ==
  ASSUME TypeOK, LogInv, NEW p \in Peers, NEW i \in 1..Len(log), NEW s \in Senders,
         Hears(p, i, s), since[p] <= cursor[p],
         NEW m \in MsgIds, NEW k \in 1..m.size, log[i].frag = Frag(m, k)
  PROVE  \E j \in 1..Len(log) : log[j].frag = Frag(m, k - 1) /\ LastOf(s, j, cursor[p])
<1>1. i \in Nat /\ Len(log) \in Nat /\ k \in 1..MaxChunks /\ k # 0
  <2>1. m.size \in 1..MaxChunks /\ MaxChunks \in Nat /\ Len(log) \in Nat
    BY MessageParts, SpreadUtilAssumption, TypeParts
  <2> QED
    BY <2>1
<1>2. log[i].frag = Chunk(m, k)
  BY <1>1 DEF Frag
<1>3. log[i].from = m.from /\ log[i].from = s
  BY <1>1, <1>2 DEF LogInv, LogChunks, Hears
<1>4. PICK j \in 1..i - 1 : log[j].frag = Frag(m, k - 1) /\ LastOf(m.from, j, i - 1)
  BY <1>1, <1>2 DEF LogInv, LogChunks
<1>5. j \in Nat /\ j \in 1..Len(log) /\ LastOf(s, j, i - 1)
  BY <1>1, <1>3, <1>4
<1>6. LastOf(s, j, cursor[p])
  BY <1>1, <1>5, HearsLast
<1> QED
  BY <1>4, <1>5, <1>6

\* What a received fragment does to the queue and to the messages heard.
Files(p, i) ==
  \/ queue'[p] = queue[p] /\ HeardWhole(p)' = HeardWhole(p)
  \/ /\ queue'[p] = Append(queue[p], Payload(log[i].frag.id))
     /\ HeardWhole(p)' = HeardWhole(p) \cup {i}

\* A head begins a new message.
LEMMA HearsHead ==
  ASSUME TypeOK, LogInv, NEW p \in Peers, NEW i \in 1..Len(log), NEW s \in Senders,
         Hears(p, i, s), since[p] <= cursor[p],
         NEW m \in MsgIds, log[i].frag = Frag(m, 0)
  PROVE  EntryOK(p, s)' /\ Files(p, i)
<1>1. i \in Nat /\ 0 \in 0..m.size /\ 0 \in 0..m.size - 1 /\ 0 # m.size /\ m.size \in Nat
  <2>1. m.size \in 1..MaxChunks /\ MaxChunks \in Nat /\ Len(log) \in Nat /\ m.size \in Nat
    BY MessageParts, SpreadUtilAssumption, TypeParts
  <2> QED
    BY <2>1
<1>2. /\ log[i].frag.kind = "head" /\ log[i].frag.id = m /\ ~Ends(i)
  BY <1>1, FragEnds
<1>3. HeadIndex(m) = i
  BY HeadIndexValue DEF LogInv, Frag
<1>4. LastHeard(p, s, m, 0, i)' /\ since[p] < i /\ since[p] \in Nat
  BY <1>1, HeardNow, HearsLast
<1>5. /\ dict'[p][s] = [rem |-> m.size, data |-> <<>>] /\ queue'[p] = queue[p]
      /\ log' = log /\ since' = since
  BY <1>2 DEF Hears, Completes, Reassembled
<1>6. HeadIndex(m)' = i
  BY <1>3, <1>5 DEF HeadIndex
<1>7. [rem |-> m.size, data |-> <<>>] = [rem |-> m.size - 0, data |-> [a \in 1..0 |-> Chunk(m, a)]]
  <2>1. m.size - 0 = m.size
    BY <1>1
  <2>2. <<>> = [a \in 1..0 |-> Chunk(m, a)]
    <3>1. 1..0 = {} /\ DOMAIN <<>> = {}
      OBVIOUS
    <3> QED
      BY <3>1
  <2> QED
    BY <2>1, <2>2
<1>8. since'[p] < i
  BY <1>4, <1>5
<1>9. HeadIndex(m)' > since'[p]
  BY <1>1, <1>4, <1>5, <1>6, <1>8
<1>10. OpenEntry(p, s, m, 0, i)'
  BY <1>4, <1>5, <1>7, <1>9 DEF OpenEntry
<1>11. EntryOK(p, s)'
  BY <1>1, <1>5, <1>10 DEF EntryOK
<1>12. HeardWhole(p)' = HeardWhole(p)
  BY <1>1, <1>2, HeardOneMore
<1> QED
  BY <1>5, <1>11, <1>12 DEF Files

\* The next chunk of a message that is collected.
LEMMA HearsNext ==
  ASSUME TypeOK, LogInv, NEW p \in Peers, NEW i \in 1..Len(log), NEW s \in Senders,
         Hears(p, i, s), since[p] <= cursor[p],
         NEW m \in MsgIds, NEW k \in 1..m.size, log[i].frag = Frag(m, k),
         NEW o \in MsgIds, NEW l \in 0..o.size - 1, NEW g \in 1..Len(log), OpenEntry(p, s, o, l, g)
  PROVE  EntryOK(p, s)' /\ Files(p, i)
<1>1. /\ i \in Nat /\ k \in Nat /\ k \in 0..m.size /\ k # 0 /\ m.size \in Nat
      /\ l \in Nat /\ k - 1 \in Nat
  <2>1. Len(log) \in Nat /\ m.size \in Nat /\ o.size \in Nat
    BY MessageParts, TypeParts
  <2> QED
    BY <2>1
<1>2. PICK j \in 1..Len(log) : log[j].frag = Frag(m, k - 1) /\ LastOf(s, j, cursor[p])
  BY BeforeChunk
<1>3. o = m /\ l = k - 1
  <2>1. LastOf(s, g, cursor[p]) /\ log[g].frag = Frag(o, l)
    BY DEF OpenEntry, LastHeard
  <2>2. cursor[p] \in Nat /\ g \in Nat /\ j \in Nat
    BY TypeParts
  <2>3. g = j
    BY <1>2, <2>1, <2>2, LastOfUnique
  <2> QED
    BY <1>1, <1>2, <2>1, <2>3, FragInjective
<1>4. /\ HeadIndex(m) > since[p]
      /\ dict[p][s] = [rem |-> m.size - (k - 1), data |-> [a \in 1..k - 1 |-> Chunk(m, a)]]
  BY <1>3 DEF OpenEntry
<1>5. /\ log[i].frag.kind = "chunk" /\ log[i].frag.id = m /\ (Ends(i) <=> k = m.size)
      /\ log[i].frag = Chunk(m, k) /\ "chunk" # "head"
  <2>1. log[i].frag = Chunk(m, k)
    BY <1>1 DEF Frag
  <2>2. k \in 0..m.size /\ k # 0
    BY <1>1
  <2>3. /\ log[i].frag.id = m /\ (Ends(i) <=> k = m.size)
        /\ log[i].frag.kind = IF k = 0 THEN "head" ELSE "chunk"
    BY <2>2, FragEnds
  <2>4. "chunk" # "head"
    OBVIOUS
  <2> QED
    BY <2>1, <2>2, <2>3, <2>4
<1>6. log' = log /\ since' = since /\ HeadIndex(m)' = HeadIndex(m)
  <2>1. log' = log /\ since' = since
    BY DEF Hears
  <2> QED
    BY <2>1 DEF HeadIndex
<1> DEFINE d == dict[p][s]
           f == log[i].frag
           w == [a \in 1..k - 1 |-> Chunk(m, a)]
           v == [a \in 1..k |-> Chunk(m, a)]
<1>7. d.rem = m.size - (k - 1) /\ d.data = w /\ d.rem # 0 /\ (d.rem = 1 <=> k = m.size)
  <2>1. d.rem = m.size - (k - 1) /\ d.data = w
    BY <1>4
  <2> HIDE DEF d
  <2> QED
    BY <1>1, <2>1
<1>8. Append(w, f) = v
  <2>1. w \in Seq(Fragments) /\ f \in Fragments /\ Len(w) = k - 1
    <3>1. \A a \in 1..k : Chunk(m, a) \in Fragments
      <4>1. m.size \in 1..MaxChunks /\ MaxChunks \in Nat
        BY MessageParts, SpreadUtilAssumption
      <4>2. \A a \in 1..k : a \in 1..MaxChunks
        BY <1>1, <4>1
      <4> QED
        BY <4>2 DEF Fragments
    <3>2. w \in [1..k - 1 -> Fragments]
      BY <1>1, <3>1
    <3> QED
      BY <1>1, <1>5, <3>1, <3>2, LenProperties
  <2>2. \A a \in 1..k - 1 : w[a] = Chunk(m, a)
    OBVIOUS
  <2>3. f = Chunk(m, k)
    BY <1>5
  <2> HIDE DEF w, f
  <2>4. /\ Append(w, f) \in Seq(Fragments) /\ Len(Append(w, f)) = (k - 1) + 1
        /\ \A a \in 1..k - 1 : Append(w, f)[a] = w[a]
        /\ Append(w, f)[(k - 1) + 1] = f
    BY <2>1, AppendProperties
  <2>5. (k - 1) + 1 = k
    BY <1>1
  <2>6. Append(w, f) \in [1..k -> Fragments]
    BY <2>4, <2>5, LenProperties
  <2>7. \A a \in 1..k : Append(w, f)[a] = Chunk(m, a)
    <3> SUFFICES ASSUME NEW a \in 1..k PROVE Append(w, f)[a] = Chunk(m, a)
      OBVIOUS
    <3>1. CASE a = k
      BY <2>3, <2>4, <2>5, <3>1
    <3>2. CASE a # k
      <4>1. a \in 1..k - 1
        BY <1>1, <3>2
      <4> QED
        BY <2>2, <2>4, <4>1
    <3> QED
      BY <3>1, <3>2
  <2> QED
    BY <2>6, <2>7
<1>9. Reassembled(d, f) = [rem |-> m.size - k, data |-> v]
  <2>1. Reassembled(d, f) = [rem |-> d.rem - 1, data |-> Append(d.data, f)]
    BY <1>5, <1>7 DEF Reassembled
  <2>2. d.rem - 1 = m.size - k
    <3>1. d.rem = m.size - (k - 1)
      BY <1>7
    <3> HIDE DEF d
    <3> QED
      BY <1>1, <3>1
  <2> HIDE DEF d, f
  <2> QED
    BY <1>7, <1>8, <2>1, <2>2
<1>10. Completes(d, f) <=> k = m.size
  BY <1>5, <1>7 DEF Completes
<1>11. LastHeard(p, s, m, k, i)' /\ since[p] < i
       /\ \A q \in MsgIds : \A a, b : b \in Nat /\ LastHeard(p, s, q, a, b)' => log[i].frag = Frag(q, a)
  BY <1>1, HeardNow, HearsLast
<1>12. /\ dict'[p][s] = IF Completes(d, f) THEN EmptyEntry ELSE Reassembled(d, f)
       /\ queue'[p] = IF Completes(d, f) THEN Append(queue[p], Reassembled(d, f).data) ELSE queue[p]
  BY DEF Hears
<1>13. HeardWhole(p)' = IF Ends(i) THEN HeardWhole(p) \cup {i} ELSE HeardWhole(p)
  <2>1. HeardWhole(p)' = IF Ends(i) /\ HeadIndex(f.id) > since[p]
                         THEN HeardWhole(p) \cup {i} ELSE HeardWhole(p)
    BY <1>1, HeardOneMore
  <2> QED
    BY <1>4, <1>5, <2>1
<1>14. CASE k = m.size
  <2>1. v = Payload(m)
    BY <1>14 DEF Payload
  <2>2. dict'[p][s] = EmptyEntry /\ queue'[p] = Append(queue[p], Payload(m))
    <3> HIDE DEF d, f, v
    <3> QED
      BY <1>9, <1>10, <1>12, <1>14, <2>1
  <2>3. Files(p, i)
    BY <1>5, <1>13, <1>14, <2>2 DEF Files
  <2>4. ASSUME NEW q \in MsgIds, NEW a \in 0..q.size, NEW b \in 1..Len(log),
               LastHeard(p, s, q, a, b)'
        PROVE  a = q.size
    <3>1. a \in Nat /\ b \in Nat
      <4>1. q.size \in Nat /\ Len(log) \in Nat
        BY MessageParts, TypeParts
      <4> QED
        BY <4>1
    <3>2. Frag(m, k) = Frag(q, a)
      BY <1>11, <2>4, <3>1
    <3>3. m = q /\ k = a
      BY <1>1, <3>1, <3>2, FragInjective
    <3> QED
      BY <1>14, <3>3
  <2>5. ClosedEntry(p, s)'
    BY <1>6, <2>2, <2>4 DEF ClosedEntry
  <2> QED
    BY <2>3, <2>5 DEF EntryOK
<1>15. CASE k # m.size
  <2>1. dict'[p][s] = [rem |-> m.size - k, data |-> v] /\ queue'[p] = queue[p]
    <3> HIDE DEF d, f, v
    <3> QED
      BY <1>9, <1>10, <1>12, <1>15
  <2>2. Files(p, i)
    BY <1>5, <1>13, <1>15, <2>1 DEF Files
  <2>3. OpenEntry(p, s, m, k, i)'
    BY <1>4, <1>6, <1>11, <2>1 DEF OpenEntry
  <2>4. k \in 0..m.size - 1
    BY <1>1, <1>15
  <2>5. EntryOK(p, s)'
    BY <1>6, <2>3, <2>4 DEF EntryOK
  <2> QED
    BY <2>2, <2>5
<1> QED
  BY <1>14, <1>15

\* A chunk of a message that is not collected, for its head came before START.
LEMMA HearsLate ==
  ASSUME TypeOK, LogInv, NEW p \in Peers, NEW i \in 1..Len(log), NEW s \in Senders,
         Hears(p, i, s), since[p] <= cursor[p],
         NEW m \in MsgIds, NEW k \in 1..m.size, log[i].frag = Frag(m, k), ClosedEntry(p, s)
  PROVE  EntryOK(p, s)' /\ Files(p, i)
<1>1. /\ i \in Nat /\ k \in Nat /\ k \in 0..m.size /\ k # 0 /\ m.size \in Nat
      /\ k - 1 \in Nat /\ k - 1 \in 0..m.size /\ k - 1 # m.size
  <2>1. Len(log) \in Nat /\ m.size \in Nat
    BY MessageParts, TypeParts
  <2> QED
    BY <2>1
<1>2. PICK j \in 1..Len(log) : log[j].frag = Frag(m, k - 1) /\ LastOf(s, j, cursor[p])
  BY BeforeChunk
<1>3. /\ log[i].frag.kind = "chunk" /\ log[i].frag.id = m /\ "chunk" # "head"
  BY <1>1, FragEnds
<1>4. HeadIndex(m) <= since[p]
  <2>1. HeadIndex(m) \in 1..j
    BY <1>1, <1>2, FragInLog
  <2>2. since[p] \in Nat /\ j \in Nat
    BY TypeParts
  <2>3. CASE j > since[p]
    <3>1. LastHeard(p, s, m, k - 1, j)
      BY <1>2, <2>3 DEF LastHeard
    <3> QED
      BY <1>1, <3>1 DEF ClosedEntry
  <2>4. CASE ~(j > since[p])
    <3> DEFINE h == HeadIndex(m)
    <3>1. h \in 1..j
      BY <2>1
    <3> HIDE DEF h
    <3>2. h <= since[p]
      BY <2>2, <2>4, <3>1
    <3> QED
      BY <3>2 DEF h
  <2> QED
    BY <2>3, <2>4
<1>5. log' = log /\ since' = since /\ HeadIndex(m)' = HeadIndex(m)
  <2>1. log' = log /\ since' = since
    BY DEF Hears
  <2> QED
    BY <2>1 DEF HeadIndex
<1>6. dict'[p][s] = EmptyEntry /\ queue'[p] = queue[p]
  <2>1. dict[p][s] = EmptyEntry /\ EmptyEntry.rem = 0
    BY DEF ClosedEntry, EmptyEntry
  <2> QED
    BY <1>3, <2>1 DEF Hears, Completes, Reassembled
<1>7. HeardWhole(p)' = HeardWhole(p)
  <2>1. HeardWhole(p)' = IF Ends(i) /\ HeadIndex(m) > since[p]
                         THEN HeardWhole(p) \cup {i} ELSE HeardWhole(p)
    BY <1>1, <1>3, HeardOneMore
  <2>2. ~(HeadIndex(m) > since[p])
    <3>1. HeadIndex(m) \in 1..i /\ since[p] \in Nat
      BY <1>1, FragInLog, TypeParts
    <3> DEFINE h == HeadIndex(m)
    <3>2. h \in 1..i /\ h <= since[p]
      BY <1>4, <3>1
    <3> HIDE DEF h
    <3>3. ~(h > since[p])
      BY <3>1, <3>2
    <3> QED
      BY <3>3 DEF h
  <2> QED
    BY <2>1, <2>2
<1>8. ASSUME NEW q \in MsgIds, NEW a \in 0..q.size, NEW b \in 1..Len(log),
             LastHeard(p, s, q, a, b)'
      PROVE  HeadIndex(q)' <= since'[p]
  <2>1. a \in Nat /\ b \in Nat
    <3>1. q.size \in Nat /\ Len(log) \in Nat
      BY MessageParts, TypeParts
    <3> QED
      BY <3>1
  <2>2. Frag(m, k) = Frag(q, a)
    BY <1>1, <1>8, <2>1, HeardNow
  <2>3. m = q
    BY <1>1, <2>1, <2>2, FragInjective
  <2> QED
    BY <1>4, <1>5, <2>3
<1>9. ClosedEntry(p, s)'
  BY <1>5, <1>6, <1>8 DEF ClosedEntry
<1> QED
  BY <1>6, <1>7, <1>9 DEF EntryOK, Files

\* START, a second time.
LEMMA HearsStart ==
  ASSUME TypeOK, LogInv, NEW p \in Peers, NEW i \in 1..Len(log), NEW s \in Senders,
         Hears(p, i, s), since[p] <= cursor[p],
         log[i].frag = StartSignal, log[i].from = Starter, EntryOK(p, s)
  PROVE  EntryOK(p, s)' /\ Files(p, i)
<1>1. s = Starter /\ i \in Nat
  <2>1. Len(log) \in Nat
    BY TypeParts
  <2> QED
    BY <2>1 DEF Hears
<1>2. ClosedEntry(p, s)
  <2>1. ASSUME NEW m \in MsgIds, NEW k \in 0..m.size - 1, NEW j \in 1..Len(log),
               OpenEntry(p, s, m, k, j)
        PROVE  FALSE
    <3>1. log[j].from = s /\ log[j].frag = Frag(m, k) /\ k \in 0..m.size
      BY <2>1, MessageParts DEF OpenEntry, LastHeard, LastOf
    <3>2. log[j].from = m.from
      BY <3>1, FragInLog
    <3> QED
      BY <1>1, <3>1, <3>2, MessageParts
  <2> QED
    BY <2>1 DEF EntryOK
<1>3. log[i].frag.kind = "start" /\ "start" # "head" /\ "start" # "chunk"
  BY FragmentKinds
<1>4. dict'[p][s] = EmptyEntry /\ queue'[p] = queue[p] /\ log' = log
  <2>1. dict[p][s] = EmptyEntry /\ EmptyEntry.rem = 0
    BY <1>2 DEF ClosedEntry, EmptyEntry
  <2> QED
    BY <1>3, <2>1 DEF Hears, Completes, Reassembled
<1>5. HeardWhole(p)' = HeardWhole(p)
  <2>1. ~Ends(i)
    BY <1>3 DEF Ends
  <2> QED
    BY <1>1, <2>1, HeardOneMore
<1>6. ASSUME NEW q \in MsgIds, NEW a \in 0..q.size, NEW b \in 1..Len(log),
             LastHeard(p, s, q, a, b)'
      PROVE  FALSE
  <2>1. b \in Nat
    <3>1. Len(log) \in Nat
      BY TypeParts
    <3> QED
      BY <3>1
  <2>2. log[i].frag = Frag(q, a)
    BY <1>1, <1>6, <2>1, HeardNow
  <2>3. log[i].frag.kind = IF a = 0 THEN "head" ELSE "chunk"
    BY <2>2, FragEnds
  <2> QED
    BY <1>3, <2>3
<1>7. ClosedEntry(p, s)'
  BY <1>4, <1>6 DEF ClosedEntry
<1> QED
  BY <1>4, <1>5, <1>7 DEF EntryOK, Files

\* The queue lists the messages heard as a whole, after the step as before it.
LEMMA FilesLists ==
  ASSUME TypeOK, NEW p \in Peers, NEW i \in 1..Len(log), NEW s \in Senders,
         Hears(p, i, s), Files(p, i), NEW f, Lists(p, f)
  PROVE  \E g : Lists(p, g)'
<1>1. PICK n : n = Len(queue[p])
  OBVIOUS
<1>2. PICK c : c = cursor[p]
  OBVIOUS
<1>3. n \in Nat /\ c \in Nat /\ queue[p] \in Seq(Seq(Fragments)) /\ since[p] \in Nat
  BY <1>1, <1>2, TypeParts
<1>4. log' = log /\ c < i /\ i \in Nat
  <2>1. Len(log) \in Nat
    BY TypeParts
  <2> QED
    BY <1>2, <2>1 DEF Hears
<1>5. /\ f \in [1..n -> HeardWhole(p)]
      /\ \A a, b \in 1..n : a < b => f[a] < f[b]
      /\ \A x \in HeardWhole(p) : \E a \in 1..n : f[a] = x
      /\ \A a \in 1..n : queue[p][a] = Payload(log[f[a]].frag.id)
  BY <1>1 DEF Lists
<1>6. CASE queue'[p] = queue[p] /\ HeardWhole(p)' = HeardWhole(p)
  <2>1. Lists(p, f)'
    BY <1>1, <1>4, <1>5, <1>6 DEF Lists
  <2> QED
    BY <2>1
<1>7. CASE /\ queue'[p] = Append(queue[p], Payload(log[i].frag.id))
           /\ HeardWhole(p)' = HeardWhole(p) \cup {i}
  <2> DEFINE g == [a \in 1..n + 1 |-> IF a = n + 1 THEN i ELSE f[a]]
  <2>1. \A x \in HeardWhole(p) : x \in Nat /\ x <= c
    BY <1>2, <1>3 DEF HeardWhole
  <2>2. \A a \in 1..n : a \in 1..n + 1 /\ a # n + 1 /\ g[a] = f[a]
    BY <1>3
  <2>3. n + 1 \in 1..n + 1 /\ g[n + 1] = i
    BY <1>3
  <2>4. \A a \in 1..n + 1 : a \in 1..n \/ a = n + 1
    BY <1>3
  <2>5. g \in [1..n + 1 -> HeardWhole(p) \cup {i}]
    BY <1>5, <2>4
  <2> HIDE DEF g
  <2>6. ASSUME NEW a \in 1..n + 1, NEW b \in 1..n + 1, a < b PROVE g[a] < g[b]
    <3>1. a \in 1..n
      BY <1>3, <2>6
    <3>2. CASE b \in 1..n
      BY <1>5, <2>2, <2>6, <3>1, <3>2
    <3>3. CASE b = n + 1
      <4>1. f[a] \in Nat /\ f[a] <= c
        BY <1>5, <2>1, <3>1
      <4>2. f[a] < i
        BY <1>3, <1>4, <4>1
      <4> QED
        BY <2>2, <2>3, <3>1, <3>3, <4>2
    <3> QED
      BY <2>4, <3>2, <3>3
  <2>7. ASSUME NEW x \in HeardWhole(p) \cup {i} PROVE \E a \in 1..n + 1 : g[a] = x
    <3>1. CASE x = i
      BY <2>3, <3>1
    <3>2. CASE x \in HeardWhole(p)
      <4>1. PICK a \in 1..n : f[a] = x
        BY <1>5, <3>2
      <4> QED
        BY <2>2, <4>1
    <3> QED
      BY <3>1, <3>2
  <2> DEFINE y == Payload(log[i].frag.id)
             q == queue'[p]
  <2>8. /\ Len(q) = n + 1 /\ q[n + 1] = y
        /\ \A a \in 1..n : q[a] = queue[p][a]
    <3>1. q = Append(queue[p], y)
      BY <1>7
    <3>2. queue[p] \in Seq(Seq(Fragments) \cup {y}) /\ y \in Seq(Fragments) \cup {y}
      <4>1. DOMAIN queue[p] = 1..n /\ \A a \in 1..n : queue[p][a] \in Seq(Fragments)
        BY <1>1, <1>3
      <4>2. queue[p] \in [1..n -> Seq(Fragments) \cup {y}]
        BY <1>1, <1>3, <4>1, LenProperties
      <4> QED
        BY <1>3, <4>2
    <3> HIDE DEF y, q
    <3> QED
      BY <1>1, <3>1, <3>2, AppendProperties
  <2>9. ASSUME NEW a \in 1..n + 1 PROVE q[a] = Payload(log[g[a]].frag.id)
    <3>1. CASE a \in 1..n
      BY <1>5, <2>2, <2>8, <3>1
    <3>2. CASE a = n + 1
      BY <2>3, <2>8, <3>2
    <3> QED
      BY <2>4, <3>1, <3>2
  <2>10. Len(queue'[p]) = n + 1
    BY <2>8
  <2>11. PICK h : h = g
    OBVIOUS
  <2>12. Lists(p, h)'
    BY <1>4, <1>7, <2>5, <2>6, <2>7, <2>9, <2>10, <2>11 DEF Lists
  <2> QED
    BY <2>12
<1> QED
  BY <1>6, <1>7 DEF Files

\* What one pass of the loop of recv_chunks does to the entry and the queue.
LEMMA ReceiveFiles ==
  ASSUME TypeOK, LogInv, NEW p \in Peers, PeerInv(p), Receive(p)
  PROVE  \E i \in 1..Len(log), s \in Senders : Hears(p, i, s) /\ EntryOK(p, s)' /\ Files(p, i)
<1>1. PICK i \in 1..Len(log), s \in Senders : Hears(p, i, s)
  BY ReceiveHears
<1>2. Listening(p) /\ Listening(p)' /\ s # p
  BY <1>1 DEF Hears, Listening
<1>3. /\ since[p] <= cursor[p]
      /\ \A r \in Senders \ {p} : EntryOK(p, r)
  BY <1>2 DEF PeerInv
<1>4. EntryOK(p, s)' /\ Files(p, i)
  <2>1. EntryOK(p, s) /\ log[i].from = s
    BY <1>1, <1>2, <1>3 DEF Hears
  <2>2. CASE log[i].frag = StartSignal /\ log[i].from = Starter
    BY <1>1, <1>3, <2>1, <2>2, HearsStart
  <2>3. ASSUME NEW m \in MsgIds, NEW k \in 0..m.size, log[i].frag = Frag(m, k)
        PROVE  EntryOK(p, s)' /\ Files(p, i)
    <3>1. CASE k = 0
      BY <1>1, <1>3, <2>3, <3>1, HearsHead
    <3>2. CASE k # 0
      <4>1. k \in 1..m.size
        BY <3>2, MessageParts
      <4>2. ASSUME NEW o \in MsgIds, NEW l \in 0..o.size - 1, NEW g \in 1..Len(log),
                   OpenEntry(p, s, o, l, g)
            PROVE  EntryOK(p, s)' /\ Files(p, i)
        BY <1>1, <1>3, <2>3, <4>1, <4>2, HearsNext
      <4>3. CASE ClosedEntry(p, s)
        BY <1>1, <1>3, <2>3, <4>1, <4>3, HearsLate
      <4> QED
        BY <2>1, <4>2, <4>3 DEF EntryOK
    <3> QED
      BY <3>1, <3>2
  <2> QED
    BY <2>2, <2>3, EntryCases
<1> QED
  BY <1>1, <1>4

LEMMA ReceivePeer ==
  ASSUME TypeOK, LogInv, NEW p \in Peers, PeerInv(p), Receive(p)
  PROVE  PeerInv(p)'
<1>1. PICK i \in 1..Len(log), s \in Senders : Hears(p, i, s) /\ EntryOK(p, s)' /\ Files(p, i)
  BY ReceiveFiles
<1>2. Listening(p) /\ Listening(p)' /\ s # p
  BY <1>1 DEF Hears, Listening
<1>3. /\ since[p] <= cursor[p]
      /\ \A r \in Senders \ {p} : EntryOK(p, r)
      /\ \E f : Lists(p, f)
  BY <1>2 DEF PeerInv
<1>4. i \in Nat /\ Len(log) \in Nat
  BY TypeParts
<1>5. \A r \in Senders \ {p} : r # s => EntryOK(p, r)'
  BY <1>1, <1>3, <1>4, OtherEntry
<1>6. EntryOK(p, s)' /\ Files(p, i)
  BY <1>1
<1>7. \E g : Lists(p, g)'
  BY <1>1, <1>3, <1>6, FilesLists
<1>8. since'[p] <= cursor'[p]
  <2>1. since'[p] = since[p] /\ cursor'[p] = i
    BY <1>1 DEF Hears
  <2>2. since[p] \in Nat /\ since[p] < i
    BY <1>1, <1>3, <1>4, HearsLast
  <2> QED
    BY <1>4, <2>1, <2>2
<1> QED
  BY <1>2, <1>5, <1>6, <1>7, <1>8 DEF PeerInv

\* The listener starts behind START with nothing.
LEMMA AwaitPeer ==
  ASSUME TypeOK, LogInv, NEW p \in Peers, PeerInv(p), AwaitStart(p)
  PROVE  PeerInv(p)'
<1> DEFINE i == NextEntry(p)
<1>1. i \in 1..Len(log) /\ i > cursor[p]
  BY TypeParts, NextEntryIsFirst DEF AwaitStart
<1>2. ~Listening(p) /\ log' = log /\ dict' = dict /\ queue' = queue
  BY DEF AwaitStart, Listening
<1>3. /\ \A s \in Senders : dict[p][s] = EmptyEntry
      /\ queue[p] = <<>>
  BY <1>2 DEF PeerInv
<1>4. CASE log[i].frag = StartSignal
  <2>1. /\ cursor' = [cursor EXCEPT ![p] = i] /\ since' = [since EXCEPT ![p] = i]
        /\ phase' = [phase EXCEPT ![p] = "listen"]
    BY <1>4 DEF AwaitStart
  <2> HIDE DEF i
  <2>2. i \in Nat
    <3>1. Len(log) \in Nat
      BY TypeParts
    <3> QED
      BY <1>1, <3>1
  <2>3. cursor'[p] = i /\ since'[p] = i /\ Listening(p)'
    BY <2>1 DEF TypeOK, Listening
  <2>4. \A s, m, k, j : ~LastHeard(p, s, m, k, j)'
    BY <2>2, <2>3 DEF LastHeard, LastOf
  <2>5. \A s \in Senders \ {p} : ClosedEntry(p, s)'
    BY <1>2, <1>3, <2>4 DEF ClosedEntry
  <2>6. HeardWhole(p)' = {}
    <3>1. (i + 1)..i = {}
      BY <2>2
    <3> QED
      BY <2>3, <3>1 DEF HeardWhole
  <2>7. Lists(p, <<>>)'
    <3>1. queue'[p] = <<>> /\ Len(queue'[p]) = 0 /\ 1..0 = {}
      BY <1>2, <1>3
    <3>2. <<>> \in [1..0 -> {}]
      BY <3>1
    <3> QED
      BY <2>6, <3>1, <3>2 DEF Lists
  <2>8. since'[p] <= cursor'[p]
    BY <2>2, <2>3
  <2> QED
    BY <2>3, <2>5, <2>7, <2>8 DEF PeerInv, EntryOK
<1>5. CASE log[i].frag # StartSignal
  <2>1. phase' = [phase EXCEPT ![p] = "failed"]
    BY <1>5 DEF AwaitStart
  <2>2. ~Listening(p)'
    BY <2>1 DEF TypeOK, Listening
  <2> QED
    BY <1>2, <2>2, PeerIdle
<1> QED
  BY <1>4, <1>5

\* A peer to which a step does nothing but make the log longer.
LEMMA PeerQuiet ==
  ASSUME TypeOK, LogInv, TypeOK', LogInv', NEW p \in Peers, PeerInv(p),
         \/ log' = log
         \/ \E s \in Senders, f \in Fragments : log' = Append(log, [from |-> s, frag |-> f]),
         dict'[p] = dict[p], queue'[p] = queue[p], Listening(p)' <=> Listening(p),
         Listening(p) => cursor'[p] = cursor[p] /\ since'[p] = since[p]
  PROVE  PeerInv(p)'
<1>1. Len(log) \in Nat
  BY TypeParts
<1>2. Len(log) <= Len(log') /\ \A i \in 1..Len(log) : log'[i] = log[i]
  <2>1. CASE log' = log
    BY <1>1, <2>1
  <2>2. ASSUME NEW s \in Senders, NEW f \in Fragments, log' = Append(log, [from |-> s, frag |-> f])
        PROVE  Len(log) <= Len(log') /\ \A i \in 1..Len(log) : log'[i] = log[i]
    <3>1. Len(log') = Len(log) + 1 /\ \A i \in 1..Len(log) : log'[i] = log[i]
      BY <2>2, AppendLog
    <3> QED
      BY <1>1, <3>1
  <2> QED
    BY <2>1, <2>2
<1>3. CASE Listening(p)
  BY <1>2, <1>3, PeerKept
<1>4. CASE ~Listening(p)
  BY <1>4, PeerIdle
<1> QED
  BY <1>3, <1>4

LEMMA PeersStep ==
  ASSUME TypeOK, LogInv, TypeOK', LogInv', \A p \in Peers : PeerInv(p), [Next]_vars
  PROVE  \A p \in Peers : PeerInv(p)'
<1> SUFFICES ASSUME NEW q \in Peers PROVE PeerInv(q)'
  OBVIOUS
<1>t. phase \in [Peers -> Phases] /\ PeerInv(q)
  BY DEF TypeOK
<1>1. CASE Start
  <2>1. log' = Append(log, [from |-> Starter, frag |-> StartSignal])
    BY <1>1 DEF Start
  <2>2. Starter \in Senders /\ StartSignal \in Fragments
    BY DEF Senders, Fragments
  <2>3. /\ dict'[q] = dict[q] /\ queue'[q] = queue[q] /\ cursor'[q] = cursor[q]
        /\ since'[q] = since[q] /\ (Listening(q)' <=> Listening(q))
    BY <1>1 DEF Start, procVars, Listening
  <2> QED
    BY <1>t, <2>1, <2>2, <2>3, PeerQuiet
<1>2. ASSUME NEW p \in Peers, Launch(p) \/ Join(p) PROVE PeerInv(q)'
  <2>1. log' = log /\ dict' = dict /\ queue' = queue /\ since' = since
    BY <1>2 DEF Launch, Join, procVars
  <2>2. Listening(q)' <=> Listening(q)
    BY <1>t, <1>2 DEF Launch, Join, Listening
  <2>3. Listening(q) => cursor'[q] = cursor[q]
    BY <1>t, <1>2 DEF Launch, Join, Listening, TypeOK
  <2> QED
    BY <1>t, <2>1, <2>2, <2>3, PeerQuiet
<1>3. ASSUME NEW p \in Peers, AwaitStart(p) PROVE PeerInv(q)'
  <2>1. CASE q = p
    BY <1>t, <1>3, <2>1, AwaitPeer
  <2>2. CASE q # p
    <3>1. log' = log /\ dict' = dict /\ queue' = queue
      BY <1>3 DEF AwaitStart
    <3>2. cursor'[q] = cursor[q] /\ since'[q] = since[q] /\ phase'[q] = phase[q]
      <4> DEFINE i == NextEntry(p)
      <4>1. /\ cursor' = [cursor EXCEPT ![p] = i]
            /\ \/ phase' = [phase EXCEPT ![p] = "listen"] /\ since' = [since EXCEPT ![p] = i]
               \/ phase' = [phase EXCEPT ![p] = "failed"] /\ since' = since
        BY <1>3 DEF AwaitStart
      <4> HIDE DEF i
      <4> QED
        BY <2>2, <4>1 DEF TypeOK
    <3> QED
      BY <1>t, <3>1, <3>2, PeerQuiet DEF Listening
  <2> QED
    BY <2>1, <2>2
<1>4. ASSUME NEW p \in Peers, NEW n \in 1..MaxChunks, SendChunks(p, n) PROVE PeerInv(q)'
  <2>1. /\ log' = log /\ dict' = dict /\ queue' = queue /\ since' = since /\ cursor' = cursor
        /\ phase' = phase
    BY <1>4 DEF SendChunks
  <2> QED
    BY <1>t, <2>1, PeerQuiet DEF Listening
<1>5. ASSUME NEW p \in Peers, Send(p) PROVE PeerInv(q)'
  <2>1. outbox[p] \in Seq(Fragments) /\ outbox[p] # <<>> /\ p \in Senders
    BY <1>5 DEF Send, TypeOK, Senders
  <2>2. Head(outbox[p]) \in Fragments
    BY <2>1
  <2>3. /\ log' = Append(log, [from |-> p, frag |-> Head(outbox[p])])
        /\ dict' = dict /\ queue' = queue /\ since' = since /\ cursor' = cursor /\ phase' = phase
    BY <1>5 DEF Send
  <2>4. \E s \in Senders, f \in Fragments : log' = Append(log, [from |-> s, frag |-> f])
    BY <2>1, <2>2, <2>3
  <2> QED
    BY <1>t, <2>3, <2>4, PeerQuiet DEF Listening
<1>6. ASSUME NEW p \in Peers, Receive(p) PROVE PeerInv(q)'
  <2>1. CASE q = p
    BY <1>t, <1>6, <2>1, ReceivePeer
  <2>2. CASE q # p
    <3>1. /\ dict'[q] = dict[q] /\ queue'[q] = queue[q] /\ cursor'[q] = cursor[q]
          /\ phase'[q] = phase[q] /\ log' = log /\ since' = since
      BY <1>6, <2>2, ReceiveHears
    <3> QED
      BY <1>t, <3>1, PeerQuiet DEF Listening
  <2> QED
    BY <2>1, <2>2
<1>7. ASSUME NEW p \in Peers, Poll(p) \/ Timeout(p) \/ Stop(p) PROVE PeerInv(q)'
  <2>1. log' = log /\ dict' = dict /\ queue' = queue /\ since' = since /\ cursor' = cursor
    BY <1>7 DEF Poll, Timeout, Stop
  <2>2. Listening(q)' <=> Listening(q)
    BY <1>t, <1>7 DEF Poll, Timeout, Stop, EndCycle, Listening
  <2> QED
    BY <1>t, <2>1, <2>2, PeerQuiet
<1>8. ASSUME NEW p \in Peers, Crash(p) PROVE PeerInv(q)'
  <2>1. /\ phase' = [phase EXCEPT ![p] = "off"] /\ since' = [since EXCEPT ![p] = 0]
        /\ dict' = [dict EXCEPT ![p] = [s \in Senders |-> EmptyEntry]]
        /\ queue' = [queue EXCEPT ![p] = <<>>]
        /\ log' = log /\ cursor' = cursor
    BY <1>8 DEF Crash
  <2>2. /\ dict \in [Peers -> [Senders -> Entry]] /\ queue \in [Peers -> Seq(Seq(Fragments))]
        /\ since \in [Peers -> 0..Len(log)]
    BY DEF TypeOK
  <2>3. CASE q = p
    BY <1>t, <2>1, <2>2, <2>3 DEF PeerInv, Listening
  <2>4. CASE q # p
    <3>1. /\ dict'[q] = dict[q] /\ queue'[q] = queue[q] /\ since'[q] = since[q]
          /\ phase'[q] = phase[q]
      BY <1>t, <2>1, <2>2, <2>4
    <3> QED
      BY <1>t, <2>1, <3>1, PeerQuiet DEF Listening
  <2> QED
    BY <2>3, <2>4
<1>9. CASE UNCHANGED vars
  <2>1. /\ log' = log /\ dict' = dict /\ queue' = queue /\ since' = since /\ cursor' = cursor
        /\ phase' = phase
    BY <1>9 DEF vars, procVars
  <2> QED
    BY <1>t, <2>1, PeerQuiet DEF Listening
<1> QED
  BY <1>1, <1>2, <1>3, <1>4, <1>5, <1>6, <1>7, <1>8, <1>9 DEF Next

-----------------------------------------------------------------------------
\* n different elements are n elements.
LEMMA DistinctCardinality ==
  ASSUME NEW T \in SUBSET Nat, NEW n \in Nat, NEW f \in [1..n -> T],
         \A k, l \in 1..n : k < l => f[k] < f[l],
         \A i \in T : \E k \in 1..n : f[k] = i
  PROVE  Cardinality(T) = n
<1>1. IsFiniteSet(1..n) /\ Cardinality(1..n) = n
  <2>1. 1 \in Int /\ n \in Int
    OBVIOUS
  <2>2. IsFiniteSet(1..n) /\ Cardinality(1..n) = IF 1 > n THEN 0 ELSE n - 1 + 1
    BY <2>1, FS_Interval
  <2> QED
    BY <2>2
<1>2. \A k \in 1..n : f[k] \in Nat
  OBVIOUS
<1>3. \A k, l \in 1..n : f[k] = f[l] => k = l
  <2> SUFFICES ASSUME NEW k \in 1..n, NEW l \in 1..n, k # l PROVE f[k] # f[l]
    OBVIOUS
  <2>1. k < l \/ l < k
    OBVIOUS
  <2> QED
    BY <1>2, <2>1
<1>4. f \in Injection(1..n, T)
  BY <1>3, Fun_IsInj
<1>5. f \in Surjection(1..n, T)
  BY DEF Surjection
<1> QED
  BY <1>1, <1>4, <1>5, FS_Surjection

\* An increasing list of all elements of E has the k-th smallest at place k.
LEMMA Enumerates ==
  ASSUME NEW E \in SUBSET Nat, NEW n \in Nat, NEW f \in [1..n -> E],
         \A a, b \in 1..n : a < b => f[a] < f[b],
         \A i \in E : \E a \in 1..n : f[a] = i,
         NEW e \in E, NEW m \in 1..n
  PROVE  UpTo(E, e) = m <=> e = f[m]
<1>1. \A k \in 1..n : f[k] \in E /\ f[k] \in Nat
  OBVIOUS
<1>5. ASSUME NEW k \in 1..n PROVE UpTo(E, f[k]) = k
  <2> DEFINE g == [a \in 1..k |-> f[a]]
  <2>1. k \in Nat /\ \A a \in 1..k : a \in 1..n
    OBVIOUS
  <2>2. g \in [1..k -> E] /\ \A a, b \in 1..k : a < b => g[a] < g[b]
    BY <1>1, <2>1
  <2>3. \A a \in 1..n : f[a] <= f[k] <=> a \in 1..k
    <3> SUFFICES ASSUME NEW a \in 1..n PROVE f[a] <= f[k] <=> a \in 1..k
      OBVIOUS
    <3>1. a < k \/ a = k \/ k < a
      OBVIOUS
    <3>2. CASE a < k
      <4>1. f[a] < f[k] /\ f[a] \in Nat /\ f[k] \in Nat
        BY <1>1, <3>2
      <4> QED
        BY <3>2, <4>1
    <3>3. CASE a = k
      BY <1>1, <3>3
    <3>4. CASE k < a
      <4>1. f[k] < f[a] /\ f[a] \in Nat /\ f[k] \in Nat
        BY <1>1, <3>4
      <4> QED
        BY <3>4, <4>1
    <3> QED
      BY <3>1, <3>2, <3>3, <3>4
  <2>4. PICK T : T = {j \in E : j <= f[k]}
    OBVIOUS
  <2>5. \A i \in T : \E a \in 1..k : g[a] = i
    <3> SUFFICES ASSUME NEW i \in T PROVE \E a \in 1..k : g[a] = i
      OBVIOUS
    <3>1. PICK a \in 1..n : f[a] = i
      BY <2>4
    <3>2. a \in 1..k
      BY <2>3, <2>4, <3>1
    <3> QED
      BY <3>1, <3>2
  <2>6. T \in SUBSET Nat /\ g \in [1..k -> T]
    BY <1>1, <2>1, <2>3, <2>4
  <2> HIDE DEF g
  <2>7. Cardinality(T) = k
    BY <2>1, <2>2, <2>5, <2>6, DistinctCardinality
  <2> QED
    BY <2>4, <2>7, Zenon DEF UpTo
<1>6. PICK a \in 1..n : f[a] = e
  OBVIOUS
<1>7. UpTo(E, f[a]) = a /\ UpTo(E, f[m]) = m
  BY <1>5
<1> QED
  BY <1>6, <1>7

\* f lists the n elements of E in their order.
Enumeration(E, n, f) ==
  /\ f \in [1..n -> E]
  /\ \A a, b \in 1..n : a < b => f[a] < f[b]
  /\ \A i \in E : \E a \in 1..n : f[a] = i

LEMMA NthOfList ==
  ASSUME NEW E \in SUBSET Nat, NEW n \in Nat, NEW f, Enumeration(E, n, f)
  PROVE  /\ Cardinality(E) = n
         /\ \A k \in 1..n : Nth(E, k) = f[k] /\ UpTo(E, f[k]) = k
<1>a. /\ f \in [1..n -> E]
      /\ \A a, b \in 1..n : a < b => f[a] < f[b]
      /\ \A i \in E : \E a \in 1..n : f[a] = i
  BY DEF Enumeration
<1>1. Cardinality(E) = n
  BY <1>a, DistinctCardinality
<1>2. ASSUME NEW k \in 1..n PROVE Nth(E, k) = f[k] /\ UpTo(E, f[k]) = k
  <2>1. \A i \in E : UpTo(E, i) = k <=> i = f[k]
    BY <1>a, Enumerates
  <2>2. f[k] \in E
    BY <1>a
  <2>3. Nth(E, k) = CHOOSE i \in E : UpTo(E, i) = k
    BY Zenon DEF Nth
  <2> QED
    BY <2>1, <2>2, <2>3
<1> QED
  BY <1>1, <1>2

\* The invariant says what DeliveredExactly asks for.
LEMMA RecvInvDelivers ==
  ASSUME RecvInv
  PROVE  DeliveredExactly
<1> SUFFICES ASSUME NEW p \in Peers, phase[p] \in {"listen", "exited"}
             PROVE  queue[p] = [k \in 1..Cardinality(HeardWhole(p)) |->
                                  Payload(log[Nth(HeardWhole(p), k)].frag.id)]
  BY DEF DeliveredExactly
<1>1. PICK f : Lists(p, f)
  BY DEF RecvInv, PeerInv, Listening
<1>2. PICK n : n = Len(queue[p])
  OBVIOUS
<1>3. PICK E : E = HeardWhole(p)
  OBVIOUS
<1>4. queue[p] \in Seq(Seq(Fragments)) /\ n \in Nat /\ cursor[p] \in Nat /\ since[p] \in Nat
  BY <1>2, TypeParts DEF RecvInv
<1>5. E \in SUBSET Nat
  BY <1>3, <1>4 DEF HeardWhole
<1>6. /\ f \in [1..n -> E]
      /\ \A a, b \in 1..n : a < b => f[a] < f[b]
      /\ \A i \in E : \E a \in 1..n : f[a] = i
      /\ \A a \in 1..n : queue[p][a] = Payload(log[f[a]].frag.id)
  BY <1>1, <1>2, <1>3 DEF Lists
<1>7. Cardinality(E) = n /\ \A k \in 1..n : Nth(E, k) = f[k]
  <2>1. E \in SUBSET Nat /\ n \in Nat /\ Enumeration(E, n, f)
    BY <1>4, <1>5, <1>6 DEF Enumeration
  <2>2. /\ Cardinality(E) = n
        /\ \A k \in 1..n : Nth(E, k) = f[k] /\ UpTo(E, f[k]) = k
    BY <2>1, NthOfList
  <2> QED
    BY <2>2
<1>8. queue[p] = [k \in 1..n |-> Payload(log[Nth(E, k)].frag.id)]
  <2>1. queue[p] \in [1..n -> Seq(Fragments)]
    BY <1>2, <1>4, LenProperties
  <2>2. \A k \in 1..n : queue[p][k] = Payload(log[Nth(E, k)].frag.id)
    BY <1>6, <1>7
  <2> QED
    BY <2>1, <2>2
<1> QED
  BY <1>3, <1>7, <1>8

LEMMA RecvInvInit ==
  ASSUME Init
  PROVE  LogInv /\ \A p \in Peers : PeerInv(p)
<1>1. log = <<>> /\ Len(log) = 0 /\ 1..0 = {}
  BY DEF Init
<1>2. LogInv
  BY <1>1 DEF Init, LogInv, LogHeads, LogChunks, LogStarts, Outboxes
<1>3. \A p \in Peers : PeerInv(p)
  BY DEF Init, PeerInv, Listening
<1> QED
  BY <1>2, <1>3

\* The log and what every listener has made of it, in all reachable states.
THEOREM RecvInvariance == Spec => []RecvInv
<1>1. Init => LogInv /\ \A p \in Peers : PeerInv(p)
  BY RecvInvInit
<1>2. TypeOK /\ TypeOK' /\ LogInv /\ (\A p \in Peers : PeerInv(p)) /\ [Next]_vars
        => LogInv' /\ (\A p \in Peers : PeerInv(p))'
  <2> SUFFICES ASSUME TypeOK, TypeOK', LogInv, \A p \in Peers : PeerInv(p), [Next]_vars
               PROVE  LogInv' /\ (\A p \in Peers : PeerInv(p))'
    OBVIOUS
  <2>1. LogInv'
    BY LogStep
  <2>2. \A p \in Peers : PeerInv(p)'
    BY <2>1, PeersStep
  <2> QED
    BY <2>1, <2>2
<1>3. TypeOK /\ LogInv /\ (\A p \in Peers : PeerInv(p)) <=> RecvInv
  BY DEF RecvInv
<1> QED
  BY <1>1, <1>2, <1>3, TypeCorrect, PTL DEF Spec

\* Every listener has put in inc_msg_q exactly the messages that it heard from
\* their head to their end, each once, complete, and in the order of their
\* ends: for every number of peers, of messages and of chunks, in every
\* interleaving, with programs killed and started again at any moment.
THEOREM DeliveredExactlyAlways == Spec => []DeliveredExactly
<1>1. RecvInv => DeliveredExactly
  BY RecvInvDelivers
<1> QED
  BY <1>1, RecvInvariance, PTL

-----------------------------------------------------------------------------
(***************************************************************************)
(* The abstract multicast. As long as START is sent once, whoever listens  *)
(* hears everything that others send from its beginning; and as long as no *)
(* process is killed, what was put in a queue stays there.                 *)
(***************************************************************************)

\* START is the first entry of the log, and where listeners begin.
OneStart ==
  /\ starts = 0 => Len(log) = 0
  /\ \A i \in 1..Len(log) : log[i].frag = StartSignal <=> i = 1
  /\ \A p \in Peers : Listening(p) => since[p] = 1

\* g lists the ends of all messages in the log.
EndsList(n, g) == Enumeration(Finished, n, g)
Listed == \E n \in Nat : \E g : EndsList(n, g)

\* The messages taken are those heard.
TakenInv == \A p \in Peers : Taken(p) = IF Listening(p) THEN HeardWhole(p) ELSE {}

\* No step but the end of a process takes something away.
LEMMA LogGrows ==
  ASSUME TypeOK, [Next]_vars
  PROVE  \/ log' = log
         \/ \E s \in Senders, f \in Fragments : log' = Append(log, [from |-> s, frag |-> f])
<1>1. CASE Start
  <2>1. log' = Append(log, [from |-> Starter, frag |-> StartSignal])
    BY <1>1 DEF Start
  <2>2. Starter \in Senders /\ StartSignal \in Fragments
    BY DEF Senders, Fragments
  <2> QED
    BY <2>1, <2>2
<1>2. ASSUME NEW p \in Peers, Send(p)
      PROVE  \E s \in Senders, f \in Fragments : log' = Append(log, [from |-> s, frag |-> f])
  <2>1. outbox[p] \in Seq(Fragments) /\ outbox[p] # <<>> /\ p \in Senders
    BY <1>2 DEF Send, TypeOK, Senders
  <2>2. Head(outbox[p]) \in Fragments
    BY <2>1
  <2>3. log' = Append(log, [from |-> p, frag |-> Head(outbox[p])])
    BY <1>2 DEF Send
  <2> QED
    BY <2>1, <2>2, <2>3
<1>3. ASSUME NEW p \in Peers, NEW n \in 1..MaxChunks, SendChunks(p, n) PROVE log' = log
  BY <1>3 DEF SendChunks
<1>4. ASSUME NEW p \in Peers,
             \/ Launch(p) \/ Join(p) \/ AwaitStart(p) \/ Receive(p) \/ Poll(p)
             \/ Timeout(p) \/ Stop(p) \/ Crash(p)
      PROVE  log' = log
  BY <1>4 DEF Launch, Join, AwaitStart, Receive, Poll, Timeout, Stop, Crash
<1>5. CASE UNCHANGED vars
  BY <1>5 DEF vars
<1> QED
  BY <1>1, <1>2, <1>3, <1>4, <1>5 DEF Next

\* The number of STARTs never goes down.
LEMMA QuietBefore ==
  ASSUME TypeOK, [Next]_vars
  PROVE  starts' <= 1 => starts <= 1
<1>1. starts \in Nat
  BY SpreadUtilAssumption DEF TypeOK
<1>2. starts' = starts \/ starts' = starts + 1
  <2>1. CASE Start
    BY <2>1 DEF Start
  <2>2. ASSUME NEW p \in Peers, Launch(p) \/ Join(p) \/ AwaitStart(p) PROVE starts' = starts
    BY <2>2 DEF Launch, Join, AwaitStart
  <2>3. ASSUME NEW p \in Peers, Send(p) \/ Receive(p) \/ Poll(p) PROVE starts' = starts
    BY <2>3 DEF Send, Receive, Poll
  <2>4. ASSUME NEW p \in Peers, Timeout(p) \/ Stop(p) \/ Crash(p) PROVE starts' = starts
    BY <2>4 DEF Timeout, Stop, Crash
  <2>5. ASSUME NEW p \in Peers, NEW n \in 1..MaxChunks, SendChunks(p, n)
        PROVE  starts' = starts
    BY <2>5 DEF SendChunks
  <2>6. CASE UNCHANGED vars
    BY <2>6 DEF vars
  <2> QED
    BY <2>1, <2>2, <2>3, <2>4, <2>5, <2>6 DEF Next
<1> QED
  BY <1>1, <1>2

LEMMA OneStartStep ==
  ASSUME TypeOK, LogInv, OneStart, starts' <= 1, [Next]_vars
  PROVE  OneStart'
<1>t. /\ phase \in [Peers -> Phases] /\ since \in [Peers -> 0..Len(log)] /\ Len(log) \in Nat
      /\ \A p \in Peers : since[p] \in Nat /\ since[p] <= Len(log)
  BY TypeParts DEF TypeOK
<1>1. CASE Start
  <2>1. starts = 0 /\ starts' = 1
    <3>1. starts' = starts + 1 /\ starts \in 0..MaxStarts /\ MaxStarts \in Nat
      BY <1>1, SpreadUtilAssumption DEF Start, TypeOK
    <3> QED
      BY <3>1
  <2>2. Len(log) = 0
    BY <2>1 DEF OneStart
  <2>3. /\ log' = Append(log, [from |-> Starter, frag |-> StartSignal])
        /\ Starter \in Senders /\ StartSignal \in Fragments
    BY <1>1 DEF Start, Senders, Fragments
  <2>4. Len(log') = 1 /\ log'[1].frag = StartSignal
    <3>1. Len(log') = Len(log) + 1 /\ log'[Len(log) + 1].frag = StartSignal
      BY <2>3, AppendLog
    <3> QED
      BY <2>2, <3>1
  <2>5. since' = since /\ phase' = phase
    BY <1>1 DEF Start, procVars
  <2> QED
    BY <2>1, <2>4, <2>5 DEF OneStart, Listening
<1>2. ASSUME NEW p \in Peers, Send(p) PROVE OneStart'
  <2>1. PICK k : k = Len(log)
    OBVIOUS
  <2>2. k \in Nat /\ k >= 1 /\ starts # 0
    <3>1. since[p] = 1
      BY <1>2 DEF Send, OneStart, Listening
    <3>2. k \in Nat /\ k >= 1
      BY <1>t, <2>1, <3>1
    <3> QED
      BY <2>1, <3>2 DEF OneStart
  <2>3. outbox[p] \in Seq(Fragments) /\ outbox[p] # <<>> /\ p \in Senders
    BY <1>2 DEF Send, TypeOK, Senders
  <2>4. Head(outbox[p]) \in Fragments /\ Head(outbox[p]) = outbox[p][1]
    BY <2>3
  <2>5. PICK m \in MsgIds : \E l \in 0..m.size :
          outbox[p] = [j \in 1..m.size + 1 - l |-> Frag(m, l + j - 1)]
    BY <2>3 DEF LogInv, Outboxes, Sending
  <2>l. PICK l \in 0..m.size : outbox[p] = [j \in 1..m.size + 1 - l |-> Frag(m, l + j - 1)]
    BY <2>5
  <2>6. outbox[p][1] = Frag(m, l + 1 - 1) /\ l + 1 - 1 = l
    <3>1. m.size \in Nat /\ l \in Nat /\ 1 \in 1..m.size + 1 - l /\ l + 1 - 1 = l
      BY MessageParts
    <3> QED
      BY <2>l, <3>1
  <2>7. Head(outbox[p]) # StartSignal
    <3>1. "start" # "head" /\ "start" # "chunk"
      OBVIOUS
    <3> QED
      BY <2>4, <2>6, <3>1, FragmentKinds DEF Frag
  <2>8. /\ log' = Append(log, [from |-> p, frag |-> Head(outbox[p])])
        /\ since' = since /\ phase' = phase /\ starts' = starts
    BY <1>2 DEF Send
  <2>9. /\ Len(log') = k + 1 /\ log'[k + 1].frag # StartSignal
        /\ \A i \in 1..k : log'[i] = log[i]
    BY <2>1, <2>3, <2>4, <2>7, <2>8, AppendLog
  <2>10. \A i \in 1..k + 1 : i \in 1..k \/ (i = k + 1 /\ i # 1)
    BY <2>2
  <2>11. \A i \in 1..k : log[i].frag = StartSignal <=> i = 1
    BY <2>1 DEF OneStart
  <2>12. \A i \in 1..Len(log') : log'[i].frag = StartSignal <=> i = 1
    BY <2>9, <2>10, <2>11
  <2> QED
    BY <2>2, <2>8, <2>12 DEF OneStart, Listening
<1>3. ASSUME NEW p \in Peers, AwaitStart(p) PROVE OneStart'
  <2> DEFINE i == NextEntry(p)
  <2>1. i \in 1..Len(log)
    BY <1>3, <1>t, TypeParts, NextEntryIsFirst DEF AwaitStart
  <2>2. /\ log' = log /\ starts' = starts
        /\ \/ /\ log[i].frag = StartSignal
              /\ phase' = [phase EXCEPT ![p] = "listen"] /\ since' = [since EXCEPT ![p] = i]
           \/ phase' = [phase EXCEPT ![p] = "failed"] /\ since' = since
    BY <1>3 DEF AwaitStart
  <2> HIDE DEF i
  <2>3. log[i].frag = StartSignal => i = 1
    BY <2>1 DEF OneStart
  <2>4. \A q \in Peers : Listening(q)' => since'[q] = 1
    BY <1>t, <2>2, <2>3 DEF OneStart, Listening
  <2> QED
    BY <2>2, <2>4 DEF OneStart
<1>4. ASSUME log' = log, starts' = starts, since' = since,
             \A q \in Peers : Listening(q)' => Listening(q)
      PROVE  OneStart'
  BY <1>4 DEF OneStart
<1>5. ASSUME NEW p \in Peers, Launch(p) \/ Join(p) PROVE OneStart'
  <2>1. log' = log /\ starts' = starts /\ since' = since
    BY <1>5 DEF Launch, Join, procVars
  <2>2. \A q \in Peers : Listening(q)' => Listening(q)
    BY <1>t, <1>5 DEF Launch, Join, Listening
  <2> QED
    BY <1>4, <2>1, <2>2
<1>6. ASSUME NEW p \in Peers, Poll(p) \/ Timeout(p) \/ Stop(p) PROVE OneStart'
  <2>1. log' = log /\ starts' = starts /\ since' = since
    BY <1>6 DEF Poll, Timeout, Stop
  <2>2. \A q \in Peers : Listening(q)' => Listening(q)
    BY <1>t, <1>6 DEF Poll, Timeout, Stop, EndCycle, Listening
  <2> QED
    BY <1>4, <2>1, <2>2
<1>7. ASSUME NEW p \in Peers, NEW n \in 1..MaxChunks, SendChunks(p, n) PROVE OneStart'
  <2>1. log' = log /\ starts' = starts /\ since' = since /\ phase' = phase
    BY <1>7 DEF SendChunks
  <2> QED
    BY <1>4, <2>1 DEF Listening
<1>8. ASSUME NEW p \in Peers, Receive(p) PROVE OneStart'
  <2>1. log' = log /\ starts' = starts /\ since' = since
    BY <1>8 DEF Receive
  <2>2. \A q \in Peers : Listening(q)' => Listening(q)
    <3>1. \A q \in Peers \ {p} : phase'[q] = phase[q]
      BY <1>8, ReceiveHears
    <3>2. Listening(p)
      BY <1>8 DEF Receive, Listening
    <3> QED
      BY <3>1, <3>2 DEF Listening
  <2> QED
    BY <1>4, <2>1, <2>2
<1>9. ASSUME NEW p \in Peers, Crash(p) PROVE OneStart'
  <2>1. /\ log' = log /\ starts' = starts /\ since' = [since EXCEPT ![p] = 0]
        /\ phase' = [phase EXCEPT ![p] = "off"]
    BY <1>9 DEF Crash
  <2>2. \A q \in Peers : Listening(q)' => Listening(q) /\ since'[q] = since[q]
    BY <1>t, <2>1 DEF Listening
  <2> QED
    BY <2>1, <2>2 DEF OneStart
<1>10. CASE UNCHANGED vars
  <2>1. log' = log /\ starts' = starts /\ since' = since /\ phase' = phase
    BY <1>10 DEF vars, procVars
  <2> QED
    BY <1>4, <2>1 DEF Listening
<1> QED
  BY <1>1, <1>2, <1>3, <1>5, <1>6, <1>7, <1>8, <1>9, <1>10 DEF Next

\* A fragment of a message is in the log once.
LEMMA FragOnce ==
  ASSUME TypeOK, LogInv, NEW m \in MsgIds, NEW k \in 0..m.size,
         NEW i \in 1..Len(log), NEW j \in 1..Len(log),
         log[i].frag = Frag(m, k), log[j].frag = Frag(m, k)
  PROVE  i = j
<1> DEFINE Twice(l) == \E a, b \in 1..Len(log) : a < b /\ log[a].frag = Frag(m, l)
                                                       /\ log[b].frag = Frag(m, l)
           T == {l \in 0..m.size : Twice(l)}
<1>t. Len(log) \in Nat /\ m.size \in Nat /\ m.size \in 1..MaxChunks /\ MaxChunks \in Nat
  BY TypeParts, MessageParts, SpreadUtilAssumption
<1>1. T \in SUBSET Nat
  BY <1>t
<1>2. ASSUME T # {} PROVE FALSE
  <2>1. PICK l \in T : \A x \in T : l <= x
    BY <1>1, <1>2, LeastNumber
  <2>2. PICK a \in 1..Len(log), b \in 1..Len(log) :
          a < b /\ log[a].frag = Frag(m, l) /\ log[b].frag = Frag(m, l)
    OBVIOUS
  <2>3. l \in 0..m.size /\ l \in Nat /\ a \in Nat /\ b \in Nat
    BY <1>t
  <2>4. l # 0
    <3>1. ASSUME l = 0 PROVE FALSE
      <4>1. log[a].frag = HeadOf(m) /\ log[b].frag = HeadOf(m)
        BY <2>2, <3>1 DEF Frag
      <4>2. a = b
        BY <4>1 DEF LogInv, LogHeads
      <4> QED
        BY <2>2, <2>3, <4>2
    <3> QED
      BY <3>1
  <2>5. l \in 1..MaxChunks /\ l - 1 \in 0..m.size /\ l - 1 \in Nat
    BY <1>t, <2>3, <2>4
  <2>6. log[a].frag = Chunk(m, l) /\ log[b].frag = Chunk(m, l)
    BY <2>2, <2>4 DEF Frag
  <2>7. log[a].from = m.from
    BY <2>5, <2>6 DEF LogInv, LogChunks
  <2>8. PICK c \in 1..a - 1 : log[c].frag = Frag(m, l - 1)
    BY <2>5, <2>6 DEF LogInv, LogChunks
  <2>9. PICK d \in 1..b - 1 : log[d].frag = Frag(m, l - 1) /\ LastOf(m.from, d, b - 1)
    BY <2>5, <2>6 DEF LogInv, LogChunks
  <2>10. a <= d
    <3>1. \A x \in d + 1..b - 1 : log[x].from # m.from
      BY <2>9 DEF LastOf
    <3>2. ~(d < a)
      <4>1. d < a => a \in d + 1..b - 1
        BY <2>2, <2>3
      <4> QED
        BY <2>7, <3>1, <4>1
    <3> QED
      BY <2>3, <3>2
  <2>11. c < d /\ c \in 1..Len(log) /\ d \in 1..Len(log)
    BY <1>t, <2>3, <2>10
  <2>12. Twice(l - 1)
    BY <2>8, <2>9, <2>11
  <2>13. l - 1 \in T
    BY <2>5, <2>12
  <2>14. l <= l - 1
    BY <2>1, <2>13
  <2> QED
    BY <2>3, <2>14
<1>3. ~Twice(k)
  BY <1>2
<1>4. ~(i < j) /\ ~(j < i)
  BY <1>3
<1> QED
  BY <1>t, <1>4

\* Different messages are different strings.
LEMMA PayloadInjective ==
  ASSUME NEW m \in MsgIds, NEW o \in MsgIds, Payload(m) = Payload(o)
  PROVE  m = o
<1>1. 1 \in 1..m.size /\ 1 \in 1..o.size
  <2>1. /\ m.size \in 1..MaxChunks /\ o.size \in 1..MaxChunks /\ MaxChunks \in Nat
        /\ m.size \in Nat /\ o.size \in Nat
    BY MessageParts, SpreadUtilAssumption
  <2> QED
    BY <2>1
<1>2. Payload(m)[1] = Chunk(m, 1) /\ Payload(o)[1] = Chunk(o, 1)
  BY <1>1 DEF Payload
<1> QED
  BY <1>2, FragmentKinds

\* What Finished and HeardWhole consist of.
LEMMA FinishedParts ==
  ASSUME TypeOK, LogInv
  PROVE  /\ Finished \subseteq 1..Len(log) /\ Finished \in SUBSET Nat /\ Len(log) \in Nat
         /\ \A i \in 1..Len(log) : i \in Finished <=> Ends(i)
         /\ \A p \in Peers : /\ HeardWhole(p) \subseteq Finished
                             /\ \A i \in HeardWhole(p) : i <= cursor[p] /\ log[i].from # p
<1>1. Len(log) \in Nat /\ \A p \in Peers : cursor[p] \in Nat /\ cursor[p] <= Len(log)
                                           /\ since[p] \in Nat
  BY TypeParts
<1>2. ASSUME NEW p \in Peers, NEW i \in HeardWhole(p)
      PROVE  i \in Finished /\ i <= cursor[p] /\ log[i].from # p
  <2>1. i \in (since[p] + 1)..cursor[p] /\ Ends(i) /\ log[i].from # p
    BY DEF HeardWhole
  <2>2. i \in 1..Len(log) /\ i <= cursor[p]
    BY <1>1, <2>1
  <2> QED
    BY <2>1, <2>2 DEF Finished
<1> QED
  BY <1>1, <1>2 DEF Finished

\* The messages of the queue are those heard.
LEMMA TakenIsHeard ==
  ASSUME RecvInv
  PROVE  TakenInv
<1> SUFFICES ASSUME NEW p \in Peers
             PROVE  Taken(p) = IF Listening(p) THEN HeardWhole(p) ELSE {}
  BY DEF TakenInv
<1>t. TypeOK /\ LogInv /\ PeerInv(p)
  BY DEF RecvInv
<1>1. CASE ~Listening(p)
  <2>1. queue[p] = <<>> /\ DOMAIN queue[p] = {}
    BY <1>t, <1>1 DEF PeerInv
  <2> QED
    BY <1>1, <2>1 DEF Taken
<1>2. CASE Listening(p)
  <2>1. PICK f : Lists(p, f)
    BY <1>t, <1>2 DEF PeerInv
  <2>2. PICK n : n = Len(queue[p])
    OBVIOUS
  <2>3. /\ f \in [1..n -> HeardWhole(p)]
        /\ \A i \in HeardWhole(p) : \E a \in 1..n : f[a] = i
        /\ \A a \in 1..n : queue[p][a] = Payload(log[f[a]].frag.id)
    BY <2>1, <2>2 DEF Lists
  <2>4. DOMAIN queue[p] = 1..n
    <3>1. queue[p] \in Seq(Seq(Fragments))
      BY <1>t DEF TypeOK
    <3> QED
      BY <2>2, <3>1
  <2>5. HeardWhole(p) \subseteq Finished /\ Finished \subseteq 1..Len(log)
    BY <1>t, FinishedParts
  <2>6. ASSUME NEW i \in HeardWhole(p) PROVE i \in Taken(p)
    BY <2>3, <2>4, <2>5 DEF Taken
  <2>7. ASSUME NEW i \in Taken(p) PROVE i \in HeardWhole(p)
    <3>1. PICK a \in 1..n : queue[p][a] = Payload(log[i].frag.id)
      BY <2>4 DEF Taken
    <3>2. PICK j : j = f[a]
      OBVIOUS
    <3>3. /\ j \in HeardWhole(p) /\ j \in 1..Len(log) /\ Ends(j)
          /\ Payload(log[j].frag.id) = Payload(log[i].frag.id)
      BY <2>3, <2>5, <3>1, <3>2 DEF HeardWhole
    <3>4. i \in 1..Len(log) /\ Ends(i)
      BY DEF Taken, Finished
    <3>5. PICK m \in MsgIds : log[i].frag = Frag(m, m.size) /\ log[i].frag.id = m
      BY <1>t, <3>4, EndsParts
    <3>6. PICK o \in MsgIds : log[j].frag = Frag(o, o.size) /\ log[j].frag.id = o
      BY <1>t, <3>3, EndsParts
    <3>7. m = o
      BY <3>3, <3>5, <3>6, PayloadInjective
    <3>8. m.size \in 0..m.size
      <4>1. m.size \in Nat
        BY MessageParts
      <4> QED
        BY <4>1
    <3>9. i = j
      BY <1>t, <3>3, <3>4, <3>5, <3>6, <3>7, <3>8, FragOnce
    <3> QED
      BY <3>3, <3>9
  <2> QED
    BY <1>2, <2>6, <2>7
<1> QED
  BY <1>1, <1>2

\* The list of ends, when the log gets longer.
LEMMA EndsGrow ==
  ASSUME TypeOK, NEW s \in Senders, NEW f \in Fragments,
         log' = Append(log, [from |-> s, frag |-> f]),
         NEW n \in Nat, NEW g, EndsList(n, g)
  PROVE  \/ Finished' = Finished /\ EndsList(n, g)'
         \/ /\ f.kind = "chunk" /\ Finished' = Finished \cup {Len(log) + 1}
            /\ \E h : /\ h[n + 1] = Len(log) + 1 /\ \A a \in 1..n : h[a] = g[a]
                      /\ EndsList(n + 1, h)'
<1>1. PICK l : l = Len(log)
  OBVIOUS
<1>2. l \in Nat
  BY <1>1, TypeParts
<1>3. /\ Len(log') = l + 1 /\ log'[l + 1].frag = f
      /\ \A i \in 1..l : log'[i] = log[i]
  BY <1>1, AppendLog
<1>4. \A i \in 1..l : Ends(i)' <=> Ends(i)
  BY <1>3 DEF Ends
<1>5. /\ \A i \in 1..l + 1 : i \in 1..l \/ i = l + 1
      /\ \A i \in 1..l : i \in 1..l + 1 /\ i <= l /\ i \in Nat
      /\ l + 1 \in 1..l + 1
  BY <1>2
<1>6. /\ Finished = {i \in 1..l : Ends(i)}
      /\ Finished' = {i \in 1..l + 1 : Ends(i)'}
  BY <1>1, <1>3 DEF Finished
<1>7. /\ g \in [1..n -> Finished]
      /\ \A a, b \in 1..n : a < b => g[a] < g[b]
      /\ \A i \in Finished : \E a \in 1..n : g[a] = i
  BY DEF EndsList, Enumeration
<1>8. CASE ~Ends(l + 1)'
  <2>1. Finished' = Finished
    BY <1>4, <1>5, <1>6, <1>8
  <2> QED
    BY <1>7, <2>1 DEF EndsList, Enumeration
<1>9. CASE Ends(l + 1)'
  <2>1. Finished' = Finished \cup {l + 1}
    BY <1>4, <1>5, <1>6, <1>9
  <2>2. f.kind = "chunk"
    BY <1>3, <1>9 DEF Ends
  <2> DEFINE h == [a \in 1..n + 1 |-> IF a = n + 1 THEN l + 1 ELSE g[a]]
  <2>3. /\ \A a \in 1..n : a \in 1..n + 1 /\ a # n + 1 /\ h[a] = g[a]
        /\ n + 1 \in 1..n + 1 /\ h[n + 1] = l + 1
        /\ \A a \in 1..n + 1 : a \in 1..n \/ a = n + 1
    OBVIOUS
  <2>4. h \in [1..n + 1 -> Finished \cup {l + 1}]
    BY <1>7, <2>3
  <2>5. \A x \in Finished : x \in Nat /\ x <= l
    BY <1>5, <1>6
  <2> HIDE DEF h
  <2>6. ASSUME NEW a \in 1..n + 1, NEW b \in 1..n + 1, a < b PROVE h[a] < h[b]
    <3>1. a \in 1..n
      BY <2>6
    <3>2. CASE b \in 1..n
      BY <1>7, <2>3, <2>6, <3>1, <3>2
    <3>3. CASE b = n + 1
      <4>1. g[a] \in Nat /\ g[a] <= l
        BY <1>7, <2>5, <3>1
      <4>2. g[a] < l + 1
        BY <1>2, <4>1
      <4> QED
        BY <2>3, <3>1, <3>3, <4>2
    <3> QED
      BY <2>3, <3>2, <3>3
  <2>7. ASSUME NEW x \in Finished \cup {l + 1} PROVE \E a \in 1..n + 1 : h[a] = x
    <3>1. CASE x = l + 1
      BY <2>3, <3>1
    <3>2. CASE x \in Finished
      <4>1. PICK a \in 1..n : g[a] = x
        BY <1>7, <3>2
      <4> QED
        BY <2>3, <4>1
    <3> QED
      BY <3>1, <3>2
  <2>8. PICK k : k = h
    OBVIOUS
  <2>9. EndsList(n + 1, k)'
    BY <2>1, <2>4, <2>6, <2>7, <2>8 DEF EndsList, Enumeration
  <2> QED
    BY <1>1, <2>1, <2>2, <2>3, <2>8, <2>9
<1> QED
  BY <1>8, <1>9

\* What the abstract variables are, given the list of ends.
LEMMA FinishedIdsValue ==
  ASSUME NEW n \in Nat, NEW g, EndsList(n, g), Finished \in SUBSET Nat
  PROVE  /\ FinishedIds = [k \in 1..n |-> log[g[k]].frag.id]
         /\ \A k \in 1..n : UpTo(Finished, g[k]) = k
<1>1. PICK E : E = Finished
  OBVIOUS
<1>2. E \in SUBSET Nat
  BY <1>1
<1>3. Enumeration(E, n, g)
  BY <1>1 DEF EndsList
<1>4. /\ Cardinality(E) = n
      /\ \A k \in 1..n : Nth(E, k) = g[k] /\ UpTo(E, g[k]) = k
  BY <1>2, <1>3, NthOfList
<1> QED
  BY <1>1, <1>4 DEF FinishedIds

\* How far the messages T, the last of which is l, are in the order of ends.
LEMMA LastOfTaken ==
  ASSUME NEW E \in SUBSET Nat, NEW T \in SUBSET E, NEW l \in T, \A x \in T : x <= l
  PROVE  Cardinality({i \in E : \E x \in T : i <= x}) = UpTo(E, l)
<1>1. ASSUME NEW i \in E PROVE (\E x \in T : i <= x) <=> i <= l
  <2>1. ASSUME NEW x \in T, i <= x PROVE i <= l
    <3>1. i \in Nat /\ x \in Nat /\ l \in Nat /\ x <= l
      OBVIOUS
    <3> QED
      BY <2>1, <3>1
  <2> QED
    BY <2>1
<1>2. {i \in E : \E x \in T : i <= x} = {i \in E : i <= l}
  BY <1>1
<1> QED
  BY <1>2, Zenon DEF UpTo

\* g lists E, whose k-th element i is behind those of H; l is the last of H, and
\* c the number of elements of E up to l.
Placed(E, n, g, H, l, c, i, k) ==
  /\ n \in Nat /\ E \in SUBSET Nat /\ Enumeration(E, n, g)
  /\ H \in SUBSET E /\ (H # {} => l \in H /\ \A x \in H : x <= l)
  /\ c = Cardinality({x \in E : \E y \in H : x <= y})
  /\ i \in E /\ (\A x \in H : x < i)
  /\ k \in 1..n /\ g[k] = i

\* Then what is between c and k in the list is between H and i.
LEMMA Places ==
  ASSUME NEW E, NEW n, NEW g, NEW H, NEW l, NEW c, NEW i, NEW k,
         Placed(E, n, g, H, l, c, i, k)
  PROVE  /\ c \in Nat /\ c < k
         /\ \A j \in 1..n : c < j /\ j < k => g[j] < i /\ \A x \in H : x < g[j]
<1>h. /\ n \in Nat /\ E \in SUBSET Nat /\ Enumeration(E, n, g)
      /\ H \in SUBSET E /\ (H # {} => l \in H /\ \A x \in H : x <= l)
      /\ i \in E /\ (\A x \in H : x < i)
      /\ k \in 1..n /\ g[k] = i
  BY DEF Placed
<1>c. c = Cardinality({x \in E : \E y \in H : x <= y})
  BY Zenon DEF Placed
<1>g. /\ g \in [1..n -> E]
      /\ \A a, b \in 1..n : a < b => g[a] < g[b]
      /\ \A x \in E : \E a \in 1..n : g[a] = x
  BY <1>h DEF Enumeration
<1>u. /\ Cardinality(E) = n
      /\ \A a \in 1..n : Nth(E, a) = g[a] /\ UpTo(E, g[a]) = a
  BY <1>h, NthOfList
<1>1. /\ \A a \in 1..n : g[a] \in Nat /\ a \in Nat
      /\ i \in Nat /\ \A x \in H : x \in Nat
  <2>1. \A x \in E : x \in Nat
    BY <1>h
  <2>2. \A a \in 1..n : g[a] \in E /\ a \in Nat
    BY <1>g
  <2>3. \A x \in H : x \in E
    BY <1>h
  <2> QED
    BY <1>h, <2>1, <2>2, <2>3
<1>2. CASE H = {}
  <2>1. {x \in E : \E y \in H : x <= y} = {}
    BY <1>2
  <2>2. c = 0
    BY <1>c, <2>1, FS_EmptySet
  <2>3. 0 \in Nat /\ 0 < k
    BY <1>h
  <2>4. \A j \in 1..n : j < k => g[j] < i
    BY <1>g, <1>h
  <2> QED
    BY <1>2, <2>2, <2>3, <2>4
<1>3. CASE H # {}
  <2>1. l \in H /\ l \in E /\ \A x \in H : x <= l
    BY <1>3, <1>h
  <2>2. PICK a \in 1..n : g[a] = l
    BY <1>g, <2>1
  <2>3. c = UpTo(E, l)
    BY <1>c, <1>h, <2>1, LastOfTaken
  <2>4. UpTo(E, l) = a
    BY <1>u, <2>2
  <2>5. l < i /\ l \in Nat
    BY <1>1, <1>h, <2>1
  <2>6. a < k
    <3>1. a = k \/ k < a \/ a < k
      BY <1>h
    <3>2. a # k
      BY <1>1, <1>h, <2>2, <2>5
    <3>3. k < a => i < l
      BY <1>g, <1>h, <2>2
    <3> QED
      BY <1>1, <1>h, <2>5, <3>1, <3>2, <3>3
  <2>7. ASSUME NEW j \in 1..n, a < j, j < k PROVE g[j] < i /\ \A x \in H : x < g[j]
    <3>1. l < g[j] /\ g[j] < i
      BY <1>g, <1>h, <2>2, <2>7
    <3> QED
      BY <1>1, <2>1, <2>5, <3>1
  <2> QED
    BY <1>1, <2>3, <2>4, <2>6, <2>7
<1> QED
  BY <1>2, <1>3

\* A step that leaves the log and the queues alone.
LEMMA AbstractKept ==
  ASSUME log' = log, queue' = queue
  PROVE  UNCHANGED M!multicastVars
<1>1. Finished' = Finished /\ FinishedIds' = FinishedIds
  BY DEF Finished, Ends, FinishedIds
<1>2. \A p \in Peers : LastTaken(p)' = LastTaken(p) /\ InboxIds(p)' = InboxIds(p)
  BY <1>1 DEF LastTaken, Taken, InboxIds
<1> QED
  BY <1>1, <1>2 DEF M!multicastVars

\* A fragment gets its place in the order: the last of a message is Multicast.
LEMMA AbstractSend ==
  ASSUME TypeOK, LogInv, TypeOK', LogInv', Listed, TakenInv, TakenInv',
         NEW s \in Senders, NEW f \in Fragments,
         log' = Append(log, [from |-> s, frag |-> f]),
         queue' = queue, since' = since, cursor' = cursor, phase' = phase
  PROVE  (\E m \in MsgIds : M!Multicast(m)) \/ UNCHANGED M!multicastVars
<1>1. PICK n \in Nat : \E g : EndsList(n, g)
  BY DEF Listed
<1>2. PICK g : EndsList(n, g)
  BY <1>1
<1>3. PICK l : l = Len(log)
  OBVIOUS
<1>4. /\ Finished \in SUBSET Nat /\ Finished \subseteq 1..l /\ l \in Nat
      /\ \A p \in Peers : HeardWhole(p) \subseteq Finished
  BY <1>3, FinishedParts
<1>5. Len(log') = l + 1 /\ log'[l + 1].frag = f /\ \A i \in 1..l : log'[i] = log[i]
  BY <1>3, AppendLog
<1>6. FinishedIds = [k \in 1..n |-> log[g[k]].frag.id]
  BY <1>2, <1>4, FinishedIdsValue
<1>7. \A k \in 1..n : g[k] \in 1..l
  BY <1>2, <1>4 DEF EndsList, Enumeration
<1>8. ASSUME NEW p \in Peers PROVE LastTaken(p)' = LastTaken(p) /\ InboxIds(p)' = InboxIds(p)
  <2>1. Taken(p)' = Taken(p) /\ Taken(p) \subseteq Finished
    <3>1. Listening(p)' <=> Listening(p)
      BY DEF Listening
    <3>2. HeardWhole(p)' = HeardWhole(p)
      <4>1. Len(log) <= Len(log')
        BY <1>3, <1>4, <1>5
      <4> QED
        BY <1>3, <1>5, <4>1, HeardKept
    <3> QED
      BY <1>4, <3>1, <3>2 DEF TakenInv
  <2>2. \A i \in Finished' : i \in Finished \/ i = l + 1
    BY <1>2, <1>3, EndsGrow
  <2>3. \A i \in Finished : i \in Finished'
    BY <1>2, <1>3, EndsGrow
  <2>4. \A x \in Taken(p) : ~(l + 1 <= x)
    <3>1. \A x \in Taken(p) : x \in Nat /\ x <= l
      <4>1. \A x \in Taken(p) : x \in 1..l
        BY <1>4, <2>1
      <4> QED
        BY <1>4, <4>1
    <3> QED
      BY <1>4, <3>1
  <2>5. {i \in Finished' : \E x \in Taken(p) : i <= x} = {i \in Finished : \E x \in Taken(p) : i <= x}
    BY <2>2, <2>3, <2>4
  <2>6. LastTaken(p)' = LastTaken(p)
    BY <2>1, <2>5 DEF LastTaken
  <2> QED
    BY <2>6 DEF InboxIds
<1>9. CASE Finished' = Finished /\ EndsList(n, g)'
  <2>1. FinishedIds' = FinishedIds
    <3>1. PICK E : E = Finished
      OBVIOUS
    <3>2. E \in SUBSET Nat
      BY <1>4, <3>1
    <3>3. Enumeration(E, n, g)
      BY <1>2, <3>1 DEF EndsList
    <3>4. /\ Cardinality(E) = n
          /\ \A k \in 1..n : Nth(E, k) = g[k] /\ UpTo(E, g[k]) = k
      BY <1>1, <3>2, <3>3, NthOfList
    <3>5. FinishedIds' = [k \in 1..n |-> log'[g[k]].frag.id]
      BY <1>9, <3>1, <3>4 DEF FinishedIds
    <3> QED
      BY <1>5, <1>6, <1>7, <3>5
  <2> QED
    BY <1>8, <2>1 DEF M!multicastVars
<1>10. ASSUME f.kind = "chunk", Finished' = Finished \cup {l + 1},
              NEW h, h[n + 1] = l + 1, \A a \in 1..n : h[a] = g[a], EndsList(n + 1, h)'
       PROVE  \E m \in MsgIds : M!Multicast(m)
  <2>1. PICK m \in MsgIds : f.id = m
    <3>1. "start" # "chunk" /\ "head" # "chunk"
      OBVIOUS
    <3> QED
      BY <1>10, <3>1, FragmentCases, FragmentKinds
  <2>2. FinishedIds' = [k \in 1..n + 1 |-> log'[h[k]].frag.id]
    <3>1. PICK E : E = Finished'
      OBVIOUS
    <3>2. E \in SUBSET Nat
      BY <1>4, <1>10, <3>1
    <3>3. Enumeration(E, n + 1, h)
      BY <1>10, <3>1 DEF EndsList
    <3>4. /\ Cardinality(E) = n + 1
          /\ \A k \in 1..n + 1 : Nth(E, k) = h[k] /\ UpTo(E, h[k]) = k
      <4>1. n + 1 \in Nat
        BY <1>1
      <4> QED
        BY <3>2, <3>3, <4>1, NthOfList
    <3> QED
      BY <3>1, <3>4 DEF FinishedIds
  <2>3. ASSUME NEW k \in 1..n + 1
        PROVE  log'[h[k]].frag.id = IF k = n + 1 THEN m ELSE log[g[k]].frag.id
    <3>1. CASE k = n + 1
      BY <1>5, <1>10, <2>1, <3>1
    <3>2. CASE k # n + 1
      <4>1. k \in 1..n
        BY <3>2
      <4> QED
        BY <1>5, <1>7, <1>10, <3>2, <4>1
    <3> QED
      BY <3>1, <3>2
  <2>4. Append(FinishedIds, m) =
          [k \in 1..n + 1 |-> IF k = n + 1 THEN m ELSE log[g[k]].frag.id]
    BY <1>6
  <2>5. FinishedIds' = Append(FinishedIds, m)
    BY <2>2, <2>3, <2>4
  <2>6. M!Multicast(m)
    BY <1>8, <2>5 DEF M!Multicast
  <2> QED
    BY <2>6
<1> QED
  BY <1>2, <1>3, <1>9, <1>10, EndsGrow

\* Whoever listens has heard every message it has gone past from its beginning.
LEMMA HeardAll ==
  ASSUME TypeOK, LogInv, OneStart, NEW p \in Peers, Listening(p),
         NEW x \in Finished, x <= cursor[p], log[x].from # p
  PROVE  x \in HeardWhole(p)
<1>1. since[p] = 1
  BY DEF OneStart
<1>2. x \in 1..Len(log) /\ Ends(x) /\ cursor[p] \in Nat /\ Len(log) \in Nat
  BY TypeParts DEF Finished
<1>3. PICK m \in MsgIds : /\ log[x].frag.id = m
                          /\ HeadIndex(m) \in 1..x /\ log[HeadIndex(m)].frag = HeadOf(m)
  BY <1>2, EndsParts
<1>4. "start" # "chunk" /\ "start" # "head"
  OBVIOUS
<1>5. x # 1
  BY <1>2, <1>4, FragmentKinds DEF OneStart, Ends
<1>6. HeadIndex(m) # 1 /\ HeadIndex(m) \in Nat /\ HeadIndex(m) >= 1
  <2> DEFINE h == HeadIndex(m)
  <2>1. h \in 1..x /\ log[h].frag = HeadOf(m)
    BY <1>3
  <2> HIDE DEF h
  <2>2. h \in 1..Len(log) /\ h \in Nat /\ h >= 1
    BY <1>2, <2>1
  <2>3. h # 1
    BY <1>4, <2>1, <2>2, FragmentKinds DEF OneStart
  <2> QED
    BY <2>2, <2>3 DEF h
<1>7. HeadIndex(log[x].frag.id) > since[p]
  <2> DEFINE h == HeadIndex(m)
  <2>1. h \in Nat /\ h # 1 /\ h >= 1
    BY <1>6
  <2> HIDE DEF h
  <2>2. h > 1
    BY <2>1
  <2> QED
    BY <1>1, <1>3, <2>2 DEF h
<1>8. x \in (since[p] + 1)..cursor[p]
  BY <1>1, <1>2, <1>5
<1> QED
  BY <1>2, <1>7, <1>8 DEF HeardWhole

\* The listener has the last fragment of a message: Deliver. Anything else that
\* it receives changes nothing above it.
LEMMA AbstractReceive ==
  ASSUME RecvInv, OneStart, Listed, TakenInv, TakenInv', NEW p \in Peers, Receive(p)
  PROVE  M!Deliver(p) \/ UNCHANGED M!multicastVars
<1>t. TypeOK /\ LogInv /\ PeerInv(p)
  BY DEF RecvInv
<1>1. PICK i \in 1..Len(log), s \in Senders : Hears(p, i, s) /\ EntryOK(p, s)' /\ Files(p, i)
  BY <1>t, ReceiveFiles
<1>2. /\ \A q \in Peers \ {p} : queue'[q] = queue[q]
      /\ Listening(p) /\ Listening(p)' /\ cursor[p] < i /\ log[i].from = s /\ s # p
      /\ \A l \in 1..Len(log) : cursor[p] < l /\ l < i => log[l].from = p
  BY <1>t, <1>1, ReceiveHears DEF Hears, Listening
<1>3. log' = log
  BY <1>1 DEF Hears
<1>4. Finished' = Finished /\ FinishedIds' = FinishedIds
  BY <1>3 DEF Finished, Ends, FinishedIds
<1>5. \A q \in Peers : queue'[q] = queue[q] =>
        LastTaken(q)' = LastTaken(q) /\ InboxIds(q)' = InboxIds(q)
  BY <1>3, <1>4 DEF LastTaken, Taken, InboxIds
<1>6. CASE queue'[p] = queue[p]
  <2>1. \A q \in Peers : queue'[q] = queue[q]
    BY <1>2, <1>6
  <2> QED
    BY <1>4, <1>5, <2>1 DEF M!multicastVars
<1>7. CASE /\ queue'[p] = Append(queue[p], Payload(log[i].frag.id))
           /\ HeardWhole(p)' = HeardWhole(p) \cup {i}
  <2>1. PICK H : H = HeardWhole(p)
    OBVIOUS
  <2>2. PICK E : E = Finished
    OBVIOUS
  <2>3. PICK n \in Nat : \E g : EndsList(n, g)
    BY DEF Listed
  <2>4. PICK g : EndsList(n, g)
    BY <2>3
  <2>5. /\ E \in SUBSET Nat /\ E \subseteq 1..Len(log) /\ H \in SUBSET E
        /\ \A x \in H : x <= cursor[p]
        /\ Enumeration(E, n, g)
    BY <1>t, <2>1, <2>2, <2>4, FinishedParts DEF EndsList
  <2>6. Ends(i) /\ i \in E
    <3>1. i \in HeardWhole(p)'
      BY <1>7
    <3>2. Ends(i)'
      BY <3>1 DEF HeardWhole
    <3> QED
      BY <1>3, <2>2, <3>2 DEF Ends, Finished
  <2>7. PICK k \in 1..n : g[k] = i
    BY <2>5, <2>6 DEF Enumeration
  <2>8. PICK m \in MsgIds : /\ log[i].frag = Frag(m, m.size) /\ log[i].frag.id = m
    BY <1>t, <2>6, EndsParts
  <2>9. PICK c : c = LastTaken(p)
    OBVIOUS
  <2>10. cursor[p] \in Nat /\ Len(log) \in Nat /\ i \in Nat
         /\ \A x \in H : x < i
    <3>1. cursor[p] \in Nat /\ Len(log) \in Nat
      BY <1>t, TypeParts
    <3>2. i \in Nat
      BY <3>1
    <3>3. \A x \in H : x \in Nat /\ x <= cursor[p]
      BY <2>5
    <3> QED
      BY <1>2, <3>1, <3>2, <3>3
  <2>11. Taken(p) = H /\ Taken(p)' = H \cup {i}
    BY <1>2, <1>7, <2>1 DEF TakenInv
  <2>12. /\ c \in Nat /\ c < k
         /\ \A j \in 1..n : c < j /\ j < k => g[j] < i /\ \A x \in H : x < g[j]
    <3>1. PICK f : Lists(p, f)
      BY <1>t, <1>2 DEF PeerInv
    <3>2. PICK b : b = Len(queue[p])
      OBVIOUS
    <3>3. b \in Nat
      BY <1>t, <3>2, TypeParts
    <3>4. PICK l : l = f[b]
      OBVIOUS
    <3>5. ASSUME H # {} PROVE l \in H /\ \A x \in H : x <= l
      <4>1. /\ f \in [1..b -> H]
            /\ \A x \in H : \E a \in 1..b : f[a] = x
            /\ \A x, y \in 1..b : x < y => f[x] < f[y]
        BY <2>1, <3>1, <3>2 DEF Lists
      <4>2. b \in 1..b
        BY <3>3, <3>5, <4>1
      <4>3. l \in H /\ l \in Nat
        BY <2>5, <3>4, <4>1, <4>2
      <4>4. ASSUME NEW x \in H PROVE x <= l
        <5>1. PICK a \in 1..b : f[a] = x
          BY <4>1
        <5>2. a = b \/ a < b
          BY <3>3
        <5>3. x \in Nat
          BY <2>5
        <5> QED
          BY <3>4, <4>1, <4>2, <4>3, <5>1, <5>2, <5>3
      <4> QED
        BY <4>3, <4>4
    <3>6. c = Cardinality({x \in E : \E y \in H : x <= y})
      BY <2>2, <2>9, <2>11 DEF LastTaken
    <3>7. /\ E \in SUBSET Nat /\ Enumeration(E, n, g) /\ H \in SUBSET E
          /\ i \in E /\ n \in Nat /\ k \in 1..n /\ g[k] = i /\ \A x \in H : x < i
      BY <2>3, <2>5, <2>6, <2>7, <2>10
    <3>8. H # {} => l \in H /\ \A x \in H : x <= l
      BY <3>5
    <3>9. Placed(E, n, g, H, l, c, i, k)
      BY <3>6, <3>7, <3>8, Zenon DEF Placed
    <3> QED
      BY <3>9, Places
  <2>13. LastTaken(p)' = k
    <3>1. PICK T : T = H \cup {i}
      OBVIOUS
    <3>2. T \in SUBSET E /\ i \in T /\ \A x \in T : x <= i
      BY <2>5, <2>6, <2>10, <3>1
    <3>3. Cardinality({x \in E : \E y \in T : x <= y}) = UpTo(E, i)
      BY <2>5, <3>2, LastOfTaken
    <3>4. /\ Cardinality(E) = n
          /\ \A a \in 1..n : Nth(E, a) = g[a] /\ UpTo(E, g[a]) = a
      BY <2>3, <2>5, NthOfList
    <3>5. LastTaken(p)' = Cardinality({x \in E : \E y \in T : x <= y})
      BY <1>4, <2>2, <2>11, <3>1 DEF LastTaken
    <3> QED
      BY <2>7, <3>3, <3>4, <3>5
  <2>14. FinishedIds = [a \in 1..n |-> log[g[a]].frag.id]
    BY <2>2, <2>3, <2>4, <2>5, FinishedIdsValue
  <2>15. FinishedIds[k] = m /\ m.from # p
    <3>1. m.size \in 0..m.size
      <4>1. m.size \in Nat
        BY MessageParts
      <4> QED
        BY <4>1
    <3>2. m.from = log[i].from
      BY <1>t, <2>8, <3>1, FragInLog
    <3> QED
      BY <1>2, <2>7, <2>8, <2>14, <3>2
  <2>16. ASSUME NEW j \in 1..n, c < j, j < k PROVE FinishedIds[j].from = p
    <3>1. PICK x : x = g[j]
      OBVIOUS
    <3>2. x \in E /\ x < i /\ x \notin H /\ x \in Nat
      <4>1. x < i /\ \A y \in H : y < x
        BY <2>12, <2>16, <3>1
      <4>2. x \in E /\ x \in Nat
        BY <2>5, <3>1 DEF Enumeration
      <4>3. ~(x < x)
        BY <4>2
      <4> QED
        BY <4>1, <4>2, <4>3
    <3>3. x \in 1..Len(log) /\ Ends(x) /\ x \in Finished
      BY <2>2, <3>2 DEF Finished
    <3>4. log[x].from = p
      <4>1. CASE x <= cursor[p]
        BY <1>t, <1>2, <2>1, <3>2, <3>3, <4>1, HeardAll
      <4>2. CASE cursor[p] < x
        BY <1>2, <3>2, <3>3, <4>2
      <4> QED
        BY <2>10, <3>2, <4>1, <4>2
    <3>5. PICK o \in MsgIds : log[x].frag = Frag(o, o.size) /\ log[x].frag.id = o
      BY <1>t, <3>3, EndsParts
    <3>6. o.size \in 0..o.size
      <4>1. o.size \in Nat
        BY MessageParts
      <4> QED
        BY <4>1
    <3>7. o.from = log[x].from
      BY <1>t, <3>3, <3>5, <3>6, FragInLog
    <3> QED
      BY <2>14, <3>1, <3>4, <3>5, <3>7
  <2>17. InboxIds(p)' = Append(InboxIds(p), m)
    <3> DEFINE q == queue[p]
               y == Payload(m)
    <3>1. q \in Seq(Seq(Fragments)) /\ queue'[p] = Append(q, y) /\ y \in Seq(Fragments)
      BY <1>t, <1>7, <2>8, TypeParts, FragmentedParts
    <3>2. y[1].id = m
      <4>1. 1 \in 1..m.size
        <5>1. m.size \in 1..MaxChunks /\ MaxChunks \in Nat
          BY MessageParts, SpreadUtilAssumption
        <5> QED
          BY <5>1
      <4> QED
        BY <4>1, FragmentKinds DEF Payload
    <3> HIDE DEF y
    <3>3. PICK b : b = Len(q)
      OBVIOUS
    <3>4. /\ b \in Nat /\ DOMAIN q = 1..b
          /\ DOMAIN queue'[p] = 1..b + 1 /\ queue'[p][b + 1] = y
          /\ \A a \in 1..b : queue'[p][a] = q[a]
      <4>1. /\ Append(q, y) \in Seq(Seq(Fragments)) /\ Len(Append(q, y)) = Len(q) + 1
            /\ \A a \in 1..Len(q) : Append(q, y)[a] = q[a]
            /\ Append(q, y)[Len(q) + 1] = y
        BY <3>1, AppendProperties
      <4>2. Len(q) \in Nat /\ DOMAIN q = 1..Len(q)
        BY <3>1
      <4>3. DOMAIN Append(q, y) = 1..Len(Append(q, y))
        BY <4>1
      <4> QED
        BY <3>1, <3>3, <4>1, <4>2, <4>3
    <3>5. InboxIds(p) = [a \in 1..b |-> q[a][1].id]
      BY <3>4 DEF InboxIds
    <3>6. InboxIds(p)' = [a \in 1..b + 1 |-> queue'[p][a][1].id]
      BY <3>4 DEF InboxIds
    <3>7. ASSUME NEW a \in 1..b + 1
          PROVE  queue'[p][a][1].id = IF a = b + 1 THEN m ELSE q[a][1].id
      <4>1. CASE a = b + 1
        BY <3>2, <3>4, <4>1
      <4>2. CASE a # b + 1
        <5>1. a \in 1..b
          BY <3>4, <4>2
        <5> QED
          BY <3>4, <4>2, <5>1
      <4> QED
        BY <4>1, <4>2
    <3>8. Append(InboxIds(p), m) = [a \in 1..b + 1 |-> IF a = b + 1 THEN m ELSE q[a][1].id]
      BY <3>4, <3>5
    <3> QED
      BY <3>6, <3>7, <3>8
  <2>18. Len(FinishedIds) = n /\ k \in 1..Len(FinishedIds)
    BY <2>3, <2>14
  <2>19. M!IsNext(p, k)
    BY <2>9, <2>12, <2>15, <2>16, <2>18 DEF M!IsNext
  <2>20. [q \in Peers |-> LastTaken(q)]' = [[q \in Peers |-> LastTaken(q)] EXCEPT ![p] = k]
    BY <1>2, <1>5, <2>13
  <2>21. [q \in Peers |-> InboxIds(q)]' =
           [[q \in Peers |-> InboxIds(q)] EXCEPT ![p] = Append(@, FinishedIds[k])]
    BY <1>2, <1>5, <2>15, <2>17
  <2> QED
    BY <1>4, <2>18, <2>19, <2>20, <2>21 DEF M!Deliver
<1> QED
  BY <1>1, <1>6, <1>7 DEF Files

\* The ends can be listed in their order, however many there are.
LEMMA ListedStep ==
  ASSUME TypeOK, Listed, [Next]_vars
  PROVE  Listed'
<1>1. PICK n \in Nat : \E g : EndsList(n, g)
  BY DEF Listed
<1>2. PICK g : EndsList(n, g)
  BY <1>1
<1>3. CASE log' = log
  <2>1. Finished' = Finished
    BY <1>3 DEF Finished, Ends
  <2>2. EndsList(n, g)'
    BY <1>2, <2>1 DEF EndsList
  <2> QED
    BY <1>1, <2>2 DEF Listed
<1>4. ASSUME NEW s \in Senders, NEW f \in Fragments,
             log' = Append(log, [from |-> s, frag |-> f])
      PROVE  Listed'
  <2>1. EndsList(n, g)' \/ \E h : EndsList(n + 1, h)'
    BY <1>1, <1>2, <1>4, EndsGrow
  <2>2. n + 1 \in Nat
    BY <1>1
  <2> QED
    BY <1>1, <2>1, <2>2 DEF Listed
<1> QED
  BY <1>3, <1>4, LogGrows

LEMMA AbstractInit ==
  ASSUME Init
  PROVE  OneStart /\ Listed /\ M!MulticastInit
<1>1. log = <<>> /\ Len(log) = 0 /\ 1..0 = {}
  BY DEF Init
<1>2. Finished = {}
  BY <1>1 DEF Finished
<1>3. OneStart
  BY <1>1 DEF Init, OneStart, Listening
<1>4. Listed
  <2>1. PICK g : g = [k \in 1..0 |-> 0]
    OBVIOUS
  <2>2. EndsList(0, g)
    BY <1>1, <1>2, <2>1 DEF EndsList, Enumeration
  <2>3. 0 \in Nat
    OBVIOUS
  <2> QED
    BY <2>2, <2>3 DEF Listed
<1>5. Cardinality(Finished) = 0
  BY <1>2, FS_EmptySet
<1>6. FinishedIds = <<>>
  BY <1>1, <1>5 DEF FinishedIds
<1>7. ASSUME NEW p \in Peers PROVE LastTaken(p) = 0 /\ InboxIds(p) = <<>>
  <2>1. {i \in Finished : \E l \in Taken(p) : i <= l} = {}
    BY <1>2
  <2>2. LastTaken(p) = 0
    BY <2>1, FS_EmptySet DEF LastTaken
  <2>3. queue[p] = <<>> /\ DOMAIN queue[p] = {}
    BY DEF Init
  <2>4. InboxIds(p) = <<>>
    BY <2>3 DEF InboxIds
  <2> QED
    BY <2>2, <2>4
<1> QED
  BY <1>3, <1>4, <1>6, <1>7 DEF M!MulticastInit

\* One step of the program is at most one step of the abstract multicast.
LEMMA AbstractStep ==
  ASSUME RecvInv, RecvInv', OneStart, Listed, crashes' = 0, [Next]_vars
  PROVE  [M!MulticastNext]_(M!multicastVars)
<1>t. /\ TypeOK /\ LogInv /\ TypeOK' /\ LogInv' /\ TakenInv
  BY TakenIsHeard DEF RecvInv
<1>u. TakenInv'
  BY TakenIsHeard, PTL
<1>1. CASE Start
  <2>1. /\ log' = Append(log, [from |-> Starter, frag |-> StartSignal])
        /\ queue' = queue /\ since' = since /\ cursor' = cursor /\ phase' = phase
    BY <1>1 DEF Start, procVars
  <2>2. Starter \in Senders /\ StartSignal \in Fragments
    BY DEF Senders, Fragments
  <2>3. (\E m \in MsgIds : M!Multicast(m)) \/ UNCHANGED M!multicastVars
    BY <1>t, <1>u, <2>1, <2>2, AbstractSend
  <2> QED
    BY <2>3 DEF M!MulticastNext
<1>2. ASSUME NEW p \in Peers, Send(p) PROVE [M!MulticastNext]_(M!multicastVars)
  <2>1. outbox[p] \in Seq(Fragments) /\ outbox[p] # <<>> /\ p \in Senders
    BY <1>2, <1>t DEF Send, TypeOK, Senders
  <2>2. Head(outbox[p]) \in Fragments
    BY <2>1
  <2>3. /\ log' = Append(log, [from |-> p, frag |-> Head(outbox[p])])
        /\ queue' = queue /\ since' = since /\ cursor' = cursor /\ phase' = phase
    BY <1>2 DEF Send
  <2>4. (\E m \in MsgIds : M!Multicast(m)) \/ UNCHANGED M!multicastVars
    BY <1>t, <1>u, <2>1, <2>2, <2>3, AbstractSend
  <2> QED
    BY <2>4 DEF M!MulticastNext
<1>3. ASSUME NEW p \in Peers, Receive(p) PROVE [M!MulticastNext]_(M!multicastVars)
  <2>1. M!Deliver(p) \/ UNCHANGED M!multicastVars
    BY <1>t, <1>u, <1>3, AbstractReceive
  <2> QED
    BY <2>1 DEF M!MulticastNext
<1>4. ASSUME NEW p \in Peers, Crash(p) PROVE FALSE
  <2>1. crashes \in 0..MaxCrashes /\ crashes + 1 = 0 /\ MaxCrashes \in Nat
    BY <1>t, <1>4, SpreadUtilAssumption DEF Crash, TypeOK
  <2> QED
    BY <2>1
<1>5. ASSUME log' = log, queue' = queue PROVE [M!MulticastNext]_(M!multicastVars)
  BY <1>5, AbstractKept
<1>6. ASSUME NEW p \in Peers, NEW n \in 1..MaxChunks, SendChunks(p, n)
      PROVE  log' = log /\ queue' = queue
  BY <1>6 DEF SendChunks
<1>7. ASSUME NEW p \in Peers,
             \/ Launch(p) \/ Join(p) \/ AwaitStart(p) \/ Poll(p) \/ Timeout(p) \/ Stop(p)
      PROVE  log' = log /\ queue' = queue
  BY <1>7 DEF Launch, Join, AwaitStart, Poll, Timeout, Stop, procVars
<1>8. CASE UNCHANGED vars
  BY <1>5, <1>8 DEF vars, procVars
<1> QED
  BY <1>1, <1>2, <1>3, <1>4, <1>5, <1>6, <1>7, <1>8 DEF Next

\* Until START is sent again or somebody is killed, the fragments, the
\* dictionary of senders and the queue of recv_chunks implement the multicast
\* of whole messages on which the learners are written: a message is handed
\* over when its last fragment arrives, and between two that are handed to a
\* peer the order of the group has only messages of its own.
THEOREM WholeMessagesHold == Spec => WholeMessages
<1> DEFINE Ready == (starts <= 1 => OneStart) /\ Listed
<1>1. Init => Ready /\ M!MulticastInit
  BY AbstractInit
<1>2. RecvInv /\ Ready /\ [Next]_vars => Ready'
  BY QuietBefore, OneStartStep, ListedStep DEF RecvInv
<1>3. RecvInv /\ RecvInv' /\ Ready /\ [Next]_vars
        => [Quiet' => UNCHANGED M!multicastVars \/ M!MulticastNext]_vars
  BY QuietBefore, AbstractStep DEF RecvInv, Quiet
<1> HIDE DEF Ready
<1> QED
  BY <1>1, <1>2, <1>3, RecvInvariance, PTL DEF Spec, WholeMessages

-----------------------------------------------------------------------------
(* reconstruct_received_message: what Reconstruct says of the bytes of one *)
(* fragment. The loop gives back every string, whatever its bytes and its  *)
(* length.                                                                 *)

VARIABLES msg, wire, incMsg, bytesRead, bytesRemaining, result, returned

Codec == INSTANCE Reconstruct

(* What write puts on the wire: the message, and a NUL in the last place.  *)
LEMMA WrittenFacts ==
  ASSUME NEW m \in Codec!Messages
  PROVE  /\ Codec!Written(m) \in Seq(Codec!Bytes)
         /\ Len(Codec!Written(m)) = Len(m) + 1
         /\ Len(m) \in Nat
         /\ Codec!Written(m)[Len(m) + 1] = Codec!Nul
         /\ \A i \in 1..Len(m) : Codec!Written(m)[i] = m[i]
BY DEF Codec!Written, Codec!Messages, Codec!Bytes, Codec!Nul

(* A prefix of a sequence, the piece that follows it and the element after *)
(* that are a longer prefix: the step of the loop.                         *)
LEMMA PrefixGrows ==
  ASSUME NEW S, NEW w \in Seq(S), NEW r \in Nat, NEW k \in Nat,
         r + k + 1 <= Len(w)
  PROVE  SubSeq(w, 1, r) \o SubSeq(w, r + 1, r + k) \o <<w[r + k + 1]>>
           = SubSeq(w, 1, r + k + 1)
<1>1. SubSeq(w, 1, r) \o SubSeq(w, r + 1, r + k) = SubSeq(w, 1, r + k)
  BY ConcatAdjacentSubSeq
<1>2. SubSeq(w, 1, r + k + 1)
        = SubSeq(w, 1, (r + k + 1) - 1) \o <<w[r + k + 1]>>
  BY SubSeqRecursiveSecond
<1>3. (r + k + 1) - 1 = r + k
  OBVIOUS
<1> QED
  BY <1>1, <1>2, <1>3

(* The strengthened invariant holds at first.                              *)
LEMMA InitPiecesFit == Codec!Init => Codec!PiecesFit
<1> SUFFICES ASSUME Codec!Init PROVE Codec!PiecesFit
  OBVIOUS
<1>1. msg \in Codec!Messages /\ wire = Codec!Written(msg)
  BY DEF Codec!Init
<1>2. wire \in Seq(Codec!Bytes) /\ Len(wire) \in Nat
  BY <1>1, WrittenFacts
<1>3. SubSeq(wire, 1, 0) = <<>> /\ <<>> \in Seq(Codec!Bytes)
  BY SubSeqEmpty, EmptySeq
<1>4. incMsg = <<>> /\ bytesRead = 0 /\ bytesRemaining = Len(wire) /\ ~returned
      /\ returned \in BOOLEAN
  BY DEF Codec!Init
<1>5. incMsg \in Seq(Codec!Bytes) /\ incMsg = SubSeq(wire, 1, bytesRead)
  BY <1>3, <1>4
<1>6. bytesRead \in 0..Len(wire) /\ bytesRemaining = Len(wire) - bytesRead
  BY <1>2, <1>4
<1> QED
  BY <1>1, <1>4, <1>5, <1>6 DEF Codec!PiecesFit

(* A pass of the loop and the return preserve it.                          *)
LEMMA NextPiecesFit == Codec!PiecesFit /\ [Codec!Next]_(Codec!vars) => Codec!PiecesFit'
<1> SUFFICES ASSUME Codec!PiecesFit, [Codec!Next]_(Codec!vars) PROVE Codec!PiecesFit'
  OBVIOUS
<1>0. /\ wire \in Seq(Codec!Bytes) /\ Len(wire) = Len(msg) + 1 /\ Len(msg) \in Nat
      /\ wire[Len(msg) + 1] = Codec!Nul
      /\ \A i \in 1..Len(msg) : wire[i] = msg[i]
      /\ msg \in Seq(Codec!Bytes)
  BY WrittenFacts DEF Codec!PiecesFit, Codec!Messages
<1>1. CASE Codec!ReadPiece
  <2>1. PICK k \in 0..bytesRemaining :
          /\ Codec!IsReadLength(bytesRead, bytesRemaining, k)
          /\ incMsg' = incMsg \o SubSeq(wire, bytesRead + 1, bytesRead + k)
                              \o <<Codec!Nul>>
          /\ bytesRead' = bytesRead + k + 1
          /\ bytesRemaining' = bytesRemaining - (k + 1)
    BY <1>1 DEF Codec!ReadPiece
  <2>2. /\ bytesRead \in Nat /\ k \in Nat /\ bytesRead < Len(wire)
        /\ bytesRemaining \in Nat
    BY <1>0, <1>1 DEF Codec!PiecesFit, Codec!ReadPiece
  \* The terminator is in what is left, so the piece ends before a NUL.
  <2>3. k < bytesRemaining
    <3> SUFFICES ASSUME k = bytesRemaining PROVE FALSE
      BY <2>1, <2>2
    <3>1. Len(wire) \in (bytesRead + 1)..(bytesRead + k)
      BY <1>0, <2>2 DEF Codec!PiecesFit
    <3> QED
      BY <1>0, <2>1, <3>1 DEF Codec!IsReadLength
  <2>4. wire[bytesRead + k + 1] = Codec!Nul
    BY <1>0, <2>1, <2>2, <2>3 DEF Codec!IsReadLength, Codec!Available, Codec!PiecesFit
  <2>5. bytesRead + k + 1 <= Len(wire)
    BY <1>0, <2>2, <2>3 DEF Codec!PiecesFit
  <2>6. incMsg' = SubSeq(wire, 1, bytesRead + k + 1)
    <3>1. SubSeq(wire, 1, bytesRead)
            \o SubSeq(wire, bytesRead + 1, bytesRead + k)
            \o <<wire[bytesRead + k + 1]>> = SubSeq(wire, 1, bytesRead + k + 1)
      BY <1>0, <2>2, <2>5, PrefixGrows
    <3>2. incMsg = SubSeq(wire, 1, bytesRead)
      BY DEF Codec!PiecesFit
    <3> QED
      BY <2>1, <2>4, <3>1, <3>2
  <2>7. SubSeq(wire, 1, bytesRead + k + 1) \in Seq(Codec!Bytes)
    BY <1>0, <2>2, <2>5
  <2>8. UNCHANGED <<msg, wire, result, returned>>
    BY <1>1 DEF Codec!ReadPiece
  <2>9. /\ bytesRead' \in 0..Len(wire)
        /\ bytesRemaining' = Len(wire) - bytesRead'
    <3>1. bytesRemaining = Len(wire) - bytesRead
      BY DEF Codec!PiecesFit
    <3>2. bytesRead' = bytesRead + k + 1 /\ bytesRemaining' = bytesRemaining - (k + 1)
      BY <2>1
    <3>3. Len(wire) \in Nat
      BY <1>0
    <3> QED
      BY <2>2, <2>5, <3>1, <3>2, <3>3
  <2>10. incMsg' \in Seq(Codec!Bytes) /\ incMsg' = SubSeq(wire, 1, bytesRead')
    BY <2>1, <2>6, <2>7
  <2>11. wire' = Codec!Written(msg')
    BY <2>8 DEF Codec!PiecesFit, Codec!Written
  <2> QED
    BY <2>8, <2>9, <2>10, <2>11 DEF Codec!PiecesFit
<1>2. CASE Codec!Return
  <2>1. bytesRead = Len(wire)
    BY <1>0, <1>2 DEF Codec!PiecesFit, Codec!Return
  <2>2. incMsg \in Seq(Codec!Bytes) /\ Len(incMsg) = Len(msg) + 1
        /\ \A i \in 1..Len(msg) : incMsg[i] = msg[i]
    BY <1>0, <2>1 DEF Codec!PiecesFit
  <2>3. Codec!Stripped(incMsg) = msg
    <3> DEFINE s == SubSeq(incMsg, 1, Len(msg))
    <3>1. /\ s \in Seq(Codec!Bytes) /\ Len(s) = Len(msg)
          /\ \A i \in 1..Len(msg) : s[i] = msg[i]
      BY <1>0, <2>2
    <3>2. s = msg
      BY <1>0, <3>1
    <3> QED
      BY <1>0, <2>2, <3>2 DEF Codec!Stripped
  <2> QED
    BY <1>2, <2>3 DEF Codec!PiecesFit, Codec!Return
<1>3. CASE UNCHANGED Codec!vars
  BY <1>3 DEF Codec!PiecesFit, Codec!vars
<1> QED
  BY <1>1, <1>2, <1>3 DEF Codec!Next

(* The loop of reconstruct_received_message keeps what it has glued equal  *)
(* to what it has read, and reads exactly the bytes of the message.        *)
THEOREM PiecesFitAlways == Codec!Spec => []Codec!PiecesFit
BY InitPiecesFit, NextPiecesFit, PTL DEF Codec!Spec

(* RoundTrip for every string: reconstruct_received_message returns the    *)
(* string that was sent.                                                   *)
THEOREM RoundTripAlways == Codec!Spec => []Codec!RoundTrip
<1>1. Codec!PiecesFit => Codec!RoundTrip
  BY DEF Codec!PiecesFit, Codec!RoundTrip
<1> QED
  BY <1>1, PiecesFitAlways, PTL
=============================================================================
