--------------------------- MODULE A3CSpreadProofs ---------------------------
(***************************************************************************)
(* Proofs about A3CSpread for every group of workers, sync frequency and   *)
(* number of steps: all workers start from the same weights, the changes a *)
(* worker sends are its updates, each once, those it takes at a sync are   *)
(* the others' of the same local step, and no worker gets more than one    *)
(* sync ahead.                                                             *)
(***************************************************************************)
EXTENDS A3CSpread, FiniteSetTheorems, FunctionTheorems, SequenceTheorems, TLAPS

FirstMessage ==
  [kind |-> "init", from |-> Leader, step |-> 0, data |-> {<<Leader, 0>>}]

\* The first message of the group is worker 0's, and nobody has got past it.
Start ==
  /\ pc[Leader] \in {"setup", "init"} => sent = <<>>
  /\ sent # <<>> => sent[1] = FirstMessage
  /\ \A w \in Workers :
       /\ pc[w] \notin {"setup", "init"} => sent # <<>>
       /\ pc[w] \in {"setup", "init"} => taken[w] = 0 /\ weights[w] = {<<w, 0>>}
       /\ inbox[w] = <<>> => cursor[w] = 0
       /\ w # Leader /\ inbox[w] # <<>> =>
            sent # <<>> /\ inbox[w][1] = FirstMessage

\* var0 is taken at step 0, and from then on differs from the weights by own
\* updates after it.
SnapshotOf(w) ==
  /\ var0[w] = NoWeights <=> localSteps[w] = 0
  /\ pc[w] \in {"setup", "init", "exit"} => localSteps[w] = 0
  /\ pc[w] \in {"wait", "apply"} => localSteps[w] # 0
  /\ var0[w] \subseteq weights[w] /\ weights[w] # {}
  /\ localSteps[w] = 0 => \A c \in weights[w] : c[2] <= 1
  /\ var0[w] # NoWeights =>
       \A c \in weights[w] : c \in var0[w] \/ (c[1] = w /\ c[2] > 1)
Snapshot == \A w \in Workers : SnapshotOf(w)

\* DiffsTile, contribution by contribution.
SentIsOwn ==
  \A w \in Workers : \A i \in DiffsOf(w) : \A c \in sent[i].data :
    c \in var0[w] /\ c[1] = w /\ c[2] > 1
OwnIsSent ==
  \A w \in Workers : \A c \in var0[w] :
    c[1] = w /\ c[2] > 1 => \E i \in DiffsOf(w) : c \in sent[i].data
SentOnce ==
  \A w \in Workers : \A i, j \in DiffsOf(w) : \A c \in sent[i].data :
    c \in sent[j].data => i = j

Tiles == SentIsOwn /\ OwnIsSent /\ SentOnce

\* CommonStart of one worker.
StartOf(w) ==
  /\ pc[w] # "exit"
  /\ pc[w] \notin {"setup", "init"} =>
       <<Leader, 0>> \in weights[w] /\ \A c \in weights[w] : c[2] = 0 => c = <<Leader, 0>>

\* The inductive invariant.
IInv == TypeOK /\ Start /\ (\A w \in Workers : StartOf(w)) /\ Snapshot /\ Tiles

-----------------------------------------------------------------------------
LEMMA NumOthersType == NumOthers \in Nat \ {0}
<1>1. Cardinality(Workers) \in Nat
  BY A3CSpreadAssumption, FS_CardinalityType
<1> QED
  BY <1>1, A3CSpreadAssumption DEF NumOthers

LEMMA Counts ==
  ASSUME NEW f \in [Workers -> Nat], NEW w \in Workers
  PROVE  [f EXCEPT ![w] = @ + 1] \in [Workers -> Nat]
  OBVIOUS

\* The message that w sends at a sync.
Diff(w) ==
  [kind |-> "diff", from |-> w, step |-> localSteps[w], data |-> weights[w] \ var0[w]]

\* What a worker's steps do to sent.
LEMMA Sends ==
  ASSUME TypeOK, NEW w \in Workers, NEW m \in Messages, M!Multicast(m)
  PROVE  /\ sent' \in Seq(Messages) /\ Len(sent') = Len(sent) + 1
         /\ \A i \in 1..Len(sent) : sent'[i] = sent[i]
         /\ sent'[Len(sent) + 1] = m
         /\ Len(sent) \in Nat /\ sent' # <<>>
         /\ DOMAIN sent = 1..Len(sent) /\ DOMAIN sent' = 1..(Len(sent) + 1)
         /\ cursor' = cursor /\ inbox' = inbox
<1>1. sent \in Seq(Messages) /\ sent' = Append(sent, m)
  BY DEF TypeOK, M!Multicast
<1>2. /\ sent' \in Seq(Messages) /\ Len(sent') = Len(sent) + 1
      /\ \A i \in 1..Len(sent) : sent'[i] = sent[i]
      /\ sent'[Len(sent) + 1] = m /\ sent' # <<>>
  BY <1>1, AppendProperties
<1>3. Len(sent) \in Nat /\ DOMAIN sent = 1..Len(sent) /\ DOMAIN sent' = 1..Len(sent')
  BY <1>1, <1>2, LenProperties
<1> QED
  BY <1>2, <1>3 DEF M!Multicast

LEMMA MessageTypes ==
  ASSUME TypeOK, NEW w \in Workers
  PROVE  /\ Diff(w) \in Messages
         /\ [kind |-> "init", from |-> w, step |-> 0, data |-> weights[w]] \in Messages
  BY DEF TypeOK, Diff, Messages, Contributions

\* What is handed to w is the next message of the group.
LEMMA Delivers ==
  ASSUME TypeOK, NEW w \in Workers, M!Deliver(w)
  PROVE  \E i \in 1..Len(sent) :
           /\ cursor[w] < i /\ sent[i].from # w
           /\ \A j \in 1..Len(sent) : cursor[w] < j /\ j < i => sent[j].from = w
           /\ cursor' = [cursor EXCEPT ![w] = i]
           /\ inbox' = [inbox EXCEPT ![w] = Append(@, sent[i])]
           /\ sent[i] \in Messages
           /\ Append(inbox[w], sent[i]) \in Seq(Messages)
           /\ Len(Append(inbox[w], sent[i])) = Len(inbox[w]) + 1
           /\ inbox[w] = <<>> => Append(inbox[w], sent[i])[1] = sent[i]
           /\ inbox[w] # <<>> => Append(inbox[w], sent[i])[1] = inbox[w][1]
           /\ Append(inbox[w], sent[i]) # <<>>
           /\ UNCHANGED sent
<1>1. PICK i \in 1..Len(sent) :
        /\ M!IsNext(w, i)
        /\ cursor' = [cursor EXCEPT ![w] = i]
        /\ inbox' = [inbox EXCEPT ![w] = Append(@, sent[i])]
        /\ UNCHANGED sent
  BY DEF M!Deliver
<1>2. sent \in Seq(Messages) /\ inbox[w] \in Seq(Messages)
  BY DEF TypeOK
<1>3. sent[i] \in Messages
  BY <1>2
<1>4. /\ Append(inbox[w], sent[i]) \in Seq(Messages)
      /\ Append(inbox[w], sent[i]) # <<>>
      /\ Len(Append(inbox[w], sent[i])) = Len(inbox[w]) + 1
      /\ \A k \in 1..Len(inbox[w]) : Append(inbox[w], sent[i])[k] = inbox[w][k]
      /\ Append(inbox[w], sent[i])[Len(inbox[w]) + 1] = sent[i]
  BY <1>2, <1>3, AppendProperties
<1>5. inbox[w] = <<>> => Append(inbox[w], sent[i])[1] = sent[i]
  <2>1. inbox[w] = <<>> => Len(inbox[w]) = 0
    OBVIOUS
  <2> QED
    BY <1>4, <2>1
<1>6. inbox[w] # <<>> => Append(inbox[w], sent[i])[1] = inbox[w][1]
  <2>1. inbox[w] # <<>> => 1 \in 1..Len(inbox[w])
    BY <1>2, EmptySeq
  <2> QED
    BY <1>4, <2>1
<1> QED
  BY <1>1, <1>3, <1>4, <1>5, <1>6 DEF M!IsNext

-----------------------------------------------------------------------------
LEMMA TypeStep == TypeOK /\ [Next]_vars => TypeOK'
<1> SUFFICES ASSUME TypeOK, [Next]_vars PROVE TypeOK'
  OBVIOUS
<1>0. NumOthers \in Nat \ {0}
  BY NumOthersType
<1> USE DEF TypeOK
<1>1. ASSUME NEW w \in Workers, StartListenThread(w) PROVE TypeOK'
  BY <1>1 DEF StartListenThread
<1>2. ASSUME NEW w \in Workers, SendInitialWeights(w) PROVE TypeOK'
  <2>1. /\ sent' \in Seq(Messages) /\ Len(sent') = Len(sent) + 1 /\ Len(sent) \in Nat
        /\ cursor' = cursor /\ inbox' = inbox
    <3>1. M!Multicast([kind |-> "init", from |-> w, step |-> 0, data |-> weights[w]])
      BY <1>2 DEF SendInitialWeights
    <3> HIDE DEF TypeOK
    <3> QED
      BY <3>1, MessageTypes, Sends
  <2>2. cursor' \in [Workers -> 0..Len(sent')]
    BY <2>1
  <2> QED
    BY <1>2, <2>1, <2>2 DEF SendInitialWeights
<1>3. ASSUME NEW w \in Workers, TakeInitialWeights(w) PROVE TypeOK'
  <2>1. /\ taken[w] \in Nat /\ inbox[w] \in Seq(Messages) /\ Len(inbox[w]) \in Nat
        /\ taken[w] < Len(inbox[w])
    BY <1>3 DEF TakeInitialWeights, QSize
  <2>2. NextMessage(w) \in Messages
    BY <2>1 DEF NextMessage
  <2>3. NextMessage(w).data \in SUBSET Contributions
    BY <2>2 DEF Messages
  <2>4. /\ taken' \in [Workers -> Nat]
        /\ \A v \in Workers : taken'[v] <= Len(inbox[v])
    BY <1>3, <2>1 DEF TakeInitialWeights
  <2>5. weights' \in [Workers -> SUBSET Contributions]
    BY <1>3, <2>3 DEF TakeInitialWeights
  <2>6. /\ pc' \in [Workers -> {"setup", "init", "train", "sync", "wait", "apply", "exit"}]
        /\ \A v \in Workers : pc'[v] = "apply" => pc[v] = "apply"
    BY <1>3 DEF TakeInitialWeights
  <2>7. UNCHANGED <<sent, cursor, inbox, localSteps, toApply, var0>>
    BY <1>3 DEF TakeInitialWeights
  <2> QED
    BY <2>4, <2>5, <2>6, <2>7
<1>4. ASSUME NEW w \in Workers, Train(w) PROVE TypeOK'
  <2>1. <<w, localSteps[w] + 1>> \in Contributions
    BY DEF Contributions
  <2>2. weights' \in [Workers -> SUBSET Contributions]
    BY <1>4, <2>1 DEF Train
  <2>3. /\ pc' \in [Workers -> {"setup", "init", "train", "sync", "wait", "apply", "exit"}]
        /\ \A v \in Workers : pc'[v] = "apply" => pc[v] = "apply"
        /\ localSteps' \in [Workers -> Nat]
    <3>1. /\ \/ pc' = pc
             \/ pc' = [pc EXCEPT ![w] = "sync"]
          /\ localSteps' = localSteps \/ localSteps' = [localSteps EXCEPT ![w] = @ + 1]
      BY <1>4 DEF Train
    <3>2. pc' \in [Workers -> {"setup", "init", "train", "sync", "wait", "apply", "exit"}]
      BY <3>1
    <3>3. \A v \in Workers : pc'[v] = "apply" => pc[v] = "apply"
      BY <3>1
    <3>4. localSteps' \in [Workers -> Nat]
      <4>1. localSteps \in [Workers -> Nat]
        OBVIOUS
      <4> HIDE DEF TypeOK
      <4> QED
        BY <3>1, <4>1, Counts
    <3> QED
      BY <3>2, <3>3, <3>4
  <2> QED
    BY <1>4, <2>2, <2>3 DEF Train
<1>5. ASSUME NEW w \in Workers, SendDiff(w) PROVE TypeOK'
  <2>1. /\ sent' \in Seq(Messages) /\ Len(sent') >= Len(sent)
        /\ Len(sent) \in Nat /\ Len(sent') \in Nat
        /\ cursor' = cursor /\ inbox' = inbox
    <3>1. CASE var0[w] # NoWeights
      <4>1. M!Multicast(Diff(w))
        BY <1>5, <3>1 DEF SendDiff, Diff
      <4> HIDE DEF TypeOK
      <4>2. /\ sent' \in Seq(Messages) /\ Len(sent') = Len(sent) + 1 /\ Len(sent) \in Nat
            /\ cursor' = cursor /\ inbox' = inbox
        BY <4>1, MessageTypes, Sends
      <4> QED
        BY <4>2
    <3>2. CASE var0[w] = NoWeights
      BY <1>5, <3>2 DEF SendDiff
    <3> QED
      BY <3>1, <3>2
  <2>2. cursor' \in [Workers -> 0..Len(sent')]
    BY <2>1
  <2>3. /\ pc' \in [Workers -> {"setup", "init", "train", "sync", "wait", "apply", "exit"}]
        /\ \A v \in Workers : pc'[v] = "apply" => pc[v] = "apply"
        /\ localSteps' \in [Workers -> Nat]
        /\ var0' \in [Workers -> SUBSET Contributions]
    <3>1. /\ \/ pc' = pc
             \/ pc' = [pc EXCEPT ![w] = "wait"]
             \/ pc' = [pc EXCEPT ![w] = "train"]
          /\ localSteps' = localSteps \/ localSteps' = [localSteps EXCEPT ![w] = @ + 1]
          /\ var0' = [var0 EXCEPT ![w] = weights[w]]
      BY <1>5 DEF SendDiff
    <3>2. pc' \in [Workers -> {"setup", "init", "train", "sync", "wait", "apply", "exit"}]
      BY <3>1
    <3>3. \A v \in Workers : pc'[v] = "apply" => pc[v] = "apply"
      BY <3>1
    <3>4. localSteps' \in [Workers -> Nat]
      <4>1. localSteps \in [Workers -> Nat]
        OBVIOUS
      <4> HIDE DEF TypeOK
      <4> QED
        BY <3>1, <4>1, Counts
    <3>5. var0' \in [Workers -> SUBSET Contributions]
      BY <3>1
    <3> QED
      BY <3>2, <3>3, <3>4, <3>5
  <2>4. UNCHANGED <<taken, toApply, weights>>
    BY <1>5 DEF SendDiff
  <2> QED
    BY <2>1, <2>2, <2>3, <2>4
<1>6. ASSUME NEW w \in Workers, QueueExact(w) PROVE TypeOK'
  <2>1. toApply' = [toApply EXCEPT ![w] = NumOthers]
    BY <1>6 DEF QueueExact
  <2> QED
    BY <1>0, <1>6, <2>1 DEF QueueExact
<1>7. ASSUME NEW w \in Workers, ApplyDiff(w) PROVE TypeOK'
  <2>1. /\ taken[w] \in Nat /\ Len(inbox[w]) \in Nat /\ taken[w] < Len(inbox[w])
        /\ toApply[w] \in 1..NumOthers
    BY <1>7 DEF ApplyDiff, QSize
  <2>2. /\ taken' \in [Workers -> Nat]
        /\ \A v \in Workers : taken'[v] <= Len(inbox[v])
    BY <1>7, <2>1 DEF ApplyDiff
  <2>3. /\ toApply' \in [Workers -> 0..NumOthers]
        /\ \A v \in Workers : pc'[v] = "apply" => toApply'[v] > 0
    BY <1>0, <1>7, <2>1 DEF ApplyDiff
  <2>4. /\ pc' \in [Workers -> {"setup", "init", "train", "sync", "wait", "apply", "exit"}]
        /\ localSteps' \in [Workers -> Nat]
    <3>1. /\ \/ pc' = pc
             \/ pc' = [pc EXCEPT ![w] = "train"]
          /\ localSteps' = localSteps \/ localSteps' = [localSteps EXCEPT ![w] = @ + 1]
      BY <1>7 DEF ApplyDiff
    <3>2. pc' \in [Workers -> {"setup", "init", "train", "sync", "wait", "apply", "exit"}]
      BY <3>1
    <3>3. localSteps' \in [Workers -> Nat]
      <4>1. localSteps \in [Workers -> Nat]
        OBVIOUS
      <4> HIDE DEF TypeOK
      <4> QED
        BY <3>1, <4>1, Counts
    <3> QED
      BY <3>2, <3>3
  <2>5. UNCHANGED <<sent, cursor, inbox, weights, var0>>
    BY <1>7 DEF ApplyDiff
  <2> QED
    BY <2>2, <2>3, <2>4, <2>5
<1>8. ASSUME NEW w \in Workers, Listen(w) PROVE TypeOK'
  <2>1. UNCHANGED <<sent, pc, localSteps, taken, toApply, weights, var0>>
    BY <1>8 DEF Listen, workerVars, M!Deliver
  <2> HIDE DEF TypeOK
  <2>2. PICK i \in 1..Len(sent) :
          /\ cursor' = [cursor EXCEPT ![w] = i]
          /\ inbox' = [inbox EXCEPT ![w] = Append(@, sent[i])]
          /\ Append(inbox[w], sent[i]) \in Seq(Messages)
          /\ Len(Append(inbox[w], sent[i])) = Len(inbox[w]) + 1
    BY <1>8, Delivers DEF Listen
  <2> USE DEF TypeOK
  <2>3. cursor' \in [Workers -> 0..Len(sent)] /\ inbox' \in [Workers -> Seq(Messages)]
    BY <2>2
  <2>4. \A v \in Workers : taken[v] <= Len(inbox'[v])
    BY <2>2
  <2> QED
    BY <2>1, <2>3, <2>4
<1>9. CASE UNCHANGED vars
  BY <1>9 DEF vars, workerVars
<1> QED
  BY <1>1, <1>2, <1>3, <1>4, <1>5, <1>6, <1>7, <1>8, <1>9 DEF Next, Step

-----------------------------------------------------------------------------
LEMMA StartOfAll == ASSUME TypeOK PROVE CommonStart <=> \A w \in Workers : StartOf(w)
<1>1. ASSUME NEW w \in Workers
      PROVE  {c \in weights[w] : c[2] = 0} = {<<Leader, 0>>} <=>
               /\ <<Leader, 0>> \in weights[w]
               /\ \A c \in weights[w] : c[2] = 0 => c = <<Leader, 0>>
  <2>1. <<Leader, 0>>[2] = 0
    OBVIOUS
  <2> QED
    BY <2>1
<1> QED
  BY <1>1 DEF CommonStart, StartOf

\* The first message that a worker takes is worker 0's.
LEMMA TakesStart ==
  ASSUME TypeOK, Start, NEW w \in Workers, TakeInitialWeights(w)
  PROVE  /\ sent # <<>> /\ w # Leader
         /\ weights' = [weights EXCEPT ![w] = {<<Leader, 0>>}]
         /\ pc' = [pc EXCEPT ![w] = "train"]
<1>1. pc[w] = "init" /\ w # Leader /\ QSize(w) > 0
  BY DEF TakeInitialWeights
<1>2. taken[w] = 0
  BY <1>1 DEF Start
<1>3. Len(inbox[w]) > 0
  BY <1>1, <1>2 DEF QSize, TypeOK
<1>4. inbox[w] # <<>>
  BY <1>3
<1>5. NextMessage(w) = FirstMessage /\ sent # <<>>
  BY <1>1, <1>2, <1>4 DEF NextMessage, Start
<1> QED
  BY <1>1, <1>5 DEF TakeInitialWeights, FirstMessage

\* Worker 0 is the first to send: everyone else waits for its message.
LEMMA StartStep ==
  ASSUME TypeOK, Start, \A w \in Workers : StartOf(w), [Next]_vars
  PROVE  Start' /\ \A w \in Workers : StartOf(w)'
<1>0. Leader \in Workers
  BY A3CSpreadAssumption
<1>1. ASSUME NEW w \in Workers, StartListenThread(w)
      PROVE  Start' /\ \A v \in Workers : StartOf(v)'
  <2>1. /\ pc[w] = "setup" /\ pc' = [pc EXCEPT ![w] = "init"]
        /\ UNCHANGED <<sent, cursor, inbox, taken, weights>>
    BY <1>1 DEF StartListenThread
  <2>2. \A v \in Workers : pc'[v] = IF v = w THEN "init" ELSE pc[v]
    BY <2>1 DEF TypeOK
  <2>3. Start'
    BY <1>0, <2>1, <2>2 DEF Start
  <2>4. \A v \in Workers : StartOf(v)'
    BY <2>1, <2>2 DEF StartOf
  <2> QED
    BY <2>3, <2>4
<1>2. ASSUME NEW w \in Workers, SendInitialWeights(w)
      PROVE  Start' /\ \A v \in Workers : StartOf(v)'
  <2> DEFINE m == [kind |-> "init", from |-> w, step |-> 0, data |-> weights[w]]
  <2>1. /\ pc[w] = "init" /\ w = Leader /\ M!Multicast(m)
        /\ pc' = [pc EXCEPT ![w] = "train"]
        /\ UNCHANGED <<taken, weights>>
    BY <1>2 DEF SendInitialWeights
  <2>2. sent = <<>> /\ weights[w] = {<<w, 0>>} /\ m = FirstMessage
    BY <2>1 DEF Start, FirstMessage
  <2>3. sent' # <<>> /\ sent'[1] = m /\ cursor' = cursor /\ inbox' = inbox
    <3>1. m \in Messages
      BY MessageTypes
    <3>2. /\ Len(sent) = 0 /\ sent' # <<>> /\ sent'[Len(sent) + 1] = m
          /\ cursor' = cursor /\ inbox' = inbox
      <4> HIDE DEF m
      <4> QED
        BY <2>1, <2>2, <3>1, Sends
    <3> QED
      BY <3>2
  <2>4. \A v \in Workers : pc'[v] = IF v = w THEN "train" ELSE pc[v]
    BY <2>1 DEF TypeOK
  <2>5. \A v \in Workers : pc[v] \in {"setup", "init"}
    BY <2>2 DEF Start
  <2>6. Start'
    BY <1>0, <2>1, <2>2, <2>3, <2>4, <2>5 DEF Start
  <2>7. \A v \in Workers : StartOf(v)'
    BY <2>1, <2>2, <2>4, <2>5 DEF StartOf
  <2> QED
    BY <2>6, <2>7
<1>3. ASSUME NEW w \in Workers, TakeInitialWeights(w)
      PROVE  Start' /\ \A v \in Workers : StartOf(v)'
  <2>1. /\ pc[w] = "init" /\ taken' = [taken EXCEPT ![w] = @ + 1]
        /\ UNCHANGED <<sent, cursor, inbox>>
    BY <1>3 DEF TakeInitialWeights
  <2>2. /\ sent # <<>> /\ w # Leader
        /\ weights' = [weights EXCEPT ![w] = {<<Leader, 0>>}]
        /\ pc' = [pc EXCEPT ![w] = "train"]
    BY <1>3, TakesStart
  <2>3. \A v \in Workers : /\ pc'[v] = IF v = w THEN "train" ELSE pc[v]
                           /\ weights'[v] = IF v = w THEN {<<Leader, 0>>} ELSE weights[v]
                           /\ v # w => taken'[v] = taken[v]
    BY <2>1, <2>2 DEF TypeOK
  <2>4. Start'
    BY <1>0, <2>1, <2>2, <2>3 DEF Start
  <2>5. \A v \in Workers : StartOf(v)'
    BY <2>3 DEF StartOf
  <2> QED
    BY <2>4, <2>5
<1>4. ASSUME NEW w \in Workers, Train(w)
      PROVE  Start' /\ \A v \in Workers : StartOf(v)'
  <2>1. /\ pc[w] = "train"
        /\ pc' = pc \/ pc' = [pc EXCEPT ![w] = "sync"]
        /\ weights' = [weights EXCEPT ![w] = @ \cup {<<w, localSteps[w] + 1>>}]
        /\ UNCHANGED <<sent, cursor, inbox, taken>>
    BY <1>4 DEF Train
  <2>2. \A v \in Workers :
          /\ v # w => pc'[v] = pc[v] /\ weights'[v] = weights[v]
          /\ pc'[w] \in {"train", "sync"}
          /\ weights'[w] = weights[w] \cup {<<w, localSteps[w] + 1>>}
    BY <2>1 DEF TypeOK
  <2>3. <<w, localSteps[w] + 1>>[2] # 0
    BY DEF TypeOK
  <2>4. Start'
    BY <1>0, <2>1, <2>2 DEF Start
  <2>5. \A v \in Workers : StartOf(v)'
    BY <2>1, <2>2, <2>3 DEF StartOf
  <2> QED
    BY <2>4, <2>5
<1>5. ASSUME NEW w \in Workers, SendDiff(w)
      PROVE  Start' /\ \A v \in Workers : StartOf(v)'
  <2>1. /\ pc[w] = "sync"
        /\ pc' = [pc EXCEPT ![w] = "wait"] \/ pc' = [pc EXCEPT ![w] = "train"]
        /\ UNCHANGED <<taken, weights>>
        /\ M!Multicast(Diff(w)) \/ UNCHANGED <<sent, cursor, inbox>>
    BY <1>5 DEF SendDiff, Diff
  <2>2. \A v \in Workers : /\ v # w => pc'[v] = pc[v]
                           /\ pc'[w] \in {"wait", "train"}
    BY <2>1 DEF TypeOK
  <2>3. sent # <<>>
    BY <2>1 DEF Start
  <2>4. sent' # <<>> /\ sent'[1] = sent[1] /\ cursor' = cursor /\ inbox' = inbox
    <3>1. CASE M!Multicast(Diff(w))
      <4>1. 1 \in 1..Len(sent)
        BY <2>3, EmptySeq DEF TypeOK
      <4>2. /\ sent' # <<>> /\ cursor' = cursor /\ inbox' = inbox
            /\ \A i \in 1..Len(sent) : sent'[i] = sent[i]
        BY <3>1, MessageTypes, Sends
      <4> QED
        BY <4>1, <4>2
    <3> QED
      BY <2>1, <2>3, <3>1
  <2>5. Start'
    BY <1>0, <2>1, <2>2, <2>3, <2>4 DEF Start
  <2>6. \A v \in Workers : StartOf(v)'
    BY <2>1, <2>2 DEF StartOf
  <2> QED
    BY <2>5, <2>6
<1>6. ASSUME NEW w \in Workers, QueueExact(w) \/ ApplyDiff(w)
      PROVE  Start' /\ \A v \in Workers : StartOf(v)'
  <2>1. /\ pc[w] \in {"wait", "apply"}
        /\ \/ pc' = pc
           \/ pc' = [pc EXCEPT ![w] = "apply"]
           \/ pc' = [pc EXCEPT ![w] = "train"]
        /\ \/ taken' = taken
           \/ taken' = [taken EXCEPT ![w] = @ + 1]
        /\ UNCHANGED <<sent, cursor, inbox, weights>>
    BY <1>6 DEF QueueExact, ApplyDiff
  <2>2. pc'[w] \in {"wait", "apply", "train"}
    BY <2>1 DEF TypeOK
  <2>3. \A v \in Workers : v # w => pc'[v] = pc[v] /\ taken'[v] = taken[v]
    BY <2>1 DEF TypeOK
  <2>4. Start'
    BY <1>0, <2>1, <2>2, <2>3 DEF Start
  <2>5. \A v \in Workers : StartOf(v)'
    BY <2>1, <2>2, <2>3 DEF StartOf
  <2> QED
    BY <2>4, <2>5
<1>7. ASSUME NEW w \in Workers, Listen(w)
      PROVE  Start' /\ \A v \in Workers : StartOf(v)'
  <2>1. UNCHANGED <<sent, pc, taken, weights>>
    BY <1>7 DEF Listen, workerVars, M!Deliver
  <2>2. PICK i \in 1..Len(sent) :
          /\ cursor[w] < i /\ sent[i].from # w
          /\ \A j \in 1..Len(sent) : cursor[w] < j /\ j < i => sent[j].from = w
          /\ cursor' = [cursor EXCEPT ![w] = i]
          /\ inbox' = [inbox EXCEPT ![w] = Append(@, sent[i])]
          /\ inbox[w] = <<>> => Append(inbox[w], sent[i])[1] = sent[i]
          /\ inbox[w] # <<>> => Append(inbox[w], sent[i])[1] = inbox[w][1]
          /\ Append(inbox[w], sent[i]) # <<>>
    BY <1>7, Delivers DEF Listen
  <2>3. sent # <<>> /\ Len(sent) \in Nat
    <3>1. Len(sent) \in Nat /\ Len(sent) # 0
      BY <2>2, LenProperties DEF TypeOK
    <3> QED
      BY <3>1, EmptySeq DEF TypeOK
  <2>4. \A v \in Workers : v # w => cursor'[v] = cursor[v] /\ inbox'[v] = inbox[v]
    BY <2>2 DEF TypeOK
  <2>5. inbox'[w] = Append(inbox[w], sent[i])
    BY <2>2 DEF TypeOK
  <2>6. w # Leader => inbox'[w][1] = FirstMessage
    <3>1. CASE w # Leader /\ inbox[w] = <<>>
      <4>1. cursor[w] = 0 /\ sent[1] = FirstMessage
        BY <2>3, <3>1 DEF Start
      <4>2. i = 1
        <5>1. sent[1].from # w /\ 1 \in 1..Len(sent)
          BY <2>2, <3>1, <4>1 DEF FirstMessage
        <5> QED
          BY <2>2, <4>1, <5>1
      <4> QED
        BY <2>2, <2>5, <3>1, <4>1, <4>2
    <3>2. CASE w # Leader /\ inbox[w] # <<>>
      BY <2>2, <2>5, <3>2 DEF Start
    <3> QED
      BY <3>1, <3>2
  <2>7. Start'
    BY <1>0, <2>1, <2>2, <2>3, <2>4, <2>5, <2>6 DEF Start
  <2>8. ASSUME NEW v \in Workers PROVE StartOf(v)'
    <3>1. pc' = pc /\ weights' = weights
      BY <2>1
    <3>2. StartOf(v)
      OBVIOUS
    <3> QED
      BY <3>1, <3>2 DEF StartOf
  <2> QED
    BY <2>7, <2>8
<1>8. CASE UNCHANGED vars
  <2>1. UNCHANGED <<sent, cursor, inbox, pc, taken, weights>>
    BY <1>8 DEF vars, workerVars
  <2> QED
    BY <2>1 DEF Start, StartOf
<1> QED
  BY <1>1, <1>2, <1>3, <1>4, <1>5, <1>6, <1>7, <1>8 DEF Next, Step

-----------------------------------------------------------------------------
\* SnapshotOf a worker that takes no part in a step.
LEMMA SnapshotKept ==
  ASSUME NEW v \in Workers, SnapshotOf(v), pc'[v] = pc[v], localSteps'[v] = localSteps[v],
         weights'[v] = weights[v], var0'[v] = var0[v]
  PROVE  SnapshotOf(v)'
  BY DEF SnapshotOf, NoWeights

LEMMA SnapshotStep ==
  ASSUME TypeOK, Start, Snapshot, \A w \in Workers : StartOf(w), [Next]_vars
  PROVE  Snapshot'
<1> SUFFICES ASSUME NEW v \in Workers PROVE SnapshotOf(v)'
  BY DEF Snapshot
<1>0. /\ SnapshotOf(v) /\ localSteps[v] \in Nat /\ SyncFrequency \in Nat \ {0}
      /\ NoWeights = {}
  BY A3CSpreadAssumption DEF Snapshot, TypeOK, NoWeights
<1>1. ASSUME NEW w \in Workers, StartListenThread(w) PROVE SnapshotOf(v)'
  <2>1. /\ pc[w] = "setup" /\ pc' = [pc EXCEPT ![w] = "init"]
        /\ UNCHANGED <<localSteps, weights, var0>>
    BY <1>1 DEF StartListenThread
  <2>2. v # w => pc'[v] = pc[v]
    BY <2>1 DEF TypeOK
  <2>3. v = w => pc'[v] = "init"
    BY <2>1 DEF TypeOK
  <2> QED
    BY <1>0, <2>1, <2>2, <2>3 DEF SnapshotOf
<1>2. ASSUME NEW w \in Workers, SendInitialWeights(w) PROVE SnapshotOf(v)'
  <2>1. /\ pc[w] = "init" /\ pc' = [pc EXCEPT ![w] = "train"]
        /\ UNCHANGED <<localSteps, weights, var0>>
    BY <1>2 DEF SendInitialWeights
  <2>2. v # w => pc'[v] = pc[v]
    BY <2>1 DEF TypeOK
  <2>3. v = w => pc'[v] = "train"
    BY <2>1 DEF TypeOK
  <2> QED
    BY <1>0, <2>1, <2>2, <2>3 DEF SnapshotOf
<1>3. ASSUME NEW w \in Workers, TakeInitialWeights(w) PROVE SnapshotOf(v)'
  <2>1. pc[w] = "init" /\ UNCHANGED <<localSteps, var0>>
    BY <1>3 DEF TakeInitialWeights
  <2>2. /\ pc' = [pc EXCEPT ![w] = "train"]
        /\ weights' = [weights EXCEPT ![w] = {<<Leader, 0>>}]
    BY <1>3, TakesStart
  <2>3. CASE v # w
    <3>1. pc'[v] = pc[v] /\ weights'[v] = weights[v]
      BY <2>2, <2>3 DEF TypeOK
    <3> QED
      BY <1>0, <2>1, <3>1, SnapshotKept
  <2>4. CASE v = w
    <3>1. pc'[v] = "train" /\ weights'[v] = {<<Leader, 0>>}
      BY <2>2, <2>4 DEF TypeOK
    <3>2. localSteps[v] = 0 /\ var0[v] = {}
      BY <1>0, <2>1, <2>4 DEF SnapshotOf
    <3> QED
      BY <1>0, <2>1, <3>1, <3>2 DEF SnapshotOf
  <2> QED
    BY <2>3, <2>4
<1>4. ASSUME NEW w \in Workers, Train(w) PROVE SnapshotOf(v)'
  <2>1. /\ pc[w] = "train" /\ UNCHANGED var0
        /\ weights' = [weights EXCEPT ![w] = @ \cup {<<w, localSteps[w] + 1>>}]
        /\ \/ pc' = [pc EXCEPT ![w] = "sync"] /\ localSteps' = localSteps
           \/ /\ localSteps[w] % SyncFrequency # 0 /\ pc' = pc
              /\ localSteps' = [localSteps EXCEPT ![w] = @ + 1]
    BY <1>4 DEF Train
  <2>2. CASE v # w
    <3>1. pc'[v] = pc[v] /\ localSteps'[v] = localSteps[v] /\ weights'[v] = weights[v]
      BY <2>1, <2>2 DEF TypeOK
    <3> QED
      BY <1>0, <2>1, <3>1, SnapshotKept
  <2>3. CASE v = w
    <3>1. /\ weights'[v] = weights[v] \cup {<<v, localSteps[v] + 1>>}
          /\ pc'[v] \in {"train", "sync"}
      BY <2>1, <2>3 DEF TypeOK
    <3>2. /\ localSteps'[v] \in Nat
          /\ localSteps'[v] = 0 <=> localSteps[v] = 0
      <4>1. \/ localSteps'[v] = localSteps[v]
            \/ localSteps[v] % SyncFrequency # 0 /\ localSteps'[v] = localSteps[v] + 1
        BY <2>1, <2>3 DEF TypeOK
      <4>2. localSteps[v] = 0 => localSteps[v] % SyncFrequency = 0
        BY <1>0, SMTT(30)
      <4> QED
        BY <1>0, <4>1, <4>2
    <3>3. /\ <<v, localSteps[v] + 1>>[1] = v
          /\ <<v, localSteps[v] + 1>>[2] = localSteps[v] + 1
      OBVIOUS
    <3>4. localSteps'[v] = 0 => \A c \in weights'[v] : c[2] <= 1
      BY <1>0, <3>1, <3>2, <3>3 DEF SnapshotOf
    <3>5. var0[v] # {} => \A c \in weights'[v] : c \in var0[v] \/ (c[1] = v /\ c[2] > 1)
      BY <1>0, <3>1, <3>3 DEF SnapshotOf
    <3> QED
      BY <1>0, <2>1, <3>1, <3>2, <3>4, <3>5 DEF SnapshotOf
  <2> QED
    BY <2>2, <2>3
<1>5. ASSUME NEW w \in Workers, SendDiff(w) PROVE SnapshotOf(v)'
  <2>1. /\ pc[w] = "sync" /\ UNCHANGED weights
        /\ var0' = [var0 EXCEPT ![w] = weights[w]]
        /\ \/ localSteps[w] # 0 /\ pc' = [pc EXCEPT ![w] = "wait"] /\ localSteps' = localSteps
           \/ /\ pc' = [pc EXCEPT ![w] = "train"]
              /\ localSteps' = [localSteps EXCEPT ![w] = @ + 1]
    BY <1>5 DEF SendDiff
  <2>2. CASE v # w
    <3>1. pc'[v] = pc[v] /\ localSteps'[v] = localSteps[v] /\ var0'[v] = var0[v]
      BY <2>1, <2>2 DEF TypeOK
    <3> QED
      BY <1>0, <2>1, <3>1, SnapshotKept
  <2>3. CASE v = w
    <3>1. var0'[v] = weights[v] /\ pc'[v] \in {"wait", "train"} /\ localSteps'[v] # 0
      BY <1>0, <2>1, <2>3 DEF TypeOK
    <3> QED
      BY <1>0, <2>1, <3>1 DEF SnapshotOf
  <2> QED
    BY <2>2, <2>3
<1>6. ASSUME NEW w \in Workers, QueueExact(w) \/ ApplyDiff(w) PROVE SnapshotOf(v)'
  <2>1. /\ pc[w] \in {"wait", "apply"} /\ UNCHANGED <<weights, var0>>
        /\ \/ pc' = pc
           \/ pc' = [pc EXCEPT ![w] = "apply"]
           \/ pc' = [pc EXCEPT ![w] = "train"]
        /\ \/ localSteps' = localSteps
           \/ localSteps' = [localSteps EXCEPT ![w] = @ + 1]
    BY <1>6 DEF QueueExact, ApplyDiff
  <2>2. CASE v # w
    <3>1. pc'[v] = pc[v] /\ localSteps'[v] = localSteps[v]
      BY <2>1, <2>2 DEF TypeOK
    <3> QED
      BY <1>0, <2>1, <3>1, SnapshotKept
  <2>3. CASE v = w
    <3>1. pc'[v] \in {"wait", "apply", "train"}
      BY <2>1, <2>3 DEF TypeOK
    <3>2. localSteps[v] # 0 /\ localSteps'[v] # 0
      BY <1>0, <2>1, <2>3 DEF TypeOK, SnapshotOf
    <3> QED
      BY <1>0, <2>1, <3>1, <3>2 DEF SnapshotOf
  <2> QED
    BY <2>2, <2>3
<1>7. ASSUME NEW w \in Workers, Listen(w) PROVE SnapshotOf(v)'
  <2>1. UNCHANGED <<pc, localSteps, weights, var0>>
    BY <1>7 DEF Listen, workerVars
  <2> QED
    BY <1>0, <2>1, SnapshotKept
<1>8. CASE UNCHANGED vars
  <2>1. UNCHANGED <<pc, localSteps, weights, var0>>
    BY <1>8 DEF vars, workerVars
  <2> QED
    BY <1>0, <2>1, SnapshotKept
<1> QED
  BY <1>1, <1>2, <1>3, <1>4, <1>5, <1>6, <1>7, <1>8 DEF Next, Step

-----------------------------------------------------------------------------
\* Tiles speaks of the changes in sent and of var0, and of nothing else.
LEMMA TilesKept ==
  ASSUME TypeOK, Tiles, var0' = var0,
         \A v \in Workers : DiffsOf(v)' = DiffsOf(v),
         \A v \in Workers : \A i \in DiffsOf(v) : sent'[i] = sent[i]
  PROVE  Tiles'
<1>1. SentIsOwn'
  BY DEF Tiles, SentIsOwn
<1>2. OwnIsSent'
  BY DEF Tiles, OwnIsSent
<1>3. SentOnce'
  BY DEF Tiles, SentOnce
<1> QED
  BY <1>1, <1>2, <1>3 DEF Tiles

\* The changes sent, after one more message.
LEMMA DiffsAfter ==
  ASSUME TypeOK, NEW w \in Workers, NEW m \in Messages, M!Multicast(m), NEW v \in Workers
  PROVE  /\ \A i \in DiffsOf(v) : i # Len(sent) + 1 /\ sent'[i] = sent[i]
         /\ \A i : i \in DiffsOf(v)' <=>
              \/ i \in DiffsOf(v)
              \/ i = Len(sent) + 1 /\ m.from = v /\ m.kind = "diff"
<1>1. /\ \A i \in 1..Len(sent) : sent'[i] = sent[i]
      /\ sent'[Len(sent) + 1] = m
      /\ Len(sent) \in Nat
      /\ DOMAIN sent = 1..Len(sent) /\ DOMAIN sent' = 1..(Len(sent) + 1)
  BY Sends
<1>2. \A i : i \in DOMAIN sent' <=> i \in 1..Len(sent) \/ i = Len(sent) + 1
  BY <1>1
<1>3. \A i \in 1..Len(sent) : i # Len(sent) + 1
  BY <1>1
<1> QED
  BY <1>1, <1>2, <1>3 DEF DiffsOf

LEMMA TilesStep ==
  ASSUME TypeOK, Start, Snapshot, Tiles, [Next]_vars
  PROVE  Tiles'
<1>1. ASSUME UNCHANGED <<sent, var0>> PROVE Tiles'
  <2>1. \A v \in Workers : DiffsOf(v)' = DiffsOf(v)
    BY <1>1 DEF DiffsOf
  <2> QED
    BY <1>1, <2>1, TilesKept
<1>2. ASSUME NEW w \in Workers, SendInitialWeights(w) PROVE Tiles'
  <2> DEFINE m == [kind |-> "init", from |-> w, step |-> 0, data |-> weights[w]]
  <2>1. M!Multicast(m) /\ var0' = var0 /\ m \in Messages /\ m.kind # "diff"
    BY <1>2, MessageTypes DEF SendInitialWeights
  <2> HIDE DEF m
  <2>2. \A v \in Workers :
          /\ \A i \in DiffsOf(v) : sent'[i] = sent[i]
          /\ \A i : i \in DiffsOf(v)' <=> i \in DiffsOf(v)
    BY <2>1, DiffsAfter
  <2>3. \A v \in Workers : DiffsOf(v)' = DiffsOf(v)
    <3>1. \A v \in Workers : DiffsOf(v) \subseteq DOMAIN sent /\ DiffsOf(v)' \subseteq DOMAIN sent'
      BY DEF DiffsOf
    <3> QED
      BY <2>2, <3>1
  <2> QED
    BY <2>1, <2>2, <2>3, TilesKept
<1>3. ASSUME NEW w \in Workers, SendDiff(w) PROVE Tiles'
  <2>1. /\ var0' = [var0 EXCEPT ![w] = weights[w]]
        /\ IF var0[w] # NoWeights THEN M!Multicast(Diff(w)) ELSE sent' = sent
    BY <1>3 DEF SendDiff, Diff
  <2>2. /\ var0'[w] = weights[w] /\ var0[w] \subseteq weights[w]
        /\ \A v \in Workers : v # w => var0'[v] = var0[v]
    BY <2>1 DEF TypeOK, Snapshot, SnapshotOf
  <2>3. CASE var0[w] = NoWeights
    <3>1. /\ \A v \in Workers : DiffsOf(v)' = DiffsOf(v)
          /\ sent' = sent
      BY <2>1, <2>3 DEF DiffsOf
    <3>2. \A c \in weights[w] : ~(c[2] > 1)
      <4>1. \A c \in weights[w] : c[2] <= 1 /\ c[2] \in Nat
        BY <2>3 DEF TypeOK, Snapshot, SnapshotOf, Contributions
      <4> QED
        BY <4>1
    <3>3. SentIsOwn'
      BY <2>2, <3>1 DEF Tiles, SentIsOwn
    <3>4. OwnIsSent'
      BY <2>2, <3>1, <3>2 DEF Tiles, OwnIsSent
    <3>5. SentOnce'
      BY <3>1 DEF Tiles, SentOnce
    <3> QED
      BY <3>3, <3>4, <3>5 DEF Tiles
  <2>4. CASE var0[w] # NoWeights
    <3> DEFINE new == Len(sent) + 1
    <3>1. /\ Diff(w) \in Messages /\ M!Multicast(Diff(w))
          /\ Diff(w).from = w /\ Diff(w).kind = "diff"
          /\ Diff(w).data = weights[w] \ var0[w]
      BY <2>1, <2>4, MessageTypes DEF Diff
    <3>2. sent'[new] = Diff(w)
      BY <3>1, Sends
    <3>3. \A v \in Workers :
            /\ \A i \in DiffsOf(v) : i # new /\ sent'[i] = sent[i]
            /\ \A i : i \in DiffsOf(v)' <=> i \in DiffsOf(v) \/ (i = new /\ v = w)
      BY <3>1, DiffsAfter
    <3>4. \A c \in weights[w] : c \in var0[w] \/ (c[1] = w /\ c[2] > 1)
      BY <2>4 DEF Snapshot, SnapshotOf
    <3>5. sent'[new].data = weights[w] \ var0[w]
      BY <3>1, <3>2
    <3> HIDE DEF new
    <3>6. ASSUME NEW v \in Workers, NEW i \in DiffsOf(v)', NEW c \in sent'[i].data
          PROVE  c \in var0'[v] /\ c[1] = v /\ c[2] > 1
      <4>1. CASE i \in DiffsOf(v)
        <5>1. c \in sent[i].data
          BY <3>3, <4>1
        <5>2. c \in var0[v] /\ c[1] = v /\ c[2] > 1
          BY <4>1, <5>1 DEF Tiles, SentIsOwn
        <5> QED
          BY <2>2, <5>2
      <4>2. CASE i = new /\ v = w
        BY <2>2, <3>4, <3>5, <4>2
      <4> QED
        BY <3>3, <4>1, <4>2
    <3>7. ASSUME NEW v \in Workers, NEW c \in var0'[v], c[1] = v, c[2] > 1
          PROVE  \E i \in DiffsOf(v)' : c \in sent'[i].data
      <4>1. CASE c \in var0[v]
        <5>1. PICK i \in DiffsOf(v) : c \in sent[i].data
          BY <3>7, <4>1 DEF Tiles, OwnIsSent
        <5> QED
          BY <3>3, <5>1
      <4>2. CASE c \notin var0[v]
        <5>1. v = w /\ c \in weights[w] \ var0[w]
          BY <2>2, <4>2
        <5> QED
          BY <3>3, <3>5, <5>1
      <4> QED
        BY <4>1, <4>2
    <3>8. ASSUME NEW v \in Workers, NEW i \in DiffsOf(v)', NEW j \in DiffsOf(v)',
                 NEW c \in sent'[i].data, c \in sent'[j].data
          PROVE  i = j
      <4>1. ASSUME NEW k \in DiffsOf(v), c \in sent'[k].data PROVE c \in sent[k].data /\ c \in var0[v]
        <5>1. c \in sent[k].data
          BY <3>3, <4>1
        <5> QED
          BY <5>1 DEF Tiles, SentIsOwn
      <4>2. v = w /\ c \in sent'[new].data => c \notin var0[v]
        BY <3>5
      <4>3. CASE i \in DiffsOf(v) /\ j \in DiffsOf(v)
        BY <3>8, <4>1, <4>3 DEF Tiles, SentOnce
      <4>4. CASE i \notin DiffsOf(v) \/ j \notin DiffsOf(v)
        BY <3>3, <3>8, <4>1, <4>2, <4>4
      <4> QED
        BY <4>3, <4>4
    <3>9. SentIsOwn'
      BY <3>6 DEF SentIsOwn
    <3>10. OwnIsSent'
      BY <3>7 DEF OwnIsSent
    <3>11. SentOnce'
      BY <3>8 DEF SentOnce
    <3> QED
      BY <3>9, <3>10, <3>11 DEF Tiles
  <2> QED
    BY <2>3, <2>4
<1>4. ASSUME NEW w \in Workers,
             \/ StartListenThread(w) \/ TakeInitialWeights(w) \/ Train(w)
             \/ QueueExact(w) \/ ApplyDiff(w) \/ Listen(w)
      PROVE  UNCHANGED <<sent, var0>>
  BY <1>4 DEF StartListenThread, TakeInitialWeights, Train, QueueExact, ApplyDiff, Listen,
              M!Deliver, workerVars
<1>5. CASE UNCHANGED vars
  BY <1>1, <1>5 DEF vars, workerVars
<1> QED
  BY <1>1, <1>2, <1>3, <1>4, <1>5 DEF Next, Step

\* Tiles is DiffsTile, contribution by contribution.
LEMMA TilesIsDiffsTile == ASSUME TypeOK, Tiles PROVE DiffsTile
<1>1. ASSUME NEW w \in Workers
      PROVE  UNION {sent[i].data : i \in DiffsOf(w)} = {c \in var0[w] : c[1] = w /\ c[2] > 1}
  <2>1. \A c : c \in UNION {sent[i].data : i \in DiffsOf(w)} <=>
               \E i \in DiffsOf(w) : c \in sent[i].data
    OBVIOUS
  <2>2. \A i \in DiffsOf(w) : \A c \in sent[i].data : c \in var0[w] /\ c[1] = w /\ c[2] > 1
    BY DEF Tiles, SentIsOwn
  <2>3. \A c \in var0[w] : c[1] = w /\ c[2] > 1 => \E i \in DiffsOf(w) : c \in sent[i].data
    BY DEF Tiles, OwnIsSent
  <2> QED
    BY <2>1, <2>2, <2>3
<1>2. ASSUME NEW w \in Workers, NEW i \in DiffsOf(w), NEW j \in DiffsOf(w), i # j
      PROVE  sent[i].data \cap sent[j].data = {}
  BY <1>2 DEF Tiles, SentOnce
<1> QED
  BY <1>1, <1>2 DEF DiffsTile

-----------------------------------------------------------------------------
LEMMA Initially == Init => IInv
<1> SUFFICES ASSUME Init PROVE IInv
  OBVIOUS
<1>0. NumOthers \in Nat \ {0} /\ Leader \in Workers
  BY NumOthersType, A3CSpreadAssumption
<1>1. /\ sent = <<>> /\ cursor = [w \in Workers |-> 0] /\ inbox = [w \in Workers |-> <<>>]
  BY DEF Init, M!MulticastInit
<1>2. TypeOK
  <2>1. \A w \in Workers : {<<w, 0>>} \in SUBSET Contributions
    BY DEF Contributions
  <2> QED
    BY <1>0, <1>1, <2>1 DEF Init, TypeOK, NoWeights
<1>3. Start
  BY <1>0, <1>1 DEF Init, Start
<1>4. \A w \in Workers : StartOf(w)
  BY DEF Init, StartOf
<1>5. Snapshot
  <2> SUFFICES ASSUME NEW w \in Workers PROVE SnapshotOf(w)
    BY DEF Snapshot
  <2>1. /\ pc[w] = "setup" /\ localSteps[w] = 0
        /\ weights[w] = {<<w, 0>>} /\ var0[w] = {}
    BY DEF Init, NoWeights
  <2>2. <<w, 0>>[2] <= 1
    OBVIOUS
  <2> QED
    BY <2>1, <2>2 DEF SnapshotOf, NoWeights
<1>6. Tiles
  <2>1. DOMAIN sent = {}
    BY <1>1
  <2>2. \A w \in Workers : DiffsOf(w) = {} /\ var0[w] = {}
    BY <2>1 DEF DiffsOf, Init, NoWeights
  <2> QED
    BY <2>2 DEF Tiles, SentIsOwn, OwnIsSent, SentOnce
<1> QED
  BY <1>2, <1>3, <1>4, <1>5, <1>6 DEF IInv

LEMMA StepKeepsIInv == IInv /\ [Next]_vars => IInv'
<1> SUFFICES ASSUME IInv, [Next]_vars PROVE IInv'
  OBVIOUS
<1>1. TypeOK'
  BY TypeStep DEF IInv
<1>2. Start' /\ \A w \in Workers : StartOf(w)'
  BY StartStep DEF IInv
<1>3. Snapshot'
  BY SnapshotStep DEF IInv
<1>4. Tiles'
  BY TilesStep DEF IInv
<1> QED
  BY <1>1, <1>2, <1>3, <1>4 DEF IInv

\* The inductive invariant holds of every behaviour of a3c.py's workers.
THEOREM Invariance == Spec => []IInv
<1> QED
  BY Initially, StepKeepsIInv, PTL DEF Spec

\* No worker takes a message that was not put in its queue, and of the
\* messages it is to apply one is left while it applies (process).
THEOREM TypeCorrect == Spec => []TypeOK
<1>1. IInv => TypeOK
  BY DEF IInv
<1> QED
  BY <1>1, Invariance, PTL

\* Every worker starts to train from the initial weights of worker 0 and from
\* no others: sync_initial_weights never sees a change first.
THEOREM CommonStartAlways == Spec => []CommonStart
<1>1. IInv => CommonStart
  BY StartOfAll DEF IInv
<1> QED
  BY <1>1, Invariance, PTL

\* What a worker sends at its syncs are its own updates after step 0, each
\* once (var0 and var1 in process).
THEOREM DiffsTileAlways == Spec => []DiffsTile
<1>1. IInv => DiffsTile
  BY TilesIsDiffsTile DEF IInv
<1> QED
  BY <1>1, Invariance, PTL

-----------------------------------------------------------------------------
(***************************************************************************)
(* The syncs. A worker counts the messages in its queue and never looks at *)
(* their steps; what makes the count mean the sync of one step is that     *)
(* nobody gets past a sync before everyone has sent its change of it, so   *)
(* that the group's order is an order of steps. Named parts:               *)
(* what has been sent, what has been handed over, and what is taken.       *)
(***************************************************************************)

\* The local steps up to n at which workers sync; step 0 sends nothing.
SyncSteps(n) == {s \in 1..n : s % SyncFrequency = 0}

\* The last step whose change w has sent, if it is one of a sync; the last
\* step w has done with.
LastSent(w) ==
  IF pc[w] \in {"wait", "apply"} \/ localSteps[w] = 0 THEN localSteps[w] ELSE localSteps[w] - 1
LastDone(w) == IF localSteps[w] = 0 THEN 0 ELSE localSteps[w] - 1

Given(w) == SyncSteps(LastSent(w))
Done(w) == SyncSteps(LastDone(w))

Key(m) == <<m.from, m.step>>

\* The keys of the first n messages handed to w, and of those that w has been
\* handed when it has done all syncs up to step n.
Keys(w, n) == {Key(inbox[w][k]) : k \in 1..n}
Grid(w, n) ==
  ((Workers \ {w}) \X SyncSteps(n)) \cup (IF w = Leader THEN {} ELSE {<<Leader, 0>>})

SentGiven ==
  \A i \in 1..Len(sent) : \A w \in Workers : sent[i].from = w =>
    \/ sent[i].kind = "init" /\ w = Leader /\ sent[i].step = 0
    \/ sent[i].kind = "diff" /\ sent[i].step \in Given(w)

SentSorted ==
  \A i, j \in 1..Len(sent) :
    i < j => sent[i].step <= sent[j].step /\ Key(sent[i]) # Key(sent[j])

GivenSent ==
  \A w \in Workers : \A s \in Given(w) : \E i \in 1..Len(sent) : Key(sent[i]) = <<w, s>>

InboxSent ==
  \A w \in Workers : \A k \in 1..Len(inbox[w]) :
    inbox[w][k].from # w /\ \E i \in 1..cursor[w] : sent[i] = inbox[w][k]

InboxHasAll ==
  \A w \in Workers : \A i \in 1..cursor[w] :
    sent[i].from # w => \E k \in 1..Len(inbox[w]) : inbox[w][k] = sent[i]

InboxOnce ==
  \A w \in Workers : \A k, l \in 1..Len(inbox[w]) :
    k < l => Key(inbox[w][k]) # Key(inbox[w][l])

AtSync ==
  \A w \in Workers :
    pc[w] \in {"sync", "wait", "apply"} => localSteps[w] % SyncFrequency = 0

\* Nobody has done a sync that another has not sent its change for.
NoneBehind == \A w, v \in Workers : Done(w) \subseteq Given(v)

\* Between two syncs the messages taken are those of the syncs done.
TakenOf(w) ==
  /\ pc[w] \in {"train", "sync", "wait"} => Keys(w, taken[w]) = Grid(w, LastDone(w))
  /\ pc[w] = "apply" =>
       /\ taken[w] + toApply[w] <= Len(inbox[w])
       /\ Keys(w, taken[w] + toApply[w]) = Grid(w, localSteps[w])
       /\ Grid(w, LastDone(w)) \subseteq Keys(w, taken[w])
TakenKeys == \A w \in Workers : TakenOf(w)

LogInv == SentGiven /\ SentSorted /\ GivenSent
InboxInv == InboxSent /\ InboxHasAll /\ InboxOnce
SyncInv == AtSync /\ NoneBehind /\ TakenKeys

\* The inductive invariant of the syncs, on top of IInv.
SInv == IInv /\ LogInv /\ InboxInv /\ SyncInv

-----------------------------------------------------------------------------
(* Syncs and multiples of SyncFrequency.                                     *)

LEMMA FrequencyType == SyncFrequency \in Nat \ {0}
BY A3CSpreadAssumption

\* Of SyncFrequency successive steps one is a sync.
LEMMA NextMultiple ==
  ASSUME NEW F \in Nat \ {0}, NEW a \in Nat
  PROVE  \E s \in (a + 1)..(a + F) : s % F = 0
<1> DEFINE q == a \div F
<1>1. a = F * q + (a % F) /\ q \in Nat /\ a % F \in 0..(F - 1)
  OBVIOUS
<1>2. F * (q + 1) = F * q + F /\ F * q \in Nat
  BY <1>1
<1>3. (F * (q + 1)) % F = 0
  BY <1>1
<1> HIDE DEF q
<1>4. F * (q + 1) \in (a + 1)..(a + F)
  BY <1>1, <1>2
<1> QED
  BY <1>3, <1>4

LEMMA SyncStepsFacts ==
  ASSUME NEW n \in Nat
  PROVE  /\ SyncSteps(n) \subseteq Nat \ {0}
         /\ \A s : s \in SyncSteps(n) <=> s \in Nat /\ s >= 1 /\ s <= n /\ s % SyncFrequency = 0
         /\ IsFiniteSet(SyncSteps(n))
         /\ Cardinality(SyncSteps(n)) \in Nat
<1>1. SyncSteps(n) \subseteq 1..n
  BY DEF SyncSteps
<1>2. IsFiniteSet(1..n)
  <2>1. 1 \in Int /\ n \in Int
    OBVIOUS
  <2> QED
    BY <2>1, FS_Interval
<1>3. IsFiniteSet(SyncSteps(n)) /\ Cardinality(SyncSteps(n)) \in Nat
  BY <1>1, <1>2, FS_Subset, FS_CardinalityType
<1>4. \A s : s \in 1..n <=> s \in Nat /\ s >= 1 /\ s <= n
  OBVIOUS
<1> QED
  BY <1>1, <1>3, <1>4 DEF SyncSteps

\* A step that is no sync adds nothing; a sync adds itself.
LEMMA SyncStepsGrow ==
  ASSUME NEW n \in Nat \ {0}
  PROVE  /\ n % SyncFrequency # 0 => SyncSteps(n) = SyncSteps(n - 1)
         /\ n % SyncFrequency = 0 => SyncSteps(n) = SyncSteps(n - 1) \cup {n}
         /\ n \notin SyncSteps(n - 1)
<1>1. n - 1 \in Nat
  OBVIOUS
<1>2. 1..n = (1..(n - 1)) \cup {n} /\ n \notin 1..(n - 1)
  OBVIOUS
<1> QED
  BY <1>2 DEF SyncSteps

\* The messages of one more sync are one of every other worker.
LEMMA GridGrows ==
  ASSUME NEW w \in Workers, NEW n \in Nat \ {0}, n % SyncFrequency = 0
  PROVE  /\ IsFiniteSet(Grid(w, n)) /\ IsFiniteSet(Grid(w, n - 1))
         /\ Cardinality(Grid(w, n)) = Cardinality(Grid(w, n - 1)) + NumOthers
         /\ Grid(w, n - 1) \subseteq Grid(w, n)
         /\ \A k \in Grid(w, n) : k \notin Grid(w, n - 1) => k[2] = n
<1> DEFINE New == (Workers \ {w}) \X {n}
<1>0. n - 1 \in Nat
  OBVIOUS
<1>1. SyncSteps(n) = SyncSteps(n - 1) \cup {n} /\ n \notin SyncSteps(n - 1)
  BY SyncStepsGrow
<1>2. IsFiniteSet(Workers \ {w}) /\ Cardinality(Workers \ {w}) = NumOthers
  BY A3CSpreadAssumption, FS_RemoveElement DEF NumOthers
<1>3. IsFiniteSet({n}) /\ Cardinality({n}) = 1
  BY FS_Singleton
<1>4. IsFiniteSet(New) /\ Cardinality(New) = NumOthers
  <2>1. IsFiniteSet(New) /\ Cardinality(New) = NumOthers * 1
    BY <1>2, <1>3, FS_Product
  <2> QED
    BY <2>1, NumOthersType
<1>5. IsFiniteSet(Grid(w, n - 1))
  <2>1. IsFiniteSet((Workers \ {w}) \X SyncSteps(n - 1))
    BY <1>0, <1>2, SyncStepsFacts, FS_Product
  <2>2. IsFiniteSet(IF w = Leader THEN {} ELSE {<<Leader, 0>>})
    BY FS_EmptySet, FS_Singleton
  <2> QED
    BY <2>1, <2>2, FS_Union DEF Grid
<1>6. Grid(w, n) = Grid(w, n - 1) \cup New
  BY <1>1 DEF Grid
<1>7. Grid(w, n - 1) \cap New = {}
  BY <1>1 DEF Grid
<1>8. /\ IsFiniteSet(Grid(w, n))
      /\ Cardinality(Grid(w, n)) = Cardinality(Grid(w, n - 1)) + Cardinality(New)
  <2>1. Cardinality(Grid(w, n - 1) \cap New) = 0
    BY <1>7, FS_EmptySet
  <2>2. /\ IsFiniteSet(Grid(w, n - 1) \cup New)
        /\ Cardinality(Grid(w, n - 1) \cup New)
             = Cardinality(Grid(w, n - 1)) + Cardinality(New) - Cardinality(Grid(w, n - 1) \cap New)
    BY <1>4, <1>5, FS_Union
  <2>3. Cardinality(Grid(w, n - 1)) \in Nat /\ Cardinality(New) \in Nat
    BY <1>4, <1>5, FS_CardinalityType
  <2> QED
    BY <1>6, <2>1, <2>2, <2>3
<1> QED
  BY <1>4, <1>5, <1>6, <1>8

\* n different elements are n elements.
LEMMA DistinctCardinality ==
  ASSUME NEW S, NEW n \in Nat, NEW f \in [1..n -> S],
         \A k, l \in 1..n : k < l => f[k] # f[l]
  PROVE  /\ IsFiniteSet({f[k] : k \in 1..n})
         /\ Cardinality({f[k] : k \in 1..n}) = n
<1> DEFINE T == {f[k] : k \in 1..n}
<1>1. IsFiniteSet(1..n) /\ Cardinality(1..n) = n
  <2>1. 1 \in Int /\ n \in Int
    OBVIOUS
  <2>2. IsFiniteSet(1..n) /\ Cardinality(1..n) = IF 1 > n THEN 0 ELSE n - 1 + 1
    BY <2>1, FS_Interval
  <2> QED
    BY <2>2
<1>2. f \in [1..n -> T]
  OBVIOUS
<1>3. \A k, l \in 1..n : f[k] = f[l] => k = l
  <2> SUFFICES ASSUME NEW k \in 1..n, NEW l \in 1..n, k # l PROVE f[k] # f[l]
    OBVIOUS
  <2>1. k < l \/ l < k
    OBVIOUS
  <2> QED
    BY <2>1
<1>4. f \in Injection(1..n, T)
  BY <1>2, <1>3, Fun_IsInj
<1>5. f \in Surjection(1..n, T)
  BY <1>2 DEF Surjection
<1> QED
  BY <1>1, <1>4, <1>5, FS_Surjection

LEMMA KeysCardinality ==
  ASSUME TypeOK, InboxOnce, NEW w \in Workers, NEW n \in Nat, n <= Len(inbox[w])
  PROVE  IsFiniteSet(Keys(w, n)) /\ Cardinality(Keys(w, n)) = n
<1> DEFINE f == [k \in 1..n |-> Key(inbox[w][k])]
<1>1. Len(inbox[w]) \in Nat /\ \A k \in 1..n : k \in 1..Len(inbox[w])
  BY DEF TypeOK
<1>2. f \in [1..n -> {Key(inbox[w][k]) : k \in 1..n}]
  OBVIOUS
<1>3. \A k, l \in 1..n : k < l => f[k] # f[l]
  BY <1>1 DEF InboxOnce
<1>4. Keys(w, n) = {f[k] : k \in 1..n}
  BY DEF Keys
<1> HIDE DEF f
<1>5. IsFiniteSet({f[k] : k \in 1..n}) /\ Cardinality({f[k] : k \in 1..n}) = n
  BY <1>2, <1>3, DistinctCardinality
<1> QED
  BY <1>4, <1>5

-----------------------------------------------------------------------------
(* What the invariant says of a state.                                       *)

LEMMA GivenTypes ==
  ASSUME TypeOK
  PROVE  \A w \in Workers :
           /\ LastSent(w) \in Nat /\ LastDone(w) \in Nat
           /\ LastDone(w) <= LastSent(w) /\ LastSent(w) <= localSteps[w]
           /\ LastSent(w) <= LastDone(w) + 1
           /\ Given(w) \subseteq Nat \ {0}
<1> TAKE w \in Workers
<1>1. localSteps[w] \in Nat
  BY DEF TypeOK
<1>2. /\ LastSent(w) \in Nat /\ LastDone(w) \in Nat
      /\ LastDone(w) <= LastSent(w) /\ LastSent(w) <= localSteps[w]
      /\ LastSent(w) <= LastDone(w) + 1
  BY <1>1 DEF LastSent, LastDone
<1> QED
  BY <1>2, SyncStepsFacts DEF Given

\* What a worker has been handed another one has sent.
LEMMA HandedWasSent ==
  ASSUME TypeOK, SentGiven, InboxSent, NEW w \in Workers, NEW k \in 1..Len(inbox[w])
  PROVE  /\ inbox[w][k] \in Messages /\ inbox[w][k].from \in Workers \ {w}
         /\ \/ /\ inbox[w][k].kind = "init" /\ inbox[w][k].from = Leader
               /\ inbox[w][k].step = 0
            \/ /\ inbox[w][k].kind = "diff"
               /\ inbox[w][k].step \in Given(inbox[w][k].from)
<1>1. inbox[w] \in Seq(Messages)
  BY DEF TypeOK
<1>2. inbox[w][k] \in Messages
  BY <1>1
<1>3. PICK i \in 1..cursor[w] : inbox[w][k].from # w /\ sent[i] = inbox[w][k]
  BY DEF InboxSent
<1>4. i \in 1..Len(sent)
  BY DEF TypeOK
<1> QED
  BY <1>2, <1>3, <1>4 DEF SentGiven, Messages

\* When anyone has sent a later change, everyone has sent all those up to s.
LEMMA GivenBefore ==
  ASSUME TypeOK, NoneBehind, NEW o \in Workers, NEW t \in Given(o), NEW s \in Nat, s < t
  PROVE  \A v \in Workers : SyncSteps(s) \subseteq Given(v)
<1>1. /\ LastSent(o) \in Nat /\ LastDone(o) \in Nat /\ LastSent(o) <= LastDone(o) + 1
  BY GivenTypes
<1>2. t \in Nat /\ t <= LastSent(o)
  BY <1>1, SyncStepsFacts DEF Given
<1>3. s <= LastDone(o)
  BY <1>1, <1>2
<1>4. SyncSteps(s) \subseteq Done(o)
  <2>1. 1..s \subseteq 1..LastDone(o)
    BY <1>1, <1>3
  <2> QED
    BY <2>1 DEF SyncSteps, Done
<1> QED
  BY <1>4 DEF NoneBehind

\* A worker that finds as many messages as there are others has the changes of
\* this very sync: a message of a later one would come on top of all of them.
LEMMA ExactMeansSync ==
  ASSUME SInv, NEW w \in Workers, pc[w] = "wait", QSize(w) = NumOthers
  PROVE  Keys(w, Len(inbox[w])) = Grid(w, localSteps[w])
<1> DEFINE s == localSteps[w]
           n == Len(inbox[w])
<1>1. /\ TypeOK /\ Start /\ Snapshot /\ SentGiven /\ SentSorted /\ GivenSent
      /\ InboxSent /\ InboxHasAll /\ InboxOnce /\ NoneBehind
  BY DEF SInv, IInv, LogInv, InboxInv, SyncInv
<1>2. s \in Nat \ {0} /\ s % SyncFrequency = 0
  BY <1>1 DEF TypeOK, Snapshot, SnapshotOf, SInv, SyncInv, AtSync
<1>3. n \in Nat /\ taken[w] \in Nat /\ n = taken[w] + NumOthers /\ taken[w] <= n
  BY <1>1, NumOthersType DEF QSize, TypeOK
<1>4. Keys(w, taken[w]) = Grid(w, s - 1)
  BY <1>2 DEF SInv, SyncInv, TakenKeys, TakenOf, LastDone
<1>5. /\ IsFiniteSet(Keys(w, n)) /\ Cardinality(Keys(w, n)) = n
      /\ Cardinality(Keys(w, taken[w])) = taken[w]
  BY <1>1, <1>3, KeysCardinality
<1> HIDE DEF s
<1>6. /\ IsFiniteSet(Grid(w, s)) /\ Cardinality(Grid(w, s)) = n
  BY <1>2, <1>3, <1>4, <1>5, GridGrows
<1> HIDE DEF n
<1>7. Keys(w, n) \subseteq Grid(w, s)
  <2> SUFFICES ASSUME NEW k \in 1..n PROVE Key(inbox[w][k]) \in Grid(w, s)
    BY DEF Keys
  <2> DEFINE m == inbox[w][k]
  <2>1. /\ m \in Messages /\ m.from \in Workers \ {w}
        /\ \/ m.kind = "init" /\ m.from = Leader /\ m.step = 0
           \/ m.kind = "diff" /\ m.step \in Given(m.from)
    BY <1>1, HandedWasSent DEF n
  <2>2. CASE m.kind = "init"
    BY <2>1, <2>2 DEF Grid, Key
  <2>3. CASE m.step \in Given(m.from) /\ m.step <= s
    <3>1. m.step \in SyncSteps(s)
      <4>1. LastSent(m.from) \in Nat
        BY <1>1, <2>1, GivenTypes
      <4>2. m.step \in Nat /\ m.step >= 1 /\ m.step % SyncFrequency = 0
        BY <2>3, <4>1, SyncStepsFacts DEF Given
      <4> QED
        BY <1>2, <2>3, <4>2, SyncStepsFacts
    <3> QED
      BY <2>1, <3>1 DEF Grid, Key
  <2>4. CASE m.step \in Given(m.from) /\ ~(m.step <= s)
    <3> SUFFICES FALSE
      OBVIOUS
    <3>1. m.step \in Nat /\ s < m.step
      BY <1>2, <2>1, <2>4 DEF Messages
    <3>2. \A v \in Workers : SyncSteps(s) \subseteq Given(v)
      BY <1>1, <1>2, <2>1, <2>4, <3>1, GivenBefore
    <3>3. PICK j \in 1..cursor[w] : sent[j] = m
      BY <1>1 DEF InboxSent, n
    <3>4. /\ cursor[w] \in Nat /\ cursor[w] <= Len(sent) /\ Len(sent) \in Nat
          /\ j \in 1..Len(sent)
      BY <1>1 DEF TypeOK
    <3> HIDE DEF m
    <3>5. ASSUME NEW key \in Grid(w, s) PROVE key \in Keys(w, n) \ {Key(m)}
      <4>1. key[1] # w /\ key[1] \in Workers /\ key[2] \in Nat /\ key[2] <= s /\ key = <<key[1], key[2]>>
        BY <1>2, SyncStepsFacts, A3CSpreadAssumption DEF Grid
      <4>2. \E i \in 1..Len(sent) : Key(sent[i]) = key
        <5>1. CASE key[2] \in SyncSteps(s)
          BY <1>1, <3>2, <4>1, <5>1 DEF GivenSent
        <5>2. CASE key = <<Leader, 0>>
          <6>1. sent # <<>> /\ sent[1] = FirstMessage
            BY <1>1 DEF Start
          <6>2. 1 \in 1..Len(sent)
            BY <3>4
          <6> QED
            BY <5>2, <6>1, <6>2 DEF FirstMessage, Key
        <5> QED
          BY <5>1, <5>2 DEF Grid
      <4>3. PICK i \in 1..Len(sent) : Key(sent[i]) = key
        BY <4>2
      <4>4. sent[i].from = key[1] /\ sent[i].step = key[2]
        BY <4>3 DEF Key
      <4>5. i \in 1..cursor[w]
        <5>1. ~(j < i)
          <6> SUFFICES ASSUME j < i PROVE FALSE
            OBVIOUS
          <6>1. m.step <= sent[i].step
            BY <1>1, <3>3, <3>4 DEF SentSorted
          <6> QED
            BY <1>2, <3>1, <4>1, <4>4, <6>1
        <5> QED
          BY <3>4, <5>1
      <4>6. PICK l \in 1..Len(inbox[w]) : inbox[w][l] = sent[i]
        BY <1>1, <4>1, <4>4, <4>5 DEF InboxHasAll
      <4>7. key \in Keys(w, n)
        BY <4>3, <4>6 DEF Keys, n
      <4>8. key # Key(m)
        BY <1>2, <3>1, <4>1 DEF Key
      <4> QED
        BY <4>7, <4>8
    <3>6. Key(m) \in Keys(w, n)
      BY DEF Keys, m
    <3>7. /\ IsFiniteSet(Keys(w, n) \ {Key(m)})
          /\ Cardinality(Keys(w, n) \ {Key(m)}) = n - 1
      BY <1>5, <3>6, FS_RemoveElement
    <3>8. Cardinality(Grid(w, s)) <= n - 1
      BY <3>5, <3>7, FS_Subset
    <3> QED
      BY <1>3, <1>6, <3>8
  <2> QED
    BY <2>1, <2>2, <2>3, <2>4
<1>8. Keys(w, n) = Grid(w, s)
  BY <1>5, <1>6, <1>7, FS_Subset
<1> QED
  BY <1>8 DEF n, s

-----------------------------------------------------------------------------
(* Every step keeps the invariant. SInv' is IInv' and what follows here.     *)

Rest == LogInv /\ InboxInv /\ SyncInv

\* A worker whose counters stay as they are stays where it is in the syncs.
LEMMA SameCounters ==
  ASSUME NEW v \in Workers, pc'[v] = pc[v], localSteps'[v] = localSteps[v]
  PROVE  Given(v)' = Given(v) /\ Done(v)' = Done(v)
BY DEF Given, Done, LastSent, LastDone, SyncSteps

\* A step that only moves a worker within its loop.
LEMMA SentFrame ==
  ASSUME TypeOK, LogInv, InboxInv, UNCHANGED <<sent, cursor, inbox>>,
         \A v \in Workers : Given(v)' = Given(v)
  PROVE  LogInv' /\ InboxInv'
<1>1. \A i \in 1..Len(sent) : sent[i].from \in Workers
  <2>1. \A i \in 1..Len(sent) : sent[i] \in Messages
    BY DEF TypeOK
  <2> QED
    BY <2>1 DEF Messages
<1>2. LogInv'
  BY <1>1 DEF LogInv, SentGiven, SentSorted, GivenSent, Key
<1>3. InboxInv'
  BY DEF InboxInv, InboxSent, InboxHasAll, InboxOnce, Key
<1> QED
  BY <1>2, <1>3

LEMMA NoneBehindFrame ==
  ASSUME NoneBehind, \A v \in Workers : Done(v)' = Done(v) /\ Given(v) \subseteq Given(v)'
  PROVE  NoneBehind'
BY DEF NoneBehind

\* What others do leaves the messages w has taken alone.
LEMMA TakenFrame ==
  ASSUME TypeOK, NEW w \in Workers, TakenOf(w), pc'[w] = pc[w], localSteps'[w] = localSteps[w],
         taken'[w] = taken[w], toApply'[w] = toApply[w],
         Len(inbox'[w]) \in Nat, Len(inbox[w]) <= Len(inbox'[w]),
         \A k \in 1..Len(inbox[w]) : inbox'[w][k] = inbox[w][k]
  PROVE  TakenOf(w)'
<1>1. /\ taken[w] \in Nat /\ Len(inbox[w]) \in Nat /\ taken[w] <= Len(inbox[w])
      /\ toApply[w] \in Nat
  BY NumOthersType DEF TypeOK
<1>2. /\ Keys(w, taken[w])' = Keys(w, taken[w])
      /\ taken[w] + toApply[w] <= Len(inbox[w]) =>
           Keys(w, taken[w] + toApply[w])' = Keys(w, taken[w] + toApply[w])
  <2>1. Keys(w, taken[w])' = {Key(inbox'[w][k]) : k \in 1..taken[w]}
    BY DEF Keys, Key
  <2>2. Keys(w, taken[w] + toApply[w])' = {Key(inbox'[w][k]) : k \in 1..(taken[w] + toApply[w])}
    BY DEF Keys, Key
  <2>3. \A k \in 1..taken[w] : inbox'[w][k] = inbox[w][k]
    BY <1>1
  <2>4. taken[w] + toApply[w] <= Len(inbox[w]) =>
          \A k \in 1..(taken[w] + toApply[w]) : inbox'[w][k] = inbox[w][k]
    BY <1>1
  <2> QED
    BY <2>1, <2>2, <2>3, <2>4 DEF Keys
<1>3. Grid(w, LastDone(w))' = Grid(w, LastDone(w)) /\ Grid(w, localSteps[w])' = Grid(w, localSteps[w])
  BY DEF Grid, LastDone, SyncSteps
<1> QED
  BY <1>1, <1>2, <1>3 DEF TakenOf

\* A worker that is not the one to step.
LEMMA OthersStay ==
  ASSUME TypeOK, TakenKeys, NEW w \in Workers, UNCHANGED inbox,
         \A v \in Workers : v # w => /\ pc'[v] = pc[v] /\ localSteps'[v] = localSteps[v]
                                     /\ taken'[v] = taken[v] /\ toApply'[v] = toApply[v],
         TakenOf(w)'
  PROVE  TakenKeys'
<1> SUFFICES ASSUME NEW v \in Workers, v # w PROVE TakenOf(v)'
  BY DEF TakenKeys
<1>1. Len(inbox[v]) \in Nat
  BY DEF TypeOK
<1>2. TakenOf(v)
  BY DEF TakenKeys
<1> QED
  BY <1>1, <1>2, TakenFrame

LEMMA SetupStep ==
  ASSUME SInv, NEW w \in Workers, StartListenThread(w)
  PROVE  Rest'
<1> USE DEF SInv, IInv
<1>1. /\ UNCHANGED <<sent, cursor, inbox, localSteps, taken, toApply>>
      /\ pc[w] = "setup" /\ pc' = [pc EXCEPT ![w] = "init"]
  BY DEF StartListenThread
<1>2. /\ pc'[w] = "init" /\ localSteps[w] = 0
      /\ \A v \in Workers : v # w => pc'[v] = pc[v]
  BY <1>1 DEF TypeOK, Snapshot, SnapshotOf
<1>3. \A v \in Workers : Given(v)' = Given(v) /\ Done(v)' = Done(v)
  BY <1>1, <1>2, SameCounters DEF Given, Done, LastSent, LastDone, SyncSteps
<1>4. LogInv' /\ InboxInv'
  BY <1>1, <1>3, SentFrame
<1>5. AtSync'
  BY <1>1, <1>2 DEF SyncInv, AtSync
<1>6. NoneBehind'
  BY <1>3, NoneBehindFrame DEF SyncInv
<1>7. TakenKeys'
  <2>1. TakenOf(w)'
    BY <1>2 DEF TakenOf
  <2> QED
    BY <1>1, <1>2, <2>1, OthersStay DEF SyncInv
<1> QED
  BY <1>4, <1>5, <1>6, <1>7 DEF Rest, SyncInv

\* Without a sync done or sent.
LEMMA NoSyncsYet == SyncSteps(0) = {}
BY DEF SyncSteps

\* Worker 0 has nothing to take before its first step.
LEMMA InitialSendStep ==
  ASSUME SInv, NEW w \in Workers, SendInitialWeights(w)
  PROVE  Rest'
<1> USE DEF SInv, IInv
<1> DEFINE m == [kind |-> "init", from |-> w, step |-> 0, data |-> weights[w]]
<1>1. /\ UNCHANGED <<cursor, inbox, localSteps, taken, toApply>>
      /\ w = Leader /\ pc[w] = "init" /\ pc' = [pc EXCEPT ![w] = "train"]
      /\ M!Multicast(m) /\ m \in Messages
  BY MessageTypes DEF SendInitialWeights, M!Multicast
<1>2. /\ pc'[w] = "train" /\ localSteps[w] = 0 /\ taken[w] = 0
      /\ \A v \in Workers : v # w => pc'[v] = pc[v]
  BY <1>1 DEF TypeOK, Snapshot, SnapshotOf, Start
<1>3. /\ sent = <<>> /\ Len(sent) = 0
      /\ sent' \in Seq(Messages) /\ Len(sent') = 1 /\ sent'[1] = m
  <2>1. sent = <<>>
    BY <1>1 DEF Start
  <2>2. Len(sent) = 0
    BY <2>1
  <2> HIDE DEF m
  <2> QED
    BY <1>1, <2>1, <2>2, Sends
<1>4. \A v \in Workers : Given(v)' = Given(v) /\ Done(v)' = Done(v)
  BY <1>1, <1>2, SameCounters DEF Given, Done, LastSent, LastDone, SyncSteps
<1>5. \A v \in Workers : Given(v) = {}
  BY <1>3 DEF LogInv, GivenSent
<1>6. LogInv'
  <2>1. SentGiven'
    BY <1>1, <1>3 DEF SentGiven
  <2>2. SentSorted'
    BY <1>3 DEF SentSorted
  <2>3. GivenSent'
    BY <1>4, <1>5 DEF GivenSent
  <2> QED
    BY <2>1, <2>2, <2>3 DEF LogInv
<1>7. \A v \in Workers : cursor[v] = 0 /\ Len(inbox[v]) \in Nat
  BY <1>3 DEF TypeOK
<1>8. InboxInv'
  <2>1. \A v \in Workers : Len(inbox[v]) = 0
    <3> SUFFICES ASSUME NEW v \in Workers, Len(inbox[v]) # 0 PROVE FALSE
      OBVIOUS
    <3>1. 1 \in 1..Len(inbox[v])
      BY <1>7
    <3> QED
      BY <1>7, <3>1 DEF InboxInv, InboxSent
  <2> QED
    BY <1>1, <1>7, <2>1 DEF InboxInv, InboxSent, InboxHasAll, InboxOnce
<1>9. AtSync'
  BY <1>1, <1>2 DEF SyncInv, AtSync
<1>10. NoneBehind'
  BY <1>4, NoneBehindFrame DEF SyncInv
<1>11. TakenKeys'
  <2>1. TakenOf(w)'
    <3>1. Keys(w, taken[w])' = {}
      BY <1>1, <1>2 DEF Keys
    <3>2. Grid(w, LastDone(w))' = {}
      BY <1>1, <1>2, NoSyncsYet DEF Grid, LastDone, SyncSteps
    <3> QED
      BY <1>2, <3>1, <3>2 DEF TakenOf
  <2> QED
    BY <1>1, <1>2, <2>1, OthersStay DEF SyncInv
<1> QED
  BY <1>6, <1>8, <1>9, <1>10, <1>11 DEF Rest, SyncInv

LEMMA InitialTakeStep ==
  ASSUME SInv, NEW w \in Workers, TakeInitialWeights(w)
  PROVE  Rest'
<1> USE DEF SInv, IInv
<1>1. /\ UNCHANGED <<sent, cursor, inbox, localSteps, toApply>>
      /\ w # Leader /\ pc[w] = "init" /\ pc' = [pc EXCEPT ![w] = "train"]
      /\ taken' = [taken EXCEPT ![w] = @ + 1] /\ QSize(w) > 0
  BY TakesStart DEF TakeInitialWeights
<1>2. /\ pc'[w] = "train" /\ localSteps[w] = 0 /\ taken[w] = 0 /\ taken'[w] = 1
      /\ \A v \in Workers : v # w => pc'[v] = pc[v] /\ taken'[v] = taken[v]
  BY <1>1 DEF TypeOK, Snapshot, SnapshotOf, Start
<1>3. \A v \in Workers : Given(v)' = Given(v) /\ Done(v)' = Done(v)
  BY <1>1, <1>2, SameCounters DEF Given, Done, LastSent, LastDone, SyncSteps
<1>4. LogInv' /\ InboxInv'
  BY <1>1, <1>3, SentFrame
<1>5. AtSync'
  BY <1>1, <1>2 DEF SyncInv, AtSync
<1>6. NoneBehind'
  BY <1>3, NoneBehindFrame DEF SyncInv
<1>7. TakenKeys'
  <2>1. inbox[w][1] = FirstMessage
    <3>1. Len(inbox[w]) > 0
      BY <1>1, <1>2 DEF QSize, TypeOK
    <3>2. inbox[w] # <<>>
      BY <3>1
    <3> QED
      BY <1>1, <3>2 DEF Start
  <2>2. Keys(w, taken[w])' = {<<Leader, 0>>}
    <3>1. Keys(w, taken[w])' = {Key(inbox[w][k]) : k \in 1..1}
      BY <1>1, <1>2 DEF Keys, Key
    <3>2. 1..1 = {1}
      OBVIOUS
    <3> QED
      BY <2>1, <3>1, <3>2 DEF Key, FirstMessage
  <2>3. Grid(w, LastDone(w))' = {<<Leader, 0>>}
    BY <1>1, <1>2, NoSyncsYet DEF Grid, LastDone, SyncSteps
  <2>4. TakenOf(w)'
    BY <1>2, <2>2, <2>3 DEF TakenOf
  <2> QED
    BY <1>1, <1>2, <2>4, OthersStay DEF SyncInv
<1> QED
  BY <1>4, <1>5, <1>6, <1>7 DEF Rest, SyncInv

\* A step of no sync is done at once, and is none for the others to wait for.
LEMMA LearnStep ==
  ASSUME SInv, NEW w \in Workers, Train(w)
  PROVE  Rest'
<1> USE DEF SInv, IInv
<1> DEFINE s == localSteps[w]
<1>1. /\ UNCHANGED <<sent, cursor, inbox, taken, toApply>> /\ pc[w] = "train"
      /\ \/ /\ s % SyncFrequency = 0
            /\ pc' = [pc EXCEPT ![w] = "sync"] /\ localSteps' = localSteps
         \/ /\ s % SyncFrequency # 0
            /\ localSteps' = [localSteps EXCEPT ![w] = @ + 1] /\ pc' = pc
  BY DEF Train
<1>2. /\ s \in Nat /\ localSteps \in [Workers -> Nat]
      /\ \A v \in Workers : v # w => pc'[v] = pc[v] /\ localSteps'[v] = localSteps[v]
      /\ \/ s % SyncFrequency = 0 /\ pc'[w] = "sync" /\ localSteps'[w] = s
         \/ s % SyncFrequency # 0 /\ pc'[w] = "train" /\ localSteps'[w] = s + 1
  BY <1>1 DEF TypeOK
<1>3. Given(w)' = Given(w) /\ Done(w)' = Done(w)
  <2>1. CASE pc'[w] = "sync"
    BY <1>1, <1>2, <2>1 DEF Given, Done, LastSent, LastDone, SyncSteps
  <2>2. CASE s % SyncFrequency # 0 /\ pc'[w] = "train" /\ localSteps'[w] = s + 1
    <3>1. s # 0
      BY <1>2, <2>2, FrequencyType, SMTT(30)
    <3>2. SyncSteps(s) = SyncSteps(s - 1)
      BY <1>2, <2>2, <3>1, SyncStepsGrow
    <3>3. s + 1 # 0 /\ (s + 1) - 1 = s
      BY <1>2
    <3>4. /\ LastSent(w) = s - 1 /\ LastDone(w) = s - 1
          /\ LastSent(w)' = s /\ LastDone(w)' = s
      BY <1>1, <2>2, <3>1, <3>3 DEF LastSent, LastDone
    <3>5. /\ Given(w) = SyncSteps(s - 1) /\ Done(w) = SyncSteps(s - 1)
          /\ Given(w)' = SyncSteps(s) /\ Done(w)' = SyncSteps(s)
      BY <3>4 DEF Given, Done, SyncSteps
    <3> QED
      BY <3>2, <3>5
  <2> QED
    BY <1>2, <2>1, <2>2
<1>4. \A v \in Workers : Given(v)' = Given(v) /\ Done(v)' = Done(v)
  BY <1>2, <1>3, SameCounters
<1>5. LogInv' /\ InboxInv'
  BY <1>1, <1>4, SentFrame
<1>6. AtSync'
  BY <1>2 DEF SyncInv, AtSync
<1>7. NoneBehind'
  BY <1>4, NoneBehindFrame DEF SyncInv
<1>8. TakenKeys'
  <2>1. Keys(w, taken[w])' = Keys(w, taken[w])
    BY <1>1 DEF Keys, Key
  <2>2. Grid(w, LastDone(w))' = Grid(w, LastDone(w))
    BY <1>3 DEF Grid, Done, SyncSteps
  <2>3. TakenOf(w)'
    BY <1>1, <1>2, <2>1, <2>2 DEF TakenOf, SyncInv, TakenKeys
  <2> QED
    BY <1>1, <1>2, <2>3, OthersStay DEF SyncInv
<1> QED
  BY <1>5, <1>6, <1>7, <1>8 DEF Rest, SyncInv

\* The change of a sync is appended where no later one stands.
LEMMA SendDiffStep ==
  ASSUME SInv, NEW w \in Workers, SendDiff(w)
  PROVE  Rest'
<1> USE DEF SInv, IInv
<1> DEFINE s == localSteps[w]
           n == Len(sent)
           m == Diff(w)
<1>1. /\ UNCHANGED <<cursor, inbox, taken, toApply>> /\ pc[w] = "sync"
      /\ \/ /\ s = 0 /\ sent' = sent
            /\ pc' = [pc EXCEPT ![w] = "train"] /\ localSteps' = [localSteps EXCEPT ![w] = @ + 1]
         \/ /\ s # 0 /\ M!Multicast(m)
            /\ pc' = [pc EXCEPT ![w] = "wait"] /\ localSteps' = localSteps
  BY DEF SendDiff, M!Multicast, Diff, Snapshot, SnapshotOf
<1>2. /\ s \in Nat /\ s % SyncFrequency = 0
      /\ \A v \in Workers : v # w => pc'[v] = pc[v] /\ localSteps'[v] = localSteps[v]
  BY <1>1 DEF TypeOK, SyncInv, AtSync
<1>3. \A v \in Workers : v # w => Given(v)' = Given(v) /\ Done(v)' = Done(v)
  BY <1>2, SameCounters
<1>4. CASE s = 0
  <2>1. sent' = sent /\ pc'[w] = "train" /\ localSteps'[w] = 1
    BY <1>1, <1>4 DEF TypeOK
  <2>2. /\ LastSent(w) = 0 /\ LastDone(w) = 0 /\ LastSent(w)' = 0 /\ LastDone(w)' = 0
    BY <1>4, <2>1 DEF LastSent, LastDone
  <2>3. \A v \in Workers : Given(v)' = Given(v) /\ Done(v)' = Done(v)
    BY <1>3, <2>2 DEF Given, Done, SyncSteps
  <2>4. LogInv' /\ InboxInv'
    BY <1>1, <2>1, <2>3, SentFrame
  <2>5. AtSync'
    BY <1>2, <2>1 DEF SyncInv, AtSync
  <2>6. NoneBehind'
    BY <2>3, NoneBehindFrame DEF SyncInv
  <2>7. TakenKeys'
    <3>1. Keys(w, taken[w])' = Keys(w, taken[w])
      BY <1>1 DEF Keys, Key
    <3>2. Grid(w, LastDone(w))' = Grid(w, LastDone(w))
      BY <2>2 DEF Grid, SyncSteps
    <3>3. TakenOf(w)'
      BY <1>1, <2>1, <3>1, <3>2 DEF TakenOf, SyncInv, TakenKeys
    <3> QED
      BY <1>1, <1>2, <3>3, OthersStay DEF SyncInv
  <2> QED
    BY <2>4, <2>5, <2>6, <2>7 DEF Rest, SyncInv
<1>5. CASE s # 0
  <2>1. M!Multicast(m) /\ pc'[w] = "wait" /\ localSteps'[w] = s /\ m \in Messages
    BY <1>1, <1>5, MessageTypes DEF TypeOK
  <2>2. m.from = w /\ m.step = s /\ m.kind = "diff"
    BY DEF Diff
  <2>3. /\ Len(sent') = n + 1 /\ n \in Nat
        /\ \A i \in 1..n : sent'[i] = sent[i]
        /\ sent'[n + 1] = m
    BY <2>1, Sends
  <2>4. /\ LastSent(w) = s - 1 /\ LastDone(w) = s - 1 /\ LastSent(w)' = s /\ LastDone(w)' = s - 1
    BY <1>1, <1>5, <2>1 DEF LastSent, LastDone
  <2>5. /\ Given(w) = SyncSteps(s - 1) /\ Given(w)' = SyncSteps(s) /\ Done(w)' = Done(w)
    BY <2>4 DEF Given, Done, SyncSteps
  <2>6. /\ Given(w)' = Given(w) \cup {s} /\ s \notin Given(w)
        /\ \A v \in Workers : Given(v) \subseteq Given(v)' /\ Done(v)' = Done(v)
    BY <1>2, <1>3, <1>5, <2>5, SyncStepsGrow
  <2> HIDE DEF m, n, s
  <2>7. \A i \in 1..n : /\ sent[i].from \in Workers /\ sent[i].step \in Nat
                        /\ sent[i].step <= s
                        /\ sent[i].from = w => sent[i].step # s
    <3> TAKE i \in 1..n
    <3>1. sent[i] \in Messages
      BY DEF TypeOK, n
    <3>2. \/ sent[i].kind = "init" /\ sent[i].step = 0
          \/ sent[i].kind = "diff" /\ sent[i].step \in Given(sent[i].from)
      BY <3>1 DEF LogInv, SentGiven, n, Messages
    <3>3. CASE sent[i].step = 0
      BY <1>2, <1>5, <3>1, <3>3 DEF Messages
    <3>4. CASE sent[i].step \in Given(sent[i].from)
      <4>1. sent[i].from \in Workers /\ sent[i].step \in Nat
        BY <3>1 DEF Messages
      <4>2. ~(s < sent[i].step)
        <5> SUFFICES ASSUME s < sent[i].step PROVE FALSE
          OBVIOUS
        <5>1. SyncSteps(s) \subseteq Given(w)
          BY <1>2, <3>4, <4>1, GivenBefore DEF SyncInv
        <5>2. s \in SyncSteps(s)
          BY <2>5, <2>6
        <5> QED
          BY <2>6, <5>1, <5>2
      <4> QED
        BY <1>2, <2>6, <3>4, <4>1, <4>2
    <3> QED
      BY <3>2, <3>3, <3>4
  <2>8. SentGiven'
    <3> SUFFICES ASSUME NEW i \in 1..(n + 1), NEW v \in Workers, sent'[i].from = v
                 PROVE  \/ sent'[i].kind = "init" /\ v = Leader /\ sent'[i].step = 0
                        \/ sent'[i].kind = "diff" /\ sent'[i].step \in Given(v)'
      BY <2>3 DEF SentGiven
    <3>1. CASE i = n + 1
      <4>1. sent'[i] = m /\ s \in Given(w)'
        BY <2>3, <2>6, <3>1
      <4> QED
        BY <2>2, <4>1
    <3>2. CASE i \in 1..n
      <4>1. sent'[i] = sent[i] /\ sent[i].from = v
        BY <2>3, <3>2
      <4>2. Given(v) \subseteq Given(v)'
        BY <2>6
      <4> QED
        BY <3>2, <4>1, <4>2 DEF LogInv, SentGiven, n
    <3> QED
      BY <2>3, <3>1, <3>2
  <2>9. SentSorted'
    <3> SUFFICES ASSUME NEW i \in 1..(n + 1), NEW j \in 1..(n + 1), i < j
                 PROVE  sent'[i].step <= sent'[j].step /\ Key(sent'[i]) # Key(sent'[j])
      BY <2>3 DEF SentSorted, Key
    <3>1. i \in 1..n /\ sent'[i] = sent[i]
      BY <2>3
    <3>2. CASE j \in 1..n
      BY <2>3, <3>1, <3>2 DEF LogInv, SentSorted, n
    <3>3. CASE j = n + 1
      <4>1. sent'[j] = m
        BY <2>3, <3>3
      <4>2. Key(m) = <<w, s>> /\ Key(sent[i]) = <<sent[i].from, sent[i].step>>
        BY <2>2 DEF Key
      <4> QED
        BY <2>2, <2>7, <3>1, <4>1, <4>2
    <3> QED
      BY <2>3, <3>2, <3>3
  <2>10. GivenSent'
    <3> SUFFICES ASSUME NEW v \in Workers, NEW t \in Given(v)'
                 PROVE  \E i \in 1..(n + 1) : Key(sent'[i]) = <<v, t>>
      BY <2>3 DEF GivenSent, Key
    <3>1. CASE t \in Given(v)
      <4>1. PICK i \in 1..n : Key(sent[i]) = <<v, t>>
        BY <3>1 DEF LogInv, GivenSent, n
      <4>2. i \in 1..(n + 1) /\ sent'[i] = sent[i]
        BY <2>3
      <4> QED
        BY <4>1, <4>2
    <3>2. CASE t \notin Given(v)
      <4>1. v = w /\ t = s
        BY <1>3, <2>6, <3>2
      <4>2. n + 1 \in 1..(n + 1)
        BY <2>3
      <4> QED
        BY <2>2, <2>3, <4>1, <4>2 DEF Key
    <3> QED
      BY <3>1, <3>2
  <2>11. InboxInv'
    <3>1. \A v \in Workers : \A i \in 1..cursor[v] : sent'[i] = sent[i]
      <4> TAKE v \in Workers
      <4>1. cursor[v] \in 0..n
        BY DEF TypeOK, n
      <4> QED
        BY <2>3, <4>1
    <3>2. InboxSent'
      BY <1>1, <3>1 DEF InboxInv, InboxSent
    <3>3. InboxHasAll'
      BY <1>1, <3>1 DEF InboxInv, InboxHasAll
    <3>4. InboxOnce'
      BY <1>1 DEF InboxInv, InboxOnce, Key
    <3> QED
      BY <3>2, <3>3, <3>4 DEF InboxInv
  <2>12. AtSync'
    BY <1>2, <2>1 DEF SyncInv, AtSync, s
  <2>13. NoneBehind'
    BY <2>6, NoneBehindFrame DEF SyncInv
  <2>14. TakenKeys'
    <3>1. Keys(w, taken[w])' = Keys(w, taken[w])
      BY <1>1 DEF Keys, Key
    <3>2. Grid(w, LastDone(w))' = Grid(w, LastDone(w))
      BY <2>4 DEF Grid, SyncSteps
    <3>3. TakenOf(w)'
      BY <1>1, <2>1, <3>1, <3>2 DEF TakenOf, SyncInv, TakenKeys
    <3> QED
      BY <1>1, <1>2, <3>3, OthersStay DEF SyncInv
  <2> QED
    BY <2>8, <2>9, <2>10, <2>11, <2>12, <2>13, <2>14 DEF Rest, LogInv, SyncInv
<1> QED
  BY <1>4, <1>5

\* The queue is as long as there are others: it holds this sync's changes.
LEMMA QueueExactStep ==
  ASSUME SInv, NEW w \in Workers, QueueExact(w)
  PROVE  Rest'
<1> USE DEF SInv, IInv
<1>1. /\ UNCHANGED <<sent, cursor, inbox, localSteps, taken>>
      /\ pc[w] = "wait" /\ pc' = [pc EXCEPT ![w] = "apply"]
      /\ QSize(w) = NumOthers /\ toApply' = [toApply EXCEPT ![w] = NumOthers]
  BY DEF QueueExact
<1>2. /\ pc'[w] = "apply" /\ toApply'[w] = NumOthers
      /\ \A v \in Workers : v # w => pc'[v] = pc[v] /\ toApply'[v] = toApply[v]
  BY <1>1 DEF TypeOK
<1>3. \A v \in Workers : Given(v)' = Given(v) /\ Done(v)' = Done(v)
  BY <1>1, <1>2, SameCounters DEF Given, Done, LastSent, LastDone, SyncSteps
<1>4. LogInv' /\ InboxInv'
  BY <1>1, <1>3, SentFrame
<1>5. AtSync'
  BY <1>1, <1>2 DEF SyncInv, AtSync
<1>6. NoneBehind'
  BY <1>3, NoneBehindFrame DEF SyncInv
<1>7. TakenKeys'
  <2>1. taken[w] + NumOthers = Len(inbox[w]) /\ Len(inbox[w]) \in Nat
    BY <1>1, NumOthersType DEF QSize, TypeOK
  <2>2. Keys(w, taken[w] + toApply[w])' = Grid(w, localSteps[w])
    <3>1. Keys(w, taken[w] + toApply[w])' = Keys(w, Len(inbox[w]))
      BY <1>1, <1>2, <2>1 DEF Keys, Key
    <3> QED
      BY <1>1, <3>1, ExactMeansSync
  <2>3. Grid(w, localSteps[w])' = Grid(w, localSteps[w]) /\ Grid(w, LastDone(w))' = Grid(w, LastDone(w))
    BY <1>1 DEF Grid, SyncSteps, LastDone
  <2>4. Keys(w, taken[w])' = Grid(w, LastDone(w))
    BY <1>1 DEF Keys, Key, SyncInv, TakenKeys, TakenOf
  <2>5. TakenOf(w)'
    BY <1>1, <1>2, <2>1, <2>2, <2>3, <2>4 DEF TakenOf
  <2> QED
    BY <1>1, <1>2, <2>5, OthersStay DEF SyncInv
<1> QED
  BY <1>4, <1>5, <1>6, <1>7 DEF Rest, SyncInv

\* A change is taken; with the last one of a sync the worker is done with it,
\* and by then everyone has sent its own.
LEMMA ApplyStep ==
  ASSUME SInv, NEW w \in Workers, ApplyDiff(w)
  PROVE  Rest'
<1> USE DEF SInv, IInv
<1> DEFINE s == localSteps[w]
           t == taken[w] + 1
           N == taken[w] + toApply[w]
<1>1. /\ UNCHANGED <<sent, cursor, inbox>> /\ pc[w] = "apply"
      /\ taken' = [taken EXCEPT ![w] = @ + 1]
      /\ toApply' = [toApply EXCEPT ![w] = @ - 1]
      /\ \/ toApply[w] > 1 /\ pc' = pc /\ localSteps' = localSteps
         \/ /\ ~(toApply[w] > 1) /\ pc' = [pc EXCEPT ![w] = "train"]
            /\ localSteps' = [localSteps EXCEPT ![w] = @ + 1]
  BY DEF ApplyDiff
<1>2. /\ s \in Nat \ {0} /\ s % SyncFrequency = 0
      /\ taken[w] \in Nat /\ toApply[w] \in Nat \ {0} /\ Len(inbox[w]) \in Nat
      /\ N <= Len(inbox[w])
      /\ taken'[w] = t /\ toApply'[w] = toApply[w] - 1 /\ taken'[w] + toApply'[w] = N
      /\ \A v \in Workers : v # w => /\ pc'[v] = pc[v] /\ localSteps'[v] = localSteps[v]
                                     /\ taken'[v] = taken[v] /\ toApply'[v] = toApply[v]
      /\ \/ pc'[w] = "apply" /\ localSteps'[w] = s
         \/ toApply[w] = 1 /\ pc'[w] = "train" /\ localSteps'[w] = s + 1
  <2>1. /\ s \in Nat \ {0} /\ s % SyncFrequency = 0 /\ N <= Len(inbox[w])
    BY <1>1 DEF TypeOK, Snapshot, SnapshotOf, SyncInv, AtSync, TakenKeys, TakenOf
  <2>2. taken[w] \in Nat /\ toApply[w] \in Nat \ {0} /\ Len(inbox[w]) \in Nat
    BY <1>1, NumOthersType DEF TypeOK
  <2>3. taken'[w] = t /\ toApply'[w] = toApply[w] - 1
    BY <1>1 DEF TypeOK
  <2>4. \A v \in Workers : v # w => /\ pc'[v] = pc[v] /\ localSteps'[v] = localSteps[v]
                                    /\ taken'[v] = taken[v] /\ toApply'[v] = toApply[v]
    BY <1>1 DEF TypeOK
  <2>5. \/ pc'[w] = "apply" /\ localSteps'[w] = s
        \/ toApply[w] = 1 /\ pc'[w] = "train" /\ localSteps'[w] = s + 1
    BY <1>1, <2>2 DEF TypeOK
  <2>6. taken'[w] + toApply'[w] = N
    BY <2>2, <2>3
  <2> HIDE DEF s, t, N
  <2> QED
    BY <2>1, <2>2, <2>3, <2>4, <2>5, <2>6
<1>3. /\ Keys(w, N) = Grid(w, s)
      /\ Grid(w, s - 1) \subseteq Keys(w, taken[w])
  <2>1. LastDone(w) = s - 1
    BY <1>2 DEF LastDone
  <2> QED
    BY <1>1, <2>1 DEF SyncInv, TakenKeys, TakenOf
<1>4. \A v \in Workers : v # w => Given(v)' = Given(v) /\ Done(v)' = Done(v)
  BY <1>2, SameCounters
<1>5. /\ LastSent(w)' = LastSent(w) /\ LastSent(w) = s
      /\ LastDone(w)' \in {LastDone(w), s} /\ LastDone(w) = s - 1
  <2>1. s + 1 # 0 /\ (s + 1) - 1 = s
    BY <1>2
  <2> QED
    BY <1>1, <1>2, <2>1 DEF LastSent, LastDone
<1>6. \A v \in Workers : Given(v)' = Given(v)
  BY <1>4, <1>5 DEF Given, SyncSteps
<1>7. LogInv' /\ InboxInv'
  BY <1>1, <1>6, SentFrame
<1>8. AtSync'
  BY <1>2 DEF SyncInv, AtSync
<1> HIDE DEF N
<1>9. \A v \in Workers : SyncSteps(s) \subseteq Given(v)
  <2> SUFFICES ASSUME NEW v \in Workers, NEW r \in SyncSteps(s) PROVE r \in Given(v)
    OBVIOUS
  <2>1. CASE v = w
    BY <1>5, <2>1 DEF Given
  <2>2. CASE v # w
    <3>1. <<v, r>> \in Keys(w, N)
      BY <1>3, <2>2 DEF Grid
    <3>2. PICK k \in 1..N : inbox[w][k].from = v /\ inbox[w][k].step = r
      BY <3>1 DEF Keys, Key
    <3>3. k \in 1..Len(inbox[w])
      BY <1>2 DEF N
    <3>4. r # 0
      BY <1>2, SyncStepsFacts
    <3> QED
      BY <3>2, <3>3, <3>4, HandedWasSent DEF LogInv, InboxInv
  <2> QED
    BY <2>1, <2>2
<1>10. NoneBehind'
  <2> SUFFICES ASSUME NEW o \in Workers, NEW v \in Workers PROVE Done(o)' \subseteq Given(v)'
    BY DEF NoneBehind
  <2>1. CASE Done(o)' = Done(o)
    BY <1>6, <2>1 DEF SyncInv, NoneBehind
  <2>2. CASE o = w /\ LastDone(w)' = s
    <3>1. Done(w)' = SyncSteps(s)
      BY <2>2 DEF Done, SyncSteps
    <3> QED
      BY <1>6, <1>9, <2>2, <3>1
  <2>3. LastDone(w)' = LastDone(w) => Done(w)' = Done(w)
    BY DEF Done, SyncSteps
  <2> QED
    BY <1>4, <1>5, <2>1, <2>2, <2>3
<1>11. TakenKeys'
  <2>1. Keys(w, taken[w] + toApply[w])' = Keys(w, N)
    BY <1>1, <1>2 DEF Keys, Key
  <2>2. CASE pc'[w] = "apply" /\ localSteps'[w] = s
    <3>1. Keys(w, taken[w]) \subseteq Keys(w, taken[w])'
      <4>1. Keys(w, taken[w])' = {Key(inbox[w][k]) : k \in 1..t}
        BY <1>1, <1>2 DEF Keys, Key
      <4>2. 1..taken[w] \subseteq 1..t
        BY <1>2
      <4> QED
        BY <4>1, <4>2 DEF Keys
    <3>2. Grid(w, LastDone(w))' = Grid(w, LastDone(w)) /\ Grid(w, localSteps[w])' = Grid(w, s)
      BY <2>2 DEF Grid, LastDone, SyncSteps
    <3>3. TakenOf(w)'
      BY <1>1, <1>2, <1>3, <1>5, <2>1, <2>2, <3>1, <3>2 DEF TakenOf
    <3> QED
      BY <1>1, <1>2, <3>3, OthersStay DEF SyncInv
  <2>3. CASE toApply[w] = 1 /\ pc'[w] = "train" /\ localSteps'[w] = s + 1
    <3>1. t = N
      BY <2>3 DEF N
    <3>2. Keys(w, taken[w])' = Keys(w, N)
      BY <1>1, <1>2, <3>1 DEF Keys, Key
    <3>3. s + 1 # 0 /\ (s + 1) - 1 = s
      BY <1>2
    <3>4. LastDone(w)' = s
      BY <2>3, <3>3 DEF LastDone
    <3>5. Grid(w, LastDone(w))' = Grid(w, s)
      BY <3>4 DEF Grid, SyncSteps
    <3>6. TakenOf(w)'
      BY <1>3, <2>3, <3>2, <3>5 DEF TakenOf
    <3> QED
      BY <1>1, <1>2, <3>6, OthersStay DEF SyncInv
  <2> QED
    BY <1>2, <2>2, <2>3
<1> QED
  BY <1>7, <1>8, <1>10, <1>11 DEF Rest, SyncInv

\* The listener puts the next message of the group in the queue.
LEMMA ListenStep ==
  ASSUME SInv, NEW w \in Workers, Listen(w)
  PROVE  Rest'
<1> USE DEF SInv, IInv
<1> DEFINE n == Len(inbox[w])
<1>1. /\ UNCHANGED <<pc, localSteps, taken, toApply>> /\ M!Deliver(w)
  BY DEF Listen, workerVars
<1>2. PICK i \in 1..Len(sent) :
        /\ cursor[w] < i /\ sent[i].from # w
        /\ \A j \in 1..Len(sent) : cursor[w] < j /\ j < i => sent[j].from = w
        /\ cursor' = [cursor EXCEPT ![w] = i]
        /\ inbox' = [inbox EXCEPT ![w] = Append(@, sent[i])]
        /\ sent[i] \in Messages
        /\ UNCHANGED sent
  BY <1>1, Delivers
<1>3. /\ cursor[w] \in Nat /\ cursor[w] <= Len(sent) /\ Len(sent) \in Nat
      /\ inbox[w] \in Seq(Messages) /\ n \in Nat
      /\ \A v \in Workers : Len(inbox[v]) \in Nat
  BY DEF TypeOK
<1>4. /\ cursor'[w] = i /\ inbox'[w] = Append(inbox[w], sent[i])
      /\ \A v \in Workers : v # w => cursor'[v] = cursor[v] /\ inbox'[v] = inbox[v]
  BY <1>2 DEF TypeOK
<1>5. /\ Len(inbox'[w]) = n + 1 /\ inbox'[w][n + 1] = sent[i]
      /\ \A k \in 1..n : inbox'[w][k] = inbox[w][k]
  BY <1>2, <1>3, <1>4, AppendProperties
<1> HIDE DEF n
<1>6. \A v \in Workers : Given(v)' = Given(v) /\ Done(v)' = Done(v)
  BY <1>1, SameCounters
<1>7. LogInv'
  BY <1>2, <1>6 DEF LogInv, SentGiven, SentSorted, GivenSent, Key
<1>8. InboxSent'
  <2> SUFFICES ASSUME NEW v \in Workers, NEW k \in 1..Len(inbox'[v])
               PROVE  inbox'[v][k].from # v /\ \E j \in 1..cursor'[v] : sent[j] = inbox'[v][k]
    BY <1>2 DEF InboxSent
  <2>1. CASE v # w
    <3>1. inbox'[v] = inbox[v] /\ cursor'[v] = cursor[v]
      BY <1>4, <2>1
    <3>2. PICK j \in 1..cursor[v] : inbox[v][k].from # v /\ sent[j] = inbox[v][k]
      BY <3>1 DEF InboxInv, InboxSent
    <3> QED
      BY <3>1, <3>2
  <2>2. CASE v = w /\ k = n + 1
    <3>1. i \in 1..i
      BY <1>2
    <3> QED
      BY <1>2, <1>4, <1>5, <2>2, <3>1
  <2>3. CASE v = w /\ k \in 1..n
    <3>1. PICK j \in 1..cursor[w] : inbox[w][k].from # w /\ sent[j] = inbox[w][k]
      BY <2>3 DEF InboxInv, InboxSent, n
    <3>2. j \in 1..i
      BY <1>2, <1>3
    <3> QED
      BY <1>4, <1>5, <2>3, <3>1, <3>2
  <2> QED
    BY <1>3, <1>5, <2>1, <2>2, <2>3
<1>9. InboxHasAll'
  <2> SUFFICES ASSUME NEW v \in Workers, NEW j \in 1..cursor'[v], sent[j].from # v
               PROVE  \E k \in 1..Len(inbox'[v]) : inbox'[v][k] = sent[j]
    BY <1>2 DEF InboxHasAll
  <2>1. CASE v # w
    <3>1. inbox'[v] = inbox[v] /\ cursor'[v] = cursor[v]
      BY <1>4, <2>1
    <3>2. PICK k \in 1..Len(inbox[v]) : inbox[v][k] = sent[j]
      BY <3>1 DEF InboxInv, InboxHasAll
    <3> QED
      BY <3>1, <3>2
  <2>2. CASE v = w /\ j \in 1..cursor[w]
    <3>1. PICK k \in 1..n : inbox[w][k] = sent[j]
      BY <2>2 DEF InboxInv, InboxHasAll, n
    <3>2. k \in 1..(n + 1) /\ inbox'[w][k] = inbox[w][k]
      BY <1>3, <1>5
    <3> QED
      BY <1>5, <2>2, <3>1, <3>2
  <2>3. CASE v = w /\ j \notin 1..cursor[w]
    <3>1. j = i
      <4>1. j \in 1..Len(sent) /\ cursor[w] < j /\ j <= i
        BY <1>2, <1>3, <1>4, <2>3
      <4> QED
        BY <1>2, <2>3, <4>1
    <3>2. n + 1 \in 1..Len(inbox'[w])
      BY <1>3, <1>5
    <3> QED
      BY <1>5, <2>3, <3>1, <3>2
  <2> QED
    BY <2>1, <2>2, <2>3
<1>10. InboxOnce'
  <2> SUFFICES ASSUME NEW v \in Workers, NEW k \in 1..Len(inbox'[v]), NEW l \in 1..Len(inbox'[v]),
                      k < l
               PROVE  Key(inbox'[v][k]) # Key(inbox'[v][l])
    BY DEF InboxOnce, Key
  <2>1. CASE v # w
    BY <1>4, <2>1 DEF InboxInv, InboxOnce
  <2>2. CASE v = w /\ l \in 1..n
    <3>1. k \in 1..n
      BY <1>3, <2>2
    <3> QED
      BY <1>5, <2>2, <3>1 DEF InboxInv, InboxOnce, n
  <2>3. CASE v = w /\ l = n + 1
    <3>1. k \in 1..n
      BY <1>3, <1>5, <2>3
    <3>2. PICK j \in 1..cursor[w] : sent[j] = inbox[w][k]
      BY <3>1 DEF InboxInv, InboxSent, n
    <3>3. j \in 1..Len(sent) /\ j < i
      BY <1>2, <1>3
    <3>4. Key(sent[j]) # Key(sent[i])
      BY <3>3 DEF LogInv, SentSorted
    <3> QED
      BY <1>5, <2>3, <3>1, <3>2, <3>4
  <2> QED
    BY <1>3, <1>5, <2>1, <2>2, <2>3
<1>11. AtSync'
  BY <1>1 DEF SyncInv, AtSync
<1>12. NoneBehind'
  BY <1>6, NoneBehindFrame DEF SyncInv
<1>13. TakenKeys'
  <2> SUFFICES ASSUME NEW v \in Workers PROVE TakenOf(v)'
    BY DEF TakenKeys
  <2>1. /\ Len(inbox'[v]) \in Nat /\ Len(inbox[v]) <= Len(inbox'[v])
        /\ \A k \in 1..Len(inbox[v]) : inbox'[v][k] = inbox[v][k]
    <3>1. CASE v = w
      BY <1>3, <1>5, <3>1 DEF n
    <3>2. CASE v # w
      BY <1>3, <1>4, <3>2
    <3> QED
      BY <3>1, <3>2
  <2>2. TakenOf(v)
    BY DEF SyncInv, TakenKeys
  <2> QED
    BY <1>1, <2>1, <2>2, TakenFrame
<1> QED
  BY <1>7, <1>8, <1>9, <1>10, <1>11, <1>12, <1>13 DEF Rest, InboxInv, SyncInv

-----------------------------------------------------------------------------
LEMMA InitiallySynced == Init => SInv
<1> SUFFICES ASSUME Init PROVE SInv
  OBVIOUS
<1>1. IInv
  BY Initially
<1>2. /\ sent = <<>> /\ cursor = [w \in Workers |-> 0] /\ inbox = [w \in Workers |-> <<>>]
  BY DEF Init, M!MulticastInit
<1>3. Len(sent) = 0 /\ \A w \in Workers : cursor[w] = 0 /\ Len(inbox[w]) = 0
  BY <1>2
<1>4. \A w \in Workers : pc[w] = "setup" /\ localSteps[w] = 0
  BY DEF Init
<1>5. \A w \in Workers : Given(w) = {} /\ Done(w) = {}
  BY <1>4, NoSyncsYet DEF Given, Done, LastSent, LastDone
<1>6. LogInv
  BY <1>3, <1>5 DEF LogInv, SentGiven, SentSorted, GivenSent
<1>7. InboxInv
  BY <1>3 DEF InboxInv, InboxSent, InboxHasAll, InboxOnce
<1>8. SyncInv
  BY <1>4, <1>5 DEF SyncInv, AtSync, NoneBehind, TakenKeys, TakenOf
<1> QED
  BY <1>1, <1>6, <1>7, <1>8 DEF SInv

LEMMA StepKeepsSInv == SInv /\ [Next]_vars => SInv'
<1> SUFFICES ASSUME SInv, [Next]_vars PROVE SInv'
  OBVIOUS
<1>1. IInv'
  BY StepKeepsIInv DEF SInv
<1>2. ASSUME NEW w \in Workers, Step(w) \/ Listen(w) PROVE Rest'
  BY <1>2, SetupStep, InitialSendStep, InitialTakeStep, LearnStep, SendDiffStep,
     QueueExactStep, ApplyStep, ListenStep DEF Step
<1>3. CASE UNCHANGED vars
  <2>1. UNCHANGED <<sent, cursor, inbox, pc, localSteps, taken, toApply>>
    BY <1>3 DEF vars, workerVars
  <2>2. \A w \in Workers : Given(w)' = Given(w) /\ Done(w)' = Done(w)
    BY <2>1, SameCounters
  <2>3. LogInv' /\ InboxInv'
    BY <2>1, <2>2, SentFrame DEF SInv, IInv
  <2>4. AtSync' /\ NoneBehind'
    BY <2>1, <2>2 DEF SInv, SyncInv, AtSync, NoneBehind
  <2>5. TakenKeys'
    BY <2>1 DEF SInv, SyncInv, TakenKeys, TakenOf, Keys, Key, Grid, LastDone, SyncSteps
  <2> QED
    BY <1>1, <2>3, <2>4, <2>5 DEF SInv, SyncInv
<1> QED
  BY <1>1, <1>2, <1>3 DEF Next, SInv, Rest

\* The group's order of messages is an order of syncs, in every behaviour.
THEOREM SyncInvariance == Spec => []SInv
<1> QED
  BY InitiallySynced, StepKeepsSInv, PTL DEF Spec

LEMMA AlignedState == SInv => DiffsAligned
<1> SUFFICES ASSUME SInv, NEW w \in Workers, pc[w] = "apply"
             PROVE  NextMessage(w).kind = "diff" /\ NextMessage(w).step = localSteps[w]
  BY DEF DiffsAligned
<1> USE DEF SInv, IInv
<1> DEFINE s == localSteps[w]
           k == taken[w] + 1
           N == taken[w] + toApply[w]
<1>1. /\ s \in Nat \ {0} /\ s % SyncFrequency = 0 /\ LastDone(w) = s - 1
  BY DEF TypeOK, Snapshot, SnapshotOf, SyncInv, AtSync, LastDone
<1>2. /\ taken[w] \in Nat /\ toApply[w] \in Nat \ {0} /\ Len(inbox[w]) \in Nat
  BY NumOthersType DEF TypeOK
<1>3. /\ N <= Len(inbox[w]) /\ Keys(w, N) = Grid(w, s)
      /\ Grid(w, s - 1) \subseteq Keys(w, taken[w])
  BY <1>1 DEF SyncInv, TakenKeys, TakenOf
<1>4. k \in 1..N /\ k \in 1..Len(inbox[w])
  BY <1>2, <1>3
<1> HIDE DEF s, k, N
<1>5. Key(inbox[w][k]) \in Grid(w, s)
  BY <1>3, <1>4 DEF Keys
<1>6. Key(inbox[w][k]) \notin Keys(w, taken[w])
  <2> SUFFICES ASSUME NEW l \in 1..taken[w] PROVE Key(inbox[w][l]) # Key(inbox[w][k])
    BY DEF Keys
  <2>1. l \in 1..Len(inbox[w]) /\ l < k
    BY <1>2, <1>4 DEF k
  <2> QED
    BY <1>4, <2>1 DEF InboxInv, InboxOnce
<1>7. inbox[w][k].step = s
  <2>1. Key(inbox[w][k])[2] = s
    BY <1>1, <1>3, <1>5, <1>6, GridGrows
  <2> QED
    BY <2>1 DEF Key
<1>8. inbox[w][k].kind = "diff"
  BY <1>1, <1>4, <1>7, HandedWasSent DEF LogInv, InboxInv
<1> QED
  BY <1>7, <1>8 DEF NextMessage, k, s

\* The changes a worker takes at a sync, which it only counts, are those the
\* others sent at the same local step: for every number of workers, frequency
\* of syncs and number of steps.
THEOREM DiffsAlignedAlways == Spec => []DiffsAligned
<1> QED
  BY SyncInvariance, AlignedState, PTL

LEMMA BoundedState == SInv => DriftBounded
<1> SUFFICES ASSUME SInv, NEW w \in Workers, NEW v \in Workers,
                    ~(localSteps[w] <= localSteps[v] + SyncFrequency)
             PROVE  FALSE
  BY DEF DriftBounded
<1> DEFINE a == localSteps[v]
<1>1. a \in Nat /\ localSteps[w] \in Nat /\ SyncFrequency \in Nat \ {0} /\ TypeOK
  BY FrequencyType DEF SInv, IInv, TypeOK
<1>2. PICK s \in (a + 1)..(a + SyncFrequency) : s % SyncFrequency = 0
  BY <1>1, NextMultiple
<1>3. s \in Done(w)
  <2>1. LastDone(w) = localSteps[w] - 1 /\ LastDone(w) \in Nat
    BY <1>1 DEF LastDone
  <2>2. s \in Nat /\ s >= 1 /\ s <= LastDone(w)
    BY <1>1, <2>1
  <2> QED
    BY <1>2, <2>1, <2>2, SyncStepsFacts DEF Done
<1>4. s \in Given(v)
  BY <1>3 DEF SInv, SyncInv, NoneBehind
<1>5. s <= LastSent(v) /\ LastSent(v) <= a /\ LastSent(v) \in Nat
  BY <1>1, <1>4, GivenTypes, SyncStepsFacts DEF Given
<1> QED
  BY <1>1, <1>5

\* No worker gets more than SyncFrequency steps ahead of another.
THEOREM DriftBoundedAlways == Spec => []DriftBounded
<1> QED
  BY SyncInvariance, BoundedState, PTL
=============================================================================
