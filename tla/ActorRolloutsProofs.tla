------------------------- MODULE ActorRolloutsProofs -------------------------
(***************************************************************************)
(* Proofs about ActorRollouts for every number of actors, queue size and   *)
(* rollout length: type correctness, and that the three reads of the slot  *)
(* neither repeat a step nor bring an actor's steps out of order.          *)
(***************************************************************************)
EXTENDS ActorRollouts, SequenceTheorems, WellFoundedInduction, TLAPS

\* Every step of the rollout is newer than all of its actor that the learner
\* has been given.
Newer(ro) ==
  \A s \in StepsOf(ro) :
    /\ s.n > trainedTo[s.actor]
    /\ \A t \in Ahead : t.actor = s.actor => t.n < s.n

\* Nobody has a step that its actor has not made yet.
Produced ==
  /\ \A s \in StepsOf(slot) \cup StepsOf(yielded) \cup Ahead : s.n <= produced[s.actor]
  /\ \A a \in Actors : trainedTo[a] <= produced[a]

\* What the three reads may find: a slot that differs from last_rollout was
\* written after the last put, and what is written later is newer still.
FreshSlot ==
  /\ Ordered(slot) /\ Ordered(yielded)
  /\ runner \in {"accept", "poll"} => slot = lastRollout \/ Newer(slot)
  /\ runner = "yield" => Newer(slot)
  /\ runner = "put" => Newer(yielded)

\* The inductive invariant.
OrderInv == TypeOK /\ TrainedInOrder /\ Produced /\ FreshSlot

-----------------------------------------------------------------------------
\* The least-number principle, and what follows for a set below a bound.
LEMMA LeastNumber ==
  ASSUME NEW T \in SUBSET Nat, T # {}
  PROVE  \E x \in T : \A y \in T : x <= y
<1> DEFINE R == OpToRel(<, Nat)
<1>1. IsWellFoundedOn(R, Nat)
  BY NatLessThanWellFounded
<1>2. \A x, y \in Nat : x < y => <<x, y>> \in R
  BY DEF OpToRel
<1> HIDE DEF R
<1>3. PICK x \in T : \A y \in T : ~(<<y, x>> \in R)
  BY <1>1, WFMin
<1>4. ASSUME NEW y \in T PROVE x <= y
  <2>1. x \in Nat /\ y \in Nat /\ ~(<<y, x>> \in R)
    BY <1>3
  <2>2. ~(y < x)
    BY <1>2, <2>1
  <2> QED
    BY <2>1, <2>2
<1> QED
  BY <1>4

LEMMA GreatestNumber ==
  ASSUME NEW b \in Nat, NEW T \in SUBSET (1..b), T # {}
  PROVE  \E x \in T : \A y \in T : y <= x
<1> DEFINE U == {b - x : x \in T}
<1>1. U \in SUBSET Nat /\ U # {}
  <2>1. ASSUME NEW x \in T PROVE b - x \in Nat
    <3>1. x \in 1..b
      OBVIOUS
    <3> QED
      BY <3>1
  <2>2. PICK x : x \in T
    OBVIOUS
  <2>3. b - x \in U
    BY <2>2
  <2> QED
    BY <2>1, <2>3
<1>2. PICK u \in U : \A v \in U : u <= v
  BY <1>1, LeastNumber
<1>3. PICK x \in T : u = b - x
  OBVIOUS
<1>4. ASSUME NEW y \in T PROVE y <= x
  <2>1. b - y \in U
    OBVIOUS
  <2>2. b - x <= b - y /\ x \in 1..b /\ y \in 1..b
    BY <1>2, <1>3, <2>1
  <2> QED
    BY <2>2
<1> QED
  BY <1>4

-----------------------------------------------------------------------------
\* What a rollout is made of.
LEMMA RolloutParts ==
  ASSUME NEW ro \in Rollouts
  PROVE  /\ ro.steps \in Seq(Steps) /\ Len(ro.steps) \in Nat
         /\ \A j \in 1..Len(ro.steps) : ro.steps[j] \in Steps
         /\ StepsOf(ro) \subseteq Steps
         /\ \A s \in StepsOf(ro) : s.actor \in Actors /\ s.n \in Nat
<1>1. ro.steps \in Seq(Steps)
  BY DEF Rollouts
<1>2. Len(ro.steps) \in Nat /\ \A j \in 1..Len(ro.steps) : ro.steps[j] \in Steps
  BY <1>1
<1>3. StepsOf(ro) \subseteq Steps
  BY <1>2 DEF StepsOf
<1>4. \A s \in Steps : s.actor \in Actors /\ s.n \in Nat
  BY DEF Steps
<1> QED
  BY <1>1, <1>2, <1>3, <1>4

LEMMA EmptyRolloutParts ==
  /\ EmptyRollout \in Rollouts /\ EmptyRollout.steps = <<>>
  /\ StepsOf(EmptyRollout) = {} /\ Ordered(EmptyRollout)
<1>1. EmptyRollout \in Rollouts /\ EmptyRollout.steps = <<>>
  BY DEF EmptyRollout, Rollouts
<1>2. Len(EmptyRollout.steps) = 0
  BY <1>1
<1> QED
  BY <1>1, <1>2 DEF StepsOf, Ordered

\* extend puts the steps of the second rollout behind those of the first.
LEMMA ExtendParts ==
  ASSUME NEW ro \in Rollouts, NEW other \in Rollouts
  PROVE  /\ Extend(ro, other) \in Rollouts
         /\ StepsOf(Extend(ro, other)) = StepsOf(ro) \cup StepsOf(other)
         /\ Ordered(ro) /\ Ordered(other) /\ Follows(other, ro) => Ordered(Extend(ro, other))
<1> DEFINE e == Extend(ro, other)
           p == ro.steps
           q == other.steps
           a == Len(p)
           b == Len(q)
<1>1. /\ p \in Seq(Steps) /\ q \in Seq(Steps) /\ a \in Nat /\ b \in Nat
      /\ \A j \in 1..a : p[j] \in Steps
      /\ \A j \in 1..b : q[j] \in Steps
  BY RolloutParts
<1>2. e \in Rollouts /\ e.steps = p \o q
  <2>1. p \o q \in Seq(Steps)
    BY <1>1
  <2>2. other.r \in Nat /\ other.terminal \in BOOLEAN
    BY DEF Rollouts
  <2> QED
    BY <2>1, <2>2 DEF Extend, Rollouts
<1> HIDE DEF e
<1>3. /\ Len(e.steps) = a + b
      /\ \A j \in 1..a : e.steps[j] = p[j]
      /\ \A j \in 1..a + b : j > a => e.steps[j] = q[j - a]
  <2> HIDE DEF p, q
  <2> QED
    BY <1>1, <1>2, ConcatProperties
<1>4. ASSUME NEW j \in 1..a + b
      PROVE  \/ j \in 1..a /\ e.steps[j] = p[j]
             \/ j > a /\ j - a \in 1..b /\ e.steps[j] = q[j - a]
  <2> HIDE DEF a, b
  <2>1. CASE j > a
    <3>1. j - a \in 1..b
      BY <1>1, <2>1
    <3> QED
      BY <1>3, <2>1, <3>1
  <2>2. CASE ~(j > a)
    <3>1. j \in 1..a
      BY <1>1, <2>2
    <3> QED
      BY <1>3, <3>1
  <2> QED
    BY <2>1, <2>2
<1>5. StepsOf(e) = StepsOf(ro) \cup StepsOf(other)
  <2>1. ASSUME NEW s \in StepsOf(e) PROVE s \in StepsOf(ro) \cup StepsOf(other)
    BY <1>3, <1>4 DEF StepsOf
  <2>2. ASSUME NEW s \in StepsOf(ro) PROVE s \in StepsOf(e)
    <3>1. PICK j \in 1..a : s = p[j]
      BY DEF StepsOf
    <3>2. j \in 1..a + b /\ e.steps[j] = s
      <4> HIDE DEF a, b
      <4> QED
        BY <1>1, <1>3, <3>1
    <3> QED
      BY <1>3, <3>2 DEF StepsOf
  <2>3. ASSUME NEW s \in StepsOf(other) PROVE s \in StepsOf(e)
    <3>1. PICK j \in 1..b : s = q[j]
      BY DEF StepsOf
    <3>2. a + j \in 1..a + b /\ e.steps[a + j] = s
      <4> HIDE DEF a, b
      <4>1. a + j \in 1..a + b /\ a + j > a /\ (a + j) - a = j
        BY <1>1
      <4> QED
        BY <1>3, <3>1, <4>1
    <3> QED
      BY <1>3, <3>2 DEF StepsOf
  <2> QED
    BY <2>1, <2>2, <2>3
<1>6. ASSUME Ordered(ro), Ordered(other), Follows(other, ro),
             NEW j \in 1..a + b, NEW k \in 1..a + b, j < k,
             e.steps[j].actor = e.steps[k].actor
      PROVE  e.steps[j].n < e.steps[k].n
  <2> HIDE DEF a, b
  <2>1. CASE k \in 1..a /\ e.steps[k] = p[k]
    <3>1. j \in 1..a /\ e.steps[j] = p[j]
      BY <1>1, <1>3, <1>6, <2>1
    <3> QED
      BY <1>6, <2>1, <3>1 DEF Ordered, a
  <2>2. CASE k > a /\ k - a \in 1..b /\ e.steps[k] = q[k - a]
    <3>1. CASE j \in 1..a /\ e.steps[j] = p[j]
      <4>1. p[j] \in StepsOf(ro) /\ q[k - a] \in StepsOf(other)
        BY <2>2, <3>1 DEF StepsOf, a, b
      <4> QED
        BY <1>6, <2>2, <3>1, <4>1 DEF Follows
    <3>2. CASE j > a /\ j - a \in 1..b /\ e.steps[j] = q[j - a]
      <4>1. j - a < k - a
        BY <1>1, <1>6
      <4> QED
        BY <1>6, <2>2, <3>2, <4>1 DEF Ordered, b
    <3> QED
      BY <1>4, <3>1, <3>2
  <2> QED
    BY <1>4, <2>1, <2>2
<1>7. Ordered(ro) /\ Ordered(other) /\ Follows(other, ro) => Ordered(e)
  BY <1>3, <1>6 DEF Ordered
<1> QED
  BY <1>2, <1>5, <1>7 DEF e

\* The last step of the batch that is an actor's is one of the batch.
LEMMA LastTrainedValue ==
  ASSUME TypeOK, NEW a \in Actors
  PROVE  \/ LastTrained(a) = trainedTo[a]
         \/ \E s \in StepsOf(batch) : s.actor = a /\ LastTrained(a) = s.n
<1> DEFINE own == {i \in 1..Len(batch.steps) : batch.steps[i].actor = a}
           top == CHOOSE i \in own : \A j \in own : j <= i
<1>1. Len(batch.steps) \in Nat
  BY RolloutParts DEF TypeOK
<1>2. CASE own = {}
  BY <1>2 DEF LastTrained
<1>3. CASE own # {}
  <2>1. own \in SUBSET (1..Len(batch.steps))
    OBVIOUS
  <2> HIDE DEF own
  <2>2. \E i \in own : \A j \in own : j <= i
    BY <1>1, <1>3, <2>1, GreatestNumber
  <2>3. top \in own
    BY <2>2
  <2>4. LastTrained(a) = batch.steps[top].n
    BY <1>3 DEF LastTrained, own
  <2> HIDE DEF top
  <2> QED
    BY <2>3, <2>4 DEF own, StepsOf
<1> QED
  BY <1>2, <1>3

\* The first of the queue and those behind it.
LEMMA QueueParts ==
  ASSUME TypeOK
  PROVE  /\ Len(queue) \in Nat
         /\ \A i \in 1..Len(queue) : queue[i] \in Rollouts
         /\ queue # <<>> =>
              /\ 1 \in 1..Len(queue) /\ Head(queue) = queue[1]
              /\ Tail(queue) \in Seq(Rollouts)
              /\ Len(Tail(queue)) = Len(queue) - 1
              /\ \A i \in 1..Len(queue) - 1 : Tail(queue)[i] = queue[i + 1]
<1>1. queue \in Seq(Rollouts)
  BY DEF TypeOK
<1>2. queue # <<>> =>
        /\ Head(queue) = queue[1]
        /\ Tail(queue) \in Seq(Rollouts)
        /\ Len(Tail(queue)) = Len(queue) - 1
        /\ \A i \in 1..Len(queue) - 1 : Tail(queue)[i] = queue[i + 1]
  BY <1>1
<1>3. Len(queue) \in Nat /\ (queue # <<>> => Len(queue) # 0)
  BY <1>1
<1>4. \A i \in 1..Len(queue) : queue[i] \in Rollouts
  BY <1>1
<1>5. queue # <<>> => 1 \in 1..Len(queue)
  BY <1>3
<1> QED
  BY <1>2, <1>3, <1>4, <1>5

\* A step is ahead of the learner in the batch or in a rollout of the queue.
LEMMA InAhead ==
  \A s : s \in Ahead <=> \/ s \in StepsOf(batch)
                         \/ \E i \in 1..Len(queue) : s \in StepsOf(queue[i])
  BY DEF Ahead

\* The rollout a thread writes to the slot: its actor's next steps.
LEMMA PublishParts ==
  ASSUME TypeOK, NEW a \in Actors, NEW k \in 1..LocalSteps,
         NEW terminal \in BOOLEAN, NEW end \in BOOLEAN, Publish(a, k, terminal, end)
  PROVE  /\ slot' \in Rollouts /\ Ordered(slot')
         /\ \A s \in StepsOf(slot') : s.actor = a /\ s.n > produced[a] /\ s.n <= produced'[a]
         /\ produced' \in [Actors -> 0..MaxProduced]
         /\ \A b \in Actors : produced[b] <= produced'[b]
         /\ episode' \in [Actors -> Nat]
<1> USE QueueAssumption, ActorsAssumption
<1> DEFINE p == produced[a]
           step(i) == [actor |-> a, ep |-> episode[a], n |-> produced[a] + i, ver |-> 0,
                       last |-> terminal /\ i = k]
           steps == [i \in 1..k |-> step(i)]
<1>1. /\ p \in 0..MaxProduced /\ p + k <= MaxProduced /\ k \in Nat
      /\ produced' = [produced EXCEPT ![a] = p + k]
      /\ episode[a] \in Nat
  BY DEF TypeOK, Publish
<1>2. \A i \in 1..k : step(i) \in Steps
  BY <1>1 DEF Steps
<1>3. /\ slot'.steps = steps /\ slot'.terminal = terminal
      /\ slot' = [steps |-> steps, r |-> IF end THEN 0 ELSE p + k, terminal |-> terminal]
  BY DEF Publish
<1>4. /\ produced' \in [Actors -> 0..MaxProduced]
      /\ \A b \in Actors : produced[b] <= produced'[b]
      /\ produced'[a] = p + k
  <2> HIDE DEF p
  <2>1. p + k \in 0..MaxProduced
    BY <1>1
  <2>2. produced \in [Actors -> 0..MaxProduced]
    BY DEF TypeOK
  <2>3. produced'[a] = p + k
    BY <1>1, <2>2
  <2>4. ASSUME NEW b \in Actors PROVE produced[b] <= produced'[b]
    <3>1. CASE b = a
      BY <1>1, <2>3, <3>1 DEF p
    <3>2. CASE b # a
      <4>1. produced'[b] = produced[b] /\ produced[b] \in Nat
        BY <1>1, <2>2, <3>2
      <4> QED
        BY <4>1
    <3> QED
      BY <3>1, <3>2
  <2> QED
    BY <1>1, <2>1, <2>2, <2>3, <2>4
<1>5. episode' \in [Actors -> Nat]
  <2>1. episode \in [Actors -> Nat] /\ episode' = [episode EXCEPT ![a] = IF end THEN @ + 1 ELSE @]
    BY DEF TypeOK, Publish
  <2> QED
    BY <2>1
<1>6. \A i \in 1..k : step(i).actor = a /\ step(i).n = p + i
  OBVIOUS
<1> HIDE DEF step
<1>7. steps \in Seq(Steps) /\ Len(steps) = k /\ \A i \in 1..k : steps[i] = step(i)
  <2>1. steps \in [1..k -> Steps]
    BY <1>2
  <2> QED
    BY <1>1, <2>1, LenProperties
<1> HIDE DEF steps, p
<1>8. slot' \in Rollouts
  BY <1>1, <1>3, <1>7 DEF Rollouts
<1>9. Ordered(slot')
  BY <1>1, <1>3, <1>6, <1>7 DEF Ordered
<1>10. ASSUME NEW s \in StepsOf(slot')
       PROVE  s.actor = a /\ s.n > p /\ s.n <= p + k
  <2>1. PICK i \in 1..k : s = step(i)
    BY <1>3, <1>7 DEF StepsOf
  <2> QED
    BY <1>1, <1>6, <2>1
<1> QED
  BY <1>4, <1>5, <1>8, <1>9, <1>10 DEF p

-----------------------------------------------------------------------------
\* Type correctness: the queue keeps its bound, the slot holds a rollout, and
\* the generator polls only when every actor's connection is accepted.
THEOREM TypeCorrect == Spec => []TypeOK
<1> USE QueueAssumption, ActorsAssumption
<1>1. Init => TypeOK
  BY EmptyRolloutParts DEF Init, LearnerInit, TypeOK
<1>2. TypeOK /\ [Next]_vars => TypeOK'
  <2> SUFFICES ASSUME TypeOK, [Next]_vars PROVE TypeOK'
    OBVIOUS
  <2>1. ASSUME NEW a \in Actors, Accept(a) PROVE TypeOK'
    BY <2>1 DEF TypeOK, Accept, learnerVars
  <2>2. ASSUME NEW a \in Actors, NEW k \in 1..LocalSteps, NEW terminal \in BOOLEAN,
               NEW end \in BOOLEAN, Publish(a, k, terminal, end)
        PROVE  TypeOK'
    <3>1. /\ slot' \in Rollouts /\ produced' \in [Actors -> 0..MaxProduced]
          /\ episode' \in [Actors -> Nat]
      BY <2>2, PublishParts
    <3>2. UNCHANGED <<learnerVars, connected, runner, lastRollout, yielded, trainedTo>>
      BY <2>2 DEF Publish
    <3> QED
      BY <3>1, <3>2 DEF TypeOK, learnerVars
  <2>3. CASE Runner
    <3>1. CASE PutRollout
      BY <3>1 DEF TypeOK, PutRollout, actorVars
    <3>2. CASE Poll \/ Yield \/ Reread \/ PutTimesOut
      BY <3>2 DEF TypeOK, Poll, Yield, Reread, PutTimesOut, learnerVars, actorVars
    <3> QED
      BY <2>3, <3>1, <3>2 DEF Runner
  <2>4. CASE (GetRollout \/ ExtendBatch \/ GetTimesOut)
               /\ UNCHANGED <<actorVars, runnerVars, trainedTo>>
    <3>1. ASSUME queue # <<>>, queue' = Tail(queue)
          PROVE  queue' \in Seq(Rollouts) /\ Len(queue') <= QueueSize /\ Head(queue) \in Rollouts
      BY <3>1, QueueParts DEF TypeOK
    <3>2. CASE GetRollout
      BY <2>4, <3>1, <3>2 DEF TypeOK, GetRollout, actorVars, runnerVars
    <3>3. CASE ExtendBatch
      <4>1. Extend(batch, Head(queue)) \in Rollouts
        BY <3>1, <3>3, ExtendParts DEF TypeOK, ExtendBatch
      <4> QED
        BY <2>4, <3>1, <3>3, <4>1 DEF TypeOK, ExtendBatch, actorVars, runnerVars
    <3>4. CASE GetTimesOut
      BY <2>4, <3>4 DEF TypeOK, GetTimesOut, actorVars, runnerVars
    <3> QED
      BY <2>4, <3>2, <3>3, <3>4
  <2>5. CASE Train /\ UNCHANGED <<actorVars, runnerVars>>
    <3>1. trainedTo' \in [Actors -> Nat]
      <4>1. ASSUME NEW a \in Actors PROVE LastTrained(a) \in Nat
        <5>1. \A s \in StepsOf(batch) : s.n \in Nat
          BY RolloutParts DEF TypeOK
        <5>2. trainedTo[a] \in Nat
          BY DEF TypeOK
        <5> QED
          BY <5>1, <5>2, LastTrainedValue
      <4> QED
        BY <2>5, <4>1 DEF Train
    <3>2. globalStep' \in Nat
      <4>1. Len(batch.steps) \in Nat /\ globalStep \in Nat
        BY RolloutParts DEF TypeOK
      <4> QED
        BY <2>5, <4>1 DEF Train, TrainBatch
    <3> QED
      BY <2>5, <3>1, <3>2, EmptyRolloutParts DEF TypeOK, Train, TrainBatch, actorVars, runnerVars
  <2>6. CASE UNCHANGED vars
    BY <2>6 DEF TypeOK, vars, learnerVars, actorVars, runnerVars
  <2> QED
    BY <2>1, <2>2, <2>3, <2>4, <2>5, <2>6 DEF Next
<1> QED
  BY <1>1, <1>2, PTL DEF Spec

-----------------------------------------------------------------------------
\* A rollout that is newer than everything stays so when no step is added to
\* what the learner has been given.
LEMMA NewerKept ==
  ASSUME NEW ro, Newer(ro), Ahead' \subseteq Ahead, UNCHANGED trainedTo
  PROVE  Newer(ro)'
  BY DEF Newer

\* Steps that touch neither the queue, the batch nor the rollouts of the runner.
LEMMA AheadKept ==
  ASSUME UNCHANGED <<queue, batch>>
  PROVE  Ahead' = Ahead
  BY DEF Ahead

\* The order does not change when nothing is taken and nothing put.
LEMMA OrderKept ==
  ASSUME TrainedInOrder, UNCHANGED <<queue, batch, trainedTo>>
  PROVE  TrainedInOrder'
<1>1. Ahead' = Ahead
  BY AheadKept
<1> QED
  BY <1>1 DEF TrainedInOrder, Ordered, Follows, StepsOf

\* A rollout is written to the slot: its steps are newer than all others.
LEMMA PublishOrder ==
  ASSUME OrderInv, TypeOK', NEW a \in Actors, NEW k \in 1..LocalSteps,
         NEW terminal \in BOOLEAN, NEW end \in BOOLEAN, Publish(a, k, terminal, end)
  PROVE  OrderInv'
<1>1. /\ slot' \in Rollouts /\ Ordered(slot')
      /\ \A s \in StepsOf(slot') : s.actor = a /\ s.n > produced[a] /\ s.n <= produced'[a]
      /\ \A b \in Actors : produced[b] <= produced'[b]
  BY PublishParts DEF OrderInv
<1>2. UNCHANGED <<queue, batch, trainedTo, runner, lastRollout, yielded>>
  BY DEF Publish, learnerVars
<1>3. Ahead' = Ahead
  BY <1>2, AheadKept
<1>4. /\ \A s \in Ahead : s \in Steps
      /\ \A s \in StepsOf(yielded) : s \in Steps
      /\ \A s \in StepsOf(slot') : s \in Steps
  <2>1. \A i \in 1..Len(queue) : StepsOf(queue[i]) \subseteq Steps
    BY QueueParts, RolloutParts DEF OrderInv
  <2>2. StepsOf(batch) \subseteq Steps /\ StepsOf(yielded) \subseteq Steps
        /\ StepsOf(slot') \subseteq Steps
    BY <1>1, RolloutParts DEF OrderInv, TypeOK
  <2> QED
    BY <2>1, <2>2, InAhead
<1>5. /\ \A b \in Actors : produced[b] \in Nat /\ produced'[b] \in Nat /\ trainedTo[b] \in Nat
      /\ \A s \in Steps : s.actor \in Actors /\ s.n \in Nat
  <2>1. ASSUME NEW b \in Actors
        PROVE  produced[b] \in Nat /\ produced'[b] \in Nat /\ trainedTo[b] \in Nat
    <3>1. MaxProduced \in Nat /\ produced[b] \in 0..MaxProduced /\ produced'[b] \in 0..MaxProduced
      BY ActorsAssumption DEF OrderInv, TypeOK
    <3>2. trainedTo[b] \in Nat
      BY DEF OrderInv, TypeOK
    <3> QED
      BY <3>1, <3>2
  <2> QED
    BY <2>1 DEF Steps
<1>6. TrainedInOrder'
  BY <1>2, OrderKept DEF OrderInv
<1>7. ASSUME NEW s \in StepsOf(slot')
      PROVE  s.n > trainedTo[s.actor] /\ \A t \in Ahead : t.actor = s.actor => t.n < s.n
  <2>1. s.actor = a /\ s.n > produced[a] /\ s.n \in Nat
    BY <1>1, <1>4, <1>5
  <2>2. trainedTo[a] <= produced[a]
    BY DEF OrderInv, Produced
  <2>3. ASSUME NEW t \in Ahead, t.actor = a PROVE t.n < s.n
    <3>1. t.n <= produced[a] /\ t.n \in Nat /\ produced[a] \in Nat
      BY <1>4, <1>5, <2>3 DEF OrderInv, Produced
    <3> QED
      BY <2>1, <3>1
  <2>4. s.n > trainedTo[a]
    BY <1>5, <2>1, <2>2
  <2> QED
    BY <2>1, <2>3, <2>4
<1>8. Newer(slot)'
  BY <1>2, <1>3, <1>7 DEF Newer, StepsOf
<1>9. Produced'
  <2>1. ASSUME NEW s \in Steps, s.n <= produced[s.actor] PROVE s.n <= produced'[s.actor]
    BY <1>1, <1>5, <2>1
  <2>2. \A s \in StepsOf(yielded) \cup Ahead : s.n <= produced'[s.actor]
    BY <1>4, <2>1 DEF OrderInv, Produced
  <2>3. \A s \in StepsOf(slot') : s.n <= produced'[s.actor]
    BY <1>1
  <2>4. \A b \in Actors : trainedTo[b] <= produced'[b]
    BY <1>1, <1>5 DEF OrderInv, Produced
  <2>5. StepsOf(yielded)' = StepsOf(yielded) /\ StepsOf(slot)' = StepsOf(slot')
    BY <1>2 DEF StepsOf
  <2> QED
    BY <1>2, <1>3, <2>2, <2>3, <2>4, <2>5 DEF Produced
<1>10. FreshSlot'
  <2>1. Ordered(slot)' /\ Ordered(yielded)'
    BY <1>1, <1>2 DEF OrderInv, FreshSlot, Ordered
  <2>2. runner' = "put" => Newer(yielded)'
    <3> SUFFICES ASSUME runner = "put" PROVE Newer(yielded)'
      BY <1>2
    <3>1. PICK y : y = yielded
      OBVIOUS
    <3>2. Newer(y)'
      BY <1>2, <1>3, <3>1, NewerKept DEF OrderInv, FreshSlot
    <3> QED
      BY <1>2, <3>1, <3>2 DEF Newer, StepsOf
  <2> QED
    BY <1>8, <2>1, <2>2 DEF FreshSlot
<1> QED
  BY <1>6, <1>9, <1>10 DEF OrderInv

\* The runner puts in the queue what it yielded: it is newer than everything
\* in front of it.
LEMMA PutOrder ==
  ASSUME OrderInv, TypeOK', PutRollout
  PROVE  OrderInv'
<1>1. /\ Len(queue) \in Nat /\ queue \in Seq(Rollouts) /\ yielded \in Rollouts
      /\ Newer(yielded) /\ Ordered(yielded) /\ Ordered(slot)
  BY QueueParts DEF OrderInv, TypeOK, FreshSlot, PutRollout
<1>2. /\ UNCHANGED <<batch, produced, slot, lastRollout, yielded, trainedTo>>
      /\ runner' = "reread" /\ queue' = Append(queue, yielded)
  BY DEF PutRollout, actorVars
<1>3. /\ Len(queue') = Len(queue) + 1
      /\ \A i \in 1..Len(queue) : queue'[i] = queue[i]
      /\ queue'[Len(queue) + 1] = yielded
  BY <1>1, <1>2, AppendProperties
<1>4. \A s \in Ahead' : s \in Ahead \/ s \in StepsOf(yielded)
  <2> SUFFICES ASSUME NEW s \in Ahead' PROVE s \in Ahead \/ s \in StepsOf(yielded)
    OBVIOUS
  <2>1. s \in StepsOf(batch) \/ \E i \in 1..Len(queue') : s \in StepsOf(queue'[i])
    BY <1>2 DEF Ahead, StepsOf
  <2>2. ASSUME NEW i \in 1..Len(queue'), s \in StepsOf(queue'[i])
        PROVE  s \in Ahead \/ s \in StepsOf(yielded)
    <3>1. CASE i \in 1..Len(queue)
      BY <1>3, <2>2, <3>1, InAhead
    <3>2. CASE i = Len(queue) + 1
      BY <1>3, <2>2, <3>2
    <3> QED
      BY <1>1, <1>3, <3>1, <3>2
  <2> QED
    BY <2>1, <2>2, InAhead
<1>5. TrainedInOrder'
  <2>1. ASSUME NEW i \in 1..Len(queue')
        PROVE  Ordered(queue'[i]) /\ Follows(queue'[i], batch)
    <3>1. CASE i \in 1..Len(queue)
      BY <1>3, <3>1 DEF OrderInv, TrainedInOrder
    <3>2. CASE i = Len(queue) + 1
      BY <1>1, <1>3, <3>2, InAhead DEF Newer, Follows
    <3> QED
      BY <1>1, <1>3, <3>1, <3>2
  <2>2. ASSUME NEW i \in 1..Len(queue'), NEW j \in 1..Len(queue'), i < j
        PROVE  Follows(queue'[j], queue'[i])
    <3>1. i \in 1..Len(queue)
      BY <1>1, <1>3, <2>2
    <3>2. CASE j \in 1..Len(queue)
      BY <1>3, <2>2, <3>1, <3>2 DEF OrderInv, TrainedInOrder
    <3>3. CASE j = Len(queue) + 1
      <4>1. Follows(yielded, queue[i])
        BY <1>1, <3>1, InAhead DEF Newer, Follows
      <4> QED
        BY <1>3, <3>1, <3>3, <4>1
    <3> QED
      BY <1>1, <1>3, <3>2, <3>3
  <2>3. \A s \in Ahead' : s.n > trainedTo'[s.actor]
    BY <1>1, <1>2, <1>4 DEF OrderInv, TrainedInOrder, Newer
  <2>4. Ordered(batch)
    BY DEF OrderInv, TrainedInOrder
  <2>5. Ordered(batch)'
    BY <1>2, <2>4 DEF Ordered
  <2>6. ASSUME NEW i \in 1..Len(queue') PROVE (Ordered(queue[i]) /\ Follows(queue[i], batch))'
    <3>1. Ordered(queue'[i]) /\ Follows(queue'[i], batch')
      BY <1>2, <2>1
    <3> QED
      BY <3>1 DEF Ordered, Follows, StepsOf
  <2>7. ASSUME NEW i \in 1..Len(queue'), NEW j \in 1..Len(queue'), i < j
        PROVE  Follows(queue[j], queue[i])'
    BY <2>2, <2>7 DEF Follows, StepsOf
  <2> QED
    BY <2>3, <2>5, <2>6, <2>7 DEF TrainedInOrder
<1>6. Produced'
  <2>1. \A s \in StepsOf(slot) \cup StepsOf(yielded) \cup Ahead' : s.n <= produced[s.actor]
    BY <1>4 DEF OrderInv, Produced
  <2>2. StepsOf(yielded)' = StepsOf(yielded) /\ StepsOf(slot)' = StepsOf(slot)
    BY <1>2 DEF StepsOf
  <2> QED
    BY <1>2, <2>1, <2>2 DEF OrderInv, Produced
<1>7. FreshSlot'
  BY <1>1, <1>2 DEF FreshSlot, Ordered
<1> QED
  BY <1>5, <1>6, <1>7 DEF OrderInv

\* A rollout goes from the queue to the batch: what is behind it stays behind.
LEMMA TakeOrder ==
  ASSUME OrderInv, TypeOK', GetRollout \/ ExtendBatch,
         UNCHANGED <<actorVars, runnerVars, trainedTo>>
  PROVE  OrderInv'
<1>1. /\ Len(queue) \in Nat /\ queue' = Tail(queue)
      /\ 1 \in 1..Len(queue) /\ Head(queue) = queue[1] /\ queue[1] \in Rollouts
      /\ batch \in Rollouts
      /\ Len(queue') = Len(queue) - 1
      /\ \A i \in 1..Len(queue') : queue'[i] = queue[i + 1] /\ i + 1 \in 1..Len(queue)
  <2>1. queue # <<>> /\ queue' = Tail(queue) /\ batch \in Rollouts
    BY DEF GetRollout, ExtendBatch, OrderInv, TypeOK
  <2>2. /\ Len(queue) \in Nat /\ 1 \in 1..Len(queue) /\ Head(queue) = queue[1]
        /\ Len(queue') = Len(queue) - 1 /\ queue[1] \in Rollouts
        /\ \A i \in 1..Len(queue) - 1 : queue'[i] = queue[i + 1]
    BY <2>1, QueueParts DEF OrderInv
  <2> QED
    BY <2>1, <2>2
<1>2. UNCHANGED <<produced, slot, runner, lastRollout, yielded, trainedTo>>
  BY DEF actorVars, runnerVars
<1>3. /\ Ordered(queue[1]) /\ Ordered(batch) /\ Follows(queue[1], batch)
      /\ \A i \in 1..Len(queue) : Ordered(queue[i]) /\ Follows(queue[i], batch)
      /\ \A i, j \in 1..Len(queue) : i < j => Follows(queue[j], queue[i])
  BY <1>1 DEF OrderInv, TrainedInOrder
<1>4. /\ StepsOf(batch') \subseteq StepsOf(batch) \cup StepsOf(queue[1])
      /\ Ordered(batch')
  <2>1. CASE GetRollout
    BY <1>1, <1>3, <2>1 DEF GetRollout
  <2>2. CASE ExtendBatch
    <3>1. batch' = Extend(batch, queue[1])
      BY <1>1, <2>2 DEF ExtendBatch
    <3> QED
      BY <1>1, <1>3, <3>1, ExtendParts
  <2> QED
    BY <2>1, <2>2
<1>5. Ahead' \subseteq Ahead
  <2> SUFFICES ASSUME NEW s \in Ahead' PROVE s \in Ahead
    OBVIOUS
  <2>1. s \in StepsOf(batch') \/ \E i \in 1..Len(queue') : s \in StepsOf(queue'[i])
    BY DEF Ahead, StepsOf
  <2>2. CASE s \in StepsOf(batch')
    BY <1>1, <1>4, <2>2, InAhead
  <2>3. CASE \E i \in 1..Len(queue') : s \in StepsOf(queue'[i])
    BY <1>1, <2>3, InAhead
  <2> QED
    BY <2>1, <2>2, <2>3
<1>6. TrainedInOrder'
  <2>1. ASSUME NEW i \in 1..Len(queue')
        PROVE  Ordered(queue'[i]) /\ Follows(queue'[i], batch')
    <3>1. queue'[i] = queue[i + 1] /\ i + 1 \in 1..Len(queue) /\ 1 < i + 1
      BY <1>1
    <3>2. Follows(queue[i + 1], batch) /\ Follows(queue[i + 1], queue[1]) /\ Ordered(queue[i + 1])
      BY <1>1, <1>3, <3>1
    <3> QED
      BY <1>4, <3>1, <3>2 DEF Follows
  <2>2. ASSUME NEW i \in 1..Len(queue'), NEW j \in 1..Len(queue'), i < j
        PROVE  Follows(queue'[j], queue'[i])
    <3>1. i + 1 \in 1..Len(queue) /\ j + 1 \in 1..Len(queue) /\ i + 1 < j + 1
      BY <1>1, <2>2
    <3> QED
      BY <1>1, <1>3, <3>1
  <2>3. \A s \in Ahead' : s.n > trainedTo'[s.actor]
    BY <1>2, <1>5 DEF OrderInv, TrainedInOrder
  <2>4. Ordered(batch)'
    BY <1>4 DEF Ordered
  <2>5. ASSUME NEW i \in 1..Len(queue') PROVE (Ordered(queue[i]) /\ Follows(queue[i], batch))'
    BY <2>1 DEF Ordered, Follows, StepsOf
  <2>6. ASSUME NEW i \in 1..Len(queue'), NEW j \in 1..Len(queue'), i < j
        PROVE  Follows(queue[j], queue[i])'
    BY <2>2, <2>6 DEF Follows, StepsOf
  <2> QED
    BY <2>3, <2>4, <2>5, <2>6 DEF TrainedInOrder
<1>7. Produced'
  <2>1. \A s \in StepsOf(slot) \cup StepsOf(yielded) \cup Ahead' : s.n <= produced[s.actor]
    BY <1>5 DEF OrderInv, Produced
  <2>2. StepsOf(yielded)' = StepsOf(yielded) /\ StepsOf(slot)' = StepsOf(slot)
    BY <1>2 DEF StepsOf
  <2> QED
    BY <1>2, <2>1, <2>2 DEF OrderInv, Produced
<1>8. FreshSlot'
  BY <1>2, <1>5 DEF OrderInv, FreshSlot, Newer, Ordered, StepsOf
<1> QED
  BY <1>6, <1>7, <1>8 DEF OrderInv

\* The batch is trained on: its steps were in front of all in the queue.
LEMMA TrainOrder ==
  ASSUME OrderInv, TypeOK', Train, UNCHANGED <<actorVars, runnerVars>>
  PROVE  OrderInv'
<1>1. /\ UNCHANGED <<queue, produced, slot, runner, lastRollout, yielded>>
      /\ batch' = EmptyRollout
      /\ trainedTo' = [a \in Actors |-> LastTrained(a)]
  BY DEF Train, TrainBatch, actorVars, runnerVars
<1>2. ASSUME NEW a \in Actors
      PROVE  \/ trainedTo'[a] = trainedTo[a]
             \/ \E s \in StepsOf(batch) : s.actor = a /\ trainedTo'[a] = s.n
  BY <1>1, LastTrainedValue DEF OrderInv
<1>3. Ahead' \subseteq Ahead /\ \A s \in Ahead' : \E i \in 1..Len(queue) : s \in StepsOf(queue[i])
  <2>1. \A s \in Ahead' : \/ s \in StepsOf(EmptyRollout)
                          \/ \E i \in 1..Len(queue) : s \in StepsOf(queue[i])
    BY <1>1 DEF Ahead, StepsOf
  <2> QED
    BY <2>1, EmptyRolloutParts, InAhead
<1>4. /\ \A s \in Ahead : s.actor \in Actors
      /\ \A s \in StepsOf(slot) \cup StepsOf(yielded) : s.actor \in Actors
  <2>1. \A i \in 1..Len(queue) : \A s \in StepsOf(queue[i]) : s.actor \in Actors
    BY QueueParts, RolloutParts DEF OrderInv
  <2>2. \A s \in StepsOf(batch) \cup StepsOf(slot) \cup StepsOf(yielded) : s.actor \in Actors
    BY RolloutParts DEF OrderInv, TypeOK
  <2> QED
    BY <2>1, <2>2, InAhead
<1>5. TrainedInOrder'
  <2>1. ASSUME NEW s \in Ahead' PROVE s.n > trainedTo'[s.actor]
    <3>1. PICK i \in 1..Len(queue) : s \in StepsOf(queue[i])
      BY <1>3
    <3>2. s \in Ahead /\ s.actor \in Actors /\ s.n > trainedTo[s.actor]
      BY <1>3, <1>4 DEF OrderInv, TrainedInOrder
    <3>3. \A t \in StepsOf(batch) : t.actor = s.actor => t.n < s.n
      BY <3>1 DEF OrderInv, TrainedInOrder, Follows
    <3>4. s.n \in Nat /\ \A t \in StepsOf(batch) : t.n \in Nat
      BY <3>1, QueueParts, RolloutParts DEF OrderInv, TypeOK
    <3>5. CASE trainedTo'[s.actor] = trainedTo[s.actor]
      BY <3>2, <3>5
    <3>6. CASE \E t \in StepsOf(batch) : t.actor = s.actor /\ trainedTo'[s.actor] = t.n
      <4>1. PICK t \in StepsOf(batch) : t.actor = s.actor /\ trainedTo'[s.actor] = t.n
        BY <3>6
      <4>2. t.n < s.n /\ t.n \in Nat
        BY <3>3, <3>4, <4>1
      <4> QED
        BY <3>4, <4>1, <4>2
    <3> QED
      BY <1>2, <3>2, <3>5, <3>6
  <2>2. StepsOf(batch') = {} /\ Ordered(batch)'
    <3>1. StepsOf(batch') = {} /\ Ordered(batch')
      BY <1>1, EmptyRolloutParts
    <3> QED
      BY <3>1 DEF Ordered
  <2>3. ASSUME NEW i \in 1..Len(queue') PROVE (Ordered(queue[i]) /\ Follows(queue[i], batch))'
    <3>1. Ordered(queue[i])
      BY <1>1 DEF OrderInv, TrainedInOrder
    <3>2. Ordered(queue[i])'
      BY <1>1, <3>1 DEF Ordered
    <3>3. Follows(queue[i], batch)'
      BY <2>2 DEF Follows, StepsOf
    <3> QED
      BY <3>2, <3>3
  <2>4. ASSUME NEW i \in 1..Len(queue'), NEW j \in 1..Len(queue'), i < j
        PROVE  Follows(queue[j], queue[i])'
    <3>1. Follows(queue[j], queue[i])
      BY <1>1, <2>4 DEF OrderInv, TrainedInOrder
    <3> QED
      BY <1>1, <3>1 DEF Follows, StepsOf
  <2> QED
    BY <2>1, <2>2, <2>3, <2>4 DEF TrainedInOrder
<1>6. Produced'
  <2>1. \A s \in StepsOf(slot) \cup StepsOf(yielded) \cup Ahead' : s.n <= produced[s.actor]
    BY <1>3 DEF OrderInv, Produced
  <2>2. StepsOf(yielded)' = StepsOf(yielded) /\ StepsOf(slot)' = StepsOf(slot)
    BY <1>1 DEF StepsOf
  <2>3. ASSUME NEW a \in Actors PROVE trainedTo'[a] <= produced[a]
    <3>1. trainedTo[a] <= produced[a]
      BY DEF OrderInv, Produced
    <3>2. \A s \in StepsOf(batch) : s.actor = a => s.n <= produced[a]
      BY InAhead DEF OrderInv, Produced
    <3> QED
      BY <1>2, <3>1, <3>2
  <2> QED
    BY <1>1, <2>1, <2>2, <2>3 DEF Produced
<1>7. ASSUME NEW ro, Newer(ro), \A s \in StepsOf(ro) : s.actor \in Actors PROVE Newer(ro)'
  <2>1. ASSUME NEW s \in StepsOf(ro)
        PROVE  s.n > trainedTo'[s.actor] /\ \A t \in Ahead' : t.actor = s.actor => t.n < s.n
    <3>1. \/ trainedTo'[s.actor] = trainedTo[s.actor]
          \/ \E t \in StepsOf(batch) : t.actor = s.actor /\ trainedTo'[s.actor] = t.n
      BY <1>2, <1>7, <2>1
    <3>2. s.n > trainedTo[s.actor] /\ \A t \in Ahead : t.actor = s.actor => t.n < s.n
      BY <1>7, <2>1 DEF Newer
    <3>3. \A t \in StepsOf(batch) : t.actor = s.actor => s.n > t.n
      BY <3>2, InAhead
    <3> QED
      BY <1>3, <3>1, <3>2, <3>3
  <2> QED
    BY <2>1 DEF Newer
<1>8. FreshSlot'
  <2>1. Newer(slot) => Newer(slot)'
    <3>1. PICK y : y = slot
      OBVIOUS
    <3>2. Newer(y) => Newer(y)'
      BY <1>4, <1>7, <3>1
    <3> QED
      BY <1>1, <3>1, <3>2 DEF Newer, StepsOf
  <2>2. Newer(yielded) => Newer(yielded)'
    <3>1. PICK y : y = yielded
      OBVIOUS
    <3>2. Newer(y) => Newer(y)'
      BY <1>4, <1>7, <3>1
    <3> QED
      BY <1>1, <3>1, <3>2 DEF Newer, StepsOf
  <2> QED
    BY <1>1, <2>1, <2>2 DEF OrderInv, FreshSlot, Ordered
<1> QED
  BY <1>5, <1>6, <1>8 DEF OrderInv

\* The runner reads the slot, or a connection is accepted, or somebody gives up.
LEMMA RestOrder ==
  ASSUME OrderInv, TypeOK',
         \/ \E a \in Actors : Accept(a)
         \/ Poll \/ Yield \/ Reread \/ PutTimesOut
         \/ GetTimesOut /\ UNCHANGED <<actorVars, runnerVars, trainedTo>>
         \/ UNCHANGED vars
  PROVE  OrderInv'
<1>1. UNCHANGED <<queue, batch, produced, slot, trainedTo>>
  BY DEF Accept, Poll, Yield, Reread, PutTimesOut, GetTimesOut, vars, learnerVars, actorVars,
         runnerVars
<1>2. \/ UNCHANGED <<runner, lastRollout, yielded>>
      \/ /\ UNCHANGED <<lastRollout, yielded>> /\ runner = "accept" /\ runner' \in {"accept", "poll"}
      \/ /\ UNCHANGED <<lastRollout, yielded>> /\ runner = "poll" /\ runner' = "yield"
         /\ slot # lastRollout
      \/ /\ UNCHANGED lastRollout /\ runner = "yield" /\ runner' = "put" /\ yielded' = slot
      \/ /\ UNCHANGED yielded /\ runner' = "poll" /\ lastRollout' = slot
      \/ /\ UNCHANGED <<lastRollout, yielded>> /\ runner' = "dead"
  BY DEF Accept, Poll, Yield, Reread, PutTimesOut, GetTimesOut, vars, learnerVars, actorVars,
         runnerVars
<1>3. TrainedInOrder'
  BY <1>1, OrderKept DEF OrderInv
<1>4. Ahead' = Ahead
  BY <1>1, AheadKept
<1>5. yielded' \in {yielded, slot}
  BY <1>2
<1>6. Produced'
  <2>1. StepsOf(slot)' = StepsOf(slot) /\ StepsOf(yielded)' \in {StepsOf(yielded), StepsOf(slot)}
    BY <1>1, <1>5 DEF StepsOf
  <2> QED
    BY <1>1, <1>4, <2>1 DEF OrderInv, Produced
<1>7. FreshSlot'
  <2>1. Ordered(slot)' /\ Ordered(yielded)'
    BY <1>1, <1>5 DEF OrderInv, FreshSlot, Ordered
  <2>2. (Newer(slot) => Newer(slot)') /\ (Newer(yielded) /\ yielded' = yielded => Newer(yielded)')
        /\ (Newer(slot) /\ yielded' = slot => Newer(yielded)')
    BY <1>1, <1>4 DEF Newer, StepsOf
  <2> QED
    BY <1>1, <1>2, <2>1, <2>2 DEF OrderInv, FreshSlot
<1> QED
  BY <1>3, <1>6, <1>7 DEF OrderInv

-----------------------------------------------------------------------------
\* TrainedInOrder for every number of actors and every queue size: no rollout
\* gets past two of the three reads of global_rollout[0] into the queue twice,
\* and none gets there after a later one of its actor (env_runner, lines
\* 303-311, with the threads that write the slot).
THEOREM TrainedInOrderAlways == Spec => []TrainedInOrder
<1>1. Init /\ TypeOK => OrderInv
  <2> SUFFICES ASSUME Init, TypeOK PROVE OrderInv
    OBVIOUS
  <2>1. /\ queue = <<>> /\ batch = EmptyRollout /\ slot = EmptyRollout /\ yielded = EmptyRollout
        /\ lastRollout = EmptyRollout /\ runner = "accept"
        /\ \A a \in Actors : trainedTo[a] = 0 /\ produced[a] = 0
    BY DEF Init, LearnerInit
  <2>2. Len(queue) = 0 /\ StepsOf(batch) = {} /\ Ahead = {}
    BY <2>1, EmptyRolloutParts DEF Ahead
  <2>3. TrainedInOrder
    BY <2>1, <2>2, EmptyRolloutParts DEF TrainedInOrder
  <2>4. Produced
    BY <2>1, <2>2, EmptyRolloutParts DEF Produced
  <2>5. FreshSlot
    BY <2>1, EmptyRolloutParts DEF FreshSlot
  <2> QED
    BY <2>3, <2>4, <2>5 DEF OrderInv
<1>2. OrderInv /\ TypeOK' /\ [Next]_vars => OrderInv'
  BY PublishOrder, PutOrder, TakeOrder, TrainOrder, RestOrder DEF Next, Runner
<1>3. OrderInv => TrainedInOrder
  BY DEF OrderInv
<1> QED
  BY <1>1, <1>2, <1>3, TypeCorrect, PTL DEF Spec
=============================================================================
