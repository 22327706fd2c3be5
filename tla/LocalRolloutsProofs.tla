------------------------- MODULE LocalRolloutsProofs -------------------------
(***************************************************************************)
(* Proofs about LocalRollouts for every queue size, rollout length, time   *)
(* limit and number of steps: type correctness, that the bounded queue     *)
(* bounds the age of the weights behind the experience that is trained on, *)
(* that every step is trained on once and in order, and that a batch ends  *)
(* where, and with the bootstrap value with which, it should.              *)
(***************************************************************************)
EXTENDS LocalRollouts, SequenceTheorems, TLAPS

\* One more copy of the weights is certain to come with the batch in work.
Pending == IF learner = "extend" THEN 1 ELSE 0

\* The strengthening of PolicyLag: every copy of the weights costs a rollout
\* of the queue, so a rollout may be older the nearer it is to the front, and
\* the one being collected has to let the whole queue pass.
QueueLag ==
  \A i \in 1..Len(queue) : \A j \in 1..Len(queue[i].steps) :
    version + i + Pending <= queue[i].steps[j].ver + QueueSize + 2

RolloutLag ==
  \A j \in 1..Len(rollout.steps) :
    version + Len(queue) + Pending <= rollout.steps[j].ver + QueueSize + 1

LagInv == QueueLag /\ RolloutLag /\ PolicyLag

-----------------------------------------------------------------------------
\* What add and extend return: a rollout, with one step more or with the steps
\* of both (PartialRollout, lines 168-184).
LEMMA EmptyRolloutType == EmptyRollout \in Rollouts /\ Len(EmptyRollout.steps) = 0
  BY DEF EmptyRollout, Rollouts

LEMMA AddType ==
  ASSUME NEW ro \in Rollouts, NEW s \in Steps, NEW t \in BOOLEAN
  PROVE  /\ Add(ro, s, t) \in Rollouts
         /\ Add(ro, s, t).steps = Append(ro.steps, s)
         /\ Len(Add(ro, s, t).steps) = Len(ro.steps) + 1
<1>1. ro.steps \in Seq(Steps)
  BY DEF Rollouts
<1>2. /\ Append(ro.steps, s) \in Seq(Steps)
      /\ Len(Append(ro.steps, s)) = Len(ro.steps) + 1
  BY <1>1
<1>3. Add(ro, s, t) = [steps |-> Append(ro.steps, s), r |-> ro.r, terminal |-> t]
  BY DEF Add, Rollouts
<1> QED
  BY <1>2, <1>3 DEF Rollouts

\* The arithmetic of one step of the learner.
LEMMA Shift ==
  ASSUME NEW a \in Nat, NEW b \in Nat, NEW i \in Nat, NEW p \in Nat, NEW q \in Nat,
         NEW v \in Nat, NEW size \in Nat
  PROVE  /\ a + (i + 1) + p <= v + size + 2 /\ q <= p + 1 => a + i + q <= v + size + 2
         /\ a + i + 1 <= v + size + 2 /\ b \in {a, a + 1} => b + i + 0 <= v + size + 2
  OBVIOUS

\* What an index past the first of two joined sequences points to.
LEMMA ConcatIndex ==
  ASSUME NEW S, NEW s \in Seq(S), NEW t \in Seq(S),
         NEW j \in 1..Len(s \o t), j \notin 1..Len(s)
  PROVE  /\ j - Len(s) \in 1..Len(t)
         /\ (s \o t)[j] = t[j - Len(s)]
<1>1. Len(s) \in Nat /\ Len(t) \in Nat /\ Len(s \o t) = Len(s) + Len(t)
  OBVIOUS
<1>2. j \in Nat /\ j > Len(s) /\ j <= Len(s) + Len(t)
  BY <1>1
<1>3. (s \o t)[j] = t[j - Len(s)]
  BY <1>1, <1>2
<1> QED
  BY <1>1, <1>2, <1>3

LEMMA SetValueType ==
  ASSUME NEW ro \in Rollouts, NEW v \in Nat
  PROVE  /\ [ro EXCEPT !.r = v] \in Rollouts
         /\ [ro EXCEPT !.r = v].steps = ro.steps
  BY DEF Rollouts

LEMMA ExtendType ==
  ASSUME NEW ro \in Rollouts, NEW other \in Rollouts
  PROVE  /\ Extend(ro, other) \in Rollouts
         /\ Extend(ro, other).steps = ro.steps \o other.steps
<1>1. ro.steps \in Seq(Steps) /\ other.steps \in Seq(Steps)
  BY DEF Rollouts
<1>2. ro.steps \o other.steps \in Seq(Steps)
  BY <1>1
<1> QED
  BY <1>2 DEF Extend, Rollouts

-----------------------------------------------------------------------------
\* Type correctness: the variables of env_runner, RunnerThread and process keep
\* their types, the queue its bound and a rollout its number of steps.
THEOREM TypeCorrect == Spec => []TypeOK
<1> USE QueueAssumption, LocalAssumption
<1>1. Init => TypeOK
  BY EmptyRolloutType DEF Init, LearnerInit, TypeOK
<1>2. TypeOK /\ [Next]_vars => TypeOK'
  <2> SUFFICES ASSUME TypeOK, [Next]_vars PROVE TypeOK'
    OBVIOUS
  <2> USE DEF TypeOK
  <2>1. ASSUME NEW terminal \in BOOLEAN, RunStep(terminal) PROVE TypeOK'
    <3> DEFINE step == [actor |-> "env", ep |-> episode, n |-> produced + 1, ver |-> version,
                        last |-> terminal]
               added == Add(rollout, step, terminal)
    <3>1. step \in Steps
      BY DEF Steps
    <3>2. added \in Rollouts /\ Len(added.steps) = Len(rollout.steps) + 1
      BY <3>1, AddType
    <3>3. [added EXCEPT !.r = step.n] \in Rollouts
          /\ [added EXCEPT !.r = step.n].steps = added.steps
      <4>1. step.n \in Nat
        OBVIOUS
      <4> HIDE DEF step, added
      <4> QED
        BY <3>2, <4>1, SetValueType
    <3>4. rollout' \in Rollouts /\ Len(rollout'.steps) = Len(rollout.steps) + 1
      BY <2>1, <3>2, <3>3 DEF RunStep
    <3>5. /\ rollout' = added \/ rollout' = [added EXCEPT !.r = step.n]
          /\ runner' \in {"run", "put"}
          /\ runner' = "run" => Len(added.steps) # LocalSteps
      BY <2>1 DEF RunStep
    <3>6. Len(rollout.steps) \in Nat /\ Len(rollout.steps) < LocalSteps
      BY <2>1 DEF RunStep, Rollouts
    <3>7. Len(rollout'.steps) <= LocalSteps
          /\ (runner' = "run" => Len(rollout'.steps) < LocalSteps)
      <4>1. LocalSteps \in Nat
        OBVIOUS
      <4>2. runner' = "run" => Len(rollout.steps) + 1 # LocalSteps
        BY <3>2, <3>5
      <4> HIDE DEF step, added
      <4> QED
        BY <3>4, <3>6, <4>1, <4>2
    <3>8. /\ length' \in 0..TimestepLimit - 1
          /\ episode' \in Nat
          /\ produced' \in 0..MaxProduced
      <4>1. produced < MaxProduced /\ produced' = produced + 1
        BY <2>1 DEF RunStep
      <4>2. episode' \in {episode, episode + 1}
        BY <2>1 DEF RunStep
      <4>3. \/ length' = 0
            \/ length' = length + 1 /\ ~(length + 1 >= TimestepLimit)
        BY <2>1 DEF RunStep
      <4>4. TimestepLimit \in Nat \ {0} /\ MaxProduced \in Nat
        OBVIOUS
      <4> HIDE DEF step, added
      <4> QED
        BY <4>1, <4>2, <4>3, <4>4
    <3>9. UNCHANGED learnerVars
      BY <2>1 DEF RunStep
    <3> QED
      BY <3>4, <3>5, <3>7, <3>8, <3>9 DEF learnerVars
  <2>2. CASE PutRollout
    BY <2>2, EmptyRolloutType DEF PutRollout
  <2>3. CASE PutTimesOut
    BY <2>3 DEF PutTimesOut, learnerVars
  <2>4. CASE GetRollout /\ UNCHANGED runnerVars
    <3>1. Head(queue) \in Rollouts /\ Tail(queue) \in Seq(Rollouts)
          /\ Len(Tail(queue)) = Len(queue) - 1
      BY <2>4 DEF GetRollout
    <3> QED
      BY <2>4, <3>1 DEF GetRollout, runnerVars
  <2>5. CASE ExtendBatch /\ UNCHANGED runnerVars
    <3>1. Head(queue) \in Rollouts /\ Tail(queue) \in Seq(Rollouts)
          /\ Len(Tail(queue)) = Len(queue) - 1
      BY <2>5 DEF ExtendBatch
    <3>2. Extend(batch, Head(queue)) \in Rollouts
      BY <3>1, ExtendType
    <3> QED
      BY <2>5, <3>1, <3>2 DEF ExtendBatch, runnerVars
  <2>6. CASE TrainBatch /\ UNCHANGED runnerVars
    <3>1. Len(batch.steps) \in Nat
      BY DEF Rollouts
    <3> QED
      BY <2>6, <3>1, EmptyRolloutType DEF TrainBatch, runnerVars
  <2>7. CASE GetTimesOut /\ UNCHANGED runnerVars
    BY <2>7 DEF GetTimesOut, runnerVars
  <2>8. CASE UNCHANGED vars
    BY <2>8 DEF vars, learnerVars, runnerVars
  <2> QED
    BY <2>1, <2>2, <2>3, <2>4, <2>5, <2>6, <2>7, <2>8 DEF Next, Run, Learn
<1> QED
  BY <1>1, <1>2, PTL DEF Spec

-----------------------------------------------------------------------------
\* PolicyLag for every queue size: a batch never holds a step that was chosen
\* with weights more than QueueSize + 1 copies old (process, lines 422-454,
\* with RunnerThread's queue of five: six).
THEOREM PolicyLagBounded == Spec => []PolicyLag
<1> USE QueueAssumption, LocalAssumption
<1>1. Init => LagInv
  BY DEF Init, LearnerInit, EmptyRollout, LagInv, QueueLag, RolloutLag, PolicyLag
<1>2. TypeOK /\ LagInv /\ [Next]_vars => LagInv'
  <2> SUFFICES ASSUME TypeOK, LagInv, [Next]_vars PROVE LagInv'
    OBVIOUS
  <2> USE DEF LagInv, Pending
  <2>n. /\ Len(queue) \in Nat /\ Len(queue) <= QueueSize
        /\ version \in Nat /\ QueueSize \in Nat
        /\ Pending \in 0..1 /\ Pending' \in 0..1
    BY DEF TypeOK
  <2>s. ASSUME NEW ro \in Rollouts
        PROVE  /\ ro.steps \in Seq(Steps) /\ Len(ro.steps) \in Nat
               /\ \A j \in 1..Len(ro.steps) : ro.steps[j].ver \in Nat
    <3>1. ro.steps \in Seq(Steps)
      BY DEF Rollouts
    <3>2. ASSUME NEW j \in 1..Len(ro.steps) PROVE ro.steps[j].ver \in Nat
      <4>1. ro.steps[j] \in Steps
        BY <3>1
      <4> QED
        BY <4>1 DEF Steps
    <3> QED
      BY <3>1, <3>2
  <2>r. /\ queue \in Seq(Rollouts) /\ batch \in Rollouts /\ rollout \in Rollouts
        /\ \A i \in 1..Len(queue) : queue[i] \in Rollouts
    BY DEF TypeOK
  <2>0. /\ queue \in Seq(Rollouts) /\ batch \in Rollouts /\ rollout \in Rollouts
        /\ batch.steps \in Seq(Steps) /\ rollout.steps \in Seq(Steps)
        /\ Len(queue) \in Nat /\ Len(queue) <= QueueSize
        /\ version \in Nat /\ QueueSize \in Nat
    BY <2>n, <2>s, <2>r
  <2>1. ASSUME NEW terminal \in BOOLEAN, RunStep(terminal) PROVE LagInv'
    <3> DEFINE step == [actor |-> "env", ep |-> episode, n |-> produced + 1, ver |-> version,
                        last |-> terminal]
               added == Add(rollout, step, terminal)
    <3>1. UNCHANGED <<queue, learner, batch, version>>
      BY <2>1 DEF RunStep, learnerVars
    <3>2. rollout'.steps = Append(rollout.steps, step)
      <4>1. step \in Steps
        BY DEF TypeOK, Steps
      <4>2. added \in Rollouts /\ added.steps = Append(rollout.steps, step)
        BY <4>1, <2>0, AddType
      <4>3. step.n \in Nat
        BY DEF TypeOK
      <4>4. rollout' = added \/ rollout' = [added EXCEPT !.r = step.n]
        BY <2>1 DEF RunStep
      <4> HIDE DEF step, added
      <4> QED
        BY <4>2, <4>3, <4>4, SetValueType
    <3>3. QueueLag' /\ PolicyLag'
      BY <3>1 DEF QueueLag, PolicyLag
    <3>4. step.ver = version
      OBVIOUS
    <3> HIDE DEF step, added
    <3>5. RolloutLag'
      <4> SUFFICES ASSUME NEW j \in 1..Len(rollout'.steps)
                   PROVE  version + Len(queue) + Pending <= rollout'.steps[j].ver + QueueSize + 1
        BY <3>1 DEF RolloutLag
      <4>1. CASE j \in 1..Len(rollout.steps)
        <5>1. rollout'.steps[j] = rollout.steps[j]
          BY <4>1, <3>2, <2>0
        <5> QED
          BY <4>1, <5>1 DEF RolloutLag
      <4>2. CASE j = Len(rollout.steps) + 1
        <5>1. rollout'.steps[j] = step
          BY <4>2, <3>2, <2>0
        <5> QED
          BY <5>1, <3>4, <2>n, <3>1
      <4> QED
        BY <4>1, <4>2, <3>2, <2>0
    <3> QED
      BY <3>3, <3>5
  <2>2. CASE PutRollout
    <3>1. /\ queue' = Append(queue, rollout) /\ Len(queue') = Len(queue) + 1
          /\ Len(rollout'.steps) = 0
          /\ UNCHANGED <<learner, batch, version>>
      BY <2>2, <2>0, EmptyRolloutType DEF PutRollout
    <3>2. QueueLag'
      <4> SUFFICES ASSUME NEW i \in 1..Len(queue'), NEW j \in 1..Len(queue'[i].steps)
                   PROVE  version + i + Pending <= queue'[i].steps[j].ver + QueueSize + 2
        BY <3>1 DEF QueueLag
      <4>1. CASE i \in 1..Len(queue)
        <5>1. queue'[i] = queue[i]
          BY <4>1, <3>1, <2>0
        <5>2. version + i + Pending <= queue[i].steps[j].ver + QueueSize + 2
          BY <4>1, <5>1 DEF QueueLag
        <5> QED
          BY <5>1, <5>2
      <4>2. CASE i = Len(queue) + 1
        <5>1. queue'[i] = rollout
          BY <4>2, <3>1, <2>0
        <5>2. version + Len(queue) + Pending <= rollout.steps[j].ver + QueueSize + 1
          BY <5>1 DEF RolloutLag
        <5>3. rollout.steps[j].ver \in Nat
          BY <5>1, <2>r, <2>s
        <5>4. version \in Nat /\ QueueSize \in Nat /\ Pending \in Nat /\ Len(queue) \in Nat
          BY <2>n
        <5> DEFINE v == rollout.steps[j].ver
        <5>5. version + Len(queue) + Pending <= v + QueueSize + 1 /\ v \in Nat
          BY <5>2, <5>3
        <5> HIDE DEF Pending, v
        <5>6. version + (Len(queue) + 1) + Pending <= v + QueueSize + 2
          BY <5>4, <5>5
        <5> QED
          BY <4>2, <5>1, <5>6 DEF v
      <4> QED
        BY <4>1, <4>2, <3>1, <2>0
    <3>3. RolloutLag' /\ PolicyLag'
      BY <3>1 DEF RolloutLag, PolicyLag
    <3> QED
      BY <3>2, <3>3
  <2>3. CASE PutTimesOut
    BY <2>3 DEF PutTimesOut, learnerVars, QueueLag, RolloutLag, PolicyLag
  \* A rollout leaves the queue: those behind it move one place to the front.
  <2>4. ASSUME queue # <<>>, queue' = Tail(queue), UNCHANGED <<version, rollout>>,
               Pending' <= Pending + 1
        PROVE  QueueLag' /\ RolloutLag'
    <3> HIDE DEF Pending
    <3>1. /\ Len(queue') = Len(queue) - 1
          /\ \A i \in 1..Len(queue') : queue'[i] = queue[i + 1] /\ i + 1 \in 1..Len(queue)
      BY <2>4, <2>r
    <3>2. QueueLag'
      <4> SUFFICES ASSUME NEW i \in 1..Len(queue'), NEW j \in 1..Len(queue'[i].steps)
                   PROVE  version + i + Pending' <= queue'[i].steps[j].ver + QueueSize + 2
        BY <2>4 DEF QueueLag
      <4> DEFINE v == queue'[i].steps[j].ver
      <4>1. queue'[i] = queue[i + 1] /\ i + 1 \in 1..Len(queue)
        BY <3>1
      <4>2. version + (i + 1) + Pending <= v + QueueSize + 2
        BY <4>1 DEF QueueLag
      <4>3. v \in Nat
        BY <4>1, <2>r, <2>s
      <4>4. i \in Nat
        BY <3>1, <2>n
      <4> HIDE DEF v
      <4>5. version + i + Pending' <= v + QueueSize + 2
        <5>1. Pending' <= Pending + 1
          BY <2>4
        <5>2. version \in Nat /\ QueueSize \in Nat /\ Pending \in Nat /\ Pending' \in Nat
          BY <2>n
        <5> QED
          BY <4>2, <4>3, <4>4, <5>1, <5>2, Shift
      <4> QED
        BY <4>5 DEF v
    <3>3. RolloutLag'
      <4> SUFFICES ASSUME NEW j \in 1..Len(rollout.steps)
                   PROVE  version + Len(queue') + Pending' <= rollout.steps[j].ver + QueueSize + 1
        BY <2>4 DEF RolloutLag
      <4> DEFINE v == rollout.steps[j].ver
      <4>1. version + Len(queue) + Pending <= v + QueueSize + 1
        BY DEF RolloutLag
      <4>2. v \in Nat
        BY <2>r, <2>s
      <4> HIDE DEF v
      <4>3. version + Len(queue') + Pending' <= v + QueueSize + 1
        BY <4>1, <4>2, <3>1, <2>4, <2>n
      <4> QED
        BY <4>3 DEF v
    <3> QED
      BY <3>2, <3>3
  <2>5. CASE GetRollout /\ UNCHANGED runnerVars
    <3>1. QueueLag' /\ RolloutLag'
      BY <2>4, <2>5 DEF GetRollout, runnerVars
    <3>2. PolicyLag'
      <4> SUFFICES ASSUME NEW j \in 1..Len(batch'.steps)
                   PROVE  version <= batch'.steps[j].ver + QueueSize + 1
        BY <2>5 DEF GetRollout, PolicyLag
      <4>1. batch' = queue[1] /\ 1 \in 1..Len(queue) /\ learner = "get"
        BY <2>5, <2>0 DEF GetRollout
      <4>2. version + 1 + 0 <= batch'.steps[j].ver + QueueSize + 2
        BY <4>1 DEF QueueLag
      <4>3. batch'.steps[j].ver \in Nat
        BY <4>1, <2>r, <2>s
      <4> QED
        BY <4>2, <4>3, <2>n
    <3> QED
      BY <3>1, <3>2
  <2>6. CASE ExtendBatch /\ UNCHANGED runnerVars
    <3>1. QueueLag' /\ RolloutLag'
      BY <2>4, <2>6 DEF ExtendBatch, runnerVars
    <3>2. PolicyLag'
      <4>1. /\ 1 \in 1..Len(queue) /\ Head(queue) = queue[1] /\ queue[1] \in Rollouts
            /\ learner = "extend" /\ version' = version
        BY <2>6, <2>0 DEF ExtendBatch
      <4>2. batch'.steps = batch.steps \o queue[1].steps
        BY <2>6, <4>1, <2>0, ExtendType DEF ExtendBatch
      <4> SUFFICES ASSUME NEW j \in 1..Len(batch'.steps)
                   PROVE  version <= batch'.steps[j].ver + QueueSize + 1
        BY <4>1 DEF PolicyLag
      <4>3. CASE j \in 1..Len(batch.steps)
        <5>1. batch'.steps[j] = batch.steps[j]
          BY <4>1, <4>2, <4>3, <2>0
        <5> QED
          BY <4>3, <5>1 DEF PolicyLag
      <4>4. CASE j \notin 1..Len(batch.steps)
        <5> DEFINE k == j - Len(batch.steps)
        <5>0. /\ batch.steps \in Seq(Steps) /\ queue[1].steps \in Seq(Steps)
              /\ j \in 1..Len(batch.steps \o queue[1].steps)
          BY <4>1, <4>2, <2>s, <2>r
        <5>1. /\ k \in 1..Len(queue[1].steps)
              /\ batch'.steps[j] = queue[1].steps[k]
          BY <5>0, <4>2, <4>4, ConcatIndex
        <5>2. version + 1 + 1 <= queue[1].steps[k].ver + QueueSize + 2
          BY <4>1, <5>1 DEF QueueLag
        <5> HIDE DEF k
        <5>3. queue[1].steps[k].ver \in Nat
          BY <4>1, <5>1, <2>s
        <5>4. version \in Nat /\ QueueSize \in Nat
          BY <2>n
        <5> DEFINE v == queue[1].steps[k].ver
        <5>5. version + 1 + 1 <= v + QueueSize + 2 /\ v \in Nat
          BY <5>2, <5>3
        <5> HIDE DEF v
        <5>6. version <= v + QueueSize + 1
          BY <5>4, <5>5
        <5>7. batch'.steps[j].ver = v
          BY <5>1 DEF v
        <5> QED
          BY <5>6, <5>7
      <4> QED
        BY <4>3, <4>4
    <3> QED
      BY <3>1, <3>2
  <2>7. CASE TrainBatch /\ UNCHANGED runnerVars
    <3>1. /\ UNCHANGED <<queue, rollout>> /\ learner = "extend"
          /\ version' \in {version, version + 1}
          /\ learner' # "extend" /\ Len(batch'.steps) = 0
      BY <2>7, EmptyRolloutType DEF TrainBatch, runnerVars
    <3>2. QueueLag'
      <4> SUFFICES ASSUME NEW i \in 1..Len(queue), NEW j \in 1..Len(queue[i].steps)
                   PROVE  version' + i + 0 <= queue[i].steps[j].ver + QueueSize + 2
        BY <3>1 DEF QueueLag
      <4> DEFINE v == queue[i].steps[j].ver
      <4>1. version + i + 1 <= v + QueueSize + 2
        BY <3>1 DEF QueueLag
      <4>2. v \in Nat /\ i \in Nat
        <5>1. queue[i] \in Rollouts
          BY <2>r
        <5>2. queue[i].steps[j].ver \in Nat
          BY <5>1, <2>s
        <5> QED
          BY <5>2
      <4> HIDE DEF v
      <4>3. version' + i + 0 <= v + QueueSize + 2
        <5>1. version' \in {version, version + 1}
          BY <3>1
        <5>2. version \in Nat /\ version' \in Nat /\ QueueSize \in Nat
          BY <2>n, <5>1
        <5> QED
          BY <4>1, <4>2, <5>1, <5>2, Shift
      <4> QED
        BY <4>3 DEF v
    <3>3. RolloutLag'
      <4> SUFFICES ASSUME NEW j \in 1..Len(rollout.steps)
                   PROVE  version' + Len(queue) + 0 <= rollout.steps[j].ver + QueueSize + 1
        BY <3>1 DEF RolloutLag
      <4> DEFINE v == rollout.steps[j].ver
                 l == Len(queue)
      <4>1. version + l + 1 <= v + QueueSize + 1
        BY <3>1 DEF RolloutLag
      <4>2. v \in Nat /\ l \in Nat /\ version \in Nat /\ QueueSize \in Nat
        BY <2>r, <2>s, <2>n
      <4>3. version' \in {version, version + 1}
        BY <3>1
      <4> HIDE DEF v, l
      <4>4. version' + l + 0 <= v + QueueSize + 1
        <5>1. CASE version' = version
          BY <4>1, <4>2, <5>1
        <5>2. CASE version' = version + 1
          BY <4>1, <4>2, <5>2
        <5> QED
          BY <4>3, <5>1, <5>2
      <4> QED
        BY <4>4 DEF v, l
    <3>4. PolicyLag'
      BY <3>1 DEF PolicyLag
    <3> QED
      BY <3>2, <3>3, <3>4
  <2>8. CASE GetTimesOut /\ UNCHANGED runnerVars
    BY <2>8 DEF GetTimesOut, runnerVars, QueueLag, RolloutLag, PolicyLag
  <2>9. CASE UNCHANGED vars
    BY <2>9 DEF vars, learnerVars, runnerVars, QueueLag, RolloutLag, PolicyLag
  <2> QED
    BY <2>1, <2>2, <2>3, <2>5, <2>6, <2>7, <2>8, <2>9 DEF Next, Run, Learn
<1> QED
  BY <1>1, <1>2, TypeCorrect, PTL DEF Spec, LagInv

-----------------------------------------------------------------------------
(***************************************************************************)
(* The flow of the steps. EachStepOnce is inductive but for the rollouts   *)
(* without a step; what makes a batch end where it should is what holds of *)
(* every rollout from the moment it is to be put in the queue.             *)
(***************************************************************************)

LastOf(ro) == ro.steps[Len(ro.steps)]

\* A rollout that is complete: terminal exactly when its last step and no
\* other ended the episode, and r set unless the episode was over.
Placed(ro) ==
  /\ ro.steps # <<>>
  /\ \A j \in 1..Len(ro.steps) - 1 : ~ro.steps[j].last
  /\ LastOf(ro).last <=> ro.terminal
  /\ ro.terminal => ro.r = 0 /\ episode > LastOf(ro).ep
  /\ ro.r # 0 => ro.r = LastOf(ro).n
  /\ episode > LastOf(ro).ep \/ ro.r = LastOf(ro).n

\* One that is being collected.
Collected(ro) ==
  ro.r = 0 /\ ~ro.terminal /\ \A j \in 1..Len(ro.steps) : ~ro.steps[j].last

PlacedInv ==
  /\ \A i \in 1..Len(queue) : Placed(queue[i])
  /\ IF learner = "extend" THEN Placed(batch) ELSE batch.steps = <<>>
  /\ IF runner = "run" THEN Collected(rollout) ELSE Placed(rollout)

\* The inductive invariant of the flow.
FlowInv == TypeOK /\ EachStepOnce /\ PlacedInv

-----------------------------------------------------------------------------
\* What a rollout is made of.
LEMMA RolloutParts ==
  ASSUME NEW ro \in Rollouts
  PROVE  /\ ro.steps \in Seq(Steps) /\ Len(ro.steps) \in Nat
         /\ ro.r \in Nat /\ ro.terminal \in BOOLEAN
         /\ ro.steps # <<>> => Len(ro.steps) \in 1..Len(ro.steps)
         /\ \A j \in 1..Len(ro.steps) : /\ ro.steps[j].n \in Nat /\ ro.steps[j].ep \in Nat
                                        /\ ro.steps[j].last \in BOOLEAN
<1>1. ro.steps \in Seq(Steps) /\ ro.r \in Nat /\ ro.terminal \in BOOLEAN
  BY DEF Rollouts
<1>2. \A j \in 1..Len(ro.steps) : ro.steps[j] \in Steps
  BY <1>1
<1>3. Len(ro.steps) \in Nat /\ (ro.steps # <<>> => Len(ro.steps) # 0)
  BY <1>1
<1>4. ro.steps # <<>> => Len(ro.steps) \in 1..Len(ro.steps)
  BY <1>3
<1> QED
  BY <1>1, <1>2, <1>3, <1>4 DEF Steps

\* Two sequences joined.
LEMMA ConcatParts ==
  ASSUME NEW S, NEW s \in Seq(S), NEW t \in Seq(S)
  PROVE  /\ Len(s \o t) = Len(s) + Len(t)
         /\ \A j \in 1..Len(s) : (s \o t)[j] = s[j]
         /\ \A j \in 1..Len(t) : (s \o t)[Len(s) + j] = t[j]
<1>1. Len(s) \in Nat /\ Len(t) \in Nat /\ Len(s \o t) = Len(s) + Len(t)
  OBVIOUS
<1>2. \A j \in 1..Len(s) : (s \o t)[j] = s[j]
  BY <1>1
<1>3. ASSUME NEW j \in 1..Len(t) PROVE (s \o t)[Len(s) + j] = t[j]
  <2>1. Len(s) + j \in 1..Len(s \o t) /\ Len(s) + j \notin 1..Len(s) /\ (Len(s) + j) - Len(s) = j
    BY <1>1
  <2> QED
    BY <2>1, ConcatIndex
<1> QED
  BY <1>1, <1>2, <1>3

\* The steps of two rollouts joined.
LEMMA Joined ==
  ASSUME NEW ro \in Rollouts, NEW other \in Rollouts, other.steps # <<>>
  PROVE  LET e == Extend(ro, other) IN
         /\ e \in Rollouts /\ e.r = other.r /\ e.terminal = other.terminal
         /\ Len(e.steps) = Len(ro.steps) + Len(other.steps) /\ e.steps # <<>>
         /\ \A j \in 1..Len(ro.steps) : e.steps[j] = ro.steps[j]
         /\ \A j \in 1..Len(other.steps) : e.steps[Len(ro.steps) + j] = other.steps[j]
         /\ LastOf(e) = LastOf(other)
<1> DEFINE e == Extend(ro, other)
<1>1. /\ e \in Rollouts /\ e.steps = ro.steps \o other.steps
  BY ExtendType
<1>2. e.r = other.r /\ e.terminal = other.terminal
  BY DEF Extend
<1>3. /\ ro.steps \in Seq(Steps) /\ other.steps \in Seq(Steps)
      /\ Len(ro.steps) \in Nat /\ Len(other.steps) \in Nat
      /\ Len(other.steps) \in 1..Len(other.steps)
  BY RolloutParts
<1> HIDE DEF e
<1>4. /\ Len(e.steps) = Len(ro.steps) + Len(other.steps)
      /\ \A j \in 1..Len(ro.steps) : e.steps[j] = ro.steps[j]
      /\ \A j \in 1..Len(other.steps) : e.steps[Len(ro.steps) + j] = other.steps[j]
  <2> DEFINE a == ro.steps
             b == other.steps
  <2>1. a \in Seq(Steps) /\ b \in Seq(Steps) /\ e.steps = a \o b
    BY <1>1, <1>3
  <2> HIDE DEF a, b
  <2>2. /\ Len(e.steps) = Len(a) + Len(b)
        /\ \A j \in 1..Len(a) : e.steps[j] = a[j]
        /\ \A j \in 1..Len(b) : e.steps[Len(a) + j] = b[j]
    BY <2>1, ConcatParts
  <2> QED
    BY <2>2 DEF a, b
<1>5. e.steps # <<>>
  <2> DEFINE c == Len(ro.steps)
             d == Len(other.steps)
             l == Len(e.steps)
  <2>1. c \in Nat /\ d \in Nat /\ d \in 1..d /\ l = c + d
    BY <1>3, <1>4
  <2>2. e.steps = <<>> => l = 0
    OBVIOUS
  <2> HIDE DEF c, d, l
  <2>3. l # 0
    BY <2>1
  <2> QED
    BY <2>2, <2>3
<1>6. LastOf(e) = LastOf(other)
  BY <1>3, <1>4 DEF LastOf
<1> QED
  BY <1>1, <1>2, <1>4, <1>5, <1>6 DEF e

\* extend keeps a rollout complete, when the first one is not terminal.
LEMMA ExtendPlaced ==
  ASSUME NEW ro \in Rollouts, NEW other \in Rollouts,
         Placed(ro), Placed(other), ~ro.terminal
  PROVE  Placed(Extend(ro, other))
<1> DEFINE e == Extend(ro, other)
<1>1. /\ e.r = other.r /\ e.terminal = other.terminal
      /\ Len(e.steps) = Len(ro.steps) + Len(other.steps) /\ e.steps # <<>>
      /\ \A j \in 1..Len(ro.steps) : e.steps[j] = ro.steps[j]
      /\ \A j \in 1..Len(other.steps) : e.steps[Len(ro.steps) + j] = other.steps[j]
      /\ LastOf(e) = LastOf(other)
  BY Joined DEF Placed
<1> HIDE DEF e
<1>2. /\ Len(ro.steps) \in Nat /\ Len(other.steps) \in Nat
      /\ \A j \in 1..Len(ro.steps) : ro.steps[j].last \in BOOLEAN
  BY RolloutParts
<1>3. \A j \in 1..Len(ro.steps) : ~ro.steps[j].last
  <2> SUFFICES ASSUME NEW j \in 1..Len(ro.steps) PROVE ~ro.steps[j].last
    OBVIOUS
  <2>1. CASE j = Len(ro.steps)
    BY <1>2, <2>1 DEF Placed, LastOf
  <2>2. CASE j # Len(ro.steps)
    <3>1. j \in 1..Len(ro.steps) - 1
      BY <1>2, <2>2
    <3> QED
      BY <3>1 DEF Placed
  <2> QED
    BY <2>1, <2>2
<1>4. ASSUME NEW j \in 1..Len(e.steps) - 1 PROVE ~e.steps[j].last
  <2>1. CASE j \in 1..Len(ro.steps)
    BY <1>1, <1>3, <2>1
  <2>2. CASE j \notin 1..Len(ro.steps)
    <3> DEFINE k == j - Len(ro.steps)
    <3>1. k \in 1..Len(other.steps) - 1 /\ k \in 1..Len(other.steps) /\ j = Len(ro.steps) + k
      <4> DEFINE a == Len(ro.steps)
                 b == Len(other.steps)
      <4>1. a \in Nat /\ b \in Nat /\ j \in 1..(a + b) - 1 /\ j \notin 1..a
        BY <1>1, <1>2, <2>2
      <4> HIDE DEF a, b
      <4>2. j - a \in 1..b - 1 /\ j - a \in 1..b /\ j = a + (j - a)
        BY <4>1
      <4> QED
        BY <4>2 DEF a, b
    <3> HIDE DEF k
    <3>2. e.steps[j] = other.steps[k]
      BY <1>1, <3>1
    <3> QED
      BY <3>1, <3>2 DEF Placed
  <2> QED
    BY <2>1, <2>2
<1>5. Placed(e)
  BY <1>1, <1>4 DEF Placed
<1> QED
  BY <1>5 DEF e

\* An episode that is over stays over.
LEMMA PlacedKept ==
  ASSUME NEW ro \in Rollouts, Placed(ro), episode \in Nat, episode' \in Nat, episode <= episode'
  PROVE  Placed(ro)'
<1>1. LastOf(ro).ep \in Nat
  BY RolloutParts DEF Placed, LastOf
<1>2. episode > LastOf(ro).ep => episode' > LastOf(ro).ep
  BY <1>1
<1> QED
  BY <1>2 DEF Placed, LastOf

-----------------------------------------------------------------------------
\* The first of the queue and those behind it.
LEMMA QueueParts ==
  ASSUME TypeOK
  PROVE  /\ Len(queue) \in Nat /\ globalStep \in Nat /\ produced \in Nat /\ episode \in Nat
         /\ batch \in Rollouts /\ rollout \in Rollouts
         /\ \A i \in 1..Len(queue) : queue[i] \in Rollouts
         /\ queue # <<>> =>
              /\ 1 \in 1..Len(queue) /\ Head(queue) = queue[1]
              /\ Len(Tail(queue)) = Len(queue) - 1
              /\ \A i \in 1..Len(queue) - 1 : Tail(queue)[i] = queue[i + 1]
<1>1. queue \in Seq(Rollouts)
  BY DEF TypeOK
<1>2. queue # <<>> =>
        /\ Head(queue) = queue[1]
        /\ Len(Tail(queue)) = Len(queue) - 1
        /\ \A i \in 1..Len(queue) - 1 : Tail(queue)[i] = queue[i + 1]
  BY <1>1
<1>3. Len(queue) \in Nat /\ (queue # <<>> => Len(queue) # 0)
  BY <1>1
<1>4. \A i \in 1..Len(queue) : queue[i] \in Rollouts
  BY <1>1
<1>5. queue # <<>> => 1 \in 1..Len(queue)
  BY <1>3
<1>6. produced \in Nat
  BY LocalAssumption DEF TypeOK
<1> QED
  BY <1>2, <1>3, <1>4, <1>5, <1>6 DEF TypeOK

\* The numbers the pieces of the flow begin behind.
LEMMA BeforeParts ==
  ASSUME FlowInv
  PROVE  /\ Before(1) = globalStep + Len(batch.steps)
         /\ \A i \in 1..Len(queue) :
              /\ i + 1 \in 1..Len(queue) + 1
              /\ Before(i + 1) = LastOf(queue[i]).n
              /\ Before(i + 1) = Before(i) + Len(queue[i].steps)
         /\ \A i \in 1..Len(queue) + 1 : Before(i) \in Nat
<1>1. /\ Len(queue) \in Nat /\ globalStep \in Nat /\ batch \in Rollouts
      /\ \A i \in 1..Len(queue) : queue[i] \in Rollouts
  BY QueueParts DEF FlowInv
<1>2. Before(1) = globalStep + Len(batch.steps) /\ Len(batch.steps) \in Nat
  BY <1>1, RolloutParts DEF Before
<1>3. ASSUME NEW i \in 1..Len(queue)
      PROVE  /\ i + 1 \in 1..Len(queue) + 1
             /\ Before(i + 1) = LastOf(queue[i]).n
             /\ LastOf(queue[i]).n \in Nat
             /\ Before(i + 1) = Before(i) + Len(queue[i].steps)
  <2>1. queue[i] \in Rollouts /\ queue[i].steps # <<>>
    BY <1>1 DEF FlowInv, EachStepOnce
  <2>2. Len(queue[i].steps) \in 1..Len(queue[i].steps) /\ LastOf(queue[i]).n \in Nat
    BY <2>1, RolloutParts DEF LastOf
  <2>3. i + 1 \in 1..Len(queue) + 1 /\ i + 1 # 1 /\ (i + 1) - 1 = i
    BY <1>1
  <2>4. Before(i + 1) = LastOf(queue[i]).n
    BY <2>3 DEF Before, LastOf
  <2>5. LastOf(queue[i]).n = Before(i) + Len(queue[i].steps)
    BY <2>2 DEF FlowInv, EachStepOnce, LastOf
  <2> QED
    BY <2>2, <2>3, <2>4, <2>5
<1>4. ASSUME NEW i \in 1..Len(queue) + 1 PROVE Before(i) \in Nat
  <2>1. CASE i = 1
    BY <1>1, <1>2, <2>1
  <2>2. CASE i # 1
    <3>1. i - 1 \in 1..Len(queue) /\ i = (i - 1) + 1
      BY <1>1, <2>2
    <3> QED
      BY <3>1, <1>3
  <2> QED
    BY <2>1, <2>2
<1> QED
  BY <1>2, <1>3, <1>4

\* A rollout leaves the queue and becomes the end of the batch: everything
\* behind it keeps its number.
LEMMA PopKeepsFlow ==
  ASSUME TypeOK, TypeOK', EachStepOnce, PlacedInv, queue # <<>>, queue' = Tail(queue),
         UNCHANGED <<globalStep, rollout, produced>>,
         batch'.steps # <<>>,
         \A j \in 1..Len(batch'.steps) : batch'.steps[j].n = globalStep + j,
         LastOf(batch') = LastOf(queue[1])
  PROVE  EachStepOnce'
<1>0. FlowInv
  BY DEF FlowInv
<1>1. /\ Len(queue) \in Nat /\ Len(queue') = Len(queue) - 1 /\ 1 \in 1..Len(queue)
      /\ \A i \in 1..Len(queue) - 1 : queue'[i] = queue[i + 1]
      /\ batch' \in Rollouts
  BY QueueParts DEF TypeOK
<1>2. globalStep' + Len(batch'.steps) = LastOf(queue[1]).n
  <2>1. Len(batch'.steps) \in 1..Len(batch'.steps)
    BY <1>1, RolloutParts
  <2> QED
    BY <2>1 DEF LastOf
<1>3. ASSUME NEW i \in 1..Len(queue') + 1
      PROVE  Before(i)' = Before(i + 1) /\ i + 1 \in 1..Len(queue) + 1
  <2>1. i \in 1..Len(queue) /\ i + 1 \in 1..Len(queue) + 1
    BY <1>1
  <2>2. Before(i + 1) = LastOf(queue[i]).n
    BY <1>0, <2>1, BeforeParts
  <2>3. CASE i = 1
    BY <1>2, <2>2, <2>3 DEF Before
  <2>4. CASE i # 1
    <3>1. i - 1 \in 1..Len(queue) - 1 /\ (i - 1) + 1 = i
      BY <1>1, <2>1, <2>4
    <3>2. queue'[i - 1] = queue[i]
      BY <1>1, <3>1
    <3> QED
      BY <2>2, <2>4, <3>2 DEF Before, LastOf
  <2> QED
    BY <2>1, <2>3, <2>4
<1>4. ASSUME NEW i \in 1..Len(queue')
      PROVE  /\ queue'[i].steps # <<>>
             /\ \A j \in 1..Len(queue'[i].steps) : queue'[i].steps[j].n = Before(i)' + j
  <2>1. i \in 1..Len(queue) - 1 /\ i + 1 \in 1..Len(queue) /\ i \in 1..Len(queue') + 1
    BY <1>1
  <2>2. queue'[i] = queue[i + 1] /\ Before(i)' = Before(i + 1)
    BY <1>1, <1>3, <2>1
  <2> QED
    BY <2>1, <2>2 DEF EachStepOnce
<1>5. Before(Len(queue) + 1)' = Before(Len(queue) + 1)
  <2>1. PICK l : l = Len(queue') + 1
    OBVIOUS
  <2>2. l \in 1..Len(queue') + 1 /\ l + 1 = Len(queue) + 1
    BY <1>1, <2>1
  <2>3. Before(l)' = Before(l + 1)
    BY <1>3, <2>2
  <2>4. Before(Len(queue) + 1)' = Before(l)'
    BY <2>1 DEF Before
  <2> QED
    BY <2>2, <2>3, <2>4
<1>6. /\ \A j \in 1..Len(rollout'.steps) : rollout'.steps[j].n = Before(Len(queue) + 1)' + j
      /\ produced' = Before(Len(queue) + 1)' + Len(rollout'.steps)
  BY <1>5 DEF EachStepOnce
<1> QED
  BY <1>4, <1>6 DEF EachStepOnce

-----------------------------------------------------------------------------
\* A turn of env_runner's loop adds the step behind the last one.
LEMMA RunStepFlow ==
  ASSUME FlowInv, TypeOK', NEW terminal \in BOOLEAN, RunStep(terminal)
  PROVE  FlowInv'
<1> DEFINE step == [actor |-> "env", ep |-> episode, n |-> produced + 1, ver |-> version,
                    last |-> terminal]
           added == Add(rollout, step, terminal)
           m == Len(rollout.steps)
<1>1. /\ Len(queue) \in Nat /\ produced \in Nat /\ episode \in Nat
      /\ rollout \in Rollouts /\ rollout' \in Rollouts /\ batch \in Rollouts
      /\ \A i \in 1..Len(queue) : queue[i] \in Rollouts
  BY QueueParts DEF FlowInv, TypeOK
<1>2. /\ runner = "run"
      /\ UNCHANGED <<queue, learner, batch, globalStep>>
      /\ produced' = produced + 1
      /\ episode' \in {episode, episode + 1} /\ (terminal => episode' = episode + 1)
      /\ runner' \in {"run", "put"}
  BY <1>1 DEF RunStep, learnerVars
<1>3. step \in Steps
  BY <1>1 DEF FlowInv, TypeOK, Steps
<1>4. /\ added \in Rollouts /\ added.steps = Append(rollout.steps, step)
      /\ added.r = rollout.r /\ added.terminal = terminal
  BY <1>1, <1>3, AddType DEF Add
<1>5. /\ rollout'.steps = Append(rollout.steps, step)
      /\ rollout'.terminal = terminal
      /\ \/ rollout'.r = rollout.r /\ (runner' = "put" => episode' = episode + 1)
         \/ rollout'.r = step.n /\ ~terminal /\ runner' = "put"
  <2>1. \/ rollout' = added /\ (runner' = "put" => episode' = episode + 1)
        \/ rollout' = [added EXCEPT !.r = step.n] /\ ~terminal /\ runner' = "put"
    <3> DEFINE end == terminal \/ length + 1 >= TimestepLimit
               full == Len(added.steps) = LocalSteps
    <3>1. /\ rollout' = IF full /\ ~end THEN [added EXCEPT !.r = step.n] ELSE added
          /\ runner' = IF end \/ full THEN "put" ELSE "run"
          /\ episode' = IF end THEN episode + 1 ELSE episode
      BY DEF RunStep
    <3>2. terminal => end
      OBVIOUS
    <3> HIDE DEF end, full, added, step
    <3> QED
      BY <3>1, <3>2
  <2>2. /\ [added EXCEPT !.r = step.n].steps = added.steps
        /\ [added EXCEPT !.r = step.n].terminal = added.terminal
        /\ [added EXCEPT !.r = step.n].r = step.n
    BY <1>4 DEF Rollouts
  <2> HIDE DEF added, step
  <2> QED
    BY <1>4, <2>1, <2>2
<1>11. runner' = "run" => ~terminal
  BY DEF RunStep
<1>6. step.n = produced + 1 /\ step.ep = episode /\ step.last = terminal
  OBVIOUS
<1>7. rollout.steps \in Seq(Steps) /\ m \in Nat
  BY <1>1, RolloutParts
<1> HIDE DEF step, added
<1>8. /\ Len(rollout'.steps) = m + 1 /\ rollout'.steps # <<>>
      /\ \A j \in 1..m : rollout'.steps[j] = rollout.steps[j]
      /\ rollout'.steps[m + 1] = step
  <2> DEFINE a == rollout.steps
  <2>1. a \in Seq(Steps) /\ rollout'.steps = Append(a, step)
    BY <1>5, <1>7
  <2> HIDE DEF a
  <2>2. /\ Len(Append(a, step)) = Len(a) + 1 /\ Append(a, step) # <<>>
        /\ \A j \in 1..Len(a) : Append(a, step)[j] = a[j]
        /\ Append(a, step)[Len(a) + 1] = step
    BY <1>3, <2>1, AppendProperties
  <2> QED
    BY <2>1, <2>2 DEF a
<1>9. EachStepOnce'
  <2>1. \A i : Before(i)' = Before(i)
    BY <1>2 DEF Before
  <2>2. Before(Len(queue) + 1)' = Before(Len(queue) + 1)
    BY <1>2 DEF Before
  <2>3. Before(Len(queue) + 1) \in Nat /\ produced = Before(Len(queue) + 1) + m
    <3>1. Len(queue) + 1 \in 1..Len(queue) + 1
      BY <1>1
    <3> QED
      BY <3>1, BeforeParts DEF FlowInv, EachStepOnce
  <2> DEFINE b == Before(Len(queue) + 1)
  <2>4. ASSUME NEW j \in 1..Len(rollout'.steps) PROVE rollout'.steps[j].n = b + j
    <3>1. CASE j \in 1..m
      BY <3>1, <1>8 DEF FlowInv, EachStepOnce
    <3>2. CASE j = m + 1
      <4>1. step.n = b + (m + 1)
        <5>1. produced = b + m /\ b \in Nat /\ m \in Nat
          BY <1>7, <2>3
        <5> HIDE DEF b, m
        <5> QED
          BY <5>1, <1>6
      <4> QED
        BY <3>2, <4>1, <1>8
    <3> QED
      BY <3>1, <3>2, <1>7, <1>8
  <2>5. produced' = b + Len(rollout'.steps)
    <3>1. produced = b + m /\ b \in Nat /\ m \in Nat
      BY <1>7, <2>3
    <3> HIDE DEF b, m
    <3> QED
      BY <3>1, <1>2, <1>8
  <2>6. /\ \A j \in 1..Len(batch'.steps) : batch'.steps[j].n = globalStep' + j
        /\ \A i \in 1..Len(queue') :
             /\ queue'[i].steps # <<>>
             /\ \A j \in 1..Len(queue'[i].steps) : queue'[i].steps[j].n = Before(i)' + j
    BY <1>2, <2>1 DEF FlowInv, EachStepOnce
  <2> QED
    BY <2>2, <2>4, <2>5, <2>6 DEF EachStepOnce
<1>10. PlacedInv'
  <2>1. episode' \in Nat /\ episode <= episode'
    BY <1>1, <1>2
  <2>2. ASSUME NEW i \in 1..Len(queue') PROVE Placed(queue[i])'
    <3>1. i \in 1..Len(queue) /\ queue'[i] = queue[i] /\ Placed(queue[i]) /\ queue[i] \in Rollouts
      BY <1>1, <1>2 DEF FlowInv, PlacedInv
    <3>2. PICK ro : ro = queue[i]
      OBVIOUS
    <3>3. Placed(ro)'
      BY <1>1, <2>1, <3>1, <3>2, PlacedKept
    <3> QED
      BY <3>1, <3>2, <3>3 DEF Placed, LastOf
  <2>3. learner' = "extend" => Placed(batch)'
    <3> SUFFICES ASSUME learner = "extend" PROVE Placed(batch)'
      BY <1>2
    <3>1. PICK ro : ro = batch
      OBVIOUS
    <3>2. Placed(ro)'
      BY <1>1, <2>1, <3>1, PlacedKept DEF FlowInv, PlacedInv
    <3> QED
      BY <1>2, <3>1, <3>2 DEF Placed, LastOf
  <2>4. learner' # "extend" => batch'.steps = <<>>
    BY <1>2 DEF FlowInv, PlacedInv
  <2>5. Collected(rollout)
    BY <1>2 DEF FlowInv, PlacedInv
  <2>6. ASSUME runner' = "run" PROVE Collected(rollout)'
    <3>1. rollout'.r = 0 /\ ~terminal
      <4>1. rollout'.r = rollout.r
        BY <1>5, <2>6
      <4>2. ~terminal
        BY <1>2, <2>6, <1>11
      <4> QED
        BY <2>5, <4>1, <4>2 DEF Collected
    <3> QED
      BY <1>5, <1>6, <1>7, <1>8, <2>5, <3>1 DEF Collected
  <2>7. ASSUME runner' = "put" PROVE Placed(rollout)'
    <3>1. LastOf(rollout)' = step
      BY <1>8 DEF LastOf
    <3>2. \A j \in 1..Len(rollout'.steps) - 1 : ~rollout'.steps[j].last
      BY <1>7, <1>8, <2>5 DEF Collected
    <3>3. step.n # 0 /\ step.last = terminal /\ step.ep = episode
      BY <1>1, <1>6
    <3>4. Placed(rollout)'
      <4>1. rollout.r = 0
        BY <2>5 DEF Collected
      <4>2. episode' > episode \/ rollout'.r = step.n
        BY <1>1, <1>5, <2>7
      <4>3. terminal => rollout'.r = 0 /\ episode' > episode
        BY <1>1, <1>2, <1>5, <4>1
      <4>4. rollout'.r # 0 => rollout'.r = step.n
        BY <1>5, <4>1
      <4> QED
        BY <1>5, <1>8, <3>1, <3>2, <3>3, <4>2, <4>3, <4>4 DEF Placed
    <3> QED
      BY <3>4
  <2> QED
    BY <1>2, <2>2, <2>3, <2>4, <2>6, <2>7 DEF PlacedInv
<1> QED
  BY <1>9, <1>10 DEF FlowInv

\* The rollout is put behind the others.
LEMMA PutFlow ==
  ASSUME FlowInv, TypeOK', PutRollout
  PROVE  FlowInv'
<1>1. /\ Len(queue) \in Nat /\ queue \in Seq(Rollouts)
      /\ rollout \in Rollouts /\ batch \in Rollouts
      /\ rollout.steps # <<>> /\ Placed(rollout)
  BY QueueParts DEF FlowInv, TypeOK, PutRollout, PlacedInv, Placed
<1>2. /\ UNCHANGED <<learner, batch, globalStep, episode, produced>>
      /\ runner' = "run" /\ rollout' = EmptyRollout
  BY DEF PutRollout
<1>3. /\ Len(queue') = Len(queue) + 1
      /\ \A i \in 1..Len(queue) : queue'[i] = queue[i]
      /\ queue'[Len(queue) + 1] = rollout
  <2>1. queue' = Append(queue, rollout)
    BY DEF PutRollout
  <2> QED
    BY <1>1, <2>1, AppendProperties
<1>4. ASSUME NEW i \in 1..Len(queue) + 1 PROVE Before(i)' = Before(i)
  <2>1. CASE i = 1
    BY <1>2, <2>1 DEF Before
  <2>2. CASE i # 1
    <3>1. i - 1 \in 1..Len(queue)
      BY <1>1, <2>2
    <3> QED
      BY <1>2, <1>3, <2>2, <3>1 DEF Before
  <2> QED
    BY <2>1, <2>2
<1>5. /\ Len(rollout.steps) \in 1..Len(rollout.steps)
      /\ LastOf(rollout).n = produced /\ produced \in Nat
  <2>1. Len(rollout.steps) \in 1..Len(rollout.steps) /\ produced \in Nat
    BY <1>1, RolloutParts, QueueParts DEF FlowInv
  <2> QED
    BY <2>1 DEF LastOf, FlowInv, EachStepOnce
<1>6. Before(Len(queue) + 1)' = produced
  <2>1. PICK l : l = Len(queue) + 2
    OBVIOUS
  <2>2. Before(Len(queue) + 1)' = Before(l)'
    <3>1. Len(queue') + 1 = l
      BY <1>1, <1>3, <2>1
    <3> QED
      BY <3>1 DEF Before
  <2>3. Before(l)' = LastOf(rollout).n
    <3>1. l # 1 /\ l - 1 = Len(queue) + 1
      BY <1>1, <2>1
    <3> QED
      BY <1>3, <3>1 DEF Before, LastOf
  <2> QED
    BY <1>5, <2>2, <2>3
<1>7. ASSUME NEW i \in 1..Len(queue')
      PROVE  /\ queue'[i].steps # <<>>
             /\ \A j \in 1..Len(queue'[i].steps) : queue'[i].steps[j].n = Before(i)' + j
  <2>0. i \in 1..Len(queue) + 1
    BY <1>3
  <2>1. CASE i \in 1..Len(queue)
    BY <1>3, <1>4, <2>0, <2>1 DEF FlowInv, EachStepOnce
  <2>2. CASE i = Len(queue) + 1
    <3>1. Before(i)' = Before(Len(queue) + 1)
      BY <1>4, <2>0, <2>2
    <3> QED
      BY <1>1, <1>3, <2>2, <3>1 DEF FlowInv, EachStepOnce
  <2> QED
    BY <1>1, <2>0, <2>1, <2>2
<1>8. Len(rollout'.steps) = 0
  BY <1>2, EmptyRolloutType
<1>9. EachStepOnce'
  <2>1. produced' = Before(Len(queue) + 1)' + Len(rollout'.steps)
    BY <1>2, <1>5, <1>6, <1>8
  <2>2. \A j \in 1..Len(rollout'.steps) : rollout'.steps[j].n = Before(Len(queue) + 1)' + j
    BY <1>8
  <2>3. \A j \in 1..Len(batch'.steps) : batch'.steps[j].n = globalStep' + j
    BY <1>2 DEF FlowInv, EachStepOnce
  <2> QED
    BY <1>7, <2>1, <2>2, <2>3 DEF EachStepOnce
<1>10. PlacedInv'
  <2>1. ASSUME NEW i \in 1..Len(queue') PROVE Placed(queue[i])'
    <3>1. CASE i \in 1..Len(queue)
      BY <1>2, <1>3, <3>1 DEF FlowInv, PlacedInv, Placed, LastOf
    <3>2. CASE i = Len(queue) + 1
      BY <1>1, <1>2, <1>3, <3>2 DEF Placed, LastOf
    <3> QED
      BY <1>1, <1>3, <3>1, <3>2
  <2>2. IF learner' = "extend" THEN Placed(batch)' ELSE batch'.steps = <<>>
    BY <1>2 DEF FlowInv, PlacedInv, Placed, LastOf
  <2>3. Collected(rollout)'
    BY <1>2 DEF Collected, EmptyRollout
  <2> QED
    BY <1>2, <2>1, <2>2, <2>3 DEF PlacedInv
<1> QED
  BY <1>9, <1>10 DEF FlowInv

\* A rollout is taken from the queue, as the batch or as its next part.
LEMMA TakeFlow ==
  ASSUME FlowInv, TypeOK', UNCHANGED runnerVars,
         GetRollout \/ ExtendBatch
  PROVE  FlowInv'
<1>1. /\ Len(queue) \in Nat /\ batch \in Rollouts /\ globalStep \in Nat
      /\ queue # <<>> /\ queue' = Tail(queue)
      /\ 1 \in 1..Len(queue) /\ Head(queue) = queue[1] /\ queue[1] \in Rollouts
      /\ Len(queue') = Len(queue) - 1
      /\ \A i \in 1..Len(queue) - 1 : queue'[i] = queue[i + 1]
      /\ UNCHANGED <<globalStep, rollout, produced, episode, runner>>
      /\ learner' = "extend"
  BY QueueParts DEF FlowInv, GetRollout, ExtendBatch, runnerVars
<1>2. Placed(queue[1]) /\ queue[1].steps # <<>> /\ Before(1) = globalStep + Len(batch.steps)
  BY <1>1 DEF FlowInv, PlacedInv, Placed, Before
<1>3. /\ batch'.steps # <<>>
      /\ \A j \in 1..Len(batch'.steps) : batch'.steps[j].n = globalStep + j
      /\ LastOf(batch') = LastOf(queue[1])
      /\ Placed(batch)'
  <2>1. CASE GetRollout
    <3>1. batch' = queue[1] /\ Len(batch.steps) = 0
      BY <1>1, <2>1 DEF GetRollout, FlowInv, PlacedInv
    <3>2. Before(1) = globalStep
      BY <1>1, <1>2, <3>1
    <3> QED
      BY <1>1, <1>2, <3>1, <3>2 DEF FlowInv, EachStepOnce, Placed, LastOf
  <2>2. CASE ExtendBatch
    <3>1. batch' = Extend(batch, queue[1]) /\ ~batch.terminal /\ Placed(batch)
      BY <1>1, <2>2 DEF ExtendBatch, FlowInv, PlacedInv
    <3> DEFINE a == Len(batch.steps)
               c == Len(queue[1].steps)
    <3>2. /\ Len(batch'.steps) = a + c
          /\ batch'.steps # <<>>
          /\ \A j \in 1..a : batch'.steps[j] = batch.steps[j]
          /\ \A j \in 1..c : batch'.steps[a + j] = queue[1].steps[j]
          /\ LastOf(batch') = LastOf(queue[1])
      BY <1>1, <1>2, <3>1, Joined
    <3>3. a \in Nat /\ c \in Nat
      BY <1>1, RolloutParts
    <3>4. /\ \A j \in 1..a : batch.steps[j].n = globalStep + j
          /\ \A j \in 1..c : queue[1].steps[j].n = (globalStep + a) + j
      BY <1>1, <1>2 DEF FlowInv, EachStepOnce
    <3>5. Placed(batch)'
      <4>1. PICK e : e = Extend(batch, queue[1])
        OBVIOUS
      <4>2. Placed(e)
        BY <1>1, <1>2, <3>1, <4>1, ExtendPlaced
      <4>3. batch' = e /\ episode' = episode
        BY <1>1, <3>1, <4>1
      <4> QED
        BY <4>2, <4>3 DEF Placed, LastOf
    <3> HIDE DEF a, c
    <3>6. ASSUME NEW j \in 1..Len(batch'.steps) PROVE batch'.steps[j].n = globalStep + j
      <4>1. CASE j \in 1..a
        BY <3>2, <3>4, <4>1
      <4>2. CASE j \notin 1..a
        <5>1. j - a \in 1..c /\ a + (j - a) = j /\ (globalStep + a) + (j - a) = globalStep + j
          BY <1>1, <3>2, <3>3, <4>2
        <5> QED
          BY <3>2, <3>4, <5>1
      <4> QED
        BY <4>1, <4>2
    <3> QED
      BY <3>2, <3>5, <3>6
  <2> QED
    BY <2>1, <2>2
<1>4. EachStepOnce'
  BY <1>1, <1>3, PopKeepsFlow DEF FlowInv
<1>5. PlacedInv'
  <2>1. ASSUME NEW i \in 1..Len(queue') PROVE Placed(queue[i])'
    <3>1. i + 1 \in 1..Len(queue) /\ queue'[i] = queue[i + 1]
      BY <1>1
    <3> QED
      BY <1>1, <3>1 DEF FlowInv, PlacedInv, Placed, LastOf
  <2>2. IF runner' = "run" THEN Collected(rollout)' ELSE Placed(rollout)'
    BY <1>1 DEF FlowInv, PlacedInv, Placed, LastOf, Collected
  <2> QED
    BY <1>1, <1>3, <2>1, <2>2 DEF PlacedInv
<1> QED
  BY <1>4, <1>5 DEF FlowInv

\* The batch is trained on: what was in it has been trained on.
LEMMA TrainFlow ==
  ASSUME FlowInv, TypeOK', UNCHANGED runnerVars, TrainBatch
  PROVE  FlowInv'
<1>1. /\ UNCHANGED <<queue, rollout, produced, episode, runner>>
      /\ globalStep' = globalStep + Len(batch.steps)
      /\ batch' = EmptyRollout /\ learner' # "extend"
      /\ globalStep \in Nat /\ Len(batch.steps) \in Nat
  BY QueueParts, RolloutParts DEF FlowInv, TrainBatch, runnerVars
<1>2. batch'.steps = <<>> /\ Len(batch'.steps) = 0
  BY <1>1 DEF EmptyRollout
<1>3. globalStep' + Len(batch'.steps) = globalStep + Len(batch.steps)
  BY <1>1, <1>2
<1>4. EachStepOnce'
  <2>1. \A i : Before(i)' = Before(i)
    BY <1>1, <1>3 DEF Before
  <2>2. Before(Len(queue) + 1)' = Before(Len(queue) + 1)
    BY <1>1, <1>3 DEF Before
  <2> QED
    BY <1>1, <1>2, <2>1, <2>2 DEF FlowInv, EachStepOnce
<1>5. PlacedInv'
  BY <1>1, <1>2 DEF FlowInv, PlacedInv, Placed, LastOf, Collected
<1> QED
  BY <1>4, <1>5 DEF FlowInv

\* A timeout moves no step.
LEMMA RestFlow ==
  ASSUME FlowInv, TypeOK',
         PutTimesOut \/ (GetTimesOut /\ UNCHANGED runnerVars) \/ UNCHANGED vars
  PROVE  FlowInv'
<1>1. /\ UNCHANGED <<queue, batch, globalStep, rollout, produced, episode>>
      /\ learner' = learner \/ (learner = "get" /\ learner' = "dead")
      /\ runner' = runner \/ (runner = "put" /\ runner' = "dead")
  BY DEF PutTimesOut, GetTimesOut, vars, learnerVars, runnerVars
<1>2. EachStepOnce'
  BY <1>1 DEF FlowInv, EachStepOnce, Before
<1>3. PlacedInv'
  BY <1>1 DEF FlowInv, PlacedInv, Placed, LastOf, Collected
<1> QED
  BY <1>2, <1>3 DEF FlowInv

-----------------------------------------------------------------------------
\* The flow of the steps between env_runner, the queue and process is as
\* FlowInv says in every state.
THEOREM FlowInvariance == Spec => []FlowInv
<1>1. Init /\ TypeOK => FlowInv
  <2> SUFFICES ASSUME Init, TypeOK PROVE EachStepOnce /\ PlacedInv
    BY DEF FlowInv
  <2>1. /\ queue = <<>> /\ batch = EmptyRollout /\ rollout = EmptyRollout
        /\ learner = "get" /\ runner = "run" /\ produced = 0 /\ globalStep = 0
    BY DEF Init, LearnerInit
  <2>2. Len(queue) = 0 /\ batch.steps = <<>> /\ rollout.steps = <<>>
        /\ rollout.r = 0 /\ ~rollout.terminal
    BY <2>1 DEF EmptyRollout
  <2>3. Len(batch.steps) = 0 /\ Len(rollout.steps) = 0
    BY <2>2
  <2>4. Before(Len(queue) + 1) = 0
    BY <2>1, <2>2, <2>3 DEF Before
  <2>5. EachStepOnce
    BY <2>1, <2>2, <2>3, <2>4 DEF EachStepOnce
  <2>6. PlacedInv
    BY <2>1, <2>2, <2>3 DEF PlacedInv, Collected
  <2> QED
    BY <2>5, <2>6
<1>2. FlowInv /\ TypeOK' /\ [Next]_vars => FlowInv'
  BY RunStepFlow, PutFlow, TakeFlow, TrainFlow, RestFlow DEF Next, Run, Learn
<1> QED
  BY <1>1, <1>2, TypeCorrect, PTL DEF Spec

\* EachStepOnce for every queue size, rollout length and time limit: the steps
\* of the environment reach the train operation each once and in their order
\* (env_runner, RunnerThread, pull_batch_from_queue).
THEOREM EachStepOnceAlways == Spec => []EachStepOnce
<1>1. FlowInv => EachStepOnce
  BY DEF FlowInv
<1> QED
  BY <1>1, FlowInvariance, PTL

\* LastEndsBatch for every queue size and rollout length: a batch never has a
\* step behind one that ended an episode (the assertion in extend, line 177).
THEOREM LastEndsBatchAlways == Spec => []LastEndsBatch
<1>1. FlowInv => LastEndsBatch
  <2> SUFFICES ASSUME FlowInv PROVE LastEndsBatch
    OBVIOUS
  <2>1. CASE learner = "extend"
    BY <2>1 DEF FlowInv, PlacedInv, Placed, LastEndsBatch
  <2>2. CASE learner # "extend"
    <3>1. Len(batch.steps) = 0
      BY <2>2 DEF FlowInv, PlacedInv
    <3> QED
      BY <3>1 DEF LastEndsBatch
  <2> QED
    BY <2>1, <2>2
<1> QED
  BY <1>1, FlowInvariance, PTL

\* Bootstrapped for every queue size and rollout length: the value that closes
\* a batch is that of the state behind its last step, or none at the end of an
\* episode (env_runner, lines 277-278, and extend).
THEOREM BootstrappedAlways == Spec => []Bootstrapped
<1>1. FlowInv => Bootstrapped
  BY DEF FlowInv, PlacedInv, Placed, LastOf, Bootstrapped, BatchComplete
<1> QED
  BY <1>1, FlowInvariance, PTL
=============================================================================
