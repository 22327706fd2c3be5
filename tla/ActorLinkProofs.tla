--------------------------- MODULE ActorLinkProofs ---------------------------
(***************************************************************************)
(* Proofs about ActorLink for every rollout length and time limit and any  *)
(* number of observations: the actor and its thread take turns, and what   *)
(* is stored with an action is the answer to it.                           *)
(***************************************************************************)
EXTENDS ActorLink, SequenceTheorems, TLAPS

Header == [part |-> "head", of |-> reply]
Body == [part |-> "body", of |-> reply]

\* The thread chooses an action for the last observation.
Choosing ==
  /\ toWorker = <<>> /\ toActor = <<>> /\ lastState = obs
  /\ actor \in {"recv", "dead"} /\ thread \in {"act", "dead"}

\* The action, or 'rest', is on its way.
Asked ==
  /\ toWorker = <<>>
  /\ \/ waitFor = "step" /\ toActor = <<acts>> /\ acts # Rest /\ lastState = obs
     \/ waitFor = "rest" /\ toActor = <<Rest>>
  /\ actor \in {"recv", "dead"} /\ thread \in {"header", "dead"}

\* The actor's message, sent or not, is the answer to the thread's.
Answer ==
  /\ toActor = <<>> /\ reply.obs = obs
  /\ waitFor = "step" =>
       reply.kind = "step" /\ reply.act = acts /\ reply.obs = lastState + 1

\* How much of it is sent, and how much received.
Sending ==
  \/ /\ toWorker = <<>>
     /\ actor \in {"head", "dead"} /\ thread \in {"header", "dead"}
  \/ /\ toWorker = <<Header>>
     /\ actor \in {"body", "dead"} /\ thread \in {"header", "dead"}
  \/ /\ toWorker = <<>>
     /\ actor \in {"body", "dead"} /\ thread \in {"body", "dead"}
  \/ /\ toWorker = <<Header, Body>>
     /\ actor \in {"recv", "dead"} /\ thread \in {"header", "dead"}
  \/ /\ toWorker = <<Body>>
     /\ actor \in {"recv", "dead"} /\ thread \in {"body", "dead"}

Turns == Choosing \/ Asked \/ (Answer /\ Sending)

\* Up to the end of the stream the two take turns; then nothing comes any more.
IInv ==
  /\ TypeOK
  /\ thread = "dead" \/ reset => actor = "dead"
  /\ stale = 0 => Turns /\ Paired
  /\ stale # 0 => actor = "dead" /\ toWorker = <<>> /\ thread # "body"

-----------------------------------------------------------------------------
\* A constructed answer is one.
LEMMA ReplyType ==
  ASSUME TypeOK, NEW command \in Nat, NEW terminal \in BOOLEAN
  PROVE  Reply(command, terminal) \in Replies
  BY DEF TypeOK, Reply, Replies, Rest

\* What After leaves behind, whichever of the thread's three receives it follows.
LEMMA AfterType ==
  ASSUME TypeOK, NEW m \in Replies, After(m)
  PROVE  /\ thread' \in {"act", "header"}
         /\ waitFor' \in {"first", "step", "rest"}
         /\ toActor' \in Seq(Nat)
         /\ lastState' \in Nat
         /\ rollout' \in Seq([obs : Nat, act : Nat, reply : Replies])
         /\ Len(rollout') < LocalSteps
         /\ length' \in 0..TimestepLimit - 1
<1> USE LinkAssumption DEF TypeOK
<1>0. m.obs \in Nat
  BY DEF Replies
<1>1. CASE AfterFirst(m)
  BY <1>0, <1>1 DEF AfterFirst
<1>2. CASE AfterStep(m)
  <2> DEFINE step == [obs |-> lastState, act |-> acts, reply |-> m]
             added == Append(rollout, step)
  <2>1. step \in [obs : Nat, act : Nat, reply : Replies]
    OBVIOUS
  <2>2. /\ added \in Seq([obs : Nat, act : Nat, reply : Replies])
        /\ Len(added) = Len(rollout) + 1 /\ Len(rollout) \in Nat
    <3> HIDE DEF step
    <3> QED
      BY <2>1
  <2>3. rollout' = <<>> \/ (rollout' = added /\ Len(added) # LocalSteps)
    BY <1>2 DEF AfterStep
  <2>4. rollout' \in Seq([obs : Nat, act : Nat, reply : Replies]) /\ Len(rollout') < LocalSteps
    <3>1. LocalSteps \in Nat \ {0} /\ Len(rollout) < LocalSteps
      OBVIOUS
    <3> HIDE DEF added, TypeOK
    <3>2. CASE rollout' = <<>>
      <4>1. Len(rollout') = 0
        BY <3>2
      <4> QED
        BY <3>1, <3>2, <4>1
    <3>3. CASE rollout' = added /\ Len(added) # LocalSteps
      BY <2>2, <3>1, <3>3
    <3> QED
      BY <2>3, <3>2, <3>3
  <2>5. length' = 0 \/ (length' = length + 1 /\ ~(length + 1 >= TimestepLimit))
    BY <1>2 DEF AfterStep
  <2>6. length' \in 0..TimestepLimit - 1
    BY <2>5
  <2>7. toActor' = toActor \/ toActor' = Append(toActor, Rest)
    BY <1>2 DEF AfterStep
  <2>8. toActor' \in Seq(Nat)
    <3>1. toActor \in Seq(Nat) /\ Rest \in Nat
      BY DEF Rest
    <3> HIDE DEF TypeOK
    <3>2. Append(toActor, Rest) \in Seq(Nat)
      BY <3>1, AppendProperties
    <3> QED
      BY <2>7, <3>1, <3>2
  <2>9. lastState' \in Nat /\ thread' \in {"act", "header"}
        /\ waitFor' \in {"first", "step", "rest"}
    BY <1>0, <1>2 DEF AfterStep
  <2> QED
    BY <2>4, <2>6, <2>8, <2>9
<1> QED
  BY <1>1, <1>2 DEF After

-----------------------------------------------------------------------------
LEMMA TypeStep == TypeOK /\ [Next]_vars => TypeOK'
<1> SUFFICES ASSUME TypeOK, [Next]_vars PROVE TypeOK'
  OBVIOUS
<1> USE DEF TypeOK
<1>1. ASSUME NEW terminal \in BOOLEAN, ActorRecv(terminal) PROVE TypeOK'
  <2>1. Head(toActor) \in Nat /\ Tail(toActor) \in Seq(Nat)
    BY <1>1 DEF ActorRecv
  <2>2. reply' \in Replies
    BY <2>1, <1>1, ReplyType DEF ActorRecv
  <2> QED
    BY <2>1, <2>2, <1>1 DEF ActorRecv, threadVars
<1>2. CASE ActorSend
  <2>1. [part |-> actor, of |-> reply] \in [part : {"head", "body"}, of : Replies]
    BY <1>2 DEF ActorSend
  <2>2. toWorker' \in Seq([part : {"head", "body"}, of : Replies])
    BY <2>1, <1>2 DEF ActorSend
  <2> QED
    BY <2>2, <1>2 DEF ActorSend, threadVars
<1>3. CASE ActorEnds
  BY <1>3 DEF ActorEnds, threadVars
<1>4. CASE ResetArrives
  BY <1>4 DEF ResetArrives, actorVars, threadVars
<1>5. CASE Act
  <2>1. acts' \in Nat /\ toActor' \in Seq(Nat)
    BY <1>5 DEF Act
  <2> QED
    BY <2>1, <1>5 DEF Act, actorVars
<1>6. CASE RecvHeader
  <2>1. toWorker' \in Seq([part : {"head", "body"}, of : Replies])
    BY <1>6 DEF RecvHeader
  <2> QED
    BY <2>1, <1>6 DEF RecvHeader, actorVars
<1>7. CASE RecvBody
  <2>1. /\ toWorker' \in Seq([part : {"head", "body"}, of : Replies])
        /\ Head(toWorker).of \in Replies
    <3>1. /\ toWorker \in Seq([part : {"head", "body"}, of : Replies])
          /\ toWorker # <<>> /\ toWorker' = Tail(toWorker)
      BY <1>7 DEF RecvBody
    <3>2. /\ Tail(toWorker) \in Seq([part : {"head", "body"}, of : Replies])
          /\ Head(toWorker) \in [part : {"head", "body"}, of : Replies]
      BY <3>1, HeadTailProperties
    <3> HIDE DEF TypeOK
    <3> QED
      BY <3>1, <3>2
  <2>2. message' = Head(toWorker).of /\ After(Head(toWorker).of)
    BY <1>7 DEF RecvBody
  <2>3. /\ thread' \in {"act", "header"}
        /\ waitFor' \in {"first", "step", "rest"}
        /\ toActor' \in Seq(Nat)
        /\ lastState' \in Nat
        /\ rollout' \in Seq([obs : Nat, act : Nat, reply : Replies])
        /\ Len(rollout') < LocalSteps
        /\ length' \in 0..TimestepLimit - 1
    <3> HIDE DEF TypeOK
    <3> QED
      BY <2>1, <2>2, AfterType
  <2>4. /\ UNCHANGED <<actor, obs, reply, reset, acts, stale>>
    BY <1>7 DEF RecvBody, actorVars
  <2> QED
    BY <2>1, <2>2, <2>3, <2>4
<1>8. CASE RecvEnd
  <2>1. UNCHANGED <<actor, obs, reply, toWorker, reset, message, acts>>
    BY <1>8 DEF RecvEnd, actorVars
  <2>2. CASE waitFor = "first"
    BY <2>1, <2>2, <1>8 DEF RecvEnd
  <2>3. CASE waitFor # "first"
    <3>1. After(message) /\ stale' \in Nat
      BY <2>3, <1>8 DEF RecvEnd
    <3>2. /\ thread' \in {"act", "header"}
          /\ waitFor' \in {"first", "step", "rest"}
          /\ toActor' \in Seq(Nat)
          /\ lastState' \in Nat
          /\ rollout' \in Seq([obs : Nat, act : Nat, reply : Replies])
          /\ Len(rollout') < LocalSteps
          /\ length' \in 0..TimestepLimit - 1
      <4>1. message \in Replies
        OBVIOUS
      <4> HIDE DEF TypeOK
      <4> QED
        BY <3>1, <4>1, AfterType
    <3> QED
      BY <2>1, <3>1, <3>2
  <2> QED
    BY <2>2, <2>3
<1>9. CASE ConnectionError
  BY <1>9 DEF ConnectionError, actorVars
<1>10. CASE UNCHANGED vars
  BY <1>10 DEF vars, actorVars, threadVars
<1> QED
  BY <1>1, <1>2, <1>3, <1>4, <1>5, <1>6, <1>7, <1>8, <1>9, <1>10
     DEF Next, Actor, Thread

-----------------------------------------------------------------------------
\* The streams hold at most a header and a body.
LEMMA Streams ==
  ASSUME NEW a, NEW b
  PROVE  /\ Append(<<>>, a) = <<a>> /\ Append(<<a>>, b) = <<a, b>>
         /\ Tail(<<a>>) = <<>> /\ Tail(<<a, b>>) = <<b>>
         /\ Head(<<a>>) = a /\ Head(<<a, b>>) = a
         /\ <<a>> # <<>> /\ <<a, b>> # <<>>
<1>1. Append(<<>>, a) = <<a>>
  OBVIOUS
<1>2. Append(<<a>>, b) = <<a, b>>
  <2>1. <<a>> \in Seq({a, b}) /\ Len(<<a>>) = 1 /\ <<a>>[1] = a
    OBVIOUS
  <2>2. /\ Append(<<a>>, b) \in Seq({a, b}) /\ Len(Append(<<a>>, b)) = 2
        /\ Append(<<a>>, b)[1] = a /\ Append(<<a>>, b)[2] = b
    BY <2>1, AppendProperties
  <2>3. /\ <<a, b>> \in Seq({a, b}) /\ Len(<<a, b>>) = 2
        /\ <<a, b>>[1] = a /\ <<a, b>>[2] = b
    OBVIOUS
  <2>4. \A i \in 1..2 : Append(<<a>>, b)[i] = <<a, b>>[i]
    <3>1. \A i \in 1..2 : i = 1 \/ i = 2
      OBVIOUS
    <3> QED
      BY <3>1, <2>2, <2>3
  <2> QED
    BY <2>2, <2>3, <2>4, SeqEqual
<1>3. Tail(<<a>>) = <<>>
  OBVIOUS
<1>4. Tail(<<a, b>>) = <<b>>
  OBVIOUS
<1>5. Head(<<a>>) = a /\ Head(<<a, b>>) = a
  OBVIOUS
<1>6. <<a>> # <<>> /\ <<a, b>> # <<>>
  OBVIOUS
<1> QED
  BY <1>1, <1>2, <1>3, <1>4, <1>5, <1>6

\* Everything but the types.
Sync ==
  /\ thread = "dead" \/ reset => actor = "dead"
  /\ stale = 0 => Turns /\ Paired
  /\ stale # 0 => actor = "dead" /\ toWorker = <<>> /\ thread # "body"

\* The actor takes the message that was on its way, and answers it.
LEMMA ActorRecvStep ==
  ASSUME IInv, NEW terminal \in BOOLEAN, ActorRecv(terminal)
  PROVE  Sync'
<1>1. /\ actor = "recv" /\ toActor # <<>> /\ actor' = "head"
      /\ obs' = obs + 1 /\ reply' = Reply(Head(toActor), terminal)
      /\ toActor' = Tail(toActor)
      /\ UNCHANGED <<toWorker, reset, thread, waitFor, acts, lastState, rollout, stale>>
  BY DEF ActorRecv, threadVars
<1>2. stale = 0 /\ ~reset /\ thread # "dead" /\ Paired
  BY <1>1 DEF IInv
<1>3. Asked
  BY <1>1, <1>2 DEF IInv, Turns, Choosing, Answer
<1>4. /\ toWorker = <<>> /\ thread = "header"
      /\ toActor' = <<>>
      /\ waitFor \in {"step", "rest"}
      /\ waitFor = "step" => Head(toActor) = acts /\ acts # Rest /\ lastState = obs
  BY <1>1, <1>2, <1>3, Streams DEF Asked
<1>5. /\ reply'.obs = obs'
      /\ waitFor = "step" =>
           reply'.kind = "step" /\ reply'.act = acts /\ reply'.obs = lastState + 1
  BY <1>1, <1>4 DEF Reply
<1>6. Answer' /\ Sending'
  BY <1>1, <1>4, <1>5 DEF Answer, Sending
<1>7. Paired'
  BY <1>1, <1>2 DEF Paired
<1> QED
  BY <1>1, <1>2, <1>6, <1>7 DEF Sync, Turns

\* The header or the body goes behind what is sent of the answer.
LEMMA ActorSendStep ==
  ASSUME IInv, ActorSend
  PROVE  Sync'
<1>1. /\ actor \in {"head", "body"}
      /\ toWorker' = Append(toWorker, [part |-> actor, of |-> reply])
      /\ actor' = IF actor = "head" THEN "body" ELSE "recv"
      /\ UNCHANGED <<obs, reply, toActor, reset, thread, waitFor, acts, lastState,
                     rollout, stale>>
  BY DEF ActorSend, threadVars
<1>2. stale = 0 /\ ~reset /\ thread # "dead" /\ Paired
  BY <1>1 DEF IInv
<1>3. Answer /\ Sending
  BY <1>1, <1>2 DEF IInv, Turns, Choosing, Asked
<1>4. Answer'
  BY <1>1, <1>3 DEF Answer
<1>5. Header' = Header /\ Body' = Body
  BY <1>1 DEF Header, Body
<1>6. Sending'
  <2>1. CASE actor = "head"
    <3>1. toWorker = <<>> /\ thread = "header"
      BY <2>1, <1>2, <1>3 DEF Sending
    <3>2. toWorker' = <<Header>>
      BY <2>1, <3>1, <1>1, Streams DEF Header
    <3> QED
      BY <2>1, <3>1, <3>2, <1>1, <1>5 DEF Sending
  <2>2. CASE actor = "body"
    <3>1. \/ toWorker = <<Header>> /\ thread = "header"
          \/ toWorker = <<>> /\ thread = "body"
      BY <2>2, <1>2, <1>3 DEF Sending
    <3>2. \/ toWorker' = <<Header, Body>> /\ thread = "header"
          \/ toWorker' = <<Body>> /\ thread = "body"
      <4>1. toWorker' = Append(toWorker, Body)
        BY <2>2, <1>1 DEF Body
      <4> QED
        BY <3>1, <4>1, Streams
    <3> QED
      BY <2>2, <3>2, <1>1, <1>5 DEF Sending
  <2> QED
    BY <1>1, <2>1, <2>2
<1>7. Paired'
  BY <1>1, <1>2 DEF Paired
<1> QED
  BY <1>1, <1>2, <1>4, <1>6, <1>7 DEF Sync, Turns

\* The end of the actor leaves the turn where it is.
LEMMA EndsStep ==
  ASSUME IInv, ActorEnds \/ ResetArrives \/ ConnectionError \/ UNCHANGED vars
  PROVE  Sync'
<1>1. /\ actor' \in {actor, "dead"} /\ thread' \in {thread, "dead"}
      /\ reset' \/ thread' = "dead" => actor' = "dead"
      /\ UNCHANGED <<obs, reply, toWorker, toActor, waitFor, acts, lastState, rollout, stale>>
  BY DEF IInv, ActorEnds, ResetArrives, ConnectionError, vars, actorVars, threadVars
<1>2. ASSUME Turns PROVE Turns'
  <2>1. Choosing => Choosing'
    BY <1>1 DEF Choosing
  <2>2. Asked => Asked'
    BY <1>1 DEF Asked
  <2>3. Answer => Answer'
    BY <1>1 DEF Answer
  <2>4. Header' = Header /\ Body' = Body
    BY <1>1 DEF Header, Body
  <2>5. Sending => Sending'
    BY <1>1, <2>4 DEF Sending
  <2> QED
    BY <1>2, <2>1, <2>2, <2>3, <2>5 DEF Turns
<1>3. Paired => Paired'
  BY <1>1 DEF Paired
<1> QED
  BY <1>1, <1>2, <1>3 DEF IInv, Sync

-----------------------------------------------------------------------------
LEMMA ActStep ==
  ASSUME IInv, Act
  PROVE  Sync'
<1>1. /\ thread = "act" /\ thread' = "header" /\ ~reset
      /\ acts' = acts + 1 /\ toActor' = Append(toActor, acts') /\ waitFor' = "step"
      /\ UNCHANGED <<actor, obs, reply, toWorker, reset, lastState, rollout, stale>>
  BY DEF Act, actorVars
<1>2. acts' # Rest
  BY <1>1 DEF IInv, TypeOK, Rest
<1>3. CASE stale = 0
  <2>1. Choosing /\ Paired
    BY <1>1, <1>3 DEF IInv, Turns, Asked, Sending
  <2>2. toActor' = <<acts'>>
    BY <1>1, <2>1, Streams DEF Choosing
  <2>3. Asked'
    BY <1>1, <1>2, <2>1, <2>2 DEF Asked, Choosing
  <2>4. Paired'
    BY <1>1, <2>1 DEF Paired
  <2> QED
    BY <1>1, <1>3, <2>3, <2>4 DEF IInv, Sync, Turns
<1>4. CASE stale # 0
  BY <1>1, <1>4 DEF IInv, Sync
<1> QED
  BY <1>3, <1>4

LEMMA RecvHeaderStep ==
  ASSUME IInv, RecvHeader
  PROVE  Sync'
<1>1. /\ thread = "header" /\ thread' = "body" /\ toWorker # <<>>
      /\ toWorker' = Tail(toWorker)
      /\ UNCHANGED <<actor, obs, reply, toActor, reset, waitFor, acts, lastState,
                     rollout, stale>>
  BY DEF RecvHeader, actorVars
<1>2. stale = 0 /\ Answer /\ Sending /\ Paired
  BY <1>1 DEF IInv, Turns, Choosing, Asked
<1>3. Header' = Header /\ Body' = Body
  BY <1>1 DEF Header, Body
<1>4. \/ toWorker = <<Header>> /\ actor \in {"body", "dead"}
      \/ toWorker = <<Header, Body>> /\ actor \in {"recv", "dead"}
  BY <1>1, <1>2 DEF Sending
<1>5. \/ toWorker' = <<>> /\ actor \in {"body", "dead"}
      \/ toWorker' = <<Body>> /\ actor \in {"recv", "dead"}
  <2>1. Tail(<<Header>>) = <<>> /\ Tail(<<Header, Body>>) = <<Body>>
    BY Streams
  <2> QED
    BY <1>1, <1>4, <2>1
<1>6. Sending' /\ Answer'
  <2>1. Answer'
    BY <1>1, <1>2 DEF Answer
  <2>2. thread' = "body" /\ actor' = actor
    BY <1>1
  <2>3. Sending'
    BY <1>3, <1>5, <2>2 DEF Sending
  <2> QED
    BY <2>1, <2>3
<1>7. Paired'
  BY <1>1, <1>2 DEF Paired
<1> QED
  BY <1>1, <1>2, <1>6, <1>7 DEF IInv, Sync, Turns

\* The answer is the one to the last message, and is stored as that.
LEMMA RecvBodyStep ==
  ASSUME IInv, RecvBody
  PROVE  Sync'
<1>1. /\ thread = "body" /\ toWorker # <<>> /\ toWorker' = Tail(toWorker)
      /\ After(Head(toWorker).of)
      /\ UNCHANGED <<actor, obs, reply, reset, acts, stale>>
  BY DEF RecvBody, actorVars
<1>2. stale = 0 /\ Answer /\ Sending /\ Paired
  BY <1>1 DEF IInv, Turns, Choosing, Asked
<1>3. toWorker = <<Body>> /\ actor \in {"recv", "dead"}
  BY <1>1, <1>2 DEF Sending
<1>4. toWorker' = <<>> /\ After(reply)
  BY <1>1, <1>3, Streams DEF Body
<1>5. CASE AfterFirst(reply)
  <2>1. Choosing'
    BY <1>1, <1>2, <1>3, <1>4, <1>5 DEF AfterFirst, Choosing, Answer
  <2>2. Paired'
    BY <1>1, <1>2, <1>5 DEF AfterFirst, Paired
  <2> QED
    BY <1>1, <1>2, <1>5, <2>1, <2>2 DEF IInv, Sync, Turns, AfterFirst
<1>6. CASE waitFor = "step" /\ AfterStep(reply)
  <2> DEFINE step == [obs |-> lastState, act |-> acts, reply |-> reply]
             added == Append(rollout, step)
  <2>1. /\ lastState' = obs'
        /\ \/ thread' = "act" /\ UNCHANGED <<toActor, waitFor>>
           \/ thread' = "header" /\ waitFor' = "rest" /\ toActor' = Append(toActor, Rest)
    BY <1>1, <1>2, <1>6 DEF AfterStep, Answer
  <2>2. Choosing' \/ Asked'
    <3>1. toActor = <<>> /\ Append(<<>>, Rest) = <<Rest>>
      BY <1>2, Streams DEF Answer
    <3> QED
      BY <1>1, <1>3, <1>4, <2>1, <3>1 DEF Choosing, Asked
  <2>3. rollout' = <<>> \/ (rollout' = added /\ ~reply.terminal)
    BY <1>6 DEF AfterStep
  <2>4. /\ step.reply.kind = "step" /\ step.reply.act = step.act
        /\ step.reply.obs = step.obs + 1 /\ step.reply.terminal = reply.terminal
    BY <1>2, <1>6 DEF Answer
  <2>5. CASE rollout' = <<>>
    BY <1>1, <2>2, <2>1, <2>5, <1>2 DEF IInv, Sync, Turns, Paired
  <2>6. CASE rollout' = added /\ ~reply.terminal
    <3>1. /\ Len(rollout) \in Nat /\ Len(added) = Len(rollout) + 1
          /\ \A i \in 1..Len(rollout) : added[i] = rollout[i]
          /\ added[Len(rollout) + 1] = step
      <4>1. /\ rollout \in Seq([obs : Nat, act : Nat, reply : Replies])
            /\ step \in [obs : Nat, act : Nat, reply : Replies]
        BY DEF IInv, TypeOK
      <4> HIDE DEF step
      <4> QED
        BY <4>1, AppendProperties, LenProperties
    <3>2. ASSUME NEW i \in 1..Len(added)
          PROVE  /\ added[i].reply.kind = "step"
                 /\ added[i].reply.act = added[i].act
                 /\ added[i].reply.obs = added[i].obs + 1
                 /\ ~added[i].reply.terminal
      <4> HIDE DEF added, step
      <4>1. CASE i \in 1..Len(rollout)
        BY <4>1, <3>1, <1>2 DEF Paired
      <4>2. CASE i = Len(rollout) + 1
        BY <4>2, <3>1, <2>4, <2>6
      <4> QED
        BY <3>1, <3>2, <4>1, <4>2
    <3>3. Paired'
      <4> HIDE DEF added
      <4> QED
        BY <2>6, <3>2 DEF Paired
    <3> QED
      BY <1>1, <1>2, <2>1, <2>2, <3>3 DEF IInv, Sync, Turns
  <2> QED
    BY <2>3, <2>5, <2>6
<1> QED
  BY <1>4, <1>5, <1>6 DEF After

\* From the end of the stream on, nothing is promised but that nothing comes.
LEMMA RecvEndStep ==
  ASSUME IInv, RecvEnd
  PROVE  Sync'
<1>1. /\ actor = "dead" /\ toWorker = <<>> /\ thread = "header"
      /\ UNCHANGED <<actor, obs, reply, toWorker, reset, acts>>
  BY DEF RecvEnd, actorVars
<1>2. CASE waitFor = "first"
  <2>1. thread' = "dead" /\ UNCHANGED <<toActor, waitFor, lastState, rollout, stale>>
    BY <1>2 DEF RecvEnd
  <2>2. ASSUME Turns PROVE Turns'
    <3>1. Answer /\ Sending
      BY <1>1, <1>2, <2>2 DEF Turns, Choosing, Asked
    <3> QED
      BY <1>1, <2>1, <3>1 DEF Turns, Answer, Sending
  <2>3. Paired => Paired'
    BY <1>1, <2>1 DEF Paired
  <2> QED
    BY <1>1, <2>1, <2>2, <2>3 DEF IInv, Sync
<1>3. CASE waitFor # "first"
  <2>1. After(message) /\ stale' = stale + 1
    BY <1>3 DEF RecvEnd
  <2>2. thread' \in {"act", "header"}
    BY <2>1 DEF After, AfterFirst, AfterStep
  <2>3. stale' # 0
    BY <2>1 DEF IInv, TypeOK
  <2> QED
    BY <1>1, <2>2, <2>3 DEF Sync
<1> QED
  BY <1>2, <1>3

-----------------------------------------------------------------------------
\* In every reachable state actor and thread are in step (both loops, actor.py
\* lines 98-112 and ps_a3c.py lines 60-128).
THEOREM Invariance == Spec => []IInv
<1>1. Init => IInv
  <2> SUFFICES ASSUME Init PROVE IInv
    OBVIOUS
  <2>1. TypeOK
    <3>1. reply \in Replies /\ message \in Replies
      BY DEF Init, Replies, NoMessage
    <3>2. LocalSteps \in Nat \ {0} /\ TimestepLimit \in Nat \ {0}
      BY LinkAssumption
    <3>3. toWorker \in Seq([part : {"head", "body"}, of : Replies])
      BY DEF Init
    <3>4. /\ toActor \in Seq(Nat) /\ Len(rollout) = 0
          /\ rollout \in Seq([obs : Nat, act : Nat, reply : Replies])
      BY DEF Init
    <3>5. Len(rollout) < LocalSteps /\ length \in 0..TimestepLimit - 1
      <4>1. length = 0
        BY DEF Init
      <4> QED
        BY <3>2, <3>4, <4>1
    <3> QED
      BY <3>1, <3>3, <3>4, <3>5 DEF Init, TypeOK
  <2>2. Answer /\ Sending
    BY DEF Init, Answer, Sending
  <2>3. Paired
    BY DEF Init, Paired
  <2> QED
    BY <2>1, <2>2, <2>3 DEF Init, IInv, Turns
<1>2. IInv /\ [Next]_vars => IInv'
  <2> SUFFICES ASSUME IInv, [Next]_vars PROVE IInv'
    OBVIOUS
  <2>1. TypeOK'
    BY TypeStep DEF IInv
  <2>2. ASSUME NEW terminal \in BOOLEAN, ActorRecv(terminal) PROVE Sync'
    BY <2>2, ActorRecvStep
  <2>3. Sync'
    BY <2>2, ActorSendStep, EndsStep, ActStep, RecvHeaderStep, RecvBodyStep, RecvEndStep
       DEF Next, Actor, Thread
  <2> QED
    BY <2>1, <2>3 DEF IInv, Sync
<1> QED
  BY <1>1, <1>2, PTL DEF Spec

\* The variables of both programs keep their types, a rollout and an episode
\* their bounds (add and publish, ps_a3c.py lines 93-128).
THEOREM TypeCorrect == Spec => []TypeOK
<1>1. IInv => TypeOK
  BY DEF IInv
<1> QED
  BY <1>1, Invariance, PTL

\* What is stored with an action is the environment's answer to it (rollout.add,
\* ps_a3c.py lines 93-100).
THEOREM PairedAlways == Spec => []Paired
<1>1. IInv => Paired
  BY DEF IInv, Paired
<1> QED
  BY <1>1, Invariance, PTL

\* One message at a time is on its way, headers are taken for headers and bodies
\* for bodies, and when nothing is on its way it is the thread's turn (send and
\* recv of both loops).
THEOREM TakingTurnsAlways == Spec => []TakingTurns
<1>1. IInv => TakingTurns
  <2> SUFFICES ASSUME IInv PROVE TakingTurns
    OBVIOUS
  <2>1. CASE stale # 0
    BY <2>1 DEF IInv, TakingTurns
  <2>2. CASE stale = 0 /\ Choosing
    BY <2>2 DEF IInv, TakingTurns, Choosing
  <2>3. CASE stale = 0 /\ Asked
    <3>1. Len(toActor) = 1 /\ toActor # <<>>
      BY <2>3 DEF Asked
    <3>2. toWorker = <<>> /\ Len(toWorker) = 0
      BY <2>3 DEF Asked
    <3> QED
      BY <3>1, <3>2 DEF TakingTurns
  <2>4. CASE stale = 0 /\ Answer /\ Sending
    <3>1. /\ Len(toActor) <= 1 /\ toActor = <<>>
          /\ thread = "header" \/ thread = "body" \/ thread = "act" \/ thread = "dead"
      BY <2>4 DEF IInv, TypeOK, Answer
    <3>2. CASE toWorker = <<>>
      BY <2>4, <3>1, <3>2 DEF IInv, TakingTurns, Sending
    <3>3. CASE toWorker = <<Header>> /\ thread \in {"header", "dead"}
      BY <2>4, <3>1, <3>3 DEF TakingTurns, Header
    <3>4. CASE toWorker = <<Header, Body>> /\ thread \in {"header", "dead"}
      <4>1. /\ Len(toWorker) = 2 /\ toWorker[1].part = "head" /\ toWorker[2].part = "body"
            /\ Head(toWorker).part = "head" /\ toWorker # <<>>
        BY <3>4 DEF Header, Body
      <4>2. \A i, j \in 1..Len(toWorker) : toWorker[i].part = toWorker[j].part => i = j
        <5>1. \A i \in 1..Len(toWorker) : i = 1 \/ i = 2
          BY <4>1
        <5> QED
          BY <4>1, <5>1
      <4> QED
        BY <2>4, <3>1, <3>4, <4>1, <4>2 DEF TakingTurns
    <3>5. CASE toWorker = <<Body>> /\ thread \in {"body", "dead"}
      BY <2>4, <3>1, <3>5 DEF TakingTurns, Body
    <3> QED
      BY <2>4, <3>2, <3>3, <3>4, <3>5 DEF Sending
  <2> QED
    BY <2>1, <2>2, <2>3, <2>4 DEF IInv, Turns
<1> QED
  BY <1>1, Invariance, PTL
=============================================================================
