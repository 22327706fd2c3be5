--------------------------- MODULE SyncPeersProofs ---------------------------
(***************************************************************************)
(* Proofs about SyncPeers for every group of peers and number of rounds.   *)
(***************************************************************************)
EXTENDS SyncPeers, FiniteSetTheorems, FunctionTheorems, TLAPS

LEMMA NumOthersType == NumOthers \in Nat \ {0}
<1>1. Cardinality(Peers) \in Nat
  BY SyncPeersAssumption, FS_CardinalityType
<1> QED
  BY <1>1, SyncPeersAssumption DEF NumOthers

-----------------------------------------------------------------------------
\* A step keeps the types.
LEMMA TypeStep == TypeOK /\ [Next]_vars => TypeOK'
<1>n. NumOthers \in Nat \ {0} /\ NumRounds \in Nat \ {0}
  BY NumOthersType, SyncPeersAssumption
<1> SUFFICES ASSUME TypeOK, [Next]_vars PROVE TypeOK'
  OBVIOUS
<1> USE DEF TypeOK
<1>1. ASSUME NEW p \in Peers, Train(p) PROVE TypeOK'
  <2>1. [from |-> p, round |-> round[p]] \in Deltas
    BY DEF Deltas
  <2>2. model' \in [Peers -> [Deltas -> Nat]]
    BY <1>1, <2>1 DEF Train
  <2> QED
    BY <1>1, <2>2 DEF Train
<1>2. ASSUME NEW p \in Peers, SendDelta(p) PROVE TypeOK'
  <2>1. [from |-> p, round |-> round[p]] \in Deltas
    BY DEF Deltas
  <2>2. sent' \in Seq(Deltas) /\ Len(sent') = Len(sent) + 1
    BY <1>2, <2>1 DEF SendDelta, M!Multicast
  <2>3. UNCHANGED <<cursor, inbox>>
    BY <1>2 DEF SendDelta, M!Multicast
  <2> QED
    BY <1>2, <2>2, <2>3 DEF SendDelta
<1>3. ASSUME NEW p \in Peers, QueueFilled(p) PROVE TypeOK'
  <2>1. toApply' \in [Peers -> 0..NumOthers]
    BY <1>n, <1>3 DEF QueueFilled
  <2>2. pc' \in [Peers -> {"train", "send", "wait", "apply", "stop", "done"}]
    BY <1>3 DEF QueueFilled
  <2>3. \A q \in Peers : toApply'[q] > 0 <=> pc'[q] = "apply"
    BY <1>n, <1>3 DEF QueueFilled
  <2> QED
    BY <1>3, <2>1, <2>2, <2>3 DEF QueueFilled
<1>4. ASSUME NEW p \in Peers, ApplyDelta(p) PROVE TypeOK'
  <2>1. /\ taken[p] < Len(inbox[p])
        /\ taken[p] + 1 \in 1..Len(inbox[p])
    <3>1. Len(inbox[p]) \in Nat /\ taken[p] \in Nat
      OBVIOUS
    <3>2. Len(inbox[p]) - taken[p] > 0
      BY <1>4 DEF ApplyDelta, QSize
    <3> QED
      BY <3>1, <3>2
  <2>2. inbox[p][taken[p] + 1] \in Deltas
    <3>1. inbox[p] \in Seq(Deltas)
      OBVIOUS
    <3> QED
      BY <2>1, <3>1
  <2>3. model' \in [Peers -> [Deltas -> Nat]]
    <3>1. model' = [model EXCEPT ![p] = [model[p] EXCEPT ![inbox[p][taken[p] + 1]] = @ + 1]]
      BY <1>4 DEF ApplyDelta
    <3>2. model[p] \in [Deltas -> Nat]
      OBVIOUS
    <3>3. [model[p] EXCEPT ![inbox[p][taken[p] + 1]] = @ + 1] \in [Deltas -> Nat]
      BY <2>2, <3>2
    <3> QED
      BY <3>1, <3>3
  <2>4. taken' \in [Peers -> Nat] /\ \A q \in Peers : taken'[q] <= Len(inbox'[q])
    BY <1>4, <2>1 DEF ApplyDelta
  <2>5. toApply' \in [Peers -> 0..NumOthers]
    <3>1. toApply' = [toApply EXCEPT ![p] = toApply[p] - 1]
      BY <1>4 DEF ApplyDelta
    <3>2. toApply[p] > 0 /\ toApply[p] \in 0..NumOthers
      BY <1>4 DEF ApplyDelta
    <3>3. toApply[p] - 1 \in 0..NumOthers
      BY <1>n, <3>2
    <3> QED
      BY <3>1, <3>3
  <2>6. /\ pc' \in [Peers -> {"train", "send", "wait", "apply", "stop", "done"}]
        /\ round' \in [Peers -> 1..NumRounds]
    <3>1. CASE toApply[p] > 1
      BY <1>4, <3>1 DEF ApplyDelta
    <3>2. CASE ~(toApply[p] > 1) /\ round[p] < NumRounds
      <4>1. /\ pc' = [pc EXCEPT ![p] = "train"]
            /\ round' = [round EXCEPT ![p] = round[p] + 1]
        BY <1>4, <3>2 DEF ApplyDelta
      <4>2. round[p] + 1 \in 1..NumRounds
        BY <1>n, <3>2
      <4> QED
        BY <4>1, <4>2
    <3>3. CASE ~(toApply[p] > 1) /\ ~(round[p] < NumRounds)
      BY <1>4, <3>3 DEF ApplyDelta
    <3> QED
      BY <3>1, <3>2, <3>3
  <2>7. \A q \in Peers : toApply'[q] > 0 <=> pc'[q] = "apply"
    <3>1. toApply' = [toApply EXCEPT ![p] = toApply[p] - 1] /\ toApply[p] \in Nat
      BY <1>4 DEF ApplyDelta
    <3>2. IF toApply[p] > 1 THEN pc' = pc ELSE \E l \in {"train", "stop"} : pc' = [pc EXCEPT ![p] = l]
      BY <1>4 DEF ApplyDelta
    <3>3. pc[p] = "apply"
      BY <1>4 DEF ApplyDelta
    <3> QED
      BY <3>1, <3>2, <3>3
  <2> QED
    BY <1>4, <2>3, <2>4, <2>5, <2>6, <2>7 DEF ApplyDelta
<1>5. ASSUME NEW p \in Peers, Finish(p) PROVE TypeOK'
  BY <1>5 DEF Finish
<1>6. ASSUME NEW p \in Peers, Listen(p) PROVE TypeOK'
  <2>1. PICK i \in 1..Len(sent) :
          /\ cursor' = [cursor EXCEPT ![p] = i]
          /\ inbox' = [inbox EXCEPT ![p] = Append(@, sent[i])]
          /\ UNCHANGED sent
    BY <1>6 DEF Listen, M!Deliver
  <2>2. sent[i] \in Deltas
    BY <2>1
  <2>3. inbox' \in [Peers -> Seq(Deltas)]
    BY <2>1, <2>2
  <2>4. \A q \in Peers : taken[q] <= Len(inbox'[q])
    BY <2>1, <2>2
  <2>5. cursor' \in [Peers -> Nat] /\ \A q \in Peers : cursor'[q] <= Len(sent)
    BY <2>1
  <2> QED
    BY <1>6, <2>1, <2>3, <2>4, <2>5 DEF Listen, trainVars
<1>7. CASE UNCHANGED vars
  BY <1>7 DEF vars
<1> QED
  BY <1>1, <1>2, <1>3, <1>4, <1>5, <1>6, <1>7 DEF Next, Step

\* Type correctness: train keeps its counters and the queue in range; in
\* particular a peer never takes more messages than its listener has put.
THEOREM TypeCorrect == Spec => []TypeOK
<1>n. NumOthers \in Nat \ {0} /\ NumRounds \in Nat \ {0}
  BY NumOthersType, SyncPeersAssumption
<1>1. Init => TypeOK
  BY <1>n DEF Init, TypeOK, M!MulticastInit
<1> QED
  BY <1>1, TypeStep, PTL DEF Spec

-----------------------------------------------------------------------------
(***************************************************************************)
(* The inductive invariant. The peers count messages and never look at     *)
(* what is in them; what makes the count mean a round is that the group's  *)
(* order of messages is also an order of rounds: nobody sends the change   *)
(* of a round before it has everyone's change of the round before.         *)
(***************************************************************************)

\* What each peer has sent is in the group's order, once, round by round.
SentRounds ==
  \A i \in 1..Len(sent) : \A q \in Peers :
    sent[i].from = q => sent[i].round <= HasSent(q)

SentSorted ==
  \A i, j \in 1..Len(sent) :
    i < j => sent[i].round <= sent[j].round /\ sent[i] # sent[j]

SentAll ==
  \A p \in Peers : \A r \in 1..HasSent(p) :
    \E i \in 1..Len(sent) : sent[i] = [from |-> p, round |-> r]

\* A peer has been handed the others' messages up to its cursor, in order.
InboxFromSent ==
  \A p \in Peers : \A k \in 1..Len(inbox[p]) :
    /\ inbox[p][k].from # p
    /\ \E i \in 1..cursor[p] : sent[i] = inbox[p][k]

InboxHasAll ==
  \A p \in Peers : \A i \in 1..cursor[p] :
    sent[i].from # p => \E k \in 1..Len(inbox[p]) : inbox[p][k] = sent[i]

InboxSorted ==
  \A p \in Peers : \A k, l \in 1..Len(inbox[p]) :
    k < l => inbox[p][k].round <= inbox[p][l].round /\ inbox[p][k] # inbox[p][l]

\* Nobody has completed a round that another has not sent its change of.
NoneBehind == \A p, q \in Peers : Completed(p) <= HasSent(q)

\* The messages taken are a whole number of rounds between two waits.
TakenCount ==
  \A p \in Peers :
    /\ pc[p] \in {"train", "send", "wait"} => taken[p] = NumOthers * (round[p] - 1)
    /\ pc[p] = "apply" => /\ taken[p] + toApply[p] = NumOthers * round[p]
                          /\ NumOthers * round[p] <= Len(inbox[p])
    /\ pc[p] \in {"stop", "done"} => /\ taken[p] = NumOthers * NumRounds
                                     /\ round[p] = NumRounds

\* The weights are the own changes and those taken from the queue.
Trained(p) == IF pc[p] = "train" THEN round[p] - 1 ELSE round[p]

IsTaken(p, d) == \E k \in 1..taken[p] : inbox[p][k] = d

ModelCount ==
  \A p \in Peers : \A d \in Deltas :
    model[p][d] = IF \/ d.from = p /\ d.round <= Trained(p)
                     \/ d.from # p /\ IsTaken(p, d)
                  THEN 1 ELSE 0

LogInv == /\ SentRounds /\ SentSorted /\ SentAll
          /\ InboxFromSent /\ InboxHasAll /\ InboxSorted
RoundInv == NoneBehind /\ TakenCount

IInv == TypeOK /\ LogInv /\ RoundInv /\ ModelCount

-----------------------------------------------------------------------------
(* Counting: n messages taken are n pairs of a sender and a round.           *)

Grid(p, m) == (Peers \ {p}) \X (1..m)
Key(d) == <<d.from, d.round>>
Keys(p, n) == {Key(inbox[p][k]) : k \in 1..n}

\* The changes of the others in the first m rounds: as many as train waits
\* for in m rounds.
LEMMA GridCardinality ==
  ASSUME NEW p \in Peers, NEW m \in Nat
  PROVE  IsFiniteSet(Grid(p, m)) /\ Cardinality(Grid(p, m)) = NumOthers * m
<1>1. /\ IsFiniteSet(Peers \ {p})
      /\ Cardinality(Peers \ {p}) = NumOthers
  BY SyncPeersAssumption, FS_RemoveElement DEF NumOthers
<1>2. IsFiniteSet(1..m) /\ Cardinality(1..m) = m
  <2>1. 1 \in Int /\ m \in Int
    OBVIOUS
  <2>2. IsFiniteSet(1..m) /\ Cardinality(1..m) = IF 1 > m THEN 0 ELSE m - 1 + 1
    BY <2>1, FS_Interval
  <2> QED
    BY <2>2
<1> QED
  BY <1>1, <1>2, FS_Product DEF Grid

\* n different elements are n elements.
LEMMA DistinctCardinality ==
  ASSUME NEW S, NEW n \in Nat, NEW f \in [1..n -> S],
         \A k, l \in 1..n : k < l => f[k] # f[l]
  PROVE  /\ IsFiniteSet({f[k] : k \in 1..n})
         /\ Cardinality({f[k] : k \in 1..n}) = n
<1> DEFINE T == {f[k] : k \in 1..n}
<1>1. IsFiniteSet(1..n) /\ Cardinality(1..n) = n
  <2>1. 1 \in Int /\ n \in Int
    OBVIOUS
  <2>2. IsFiniteSet(1..n) /\ Cardinality(1..n) = IF 1 > n THEN 0 ELSE n - 1 + 1
    BY <2>1, FS_Interval
  <2> QED
    BY <2>2
<1>2. f \in [1..n -> T]
  OBVIOUS
<1>3. \A k, l \in 1..n : f[k] = f[l] => k = l
  <2> SUFFICES ASSUME NEW k \in 1..n, NEW l \in 1..n, k # l PROVE f[k] # f[l]
    OBVIOUS
  <2>1. k < l \/ l < k
    OBVIOUS
  <2> QED
    BY <2>1
<1>4. f \in Injection(1..n, T)
  BY <1>2, <1>3, Fun_IsInj
<1>5. f \in Surjection(1..n, T)
  BY <1>2 DEF Surjection
<1> QED
  BY <1>1, <1>4, <1>5, FS_Surjection

LEMMA KeysCardinality ==
  ASSUME TypeOK, InboxSorted, NEW p \in Peers, NEW n \in Nat, n <= Len(inbox[p])
  PROVE  IsFiniteSet(Keys(p, n)) /\ Cardinality(Keys(p, n)) = n
<1> DEFINE f == [k \in 1..n |-> Key(inbox[p][k])]
<1>1. Len(inbox[p]) \in Nat /\ inbox[p] \in Seq(Deltas)
  BY DEF TypeOK
<1>2. \A k \in 1..n : k \in 1..Len(inbox[p]) /\ inbox[p][k] \in Deltas
  BY <1>1
<1>3. f \in [1..n -> Peers \X (1..NumRounds)]
  <2>1. \A k \in 1..n : Key(inbox[p][k]) \in Peers \X (1..NumRounds)
    BY <1>2 DEF Deltas, Key
  <2> QED
    BY <2>1
<1>4. \A k, l \in 1..n : k < l => f[k] # f[l]
  <2> SUFFICES ASSUME NEW k \in 1..n, NEW l \in 1..n, k < l PROVE f[k] # f[l]
    OBVIOUS
  <2>1. inbox[p][k] # inbox[p][l]
    BY <1>2 DEF InboxSorted
  <2>2. inbox[p][k] \in Deltas /\ inbox[p][l] \in Deltas
    BY <1>2
  <2> QED
    BY <2>1, <2>2 DEF Deltas, Key
<1>5. Keys(p, n) = {f[k] : k \in 1..n}
  BY DEF Keys
<1> HIDE DEF f
<1>6. IsFiniteSet({f[k] : k \in 1..n}) /\ Cardinality({f[k] : k \in 1..n}) = n
  BY <1>3, <1>4, DistinctCardinality
<1> QED
  BY <1>5, <1>6

-----------------------------------------------------------------------------
(* What the invariant says of a state.                                       *)

LEMMA RoundsType ==
  ASSUME TypeOK
  PROVE  \A p \in Peers : /\ HasSent(p) \in 0..NumRounds
                          /\ Completed(p) \in 0..NumRounds
                          /\ Trained(p) \in 0..NumRounds
<1>1. NumRounds \in Nat \ {0}
  BY SyncPeersAssumption
<1> TAKE p \in Peers
<1>2. round[p] \in 1..NumRounds
  BY DEF TypeOK
<1> QED
  BY <1>1, <1>2 DEF HasSent, Completed, Trained

\* A peer is at most one change ahead of what it has completed, and so at most
\* one ahead of what any other peer has sent.
LEMMA Window ==
  ASSUME TypeOK, RoundInv
  PROVE  \A p, q \in Peers : /\ HasSent(p) <= Completed(p) + 1
                             /\ HasSent(p) <= HasSent(q) + 1
<1> TAKE p, q \in Peers
<1>1. round[p] \in Nat /\ NumRounds \in Nat
  BY SyncPeersAssumption DEF TypeOK
<1>2. pc[p] \in {"stop", "done"} => round[p] = NumRounds
  BY DEF RoundInv, TakenCount
<1>3. HasSent(p) <= Completed(p) + 1
  BY <1>1, <1>2 DEF HasSent, Completed
<1>4. Completed(p) <= HasSent(q)
  BY DEF RoundInv, NoneBehind
<1>5. HasSent(p) \in Nat /\ Completed(p) \in Nat /\ HasSent(q) \in Nat
  BY RoundsType
<1> QED
  BY <1>3, <1>4, <1>5

\* What a peer has been handed has been sent by another one.
LEMMA HandedWasSent ==
  ASSUME TypeOK, LogInv, NEW p \in Peers, NEW k \in 1..Len(inbox[p])
  PROVE  /\ inbox[p][k] \in Deltas
         /\ inbox[p][k].from \in Peers \ {p}
         /\ inbox[p][k].round \in 1..NumRounds
         /\ inbox[p][k].round <= HasSent(inbox[p][k].from)
<1>1. inbox[p] \in Seq(Deltas)
  BY DEF TypeOK
<1>2. inbox[p][k] \in Deltas
  BY <1>1
<1>3. inbox[p][k].from # p
  BY DEF LogInv, InboxFromSent
<1>4. PICK i \in 1..cursor[p] : sent[i] = inbox[p][k]
  BY DEF LogInv, InboxFromSent
<1>5. i \in 1..Len(sent)
  <2>1. cursor[p] \in Nat /\ cursor[p] <= Len(sent) /\ Len(sent) \in Nat
    BY DEF TypeOK
  <2> QED
    BY <2>1
<1>6. inbox[p][k].round <= HasSent(inbox[p][k].from)
  BY <1>2, <1>4, <1>5 DEF LogInv, SentRounds, Deltas
<1> QED
  BY <1>2, <1>3, <1>6 DEF Deltas

\* No more messages than rounds sent by each of the others.
LEMMA InboxBound ==
  ASSUME TypeOK, LogInv, NEW p \in Peers, NEW m \in Nat,
         \A q \in Peers : HasSent(q) <= m
  PROVE  Len(inbox[p]) <= NumOthers * m
<1> DEFINE n == Len(inbox[p])
<1>1. n \in Nat /\ n <= Len(inbox[p])
  BY DEF TypeOK
<1>2. Keys(p, n) \subseteq Grid(p, m)
  <2> SUFFICES ASSUME NEW k \in 1..n PROVE Key(inbox[p][k]) \in Grid(p, m)
    BY DEF Keys
  <2>1. /\ inbox[p][k].from \in Peers \ {p}
        /\ inbox[p][k].round \in 1..NumRounds
        /\ inbox[p][k].round <= HasSent(inbox[p][k].from)
    BY HandedWasSent
  <2>2. HasSent(inbox[p][k].from) \in Nat /\ HasSent(inbox[p][k].from) <= m
    BY <2>1, RoundsType
  <2>3. inbox[p][k].round \in 1..m
    BY <2>1, <2>2
  <2> QED
    BY <2>1, <2>3 DEF Key, Grid
<1>3. Cardinality(Keys(p, n)) = n
  BY <1>1, KeysCardinality DEF LogInv
<1>4. IsFiniteSet(Grid(p, m)) /\ Cardinality(Grid(p, m)) = NumOthers * m
  BY GridCardinality
<1> HIDE DEF n
<1>5. Cardinality(Keys(p, n)) <= Cardinality(Grid(p, m))
  BY <1>2, <1>4, FS_Subset
<1>6. n <= NumOthers * m
  BY <1>3, <1>4, <1>5
<1> QED
  BY <1>6 DEF n

\* A peer whose queue is full enough has the change of the round of everyone:
\* were one missing, the others' rounds would not give enough messages.
LEMMA EnoughMeansAll ==
  ASSUME TypeOK, LogInv, RoundInv, NEW p \in Peers, pc[p] \in {"wait", "apply"},
         NumOthers * round[p] <= Len(inbox[p])
  PROVE  \A q \in Peers : round[p] <= HasSent(q)
<1>1. SUFFICES ASSUME NEW q \in Peers, ~(round[p] <= HasSent(q)) PROVE FALSE
  OBVIOUS
<1> DEFINE r == round[p]
           n == NumOthers * r
<1>2. /\ r \in Nat \ {0} /\ NumOthers \in Nat \ {0}
      /\ HasSent(p) = r /\ Completed(p) = r - 1
  BY NumOthersType DEF TypeOK, HasSent, Completed
<1>3. HasSent(q) = r - 1
  <2>1. HasSent(q) \in Nat /\ r - 1 <= HasSent(q)
    BY <1>2, RoundsType DEF RoundInv, NoneBehind
  <2> QED
    BY <1>1, <1>2, <2>1
<1>4. \A o \in Peers : HasSent(o) \in Nat /\ HasSent(o) <= r
  <2> TAKE o \in Peers
  <2>1. HasSent(o) \in Nat /\ HasSent(o) <= HasSent(q) + 1
    BY Window, RoundsType
  <2> QED
    BY <1>2, <1>3, <2>1
<1>5. n \in Nat /\ n <= Len(inbox[p]) /\ Len(inbox[p]) \in Nat
  BY <1>2 DEF TypeOK
<1>6. q # p
  BY <1>2, <1>3
<1> HIDE DEF r, n
<1>7. Keys(p, n) \subseteq Grid(p, r) \ {<<q, r>>}
  <2> SUFFICES ASSUME NEW k \in 1..n PROVE Key(inbox[p][k]) \in Grid(p, r) \ {<<q, r>>}
    BY DEF Keys
  <2>0. k \in 1..Len(inbox[p])
    BY <1>5
  <2>1. /\ inbox[p][k].from \in Peers \ {p}
        /\ inbox[p][k].round \in 1..NumRounds
        /\ inbox[p][k].round <= HasSent(inbox[p][k].from)
    BY <2>0, HandedWasSent
  <2>2. inbox[p][k].round \in 1..r
    BY <1>2, <1>4, <2>1
  <2>3. inbox[p][k].from = q => inbox[p][k].round # r
    BY <1>2, <1>3, <2>1, <2>2
  <2> QED
    BY <2>1, <2>2, <2>3 DEF Key, Grid
<1>8. Cardinality(Keys(p, n)) = n
  BY <1>5, KeysCardinality DEF LogInv
<1>9. /\ IsFiniteSet(Grid(p, r)) /\ Cardinality(Grid(p, r)) = n
  BY <1>2, GridCardinality DEF n
<1>10. <<q, r>> \in Grid(p, r)
  BY <1>2, <1>6 DEF Grid
<1>11. /\ IsFiniteSet(Grid(p, r) \ {<<q, r>>})
       /\ Cardinality(Grid(p, r) \ {<<q, r>>}) = n - 1
  BY <1>9, <1>10, FS_RemoveElement
<1>12. Cardinality(Keys(p, n)) <= n - 1
  BY <1>7, <1>11, FS_Subset
<1> QED
  BY <1>5, <1>8, <1>12

\* The first messages a peer is handed are those of the first rounds: a change
\* of a later round in between would have all of them before it.
LEMMA TakenExactly ==
  ASSUME TypeOK, LogInv, NEW p \in Peers, NEW c \in Nat,
         NumOthers * c <= Len(inbox[p]),
         \A q \in Peers : c <= HasSent(q)
  PROVE  \A d \in Deltas : d.from # p =>
           ((\E k \in 1..NumOthers * c : inbox[p][k] = d) <=> d.round <= c)
<1> DEFINE n == NumOthers * c
<1>1. n \in Nat /\ n <= Len(inbox[p]) /\ Len(inbox[p]) \in Nat
  BY NumOthersType DEF TypeOK
<1>2. IsFiniteSet(Grid(p, c)) /\ Cardinality(Grid(p, c)) = n
  BY GridCardinality
<1>3. IsFiniteSet(Keys(p, n)) /\ Cardinality(Keys(p, n)) = n
  BY <1>1, KeysCardinality DEF LogInv
<1> HIDE DEF n
<1>4. ASSUME NEW k \in 1..n PROVE inbox[p][k].round <= c
  <2> SUFFICES ASSUME ~(inbox[p][k].round <= c) PROVE FALSE
    OBVIOUS
  <2>1. /\ k \in 1..Len(inbox[p]) /\ k - 1 \in Nat /\ k - 1 <= Len(inbox[p])
        /\ k - 1 < n
    BY <1>1
  <2>2. inbox[p][k].round \in Nat /\ c < inbox[p][k].round
    BY <2>1, HandedWasSent
  <2>3. PICK j \in 1..cursor[p] : sent[j] = inbox[p][k]
    BY <2>1 DEF LogInv, InboxFromSent
  <2>4. cursor[p] \in Nat /\ cursor[p] <= Len(sent) /\ Len(sent) \in Nat
    BY DEF TypeOK
  <2>5. Grid(p, c) \subseteq Keys(p, k - 1)
    <3> SUFFICES ASSUME NEW q \in Peers \ {p}, NEW r \in 1..c
                 PROVE  <<q, r>> \in Keys(p, k - 1)
      BY DEF Grid
    <3>1. r \in 1..HasSent(q)
      <4>1. HasSent(q) \in Nat /\ c <= HasSent(q)
        BY RoundsType
      <4> QED
        BY <4>1
    <3>2. PICK i \in 1..Len(sent) : sent[i] = [from |-> q, round |-> r]
      BY <3>1 DEF LogInv, SentAll
    <3>3. i \in 1..cursor[p]
      <4>1. sent[i].round = r /\ r < sent[j].round
        BY <2>2, <2>3, <3>2
      <4>2. ~(j < i)
        <5> SUFFICES ASSUME j < i PROVE FALSE
          OBVIOUS
        <5>1. sent[j].round <= sent[i].round
          BY <2>3, <2>4 DEF LogInv, SentSorted
        <5> QED
          BY <2>2, <2>3, <4>1, <5>1
      <4> QED
        BY <2>4, <4>2
    <3>4. PICK l \in 1..Len(inbox[p]) : inbox[p][l] = sent[i]
      BY <3>2, <3>3 DEF LogInv, InboxHasAll
    <3>5. l \in 1..k - 1
      <4>1. inbox[p][l].round = r /\ r < inbox[p][k].round
        BY <2>2, <3>2, <3>4
      <4>2. l # k
        BY <4>1
      <4>3. ~(k < l)
        <5> SUFFICES ASSUME k < l PROVE FALSE
          OBVIOUS
        <5>1. inbox[p][k].round <= inbox[p][l].round
          BY <2>1 DEF LogInv, InboxSorted
        <5> QED
          BY <2>2, <4>1, <5>1
      <4> QED
        BY <1>1, <4>2, <4>3
    <3> QED
      BY <3>2, <3>4, <3>5 DEF Keys, Key
  <2>6. IsFiniteSet(Keys(p, k - 1)) /\ Cardinality(Keys(p, k - 1)) = k - 1
    BY <2>1, KeysCardinality DEF LogInv
  <2>7. n <= k - 1
    BY <1>2, <2>5, <2>6, FS_Subset
  <2> QED
    BY <1>1, <2>1, <2>7
<1>5. Keys(p, n) \subseteq Grid(p, c)
  <2> SUFFICES ASSUME NEW k \in 1..n PROVE Key(inbox[p][k]) \in Grid(p, c)
    BY DEF Keys
  <2>1. k \in 1..Len(inbox[p])
    BY <1>1
  <2>2. /\ inbox[p][k].from \in Peers \ {p}
        /\ inbox[p][k].round \in 1..NumRounds
    BY <2>1, HandedWasSent
  <2>3. inbox[p][k].round \in 1..c
    BY <1>4, <2>2
  <2> QED
    BY <2>2, <2>3 DEF Key, Grid
<1>6. Keys(p, n) = Grid(p, c)
  BY <1>2, <1>3, <1>5, FS_Subset
<1>7. ASSUME NEW d \in Deltas, d.from # p
      PROVE  (\E k \in 1..n : inbox[p][k] = d) <=> d.round <= c
  <2>1. ASSUME NEW k \in 1..n, inbox[p][k] = d PROVE d.round <= c
    BY <1>4, <2>1
  <2>2. ASSUME d.round <= c PROVE \E k \in 1..n : inbox[p][k] = d
    <3>1. Key(d) \in Grid(p, c)
      BY <1>7, <2>2 DEF Deltas, Grid, Key
    <3>2. PICK k \in 1..n : Key(d) = Key(inbox[p][k])
      BY <1>6, <3>1 DEF Keys
    <3>3. inbox[p][k] \in Deltas
      BY <1>1, HandedWasSent
    <3> QED
      BY <3>2, <3>3 DEF Key, Deltas
  <2> QED
    BY <2>1, <2>2
<1> QED
  BY <1>7 DEF n

-----------------------------------------------------------------------------
(* Every step keeps the invariant.                                           *)

LEMMA LogFrame ==
  ASSUME LogInv, UNCHANGED <<sent, cursor, inbox>>,
         \A q \in Peers : HasSent(q)' = HasSent(q), TypeOK
  PROVE  LogInv'
<1>1. \A i \in 1..Len(sent) : sent[i].from \in Peers
  <2>1. sent \in Seq(Deltas)
    BY DEF TypeOK
  <2>2. \A i \in 1..Len(sent) : sent[i] \in Deltas
    BY <2>1
  <2> QED
    BY <2>2 DEF Deltas
<1>2. SentRounds' /\ SentSorted' /\ SentAll'
  BY <1>1 DEF LogInv, SentRounds, SentSorted, SentAll
<1>3. InboxFromSent' /\ InboxHasAll' /\ InboxSorted'
  BY DEF LogInv, InboxFromSent, InboxHasAll, InboxSorted
<1> QED
  BY <1>2, <1>3 DEF LogInv

LEMMA TrainStep ==
  ASSUME IInv, NEW p \in Peers, Train(p)
  PROVE  LogInv' /\ RoundInv' /\ ModelCount'
<1> USE DEF IInv
<1>1. /\ UNCHANGED <<sent, cursor, inbox, round, taken, toApply>>
      /\ pc[p] = "train" /\ pc' = [pc EXCEPT ![p] = "send"]
      /\ model' = [model EXCEPT ![p] = [model[p] EXCEPT ![[from |-> p, round |-> round[p]]] = @ + 1]]
  BY DEF Train
<1>2. pc \in [Peers -> {"train", "send", "wait", "apply", "stop", "done"}]
  BY DEF TypeOK
<1>3. \A q \in Peers : HasSent(q)' = HasSent(q) /\ Completed(q)' = Completed(q)
  BY <1>1, <1>2 DEF HasSent, Completed
<1>4. LogInv'
  BY <1>1, <1>3, LogFrame
<1>5. NoneBehind'
  BY <1>3 DEF RoundInv, NoneBehind
<1>6. TakenCount'
  BY <1>1, <1>2 DEF RoundInv, TakenCount
<1>7. ModelCount'
  <2> SUFFICES ASSUME NEW q \in Peers, NEW d \in Deltas
               PROVE  model'[q][d] = IF \/ d.from = q /\ d.round <= Trained(q)'
                                        \/ d.from # q /\ IsTaken(q, d)'
                                     THEN 1 ELSE 0
    BY DEF ModelCount
  <2>1. model[q][d] = IF \/ d.from = q /\ d.round <= Trained(q)
                         \/ d.from # q /\ IsTaken(q, d)
                      THEN 1 ELSE 0
    BY DEF ModelCount
  <2>2. IsTaken(q, d)' <=> IsTaken(q, d)
    BY <1>1 DEF IsTaken
  <2>3. CASE q # p
    <3>1. model'[q] = model[q]
      BY <1>1, <2>3 DEF TypeOK
    <3>2. Trained(q)' = Trained(q)
      BY <1>1, <1>2, <2>3 DEF Trained
    <3> QED
      BY <2>1, <2>2, <3>1, <3>2
  <2>4. CASE q = p
    <3>1. Trained(q) = round[p] - 1 /\ Trained(q)' = round[p] /\ round[p] \in Nat
      BY <1>1, <1>2, <2>4 DEF Trained, TypeOK
    <3>2. model[p] \in [Deltas -> Nat] /\ d.round \in Nat
      <4>1. model[p] \in [Deltas -> Nat]
        BY DEF TypeOK
      <4>2. d.round \in Nat
        BY SyncPeersAssumption DEF Deltas
      <4> QED
        BY <4>1, <4>2
    <3>3. CASE d = [from |-> p, round |-> round[p]]
      <4>1. model'[q][d] = model[q][d] + 1
        BY <1>1, <2>4, <3>2, <3>3 DEF TypeOK
      <4>2. d.from = q /\ ~(d.round <= Trained(q)) /\ d.round <= Trained(q)'
        BY <2>4, <3>1, <3>3
      <4> QED
        BY <2>1, <4>1, <4>2
    <3>4. CASE d # [from |-> p, round |-> round[p]]
      <4>1. model'[q][d] = model[q][d]
        BY <1>1, <2>4, <3>2, <3>4 DEF TypeOK
      <4>2. d.from = q => d.round # round[p]
        BY <2>4, <3>4 DEF Deltas
      <4>3. d.from = q => (d.round <= Trained(q)' <=> d.round <= Trained(q))
        BY <3>1, <3>2, <4>2
      <4> QED
        BY <2>1, <2>2, <4>1, <4>3
    <3> QED
      BY <3>3, <3>4
  <2> QED
    BY <2>3, <2>4
<1> QED
  BY <1>4, <1>5, <1>6, <1>7 DEF RoundInv

LEMMA QueueFilledStep ==
  ASSUME IInv, NEW p \in Peers, QueueFilled(p)
  PROVE  LogInv' /\ RoundInv' /\ ModelCount'
<1> USE DEF IInv
<1>1. /\ UNCHANGED <<sent, cursor, inbox, round, taken, model>>
      /\ pc[p] = "wait" /\ pc' = [pc EXCEPT ![p] = "apply"]
      /\ toApply' = [toApply EXCEPT ![p] = NumOthers]
      /\ Len(inbox[p]) - taken[p] >= NumOthers
  BY DEF QueueFilled, QSize
<1>2. /\ pc \in [Peers -> {"train", "send", "wait", "apply", "stop", "done"}]
      /\ toApply \in [Peers -> 0..NumOthers]
  BY DEF TypeOK
<1>3. \A q \in Peers : HasSent(q)' = HasSent(q) /\ Completed(q)' = Completed(q)
  BY <1>1, <1>2 DEF HasSent, Completed
<1>4. LogInv'
  BY <1>1, <1>3, LogFrame
<1>5. NoneBehind'
  BY <1>3 DEF RoundInv, NoneBehind
<1>6. TakenCount'
  <2>1. /\ taken[p] + NumOthers = NumOthers * round[p]
        /\ NumOthers * round[p] <= Len(inbox[p])
    <3>1. taken[p] = NumOthers * (round[p] - 1)
      BY <1>1 DEF RoundInv, TakenCount
    <3>2. NumOthers \in Nat /\ round[p] \in Nat /\ taken[p] \in Nat /\ Len(inbox[p]) \in Nat
      BY NumOthersType DEF TypeOK
    <3>3. NumOthers * (round[p] - 1) + NumOthers = NumOthers * round[p]
      BY <3>2
    <3> QED
      BY <1>1, <3>1, <3>2, <3>3
  <2> SUFFICES ASSUME NEW q \in Peers
               PROVE /\ pc'[q] \in {"train", "send", "wait"} => taken[q] = NumOthers * (round[q] - 1)
                     /\ pc'[q] = "apply" => /\ taken[q] + toApply'[q] = NumOthers * round[q]
                                            /\ NumOthers * round[q] <= Len(inbox[q])
                     /\ pc'[q] \in {"stop", "done"} => /\ taken[q] = NumOthers * NumRounds
                                                       /\ round[q] = NumRounds
    BY <1>1 DEF TakenCount
  <2>2. CASE q = p
    BY <1>1, <1>2, <2>1, <2>2
  <2>3. CASE q # p
    BY <1>1, <1>2, <2>3 DEF RoundInv, TakenCount
  <2> QED
    BY <2>2, <2>3
<1>7. ModelCount'
  <2>1. \A q \in Peers : Trained(q)' = Trained(q)
    BY <1>1, <1>2 DEF Trained
  <2>2. \A q \in Peers : \A d \in Deltas : IsTaken(q, d)' <=> IsTaken(q, d)
    BY <1>1 DEF IsTaken
  <2> QED
    BY <1>1, <2>1, <2>2 DEF ModelCount
<1> QED
  BY <1>4, <1>5, <1>6, <1>7 DEF RoundInv

LEMMA FinishStep ==
  ASSUME IInv, NEW p \in Peers, Finish(p)
  PROVE  LogInv' /\ RoundInv' /\ ModelCount'
<1> USE DEF IInv
<1>1. /\ UNCHANGED <<sent, cursor, inbox, round, taken, toApply, model>>
      /\ pc[p] = "stop" /\ pc' = [pc EXCEPT ![p] = "done"]
  BY DEF Finish
<1>2. pc \in [Peers -> {"train", "send", "wait", "apply", "stop", "done"}]
  BY DEF TypeOK
<1>3. \A q \in Peers : HasSent(q)' = HasSent(q) /\ Completed(q)' = Completed(q)
  BY <1>1, <1>2 DEF HasSent, Completed
<1>4. LogInv'
  BY <1>1, <1>3, LogFrame
<1>5. NoneBehind'
  BY <1>3 DEF RoundInv, NoneBehind
<1>6. TakenCount'
  BY <1>1, <1>2 DEF RoundInv, TakenCount
<1>7. ModelCount'
  <2>1. \A q \in Peers : Trained(q)' = Trained(q)
    BY <1>1, <1>2 DEF Trained
  <2>2. \A q \in Peers : \A d \in Deltas : IsTaken(q, d)' <=> IsTaken(q, d)
    BY <1>1 DEF IsTaken
  <2> QED
    BY <1>1, <2>1, <2>2 DEF ModelCount
<1> QED
  BY <1>4, <1>5, <1>6, <1>7 DEF RoundInv

\* The change is appended to the group's order, where no later round stands.
LEMMA SendDeltaStep ==
  ASSUME IInv, NEW p \in Peers, SendDelta(p)
  PROVE  LogInv' /\ RoundInv' /\ ModelCount'
<1> USE DEF IInv
<1> DEFINE d == [from |-> p, round |-> round[p]]
           n == Len(sent)
<1>1. /\ UNCHANGED <<cursor, inbox, round, taken, toApply, model>>
      /\ pc[p] = "send" /\ pc' = [pc EXCEPT ![p] = "wait"]
      /\ sent' = Append(sent, d)
  BY DEF SendDelta, M!Multicast
<1>2. /\ pc \in [Peers -> {"train", "send", "wait", "apply", "stop", "done"}]
      /\ round[p] \in 1..NumRounds /\ NumRounds \in Nat
      /\ sent \in Seq(Deltas) /\ n \in Nat
      /\ \A q \in Peers : cursor[q] \in Nat /\ cursor[q] <= n
  BY SyncPeersAssumption DEF TypeOK
<1>3. /\ HasSent(p)' = round[p] /\ HasSent(p) = round[p] - 1
      /\ \A q \in Peers : q # p => HasSent(q)' = HasSent(q)
      /\ \A q \in Peers : Completed(q)' = Completed(q)
  BY <1>1, <1>2 DEF HasSent, Completed
<1>4. \A q \in Peers : HasSent(q) \in Nat /\ HasSent(q) <= HasSent(q)'
  <2> TAKE q \in Peers
  <2>1. HasSent(q) \in Nat
    BY <1>2, RoundsType
  <2> QED
    BY <1>2, <1>3, <2>1
<1>5. /\ Len(sent') = n + 1 /\ sent'[n + 1] = d
      /\ \A i \in 1..n : sent'[i] = sent[i]
  BY <1>1, <1>2
<1>6. \A i \in 1..n : /\ sent[i].from \in Peers /\ sent[i].round \in Nat
                      /\ sent[i].round <= HasSent(sent[i].from)
  <2> TAKE i \in 1..n
  <2>1. sent[i] \in Deltas
    BY <1>2
  <2> QED
    BY <1>2, <2>1 DEF Deltas, LogInv, SentRounds
<1> HIDE DEF n
<1>7. d.from = p /\ d.round = round[p]
  OBVIOUS
<1> HIDE DEF d
<1>8. SentRounds'
  <2> SUFFICES ASSUME NEW i \in 1..n + 1, NEW q \in Peers, sent'[i].from = q
               PROVE  sent'[i].round <= HasSent(q)'
    BY <1>5 DEF SentRounds
  <2>1. CASE i = n + 1
    BY <1>2, <1>3, <1>5, <1>7, <2>1
  <2>2. CASE i \in 1..n
    <3>1. sent'[i] = sent[i] /\ sent[i].from = q
      BY <1>5, <2>2
    <3>2. sent[i].round \in Nat /\ sent[i].round <= HasSent(q)
      BY <1>6, <2>2, <3>1
    <3>3. HasSent(q) \in Nat /\ HasSent(q) <= HasSent(q)' /\ HasSent(q)' \in Int
      BY <1>2, <1>3, <1>4
    <3>4. sent[i].round <= HasSent(q)'
      BY <3>2, <3>3
    <3> QED
      BY <3>1, <3>4
  <2> QED
    BY <1>2, <2>1, <2>2
<1>9. SentSorted'
  <2> SUFFICES ASSUME NEW i \in 1..n + 1, NEW j \in 1..n + 1, i < j
               PROVE  sent'[i].round <= sent'[j].round /\ sent'[i] # sent'[j]
    BY <1>5 DEF SentSorted
  <2>1. i \in 1..n /\ sent'[i] = sent[i]
    BY <1>2, <1>5
  <2>2. CASE j \in 1..n
    <3>1. sent'[j] = sent[j]
      BY <1>5, <2>2
    <3>2. sent[i].round <= sent[j].round /\ sent[i] # sent[j]
      BY <2>1, <2>2 DEF LogInv, SentSorted, n
    <3> QED
      BY <2>1, <3>1, <3>2
  <2>3. CASE j = n + 1
    <3>1. sent'[j] = d
      BY <1>5, <2>3
    <3> DEFINE q == sent[i].from
    <3>2. q \in Peers /\ sent[i].round \in Nat /\ sent[i].round <= HasSent(q)
      BY <1>6, <2>1
    <3>3. HasSent(q) \in Nat /\ HasSent(q) <= HasSent(p) + 1
      BY <1>4, <3>2, Window
    <3> HIDE DEF q
    <3>4. sent[i].round <= round[p]
      BY <1>2, <1>3, <3>2, <3>3
    <3>5. sent[i] # d
      <4> SUFFICES ASSUME sent[i] = d PROVE FALSE
        OBVIOUS
      <4>1. q = p /\ sent[i].round = round[p]
        BY <1>7 DEF q
      <4> QED
        BY <1>2, <1>3, <3>2, <4>1
    <3> QED
      BY <1>7, <2>1, <3>1, <3>4, <3>5
  <2> QED
    BY <1>2, <2>2, <2>3
<1>10. SentAll'
  <2> SUFFICES ASSUME NEW q \in Peers, NEW r \in 1..HasSent(q)'
               PROVE  \E i \in 1..n + 1 : sent'[i] = [from |-> q, round |-> r]
    BY <1>5 DEF SentAll
  <2>1. CASE r \in 1..HasSent(q)
    <3>1. PICK i \in 1..n : sent[i] = [from |-> q, round |-> r]
      BY <2>1 DEF LogInv, SentAll, n
    <3>2. i \in 1..n + 1 /\ sent'[i] = sent[i]
      BY <1>2, <1>5
    <3> QED
      BY <3>1, <3>2
  <2>2. CASE r \notin 1..HasSent(q)
    <3>1. q = p /\ r = round[p]
      BY <1>2, <1>3, <1>4, <2>2
    <3> QED
      BY <1>2, <1>5, <3>1 DEF d
  <2> QED
    BY <2>1, <2>2
<1>11. \A q \in Peers : \A i \in 1..cursor[q] : i \in 1..n /\ sent'[i] = sent[i]
  <2> TAKE q \in Peers
  <2> TAKE i \in 1..cursor[q]
  <2>1. i \in 1..n
    BY <1>2
  <2> QED
    BY <1>5, <2>1
<1>12. InboxFromSent' /\ InboxHasAll' /\ InboxSorted'
  <2>1. InboxFromSent'
    <3> SUFFICES ASSUME NEW q \in Peers, NEW k \in 1..Len(inbox[q])
                 PROVE  /\ inbox[q][k].from # q
                        /\ \E i \in 1..cursor[q] : sent'[i] = inbox[q][k]
      BY <1>1 DEF InboxFromSent
    <3>1. PICK i \in 1..cursor[q] : inbox[q][k].from # q /\ sent[i] = inbox[q][k]
      BY DEF LogInv, InboxFromSent
    <3> QED
      BY <1>11, <3>1
  <2>2. InboxHasAll'
    <3> SUFFICES ASSUME NEW q \in Peers, NEW i \in 1..cursor[q], sent'[i].from # q
                 PROVE  \E k \in 1..Len(inbox[q]) : inbox[q][k] = sent'[i]
      BY <1>1 DEF InboxHasAll
    <3>1. sent'[i] = sent[i]
      BY <1>11
    <3> QED
      BY <3>1 DEF LogInv, InboxHasAll
  <2>3. InboxSorted'
    BY <1>1 DEF LogInv, InboxSorted
  <2> QED
    BY <2>1, <2>2, <2>3
<1>13. NoneBehind'
  <2> SUFFICES ASSUME NEW o \in Peers, NEW q \in Peers
               PROVE  Completed(o)' <= HasSent(q)'
    BY DEF NoneBehind
  <2>1. Completed(o) <= HasSent(q) /\ Completed(o)' = Completed(o)
    BY <1>3 DEF RoundInv, NoneBehind
  <2>2. Completed(o) \in Nat /\ HasSent(q) \in Nat
    BY RoundsType
  <2>3. HasSent(q) <= HasSent(q)' /\ HasSent(q)' \in Int
    BY <1>2, <1>3, <1>4
  <2> QED
    BY <2>1, <2>2, <2>3
<1>14. TakenCount'
  BY <1>1, <1>2 DEF RoundInv, TakenCount
<1>15. ModelCount'
  <2>1. \A q \in Peers : Trained(q)' = Trained(q)
    BY <1>1, <1>2 DEF Trained
  <2>2. \A q \in Peers : \A e \in Deltas : IsTaken(q, e)' <=> IsTaken(q, e)
    BY <1>1 DEF IsTaken
  <2> QED
    BY <1>1, <2>1, <2>2 DEF ModelCount
<1> QED
  BY <1>8, <1>9, <1>10, <1>12, <1>13, <1>14, <1>15 DEF LogInv, RoundInv

\* The listener puts the next message of the others in the queue.
LEMMA ListenStep ==
  ASSUME IInv, NEW p \in Peers, Listen(p)
  PROVE  LogInv' /\ RoundInv' /\ ModelCount'
<1> USE DEF IInv
<1>1. PICK i \in 1..Len(sent) :
        /\ cursor[p] < i
        /\ sent[i].from # p
        /\ \A j \in 1..Len(sent) : cursor[p] < j /\ j < i => sent[j].from = p
        /\ cursor' = [cursor EXCEPT ![p] = i]
        /\ inbox' = [inbox EXCEPT ![p] = Append(inbox[p], sent[i])]
  BY DEF Listen, M!Deliver, M!IsNext
<1>2. UNCHANGED <<sent, pc, round, taken, toApply, model>>
  BY DEF Listen, M!Deliver, trainVars
<1> DEFINE n == Len(inbox[p])
<1>3. /\ sent \in Seq(Deltas) /\ Len(sent) \in Nat /\ sent[i] \in Deltas
      /\ inbox \in [Peers -> Seq(Deltas)] /\ n \in Nat
      /\ cursor \in [Peers -> Nat]
      /\ cursor[p] \in Nat /\ cursor[p] <= Len(sent) /\ i \in Nat
  BY DEF TypeOK
<1>4. /\ cursor'[p] = i
      /\ Len(inbox'[p]) = n + 1 /\ inbox'[p][n + 1] = sent[i]
      /\ \A k \in 1..n : inbox'[p][k] = inbox[p][k]
      /\ \A q \in Peers : q # p => inbox'[q] = inbox[q] /\ cursor'[q] = cursor[q]
  BY <1>1, <1>3
<1> HIDE DEF n
<1>5. \A q \in Peers : /\ HasSent(q)' = HasSent(q) /\ Completed(q)' = Completed(q)
                       /\ Trained(q)' = Trained(q)
  BY <1>2 DEF HasSent, Completed, Trained
<1>6. SentRounds' /\ SentSorted' /\ SentAll'
  <2>1. SentRounds'
    BY <1>2, <1>5 DEF LogInv, SentRounds
  <2>2. SentSorted'
    BY <1>2 DEF LogInv, SentSorted
  <2>3. SentAll'
    BY <1>2, <1>5 DEF LogInv, SentAll
  <2> QED
    BY <2>1, <2>2, <2>3
<1>7. InboxFromSent'
  <2> SUFFICES ASSUME NEW q \in Peers, NEW k \in 1..Len(inbox'[q])
               PROVE  /\ inbox'[q][k].from # q
                      /\ \E j \in 1..cursor'[q] : sent[j] = inbox'[q][k]
    BY <1>2 DEF InboxFromSent
  <2>1. CASE q # p
    <3>1. inbox'[q] = inbox[q] /\ cursor'[q] = cursor[q]
      BY <1>4, <2>1
    <3>2. PICK j \in 1..cursor[q] : inbox[q][k].from # q /\ sent[j] = inbox[q][k]
      BY <3>1 DEF LogInv, InboxFromSent
    <3> QED
      BY <3>1, <3>2
  <2>2. CASE q = p /\ k = n + 1
    <3>1. i \in 1..i
      BY <1>1, <1>3
    <3> QED
      BY <1>1, <1>4, <2>2, <3>1
  <2>3. CASE q = p /\ k \in 1..n
    <3>1. PICK j \in 1..cursor[p] : inbox[p][k].from # p /\ sent[j] = inbox[p][k]
      BY <2>3 DEF LogInv, InboxFromSent, n
    <3>2. j \in 1..i
      BY <1>1, <1>3
    <3> QED
      BY <1>4, <2>3, <3>1, <3>2
  <2> QED
    BY <1>3, <1>4, <2>1, <2>2, <2>3
<1>8. InboxHasAll'
  <2> SUFFICES ASSUME NEW q \in Peers, NEW j \in 1..cursor'[q], sent[j].from # q
               PROVE  \E k \in 1..Len(inbox'[q]) : inbox'[q][k] = sent[j]
    BY <1>2 DEF InboxHasAll
  <2>1. CASE q # p
    BY <1>4, <2>1 DEF LogInv, InboxHasAll
  <2>2. CASE q = p /\ j \in 1..cursor[p]
    <3>1. PICK k \in 1..n : inbox[p][k] = sent[j]
      BY <2>2 DEF LogInv, InboxHasAll, n
    <3>2. k \in 1..n + 1 /\ inbox'[p][k] = inbox[p][k]
      BY <1>3, <1>4
    <3> QED
      BY <1>4, <2>2, <3>1, <3>2
  <2>3. CASE q = p /\ j \notin 1..cursor[p]
    <3>1. j = i
      <4>1. j \in 1..i
        BY <1>4, <2>3
      <4>2. j \in 1..Len(sent) /\ cursor[p] < j
        BY <1>1, <1>3, <2>3, <4>1
      <4> QED
        BY <1>1, <2>3, <4>1, <4>2
    <3>2. n + 1 \in 1..Len(inbox'[p])
      BY <1>3, <1>4
    <3> QED
      BY <1>4, <2>3, <3>1, <3>2
  <2> QED
    BY <2>1, <2>2, <2>3
<1>9. InboxSorted'
  <2> SUFFICES ASSUME NEW q \in Peers, NEW k \in 1..Len(inbox'[q]),
                      NEW l \in 1..Len(inbox'[q]), k < l
               PROVE  /\ inbox'[q][k].round <= inbox'[q][l].round
                      /\ inbox'[q][k] # inbox'[q][l]
    BY DEF InboxSorted
  <2>1. CASE q # p
    BY <1>4, <2>1 DEF LogInv, InboxSorted
  <2>2. CASE q = p /\ l \in 1..n
    <3>1. k \in 1..n
      BY <1>3, <2>2
    <3>2. inbox'[p][k] = inbox[p][k] /\ inbox'[p][l] = inbox[p][l]
      BY <1>4, <2>2, <3>1
    <3>3. inbox[p][k].round <= inbox[p][l].round /\ inbox[p][k] # inbox[p][l]
      BY <2>2, <3>1 DEF LogInv, InboxSorted, n
    <3> QED
      BY <2>2, <3>2, <3>3
  <2>3. CASE q = p /\ l = n + 1
    <3>1. k \in 1..n
      BY <1>3, <1>4, <2>3
    <3>2. PICK j \in 1..cursor[p] : sent[j] = inbox[p][k]
      BY <3>1 DEF LogInv, InboxFromSent, n
    <3>3. j \in 1..Len(sent) /\ j < i
      BY <1>1, <1>3
    <3>4. sent[j].round <= sent[i].round /\ sent[j] # sent[i]
      BY <3>3 DEF LogInv, SentSorted
    <3> QED
      BY <1>4, <2>3, <3>1, <3>2, <3>4
  <2> QED
    BY <1>3, <1>4, <2>1, <2>2, <2>3
<1>10. NoneBehind'
  BY <1>5 DEF RoundInv, NoneBehind
<1>11. TakenCount'
  <2> SUFFICES ASSUME NEW q \in Peers
               PROVE /\ pc[q] \in {"train", "send", "wait"} => taken[q] = NumOthers * (round[q] - 1)
                     /\ pc[q] = "apply" => /\ taken[q] + toApply[q] = NumOthers * round[q]
                                           /\ NumOthers * round[q] <= Len(inbox'[q])
                     /\ pc[q] \in {"stop", "done"} => /\ taken[q] = NumOthers * NumRounds
                                                      /\ round[q] = NumRounds
    BY <1>2 DEF TakenCount
  <2>1. Len(inbox[q]) <= Len(inbox'[q]) /\ Len(inbox[q]) \in Nat /\ Len(inbox'[q]) \in Nat
    <3>1. CASE q = p
      BY <1>3, <1>4, <3>1 DEF n
    <3>2. CASE q # p
      BY <1>3, <1>4, <3>2
    <3> QED
      BY <3>1, <3>2
  <2>2. NumOthers * round[q] \in Nat
    BY NumOthersType DEF TypeOK
  <2> QED
    BY <2>1, <2>2 DEF RoundInv, TakenCount
<1>12. ModelCount'
  <2>1. \A q \in Peers : \A d \in Deltas : IsTaken(q, d)' <=> IsTaken(q, d)
    <3> SUFFICES ASSUME NEW q \in Peers
                 PROVE  \A k \in 1..taken[q] : inbox'[q][k] = inbox[q][k]
      BY <1>2 DEF IsTaken
    <3>1. CASE q # p
      BY <1>4, <3>1
    <3>2. CASE q = p
      <4>1. taken[p] \in Nat /\ taken[p] <= n
        BY DEF TypeOK, n
      <4> QED
        BY <1>3, <1>4, <3>2, <4>1
    <3> QED
      BY <3>1, <3>2
  <2> QED
    BY <1>2, <1>5, <2>1 DEF ModelCount
<1> QED
  BY <1>6, <1>7, <1>8, <1>9, <1>10, <1>11, <1>12 DEF LogInv, RoundInv

\* A message is taken; the last one of a round completes it, and by then
\* everyone has sent the change of that round.
LEMMA ApplyStep ==
  ASSUME IInv, NEW p \in Peers, ApplyDelta(p)
  PROVE  LogInv' /\ RoundInv' /\ ModelCount'
<1> USE DEF IInv
<1> DEFINE t == taken[p] + 1
           d == inbox[p][t]
<1>1. /\ UNCHANGED <<sent, cursor, inbox>>
      /\ pc[p] = "apply"
      /\ taken' = [taken EXCEPT ![p] = t]
      /\ toApply' = [toApply EXCEPT ![p] = toApply[p] - 1]
      /\ model' = [model EXCEPT ![p] = [model[p] EXCEPT ![d] = @ + 1]]
  BY DEF ApplyDelta
<1>2. /\ pc \in [Peers -> {"train", "send", "wait", "apply", "stop", "done"}]
      /\ round \in [Peers -> 1..NumRounds] /\ NumRounds \in Nat
      /\ toApply \in [Peers -> 0..NumOthers] /\ NumOthers \in Nat
      /\ taken \in [Peers -> Nat]
      /\ toApply[p] > 0
  BY <1>1, SyncPeersAssumption, NumOthersType DEF TypeOK
<1>3. \/ /\ toApply[p] > 1 /\ pc' = pc /\ round' = round
      \/ /\ toApply[p] = 1 /\ round[p] < NumRounds
         /\ pc' = [pc EXCEPT ![p] = "train"] /\ round' = [round EXCEPT ![p] = round[p] + 1]
      \/ /\ toApply[p] = 1 /\ round[p] = NumRounds
         /\ pc' = [pc EXCEPT ![p] = "stop"] /\ round' = round
  <2>1. toApply[p] > 1 \/ toApply[p] = 1
    BY <1>2
  <2>2. round[p] < NumRounds \/ (round[p] = NumRounds /\ ~(round[p] < NumRounds))
    BY <1>2
  <2> QED
    BY <2>1, <2>2 DEF ApplyDelta
<1>4. /\ t \in 1..Len(inbox[p]) /\ Len(inbox[p]) \in Nat
      /\ Len(inbox[p]) - taken[p] > 0 /\ taken[p] = t - 1 /\ t \in Nat
  <2>1. Len(inbox[p]) \in Nat /\ taken[p] \in Nat
    BY DEF TypeOK
  <2>2. Len(inbox[p]) - taken[p] > 0
    BY DEF ApplyDelta, QSize
  <2> QED
    BY <2>1, <2>2
<1>5. d \in Deltas /\ d.from # p
  BY <1>4, HandedWasSent
<1> HIDE DEF d, t
<1>6. \A q \in Peers : HasSent(q)' = HasSent(q)
  <2> TAKE q \in Peers
  <2>1. CASE q # p
    BY <1>1, <1>2, <1>3, <2>1 DEF HasSent
  <2>2. CASE q = p
    <3>1. HasSent(p) = round[p]
      BY <1>1 DEF HasSent
    <3>2. HasSent(p)' = round[p]
      BY <1>1, <1>2, <1>3 DEF HasSent
    <3> QED
      BY <2>2, <3>1, <3>2
  <2> QED
    BY <2>1, <2>2
<1>7. LogInv'
  BY <1>1, <1>6, LogFrame
<1>8. \A q \in Peers : q # p => Completed(q)' = Completed(q)
  BY <1>1, <1>2, <1>3 DEF Completed
<1>9. Completed(p)' \in {Completed(p), round[p]}
  <2>1. Completed(p) = round[p] - 1
    BY <1>1 DEF Completed
  <2>2. CASE toApply[p] > 1
    BY <1>2, <1>3, <2>2 DEF Completed
  <2>3. CASE toApply[p] = 1 /\ round[p] < NumRounds
    BY <1>2, <1>3, <2>3 DEF Completed
  <2>4. CASE toApply[p] = 1 /\ round[p] = NumRounds
    BY <1>2, <1>3, <2>4 DEF Completed
  <2> QED
    BY <1>3, <2>2, <2>3, <2>4
<1>10. \A q \in Peers : round[p] <= HasSent(q)
  <2>1. NumOthers * round[p] <= Len(inbox[p])
    BY <1>1 DEF RoundInv, TakenCount
  <2> QED
    BY <1>1, <2>1, EnoughMeansAll
<1>11. NoneBehind'
  <2> SUFFICES ASSUME NEW o \in Peers, NEW q \in Peers
               PROVE  Completed(o)' <= HasSent(q)'
    BY DEF NoneBehind
  <2>1. HasSent(q)' = HasSent(q) /\ Completed(o) <= HasSent(q)
    BY <1>6 DEF RoundInv, NoneBehind
  <2>2. CASE o # p
    BY <1>8, <2>1, <2>2
  <2>3. CASE o = p
    BY <1>9, <1>10, <2>1, <2>3
  <2> QED
    BY <2>2, <2>3
<1>12. TakenCount'
  <2> SUFFICES ASSUME NEW q \in Peers
               PROVE /\ pc'[q] \in {"train", "send", "wait"} => taken'[q] = NumOthers * (round'[q] - 1)
                     /\ pc'[q] = "apply" => /\ taken'[q] + toApply'[q] = NumOthers * round'[q]
                                            /\ NumOthers * round'[q] <= Len(inbox[q])
                     /\ pc'[q] \in {"stop", "done"} => /\ taken'[q] = NumOthers * NumRounds
                                                       /\ round'[q] = NumRounds
    BY <1>1 DEF TakenCount
  <2>1. CASE q # p
    <3>1. /\ pc'[q] = pc[q] /\ round'[q] = round[q]
          /\ taken'[q] = taken[q] /\ toApply'[q] = toApply[q]
      BY <1>1, <1>2, <1>3, <2>1
    <3> QED
      BY <3>1 DEF RoundInv, TakenCount
  <2>2. CASE q = p
    <3>1. taken'[p] = t /\ toApply'[p] = toApply[p] - 1
      BY <1>1, <1>2
    <3>2. /\ taken[p] + toApply[p] = NumOthers * round[p]
          /\ NumOthers * round[p] <= Len(inbox[p])
      BY <1>1 DEF RoundInv, TakenCount
    <3>3. taken[p] \in Nat /\ toApply[p] \in Nat /\ round[p] \in Nat
      BY <1>2
    <3>4. taken'[p] + toApply'[p] = NumOthers * round[p]
      BY <1>4, <3>1, <3>2, <3>3
    <3>5. CASE toApply[p] > 1
      <4>1. pc'[p] = "apply" /\ round'[p] = round[p]
        BY <1>1, <1>3, <3>3, <3>5
      <4> QED
        BY <2>2, <3>2, <3>4, <4>1
    <3>6. CASE toApply[p] = 1 /\ round[p] < NumRounds
      <4>1. pc'[p] = "train" /\ round'[p] = round[p] + 1
        BY <1>2, <1>3, <3>3, <3>6
      <4>2. taken'[p] = NumOthers * round[p]
        BY <1>4, <3>1, <3>4, <3>6
      <4>3. round'[p] - 1 = round[p]
        BY <3>3, <4>1
      <4> QED
        BY <2>2, <4>1, <4>2, <4>3
    <3>7. CASE toApply[p] = 1 /\ round[p] = NumRounds
      <4>1. pc'[p] = "stop" /\ round'[p] = NumRounds
        BY <1>2, <1>3, <3>3, <3>7
      <4>2. taken'[p] = NumOthers * NumRounds
        BY <1>4, <3>1, <3>4, <3>7
      <4> QED
        BY <2>2, <4>1, <4>2
    <3> QED
      BY <1>3, <3>5, <3>6, <3>7
  <2> QED
    BY <2>1, <2>2
<1>13. ModelCount'
  <2> SUFFICES ASSUME NEW q \in Peers, NEW e \in Deltas
               PROVE  model'[q][e] = IF \/ e.from = q /\ e.round <= Trained(q)'
                                        \/ e.from # q /\ IsTaken(q, e)'
                                     THEN 1 ELSE 0
    BY DEF ModelCount
  <2>1. model[q][e] = IF \/ e.from = q /\ e.round <= Trained(q)
                         \/ e.from # q /\ IsTaken(q, e)
                      THEN 1 ELSE 0
    BY DEF ModelCount
  <2>2. Trained(q)' = Trained(q)
    <3>1. CASE q # p
      BY <1>1, <1>2, <1>3, <3>1 DEF Trained
    <3>2. CASE q = p
      <4>1. Trained(p) = round[p]
        BY <1>1 DEF Trained
      <4>2. Trained(p)' = round[p]
        BY <1>1, <1>2, <1>3 DEF Trained
      <4> QED
        BY <3>2, <4>1, <4>2
    <3> QED
      BY <3>1, <3>2
  <2>3. CASE q # p
    <3>1. model'[q] = model[q] /\ taken'[q] = taken[q]
      BY <1>1, <1>2, <2>3 DEF TypeOK
    <3>2. IsTaken(q, e)' <=> IsTaken(q, e)
      BY <1>1, <3>1 DEF IsTaken
    <3> QED
      BY <2>1, <2>2, <3>1, <3>2
  <2>4. CASE q = p
    <3>1. model \in [Peers -> [Deltas -> Nat]] /\ model[p] \in [Deltas -> Nat]
      BY DEF TypeOK
    <3>2. model'[p][e] = IF e = d THEN model[p][e] + 1 ELSE model[p][e]
      BY <1>1, <1>5, <3>1
    <3>3. taken'[p] = t
      BY <1>1, <1>2
    <3>4. IsTaken(p, e)' <=> IsTaken(p, e) \/ e = d
      <4>1. \A k \in 1..t : k \in 1..taken[p] \/ k = t
        BY <1>4
      <4>2. 1..taken[p] \subseteq 1..t /\ t \in 1..t
        BY <1>4
      <4> QED
        BY <1>1, <3>3, <4>1, <4>2 DEF IsTaken, d
    <3>5. ~IsTaken(p, d)
      <4> SUFFICES ASSUME NEW k \in 1..taken[p] PROVE inbox[p][k] # d
        BY DEF IsTaken
      <4>1. k \in 1..Len(inbox[p]) /\ k < t
        BY <1>4
      <4> QED
        BY <1>4, <4>1 DEF LogInv, InboxSorted, d
    <3>6. CASE e = d
      BY <1>5, <2>1, <2>4, <3>2, <3>4, <3>5, <3>6
    <3>7. CASE e # d
      BY <2>1, <2>2, <2>4, <3>2, <3>4, <3>7
    <3> QED
      BY <3>6, <3>7
  <2> QED
    BY <2>3, <2>4
<1> QED
  BY <1>7, <1>11, <1>12, <1>13 DEF RoundInv

-----------------------------------------------------------------------------
LEMMA InitInv == Init => IInv
<1> SUFFICES ASSUME Init PROVE IInv
  OBVIOUS
<1>1. /\ sent = <<>> /\ inbox = [p \in Peers |-> <<>>] /\ cursor = [p \in Peers |-> 0]
      /\ pc = [p \in Peers |-> "train"] /\ round = [p \in Peers |-> 1]
      /\ taken = [p \in Peers |-> 0] /\ toApply = [p \in Peers |-> 0]
      /\ model = [p \in Peers |-> [d \in Deltas |-> 0]]
  BY DEF Init, M!MulticastInit
<1>2. NumOthers \in Nat \ {0} /\ NumRounds \in Nat \ {0}
  BY NumOthersType, SyncPeersAssumption
<1>3. TypeOK
  BY <1>1, <1>2 DEF TypeOK
<1>4. Len(sent) = 0 /\ \A p \in Peers : Len(inbox[p]) = 0 /\ cursor[p] = 0
  BY <1>1
<1>5. \A p \in Peers : HasSent(p) = 0 /\ Completed(p) = 0 /\ Trained(p) = 0
  BY <1>1 DEF HasSent, Completed, Trained
<1>6. LogInv
  BY <1>4, <1>5 DEF LogInv, SentRounds, SentSorted, SentAll,
                    InboxFromSent, InboxHasAll, InboxSorted
<1>7. RoundInv
  <2>1. NoneBehind
    BY <1>5 DEF NoneBehind
  <2>2. TakenCount
    BY <1>1, <1>2 DEF TakenCount
  <2> QED
    BY <2>1, <2>2 DEF RoundInv
<1>8. ModelCount
  <2>1. \A p \in Peers : \A d \in Deltas : ~IsTaken(p, d) /\ ~(d.round <= Trained(p))
    BY <1>1, <1>5 DEF IsTaken, Deltas
  <2> QED
    BY <1>1, <2>1 DEF ModelCount
<1> QED
  BY <1>3, <1>6, <1>7, <1>8 DEF IInv

LEMMA NextInv == IInv /\ [Next]_vars => IInv'
<1> SUFFICES ASSUME IInv, [Next]_vars PROVE IInv'
  OBVIOUS
<1>1. TypeOK'
  BY TypeStep DEF IInv
<1>2. ASSUME NEW p \in Peers, Step(p) \/ Listen(p)
      PROVE  LogInv' /\ RoundInv' /\ ModelCount'
  BY <1>2, TrainStep, SendDeltaStep, QueueFilledStep, ApplyStep, FinishStep,
     ListenStep DEF Step
<1>3. CASE UNCHANGED vars
  <2> USE <1>3 DEF vars
  <2>1. \A p \in Peers : /\ HasSent(p)' = HasSent(p) /\ Completed(p)' = Completed(p)
                         /\ Trained(p)' = Trained(p)
    BY DEF HasSent, Completed, Trained
  <2>2. LogInv'
    BY <2>1, LogFrame DEF IInv
  <2>3. RoundInv'
    BY <2>1 DEF IInv, RoundInv, NoneBehind, TakenCount
  <2>4. ModelCount'
    BY <2>1 DEF IInv, ModelCount, IsTaken
  <2> QED
    BY <1>1, <2>2, <2>3, <2>4 DEF IInv
<1> QED
  BY <1>1, <1>2, <1>3 DEF Next, IInv

\* The strengthening holds in every state that training reaches.
THEOREM Invariance == Spec => []IInv
<1> QED
  BY InitInv, NextInv, PTL DEF Spec

-----------------------------------------------------------------------------
\* When p completes or begins a round it has taken a whole number of rounds.
LEMMA AlignedState == IInv => RoundAligned
<1> SUFFICES ASSUME IInv, NEW p \in Peers, pc[p] \notin {"send", "wait", "apply"},
                    NEW d \in Deltas
             PROVE  model[p][d] = IF d.round <= Completed(p) THEN 1 ELSE 0
  BY DEF RoundAligned
<1> DEFINE c == Completed(p)
<1>1. /\ TypeOK /\ LogInv /\ NoneBehind /\ TakenCount
      /\ model[p][d] = IF \/ d.from = p /\ d.round <= Trained(p)
                          \/ d.from # p /\ IsTaken(p, d)
                       THEN 1 ELSE 0
  BY DEF IInv, RoundInv, ModelCount
<1>2. pc[p] \in {"train", "stop", "done"}
  BY <1>1 DEF TypeOK
<1>3. taken[p] = NumOthers * c /\ Trained(p) = c
  BY <1>1, <1>2 DEF TakenCount, Completed, Trained
<1>4. c \in Nat /\ \A q \in Peers : c <= HasSent(q)
  BY <1>1, RoundsType DEF NoneBehind
<1>5. NumOthers * c <= Len(inbox[p])
  BY <1>1, <1>3 DEF TypeOK
<1> HIDE DEF c
<1>6. d.from # p => (IsTaken(p, d) <=> d.round <= c)
  BY <1>1, <1>3, <1>4, <1>5, TakenExactly DEF IsTaken
<1> QED
  BY <1>1, <1>3, <1>6 DEF c

\* Every peer's weights are everyone's changes of the rounds it has completed,
\* each once, for every number of peers and of rounds.
THEOREM RoundAlignedAlways == Spec => []RoundAligned
<1> QED
  BY Invariance, AlignedState, PTL

LEMMA BoundedState == IInv => QueueBounded
<1> SUFFICES ASSUME IInv, NEW p \in Peers PROVE QSize(p) <= 2 * NumOthers
  BY DEF QueueBounded
<1> DEFINE m == Completed(p) + 2
<1>1. TypeOK /\ LogInv /\ RoundInv /\ TakenCount
  BY DEF IInv, RoundInv
<1>2. Completed(p) \in Nat /\ m \in Nat /\ NumOthers \in Nat \ {0}
  BY <1>1, RoundsType, NumOthersType
<1>3. \A q \in Peers : HasSent(q) <= m
  <2> TAKE q \in Peers
  <2>1. /\ HasSent(q) <= HasSent(p) + 1 /\ HasSent(p) <= Completed(p) + 1
        /\ HasSent(q) \in Nat /\ HasSent(p) \in Nat
    BY <1>1, Window, RoundsType
  <2> QED
    BY <1>2, <2>1
<1>4. Len(inbox[p]) <= NumOthers * m
  BY <1>1, <1>2, <1>3, InboxBound
<1>5. NumOthers * Completed(p) <= taken[p]
  <2>1. /\ pc[p] \in {"train", "send", "wait", "apply", "stop", "done"}
        /\ round[p] \in Nat /\ taken[p] \in Nat
        /\ toApply[p] \in Nat /\ toApply[p] <= NumOthers
    BY <1>1, <1>2 DEF TypeOK
  <2>2. CASE pc[p] # "apply"
    <3>1. taken[p] = NumOthers * Completed(p)
      BY <1>1, <2>1, <2>2 DEF TakenCount, Completed
    <3> QED
      BY <2>1, <3>1
  <2>3. CASE pc[p] = "apply"
    <3>1. /\ Completed(p) = round[p] - 1
          /\ taken[p] + toApply[p] = NumOthers * round[p]
      BY <1>1, <2>3 DEF TakenCount, Completed
    <3>2. NumOthers * Completed(p) = NumOthers * round[p] - NumOthers
      BY <1>2, <2>1, <3>1
    <3>3. NumOthers * round[p] \in Nat
      BY <1>2, <2>1
    <3> QED
      BY <1>2, <2>1, <3>1, <3>2, <3>3
  <2> QED
    BY <2>2, <2>3
<1>6. NumOthers * m = NumOthers * Completed(p) + 2 * NumOthers
  BY <1>2
<1>7. /\ Len(inbox[p]) \in Nat /\ taken[p] \in Nat
      /\ NumOthers * Completed(p) \in Nat
  BY <1>1, <1>2 DEF TypeOK
<1> QED
  BY <1>2, <1>4, <1>5, <1>6, <1>7 DEF QSize

\* The queue train fills without a bound holds at most two rounds.
THEOREM QueueBoundedAlways == Spec => []QueueBounded
<1> QED
  BY Invariance, BoundedState, PTL

LEMMA DrainedState == IInv => QueueDrained
<1> SUFFICES ASSUME IInv, NEW p \in Peers, pc[p] \in {"stop", "done"}
             PROVE  QSize(p) = 0 /\ \A q \in Peers : HasSent(q) = NumRounds
  BY DEF QueueDrained
<1>1. TypeOK /\ LogInv /\ NoneBehind /\ TakenCount
  BY DEF IInv, RoundInv
<1>2. Completed(p) = NumRounds /\ NumRounds \in Nat
  BY SyncPeersAssumption DEF Completed
<1>3. \A q \in Peers : HasSent(q) = NumRounds
  <2> TAKE q \in Peers
  <2>1. HasSent(q) \in 0..NumRounds /\ NumRounds <= HasSent(q)
    BY <1>1, <1>2, RoundsType DEF NoneBehind
  <2> QED
    BY <1>2, <2>1
<1>4. Len(inbox[p]) <= NumOthers * NumRounds
  <2>1. \A q \in Peers : HasSent(q) <= NumRounds
    BY <1>2, <1>3
  <2> QED
    BY <1>1, <1>2, <2>1, InboxBound
<1>5. /\ taken[p] = NumOthers * NumRounds /\ taken[p] <= Len(inbox[p])
      /\ taken[p] \in Nat /\ Len(inbox[p]) \in Nat
  BY <1>1 DEF TakenCount, TypeOK
<1> QED
  BY <1>3, <1>4, <1>5 DEF QSize

\* A peer that has done its last round has everything the others sent.
THEOREM QueueDrainedAlways == Spec => []QueueDrained
<1> QED
  BY Invariance, DrainedState, PTL

-----------------------------------------------------------------------------
\* Every step of training is a step of bulk synchronous training or none.
LEMMA LockstepStep == IInv /\ [Next]_vars => [BSP!BSPNext]_(BSP!bspVars)
<1> SUFFICES ASSUME IInv, [Next]_vars PROVE [BSP!BSPNext]_(BSP!bspVars)
  OBVIOUS
<1> USE DEF IInv
<1>0. /\ pc \in [Peers -> {"train", "send", "wait", "apply", "stop", "done"}]
      /\ round \in [Peers -> 1..NumRounds] /\ NumRounds \in Nat
      /\ toApply \in [Peers -> Nat]
  BY SyncPeersAssumption, NumOthersType DEF TypeOK
<1>1. ASSUME \A q \in Peers : HasSent(q)' = HasSent(q) /\ Completed(q)' = Completed(q)
      PROVE  UNCHANGED BSP!bspVars
  BY <1>1 DEF BSP!bspVars
<1>2. ASSUME NEW p \in Peers, Train(p) PROVE UNCHANGED BSP!bspVars
  <2>1. \A q \in Peers : HasSent(q)' = HasSent(q) /\ Completed(q)' = Completed(q)
    BY <1>0, <1>2 DEF Train, HasSent, Completed
  <2> QED
    BY <1>1, <2>1
<1>3. ASSUME NEW p \in Peers, SendDelta(p) PROVE BSP!Contribute(p)
  <2>1. /\ pc[p] = "send" /\ pc' = [pc EXCEPT ![p] = "wait"] /\ round' = round
    BY <1>3 DEF SendDelta
  <2>2. /\ HasSent(p) = round[p] - 1 /\ Completed(p) = round[p] - 1
        /\ HasSent(p)' = round[p] /\ Completed(p)' = Completed(p)
    BY <1>0, <2>1 DEF HasSent, Completed
  <2>3. \A q \in Peers : q # p => HasSent(q)' = HasSent(q)
    BY <1>0, <2>1 DEF HasSent
  <2>4. \A q \in Peers : Completed(q)' = Completed(q)
    BY <1>0, <2>1 DEF Completed
  <2>5. round[p] \in 1..NumRounds
    BY <1>0
  <2>6. HasSent(p)' = HasSent(p) + 1 /\ HasSent(p) < NumRounds
    BY <1>0, <2>2, <2>5
  <2> QED
    BY <2>2, <2>3, <2>4, <2>6 DEF BSP!Contribute
<1>4. ASSUME NEW p \in Peers, QueueFilled(p) PROVE UNCHANGED BSP!bspVars
  <2>1. \A q \in Peers : HasSent(q)' = HasSent(q) /\ Completed(q)' = Completed(q)
    BY <1>0, <1>4 DEF QueueFilled, HasSent, Completed
  <2> QED
    BY <1>1, <2>1
<1>5. ASSUME NEW p \in Peers, ApplyDelta(p) PROVE [BSP!BSPNext]_(BSP!bspVars)
  <2>1. /\ pc[p] = "apply" /\ toApply[p] \in Nat /\ round[p] \in 1..NumRounds
    BY <1>0, <1>5 DEF ApplyDelta
  <2>2. \A q \in Peers : q # p => /\ HasSent(q)' = HasSent(q)
                                  /\ Completed(q)' = Completed(q)
    <3>1. \A q \in Peers : q # p => pc'[q] = pc[q] /\ round'[q] = round[q]
      BY <1>0, <1>5 DEF ApplyDelta
    <3> QED
      BY <3>1 DEF HasSent, Completed
  <2>3. CASE toApply[p] > 1
    <3>1. pc' = pc /\ round' = round
      BY <1>5, <2>3 DEF ApplyDelta
    <3>2. \A q \in Peers : HasSent(q)' = HasSent(q) /\ Completed(q)' = Completed(q)
      BY <3>1 DEF HasSent, Completed
    <3> QED
      BY <1>1, <3>2
  <2>4. CASE ~(toApply[p] > 1)
    <3>1. \/ round[p] < NumRounds /\ pc'[p] = "train" /\ round'[p] = round[p] + 1
          \/ round[p] = NumRounds /\ pc'[p] = "stop" /\ round'[p] = round[p]
      BY <1>0, <1>5, <2>1, <2>4 DEF ApplyDelta
    <3>2. /\ HasSent(p) = round[p] /\ HasSent(p)' = round[p]
          /\ Completed(p) = round[p] - 1 /\ Completed(p)' = round[p]
      BY <1>0, <2>1, <3>1 DEF HasSent, Completed
    <3>3. Completed(p)' = Completed(p) + 1
      BY <2>1, <3>2
    <3>4. \A q \in Peers : HasSent(q) > Completed(p)
      <4>1. NumOthers * round[p] <= Len(inbox[p])
        BY <2>1 DEF RoundInv, TakenCount
      <4>2. \A q \in Peers : round[p] <= HasSent(q) /\ HasSent(q) \in Nat
        BY <2>1, <4>1, EnoughMeansAll, RoundsType
      <4> QED
        BY <2>1, <3>2, <4>2
    <3>5. BSP!Merge(p)
      BY <2>2, <3>2, <3>3, <3>4 DEF BSP!Merge
    <3> QED
      BY <3>5 DEF BSP!BSPNext
  <2> QED
    BY <2>3, <2>4
<1>6. ASSUME NEW p \in Peers, Finish(p) PROVE UNCHANGED BSP!bspVars
  <2>1. \A q \in Peers : HasSent(q)' = HasSent(q) /\ Completed(q)' = Completed(q)
    BY <1>0, <1>6 DEF Finish, HasSent, Completed
  <2> QED
    BY <1>1, <2>1
<1>7. ASSUME NEW p \in Peers, Listen(p) PROVE UNCHANGED BSP!bspVars
  <2>1. \A q \in Peers : HasSent(q)' = HasSent(q) /\ Completed(q)' = Completed(q)
    BY <1>7 DEF Listen, trainVars, HasSent, Completed
  <2> QED
    BY <1>1, <2>1
<1>8. CASE UNCHANGED vars
  <2>1. \A q \in Peers : HasSent(q)' = HasSent(q) /\ Completed(q)' = Completed(q)
    BY <1>8 DEF vars, HasSent, Completed
  <2> QED
    BY <1>1, <2>1
<1> QED
  BY <1>2, <1>3, <1>4, <1>5, <1>6, <1>7, <1>8 DEF Next, Step, BSP!BSPNext

\* The peers, which only count messages, implement bulk synchronous training:
\* no peer sends the change of a round before everyone has sent its change of
\* the round before.
THEOREM LockstepHolds == Spec => Lockstep
<1>1. Init => BSP!BSPInit
  <2> SUFFICES ASSUME Init PROVE BSP!BSPInit
    OBVIOUS
  <2>1. \A p \in Peers : HasSent(p) = 0 /\ Completed(p) = 0
    BY DEF Init, HasSent, Completed
  <2> QED
    BY <2>1 DEF BSP!BSPInit
<1> QED
  BY <1>1, Invariance, LockstepStep, PTL DEF Spec, Lockstep, BSP!BSPSpec
=============================================================================
