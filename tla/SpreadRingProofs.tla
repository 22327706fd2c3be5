--------------------------- MODULE SpreadRingProofs ---------------------------
(***************************************************************************)
(* The ring protocol of SpreadRing, for any number of daemons, messages,   *)
(* slots and faults: no daemon comes to an assertion that fails, what a    *)
(* daemon discards every daemon has, and the ring implements the ordered   *)
(* delivery of OrderedDelivery.                                            *)
(*                                                                         *)
(* The heart of it is the aru of the token. A daemon believes the lower    *)
(* one of two tokens in a row, and may raise the aru only if it lowered it *)
(* itself, or if nobody missed anything.                                   *)
(***************************************************************************)
EXTENDS SpreadRing, FiniteSetTheorems, SequenceTheorems, NaturalsInduction, TLAPS

\* The slots suffice for what flow control admits: FC_allowed lets Highest_seq
\* run SeqGap ahead of Aru and then adds one batch. (8192 slots, a gap of 1600
\* and a batch of 20 in spread_params.h; but the windows of a configuration
\* file are not compared with the slots.)
Smaller(a, b) == IF a < b THEN a ELSE b
SlotsSuffice == SeqGap + Smaller(Window, PersonalWindow) <= NumSlots

-----------------------------------------------------------------------------
(* Numbers.                                                                *)

\* What the assumptions on the constants give the provers.
LEMMA RingConstants ==
  /\ NumDaemons \in Nat /\ NumDaemons >= 2 /\ Daemons = 1..NumDaemons
  /\ 1 \in Daemons /\ Leader \in Daemons /\ Leader = 1
  /\ NumSlots \in Nat \ {0} /\ ArqMod \in Nat \ {0} /\ ArqMod >= 3
  /\ SeqGap \in Nat /\ OldAru \in Nat /\ MaxFaults \in Nat
  /\ Window \in Nat \ {0} /\ PersonalWindow \in Nat \ {0}
  /\ Smaller(Window, PersonalWindow) \in Nat
BY SpreadRingAssumption DEF Daemons, Leader, Smaller

\* Two numbers of the same slot are the same, or a buffer apart.
LEMMA SameSlot ==
  ASSUME NEW n \in Nat \ {0}, NEW a \in Nat, NEW b \in Nat,
         a % n = b % n, a <= b, b - a < n
  PROVE  a = b
<1>a. a \in Int /\ b \in Int /\ n \in Int /\ n > 0
  OBVIOUS
<1>1. PICK qa \in Int : a = (n * qa) + (a % n)
  <2>1. a = (n * (a \div n)) + (a % n) /\ (a \div n) \in Int
    BY <1>a, Z3
  <2> QED
    BY <2>1
<1>2. PICK qb \in Int : b = (n * qb) + (b % n)
  <2>1. b = (n * (b \div n)) + (b % n) /\ (b \div n) \in Int
    BY <1>a, Z3
  <2> QED
    BY <2>1
<1>3. b - a = n * qb - n * qa
  BY <1>1, <1>2
<1>4. n * qb - n * qa = n * (qb - qa)
  BY <1>1, <1>2
<1>5. CASE qb - qa >= 1
  <2>1. n * (qb - qa) >= n * 1
    BY <1>5, Z3
  <2> QED
    BY <1>3, <1>4, <2>1
<1>6. CASE qb - qa <= -1
  <2>1. n * (qb - qa) <= n * (-1)
    BY <1>6, Z3
  <2> QED
    BY <1>3, <1>4, <2>1
<1>7. CASE qb = qa
  BY <1>3, <1>4, <1>7
<1> QED
  BY <1>5, <1>6, <1>7

\* Packets[] has a place for every number.
LEMMA SlotRange ==
  ASSUME NEW s \in Int
  PROVE  Slot(s) \in 0..(NumSlots - 1)
<1>1. NumSlots \in Nat \ {0}
  BY RingConstants
<1> QED
  BY <1>1 DEF Slot

\* A set of numbers has a least one, and if it is bounded a greatest one; these
\* are what Min and Max name.
LEMMA LeastNumber ==
  ASSUME NEW T \in SUBSET Nat, T # {}
  PROVE  \E x \in T : \A y \in T : x <= y
<1> DEFINE R == OpToRel(<, Nat)
<1>1. IsWellFoundedOn(R, Nat)
  BY NatLessThanWellFounded
<1>2. \A x, y \in Nat : x < y => <<x, y>> \in R
  BY DEF OpToRel
<1> HIDE DEF R
<1>3. PICK x \in T : \A y \in T : ~(<<y, x>> \in R)
  BY <1>1, WFMin
<1>4. ASSUME NEW y \in T PROVE x <= y
  <2>1. x \in Nat /\ y \in Nat /\ ~(<<y, x>> \in R)
    BY <1>3
  <2>2. ~(y < x)
    BY <1>2, <2>1
  <2> QED
    BY <2>1, <2>2
<1> QED
  BY <1>4

LEMMA MinOf ==
  ASSUME NEW T \in SUBSET Nat, T # {}
  PROVE  Min(T) \in T /\ \A y \in T : Min(T) <= y
<1>1. \E x \in T : \A y \in T : x <= y
  BY LeastNumber
<1> QED
  BY <1>1 DEF Min

LEMMA MaxOf ==
  ASSUME NEW T \in SUBSET Nat, T # {}, NEW b \in Nat, \A x \in T : x <= b
  PROVE  Max(T) \in T /\ \A y \in T : Max(T) >= y
<1>1. PICK D : D = {b - x : x \in T}
  OBVIOUS
<1>2. D \in SUBSET Nat /\ D # {}
  <2>1. \A x \in T : x \in Nat /\ b - x \in Nat
    OBVIOUS
  <2> QED
    BY <1>1, <2>1
<1>3. PICK m \in D : \A y \in D : m <= y
  BY <1>2, LeastNumber
<1>4. PICK x \in T : m = b - x
  BY <1>1, <1>3
<1>5. ASSUME NEW y \in T PROVE x >= y
  <2>1. b - y \in D
    BY <1>1
  <2>2. b - x <= b - y
    BY <1>3, <1>4, <2>1
  <2> QED
    BY <2>2
<1>6. \E z \in T : \A y \in T : z >= y
  BY <1>5
<1> QED
  BY <1>6 DEF Max

LEMMA MaxOfTwo ==
  ASSUME NEW a \in Int, NEW b \in Int
  PROVE  Max({a, b}) = IF a >= b THEN a ELSE b
<1>1. CASE a >= b
  <2>1. \A x \in {a, b} : (\A y \in {a, b} : x >= y) <=> x = a
    BY <1>1
  <2> QED
    BY <1>1, <2>1 DEF Max
<1>2. CASE b > a
  <2>1. \A x \in {a, b} : (\A y \in {a, b} : x >= y) <=> x = b
    BY <1>2
  <2> QED
    BY <1>2, <2>1 DEF Max
<1> QED
  BY <1>1, <1>2

\* FC_allowed.
LEMMA AllowedRange ==
  ASSUME NEW r, NEW fc \in Int, r.highest \in Nat, r.aru \in Nat
  PROVE  /\ Allowed(r, fc) \in 0..Smaller(Window, PersonalWindow)
         /\ r.highest > r.aru + SeqGap => Allowed(r, fc) = 0
<1>c. Window \in Nat /\ PersonalWindow \in Nat /\ SeqGap \in Nat
  BY RingConstants
<1>1. PICK f : f = Window + PersonalWindow - fc
  OBVIOUS
<1>2. PICK m : m = Min({f, Window, PersonalWindow})
  OBVIOUS
<1>3. m \in Int /\ m <= Window /\ m <= PersonalWindow
  <2>1. PICK D : D = {f, Window, PersonalWindow}
    OBVIOUS
  <2>2. f \in Int
    BY <1>c, <1>1
  <2>3. \E x \in D : \A y \in D : x <= y
    BY <1>c, <2>1, <2>2
  <2>4. Min(D) \in D /\ \A y \in D : Min(D) <= y
    BY <2>3 DEF Min
  <2> QED
    BY <1>2, <1>c, <2>1, <2>2, <2>4
<1>4. Max({0, m}) = IF 0 >= m THEN 0 ELSE m
  BY <1>3, MaxOfTwo
<1>5. Allowed(r, fc) = IF r.highest > r.aru + SeqGap THEN 0 ELSE Max({0, m})
  BY <1>1, <1>2 DEF Allowed
<1> QED
  BY <1>c, <1>3, <1>4, <1>5 DEF Smaller

-----------------------------------------------------------------------------
(* The globals of one daemon.                                              *)

Slots == 0..(NumSlots - 1)
Packet == [seq : Nat, from : Daemons, svc : Services]
Entries == [exist : 0..2, seq : Nat, from : Daemons \cup {0}, svc : Services \cup {"none"}]
Token ==
  {t \in [arq : 0..(ArqMod - 1), retrans : Nat, seq : Nat, aru : Nat, aruLast : Daemons,
          fc : Int, rtrTo : 0..NumDaemons, rtr : SUBSET Nat] : IsFiniteSet(t.rtr)}

Globals == {"highest", "myAru", "aru", "lastDiscarded", "lastDelivered", "packets",
            "down", "late", "handed", "tokenCounter", "lastRetrans", "lastSent",
            "justInstalled", "exits", "lastToken"}

Typed(r) ==
  /\ DOMAIN r = Globals
  /\ r.highest \in Nat /\ r.myAru \in Nat /\ r.aru \in Nat
  /\ r.lastDiscarded \in Nat /\ r.lastDelivered \in Nat
  /\ r.packets \in [Slots -> Entries]
  /\ r.down \in Seq(Services)
  /\ r.lastRetrans \in Nat /\ r.lastSent \in Nat
  /\ r.justInstalled \in BOOLEAN
  /\ r.lastToken \in Token

\* The numbers the daemon may hold: above what it has discarded, and no more
\* than there are slots.
InWindow(r, o) ==
  /\ Len(o) \in Nat
  /\ r.lastDiscarded <= r.myAru /\ r.lastDiscarded <= r.lastDelivered
  /\ r.myAru <= r.highest /\ r.highest <= Len(o)
  /\ Len(o) <= r.lastDiscarded + NumSlots

\* A slot in use holds the packet of its number, o is the order of packets.
Holding(r, o) ==
  \A x \in Slots : r.packets[x].exist # 0 =>
    /\ r.packets[x].seq \in (r.lastDiscarded + 1)..r.highest
    /\ Slot(r.packets[x].seq) = x
    /\ PacketOf(r.packets[x]) = o[r.packets[x].seq]

\* Nothing up to My_aru is missing.
NoHole(r) == \A i \in (r.lastDiscarded + 1)..r.myAru : Has(r, i)

\* What was handed over before its turn is reliable.
Early(r) ==
  \A x \in Slots : r.packets[x].exist = 2 /\ r.packets[x].seq > r.lastDelivered =>
    r.packets[x].svc = "reliable"

Sound(r, o) == Typed(r) /\ InWindow(r, o) /\ Holding(r, o) /\ NoHole(r) /\ Early(r)

\* q has the globals of r, but for those in F.
SameBut(q, r, F) == \A f \in Globals \ F : q[f] = r[f]

\* What becomes of the buffer when packets are delivered and kept.
LEMMA DeliverFields ==
  ASSUME NEW r, NEW S, Typed(r), S \subseteq Nat, \A s \in S : At(r, s).exist = 1
  PROVE  /\ Typed(Deliver(r, S))
         /\ SameBut(Deliver(r, S), r, {"packets", "handed"})
         /\ \A x \in Slots :
              /\ Deliver(r, S).packets[x].exist # 0 <=> r.packets[x].exist # 0
              /\ PacketOf(Deliver(r, S).packets[x]) = PacketOf(r.packets[x])
         /\ \A x \in Slots : Deliver(r, S).packets[x].exist = 2 =>
              r.packets[x].exist = 2 \/ \E s \in S : Slot(s) = x
<1> DEFINE q == Deliver(r, S)
<1>1. DOMAIN q = Globals
  BY DEF Deliver, Typed
<1>2. SameBut(q, r, {"packets", "handed"})
  BY DEF Deliver, Typed, SameBut
<1>3. q.packets = [x \in DOMAIN r.packets |->
                        IF \E s \in S : Slot(s) = x
                        THEN [r.packets[x] EXCEPT !.exist = 2] ELSE r.packets[x]]
  BY DEF Deliver, Typed, Globals
<1>4. \A x \in Slots :
        q.packets[x] = IF \E s \in S : Slot(s) = x
                       THEN [r.packets[x] EXCEPT !.exist = 2] ELSE r.packets[x]
  BY <1>3 DEF Typed
<1>5. \A x \in Slots : q.packets[x] \in Entries
  <2>1. ASSUME NEW x \in Slots PROVE q.packets[x] \in Entries
    <3>1. r.packets[x] \in Entries /\ 2 \in 0..2
      BY DEF Typed
    <3>2. q.packets[x] = r.packets[x] \/ q.packets[x] = [r.packets[x] EXCEPT !.exist = 2]
      BY <1>4
    <3> QED
      BY <3>1, <3>2 DEF Entries
  <2> QED
    BY <2>1
<1>6. q.packets \in [Slots -> Entries]
  BY <1>3, <1>5 DEF Typed
<1>7. ASSUME NEW x \in Slots
      PROVE  /\ q.packets[x].exist # 0 <=> r.packets[x].exist # 0
             /\ PacketOf(q.packets[x]) = PacketOf(r.packets[x])
  <2>1. r.packets[x] \in Entries
    BY DEF Typed
  <2>2. CASE \E s \in S : Slot(s) = x
    <3>1. q.packets[x] = [r.packets[x] EXCEPT !.exist = 2]
      BY <1>4, <2>2
    <3>2. r.packets[x].exist = 1
      BY <2>2 DEF At
    <3> QED
      BY <2>1, <3>1, <3>2 DEF Entries, PacketOf
  <2>3. CASE ~\E s \in S : Slot(s) = x
    BY <1>4, <2>3
  <2> QED
    BY <2>2, <2>3
<1>9. \A x \in Slots : q.packets[x].exist = 2 =>
        r.packets[x].exist = 2 \/ \E s \in S : Slot(s) = x
  BY <1>4
<1> HIDE DEF q
<1>8. Typed(q)
  BY <1>1, <1>2, <1>6 DEF Typed, SameBut, Globals
<1> QED
  BY <1>2, <1>7, <1>8, <1>9 DEF q

\* In a record with the same numbers and the same packets in the same slots they
\* are where they should be, as in r; Last_delivered may have gone on.
LEMMA PlacedKept ==
  ASSUME NEW r, NEW o, Sound(r, o), NEW q, Typed(q),
         q.highest = r.highest, q.myAru = r.myAru, q.lastDiscarded = r.lastDiscarded,
         q.lastDelivered >= r.lastDelivered,
         \A x \in Slots : /\ q.packets[x].exist # 0 <=> r.packets[x].exist # 0
                          /\ PacketOf(q.packets[x]) = PacketOf(r.packets[x])
  PROVE  InWindow(q, o) /\ Holding(q, o) /\ NoHole(q)
<1>1. InWindow(q, o)
  BY DEF Sound, InWindow, Typed
<1>2. Holding(q, o)
  <2>1. ASSUME NEW x \in Slots, q.packets[x].exist # 0
        PROVE  /\ q.packets[x].seq \in (q.lastDiscarded + 1)..q.highest
               /\ Slot(q.packets[x].seq) = x
               /\ PacketOf(q.packets[x]) = o[q.packets[x].seq]
    <3>1. q.packets[x].seq = r.packets[x].seq
      BY DEF PacketOf
    <3> QED
      BY <2>1, <3>1 DEF Sound, Holding
  <2> QED
    BY <2>1 DEF Holding
<1>3. NoHole(q)
  <2>1. ASSUME NEW i \in (r.lastDiscarded + 1)..r.myAru PROVE Has(q, i)
    <3>0. i \in Int
      BY DEF Sound, Typed
    <3>1. Has(r, i) /\ Slot(i) \in Slots
      BY <3>0, SlotRange DEF Sound, NoHole, Slots
    <3>2. r.packets[Slot(i)] \in Entries /\ q.packets[Slot(i)] \in Entries
      BY <3>1 DEF Sound, Typed
    <3> QED
      BY <3>1, <3>2 DEF Has, At, Entries
  <2> QED
    BY <2>1 DEF NoHole
<1> QED
  BY <1>1, <1>2, <1>3

\* No packet is handed over early but those that are reliable.
LEMMA EarlyKept ==
  ASSUME NEW r, Typed(r), Early(r), NEW q, Typed(q), q.lastDelivered >= r.lastDelivered,
         \A x \in Slots : q.packets[x].exist = 2 =>
           /\ PacketOf(q.packets[x]) = PacketOf(r.packets[x])
           /\ \/ r.packets[x].exist = 2 \/ r.packets[x].svc = "reliable"
              \/ r.packets[x].seq <= q.lastDelivered
  PROVE  Early(q)
<1>1. SUFFICES ASSUME NEW x \in Slots, q.packets[x].exist = 2,
                      q.packets[x].seq > q.lastDelivered
               PROVE  q.packets[x].svc = "reliable"
  BY DEF Early
<1>2. q.packets[x].seq = r.packets[x].seq /\ q.packets[x].svc = r.packets[x].svc
  BY <1>1 DEF PacketOf
<1>3. r.packets[x] \in Entries /\ r.lastDelivered \in Nat /\ q.lastDelivered \in Nat
  BY DEF Typed
<1>4. r.packets[x].seq \in Nat
  BY <1>3 DEF Entries
<1>5. CASE r.packets[x].exist = 2
  <2>1. r.packets[x].seq > r.lastDelivered
    BY <1>1, <1>2, <1>3, <1>4
  <2> QED
    BY <1>2, <1>5, <2>1 DEF Early
<1>6. CASE r.packets[x].svc = "reliable"
  BY <1>2, <1>6
<1>7. CASE r.packets[x].seq <= q.lastDelivered
  BY <1>1, <1>2, <1>3, <1>4, <1>7
<1> QED
  BY <1>1, <1>5, <1>6, <1>7

\* With both the record is as sound as r.
LEMMA SoundKept ==
  ASSUME NEW r, NEW o, Sound(r, o), NEW q, Typed(q),
         q.highest = r.highest, q.myAru = r.myAru, q.lastDiscarded = r.lastDiscarded,
         q.lastDelivered >= r.lastDelivered,
         \A x \in Slots : /\ q.packets[x].exist # 0 <=> r.packets[x].exist # 0
                          /\ PacketOf(q.packets[x]) = PacketOf(r.packets[x]),
         \A x \in Slots : q.packets[x].exist = 2 =>
           \/ r.packets[x].exist = 2 \/ r.packets[x].svc = "reliable"
           \/ r.packets[x].seq <= q.lastDelivered
  PROVE  Sound(q, o)
<1>1. InWindow(q, o) /\ Holding(q, o) /\ NoHole(q)
  BY PlacedKept
<1>2. Typed(r) /\ Early(r)
  BY DEF Sound
<1>3. Early(q)
  BY <1>2, EarlyKept
<1> QED
  BY <1>1, <1>3 DEF Sound

\* Deliver_packet leaves the packets where they are.
LEMMA DeliverPlaced ==
  ASSUME NEW r, NEW o, Sound(r, o), NEW S, S \subseteq Nat, \A s \in S : At(r, s).exist = 1
  PROVE  LET q == Deliver(r, S)
         IN  Typed(q) /\ InWindow(q, o) /\ Holding(q, o) /\ NoHole(q)
<1> DEFINE q == Deliver(r, S)
<1>1. Typed(q) /\ SameBut(q, r, {"packets", "handed"})
      /\ \A x \in Slots : /\ q.packets[x].exist # 0 <=> r.packets[x].exist # 0
                          /\ PacketOf(q.packets[x]) = PacketOf(r.packets[x])
  BY DeliverFields DEF Sound
<1> HIDE DEF q
<1>2. /\ q.highest = r.highest /\ q.myAru = r.myAru /\ q.lastDiscarded = r.lastDiscarded
      /\ q.lastDelivered = r.lastDelivered
  BY <1>1 DEF SameBut, Globals
<1>3. r.lastDelivered \in Nat
  BY DEF Sound, Typed
<1>4. InWindow(q, o) /\ Holding(q, o) /\ NoHole(q)
  BY <1>1, <1>2, <1>3, PlacedKept
<1> QED
  BY <1>1, <1>4 DEF q

\* Deliver_packet for reliable ones, at any time.
LEMMA DeliverSound ==
  ASSUME NEW r, NEW o, Sound(r, o), NEW S, S \subseteq Nat,
         \A s \in S : At(r, s).exist = 1 /\ At(r, s).svc = "reliable"
  PROVE  Sound(Deliver(r, S), o)
<1> DEFINE q == Deliver(r, S)
<1>1. Typed(q) /\ SameBut(q, r, {"packets", "handed"})
      /\ \A x \in Slots : PacketOf(q.packets[x]) = PacketOf(r.packets[x])
      /\ \A y \in Slots : q.packets[y].exist = 2 =>
           r.packets[y].exist = 2 \/ \E s \in S : Slot(s) = y
  BY DeliverFields DEF Sound
<1>2. InWindow(q, o) /\ Holding(q, o) /\ NoHole(q)
  BY DeliverPlaced
<1> HIDE DEF q
<1>3. \A x \in Slots : q.packets[x].exist = 2 =>
        r.packets[x].exist = 2 \/ r.packets[x].svc = "reliable"
  BY <1>1 DEF At
<1>4. Typed(r) /\ Early(r) /\ r.lastDelivered \in Nat
  BY DEF Sound, Typed
<1>5. q.lastDelivered >= r.lastDelivered
  <2>1. q.lastDelivered = r.lastDelivered
    BY <1>1 DEF SameBut, Globals
  <2> QED
    BY <1>4, <2>1
<1>6. Early(q)
  BY <1>1, <1>3, <1>4, <1>5, EarlyKept
<1>7. Sound(q, o)
  BY <1>1, <1>2, <1>6 DEF Sound
<1> QED
  BY <1>7 DEF q

\* An alarm that does not go off.
LEMMA NoAlarmSame ==
  ASSUME NEW r, NEW w
  PROVE  Alarm(r, w, FALSE) = r
BY DEF Alarm

\* My_aru rises to the last packet before a hole and not over it.
LEMMA RaiseMyAruSound ==
  ASSUME NEW r, NEW o, Sound(r, o)
  PROVE  /\ Sound(RaiseMyAru(r), o) /\ RaiseMyAru(r).myAru >= r.myAru
         /\ SameBut(RaiseMyAru(r), r, {"myAru"})
<1> DEFINE q == RaiseMyAru(r)
           T == {r.myAru} \cup {m \in r.myAru..r.highest : \A i \in (r.myAru + 1)..m : Has(r, i)}
<1>t. Typed(r) /\ InWindow(r, o) /\ Holding(r, o) /\ NoHole(r)
  BY DEF Sound
<1>n. r.myAru \in Nat /\ r.highest \in Nat /\ r.lastDiscarded \in Nat /\ r.lastDelivered \in Nat
  BY <1>t DEF Typed
<1>1. q = [r EXCEPT !.myAru = Max(T)]
  BY DEF RaiseMyAru
<1>2. T \in SUBSET Nat /\ T # {} /\ \A x \in T : x <= r.highest
  <2>1. \A x \in T : x \in Nat /\ x <= r.highest
    BY <1>n, <1>t DEF InWindow
  <2> QED
    BY <2>1
<1>3. Max(T) \in T /\ \A y \in T : Max(T) >= y
  BY <1>2, <1>n, MaxOf
<1>4. PICK m : m = Max(T)
  OBVIOUS
<1>5. /\ m \in Nat /\ m <= r.highest /\ m >= r.myAru
      /\ \A i \in (r.myAru + 1)..m : Has(r, i)
  BY <1>2, <1>3, <1>4, <1>n
<1>6. SameBut(q, r, {"myAru"}) /\ q.myAru = m /\ DOMAIN q = Globals
  BY <1>1, <1>4, <1>t DEF SameBut, Typed, Globals
<1> HIDE DEF q
<1>7. Typed(q)
  BY <1>5, <1>6, <1>t DEF Typed, SameBut, Globals
<1>8. /\ q.highest = r.highest /\ q.lastDiscarded = r.lastDiscarded /\ q.packets = r.packets
      /\ q.lastDelivered = r.lastDelivered
  BY <1>6 DEF SameBut, Globals
<1>9. InWindow(q, o)
  BY <1>5, <1>6, <1>8, <1>t, <1>n DEF InWindow
<1>10. Holding(q, o)
  BY <1>8, <1>t DEF Holding
<1>11. NoHole(q)
  <2>1. ASSUME NEW i \in (r.lastDiscarded + 1)..m PROVE Has(r, i)
    <3>1. i \in (r.lastDiscarded + 1)..r.myAru \/ i \in (r.myAru + 1)..m
      BY <1>n, <1>5
    <3> QED
      BY <3>1, <1>5, <1>t DEF NoHole
  <2> QED
    BY <2>1, <1>6, <1>8 DEF NoHole, Has, At
<1>12. Sound(q, o)
  <2>1. Early(q)
    BY <1>8 DEF Sound, Early
  <2> QED
    BY <2>1, <1>7, <1>9, <1>10, <1>11 DEF Sound
<1> QED
  BY <1>5, <1>6, <1>12 DEF q

LEMMA MaxNat ==
  ASSUME NEW a \in Nat, NEW b \in Int
  PROVE  Max({a, b}) \in Nat /\ Max({a, b}) >= a /\ Max({a, b}) >= b
         /\ (Max({a, b}) = a \/ Max({a, b}) = b)
BY MaxOfTwo

\* Two numbers the daemon may hold do not share a slot.
LEMMA SlotOnce ==
  ASSUME NEW l \in Nat, NEW i \in Nat, NEW j \in Nat, l < i, l < j,
         i <= l + NumSlots, j <= l + NumSlots, Slot(i) = Slot(j)
  PROVE  i = j
<1>1. PICK n : n = NumSlots
  OBVIOUS
<1>2. n \in Nat \ {0} /\ i % n = j % n
  BY <1>1, RingConstants DEF Slot
<1>3. CASE i <= j
  <2>1. j - i < n
    BY <1>1, <1>2
  <2> QED
    BY <1>2, <1>3, <2>1, SameSlot
<1>4. CASE j <= i
  <2>1. i - j < n
    BY <1>1, <1>2
  <2>2. j = i
    BY <1>2, <1>4, <2>1, SameSlot
  <2> QED
    BY <2>2
<1> QED
  BY <1>3, <1>4

\* A number in the window that the daemon has is in its slot.
LEMMA Held ==
  ASSUME NEW r, NEW o, Sound(r, o), NEW i \in Nat, r.lastDiscarded < i, i <= r.highest,
         Has(r, i)
  PROVE  /\ At(r, i).seq = i /\ At(r, i) \in Entries /\ PacketOf(At(r, i)) = o[i]
         /\ At(r, i).svc = o[i].svc /\ i \in 1..Len(o) /\ At(r, i).exist \in {1, 2}
<1>1. /\ Typed(r) /\ Holding(r, o)
      /\ r.lastDiscarded \in Nat /\ r.highest \in Nat
      /\ r.highest <= Len(o) /\ Len(o) \in Nat
      /\ Len(o) <= r.lastDiscarded + NumSlots /\ NumSlots \in Nat
  BY RingConstants DEF Sound, Typed, InWindow
<1>2. Slot(i) \in Slots
  BY SlotRange DEF Slots
<1>3. r.packets[Slot(i)].exist > 0 /\ r.packets[Slot(i)] \in Entries
  BY <1>1, <1>2 DEF Has, At, Typed
<1>4. r.packets[Slot(i)].exist \in {1, 2}
  BY <1>3 DEF Entries
<1>5. PICK j : j = r.packets[Slot(i)].seq
  OBVIOUS
<1>6. j \in (r.lastDiscarded + 1)..r.highest /\ Slot(j) = Slot(i)
      /\ PacketOf(r.packets[Slot(i)]) = o[j]
  BY <1>1, <1>2, <1>4, <1>5 DEF Holding
<1>7. j = i
  <2>1. j \in Nat /\ r.lastDiscarded < j /\ j <= r.lastDiscarded + NumSlots
        /\ i <= r.lastDiscarded + NumSlots
    BY <1>1, <1>6
  <2> QED
    BY <1>1, <1>6, <2>1, SlotOnce
<1>8. i \in 1..Len(o)
  BY <1>1
<1>9. o[i].svc = r.packets[Slot(i)].svc
  BY <1>6, <1>7 DEF PacketOf
<1> QED
  BY <1>3, <1>4, <1>5, <1>6, <1>7, <1>8, <1>9 DEF At

\* Deliver_agreed_packets stops before the first safe packet that waits, and finds
\* no hole up to there and nothing handed over before that is not reliable.
AgreedTo(r, last) ==
  /\ last \in Int /\ last <= r.myAru
  /\ \A i \in (r.lastDelivered + 1)..last :
       Has(r, i) /\ (At(r, i).exist = 1 => At(r, i).svc # "safe")

LEMMA DeliverAgreedIs ==
  ASSUME NEW r, NEW o, Sound(r, o)
  PROVE  \E last : /\ AgreedTo(r, last)
                   /\ DeliverAgreed(r) =
                        [Deliver(r, NotDelivered(r, r.lastDelivered + 1, last))
                           EXCEPT !.lastDelivered = Max({@, last})]
<1> DEFINE waiting == {i \in NotDelivered(r, r.lastDelivered + 1, r.myAru) :
                         At(r, i).svc = "safe"}
           last == IF waiting = {} THEN r.myAru ELSE Min(waiting) - 1
           wrong == \E i \in (r.lastDelivered + 1)..last :
                      ~Has(r, i) \/ (At(r, i).exist = 2 /\ At(r, i).svc # "reliable")
           q == [Deliver(r, NotDelivered(r, r.lastDelivered + 1, last))
                   EXCEPT !.lastDelivered = Max({@, last})]
<1>1. r.myAru \in Nat /\ r.lastDelivered \in Nat /\ r.lastDiscarded \in Nat
      /\ r.lastDiscarded <= r.lastDelivered /\ NoHole(r)
  BY DEF Sound, Typed, InWindow
<1>2. waiting \in SUBSET Nat
      /\ \A i \in waiting : r.lastDelivered + 1 <= i /\ i <= r.myAru
  BY <1>1 DEF NotDelivered
<1>3. /\ last \in Int /\ last <= r.myAru
      /\ \A i \in (r.lastDelivered + 1)..last : i \notin waiting
  <2>1. CASE waiting = {}
    BY <1>1, <2>1
  <2>2. CASE waiting # {}
    <3>1. Min(waiting) \in waiting /\ \A y \in waiting : Min(waiting) <= y
      BY <1>2, <2>2, MinOf
    <3>2. PICK m : m = Min(waiting)
      OBVIOUS
    <3> HIDE DEF waiting
    <3>3. m \in Nat /\ m <= r.myAru /\ last = m - 1 /\ \A y \in waiting : m <= y
      BY <1>2, <2>2, <3>1, <3>2
    <3>4. \A i \in (r.lastDelivered + 1)..last : i \in Nat /\ i < m
      BY <1>1, <3>3
    <3>5. \A i \in (r.lastDelivered + 1)..last : i \notin waiting
      BY <3>3, <3>4
    <3> QED
      BY <1>1, <3>3, <3>5
  <2> QED
    BY <2>1, <2>2
<1> HIDE DEF last
<1>4. ASSUME NEW i \in (r.lastDelivered + 1)..last
      PROVE  Has(r, i) /\ (At(r, i).exist = 1 => At(r, i).svc # "safe")
  <2>1. /\ i \in (r.lastDiscarded + 1)..r.myAru
        /\ i \in (r.lastDelivered + 1)..r.myAru
    BY <1>1, <1>3
  <2>2. Has(r, i)
    BY <1>1, <2>1 DEF NoHole
  <2>3. i \notin waiting
    BY <1>3
  <2> QED
    BY <2>1, <2>2, <2>3 DEF NotDelivered
<1>5. AgreedTo(r, last)
  BY <1>3, <1>4 DEF AgreedTo
<1>e. ASSUME NEW i \in (r.lastDelivered + 1)..last, At(r, i).exist = 2
      PROVE  At(r, i).svc = "reliable"
  <2>1. /\ i \in Nat /\ r.lastDelivered < i /\ r.lastDiscarded < i /\ i <= r.highest
        /\ r.myAru <= r.highest /\ Early(r)
    <3>1. /\ r.myAru <= r.highest /\ r.lastDiscarded <= r.lastDelivered
          /\ r.lastDiscarded \in Nat /\ r.lastDelivered \in Nat /\ r.highest \in Nat
      BY SMTT(30) DEF Sound, Typed, InWindow
    <3>2. i \in Nat /\ r.lastDelivered < i /\ i <= r.myAru
      BY <1>1, <1>3, <3>1
    <3>3. Early(r)
      BY DEF Sound
    <3> QED
      BY <1>1, <3>1, <3>2, <3>3
  <2>2. At(r, i).seq = i
    BY <1>4, <2>1, Held
  <2>3. Slot(i) \in Slots
    BY <2>1, SlotRange DEF Slots
  <2> QED
    BY <1>e, <2>1, <2>2, <2>3 DEF Early, At
<1>6. wrong = FALSE
  BY <1>4, <1>e
<1>7. DeliverAgreed(r) = Alarm(q, "Deliver_agreed_packets", wrong)
  BY DEF DeliverAgreed, last
<1> HIDE DEF wrong, q
<1>8. DeliverAgreed(r) = q
  BY <1>6, <1>7, NoAlarmSame
<1> QED
  BY <1>5, <1>8 DEF q

LEMMA DeliverAgreedSound ==
  ASSUME NEW r, NEW o, Sound(r, o)
  PROVE  /\ Sound(DeliverAgreed(r), o)
         /\ SameBut(DeliverAgreed(r), r, {"packets", "handed", "lastDelivered"})
<1>t. Typed(r) /\ r.myAru \in Nat /\ r.lastDelivered \in Nat
  BY DEF Sound, Typed
<1>1. PICK last : /\ AgreedTo(r, last)
                  /\ DeliverAgreed(r) =
                       [Deliver(r, NotDelivered(r, r.lastDelivered + 1, last))
                          EXCEPT !.lastDelivered = Max({@, last})]
  BY DeliverAgreedIs
<1>2. PICK S : S = NotDelivered(r, r.lastDelivered + 1, last)
  OBVIOUS
<1>3. PICK c : c = Deliver(r, S)
  OBVIOUS
<1>4. S \subseteq Nat /\ \A s \in S : At(r, s).exist = 1
  BY <1>1, <1>2, <1>t DEF AgreedTo, NotDelivered
<1>5. /\ Typed(c) /\ SameBut(c, r, {"packets", "handed"})
      /\ \A x \in Slots : /\ c.packets[x].exist # 0 <=> r.packets[x].exist # 0
                          /\ PacketOf(c.packets[x]) = PacketOf(r.packets[x])
      /\ \A x \in Slots : c.packets[x].exist = 2 =>
           r.packets[x].exist = 2 \/ \E s \in S : Slot(s) = x
  BY <1>3, <1>4, <1>t, DeliverFields
<1>6. c.lastDelivered = r.lastDelivered
  BY <1>5 DEF SameBut, Globals
<1>7. Max({r.lastDelivered, last}) \in Nat /\ Max({r.lastDelivered, last}) >= r.lastDelivered
  BY <1>1, <1>t, MaxNat DEF AgreedTo
<1>8. PICK q : q = [c EXCEPT !.lastDelivered = Max({@, last})]
  OBVIOUS
<1>9. DOMAIN q = Globals /\ SameBut(q, c, {"lastDelivered"})
      /\ q.lastDelivered = Max({r.lastDelivered, last})
  BY <1>5, <1>6, <1>8 DEF SameBut, Typed, Globals
<1>10. Typed(q) /\ q.packets = c.packets
  BY <1>5, <1>7, <1>9 DEF Typed, SameBut, Globals
<1>11. SameBut(q, r, {"packets", "handed", "lastDelivered"})
  BY <1>5, <1>9 DEF SameBut
<1>12. q.highest = r.highest /\ q.myAru = r.myAru /\ q.lastDiscarded = r.lastDiscarded
  BY <1>11 DEF SameBut, Globals
<1>e. ASSUME NEW x \in Slots, q.packets[x].exist = 2
      PROVE  r.packets[x].exist = 2 \/ r.packets[x].seq <= q.lastDelivered
  <2>1. CASE \E s \in S : Slot(s) = x
    <3>1. PICK s \in S : Slot(s) = x
      BY <2>1
    <3>2. /\ s \in Nat /\ r.lastDelivered < s /\ s <= last /\ last \in Int
          /\ last <= r.myAru /\ At(r, s).exist = 1
      BY <1>1, <1>2, <1>4, <1>t DEF AgreedTo, NotDelivered
    <3>3. r.lastDiscarded < s /\ s <= r.highest /\ Has(r, s)
      BY <1>t, <3>2 DEF Sound, Typed, InWindow, Has
    <3>4. r.packets[x].seq = s
      BY <3>1, <3>2, <3>3, Held DEF At
    <3>5. last <= q.lastDelivered
      BY <1>1, <1>9, <1>t, MaxNat DEF AgreedTo
    <3> QED
      BY <1>7, <1>9, <3>2, <3>4, <3>5
  <2> QED
    BY <1>5, <1>10, <1>e, <2>1
<1>13. Sound(q, o)
  BY <1>5, <1>7, <1>9, <1>10, <1>12, <1>e, SoundKept
<1> QED
  BY <1>1, <1>2, <1>3, <1>8, <1>11, <1>13

\* Deliver_reliable_packets.
LEMMA DeliverReliableSound ==
  ASSUME NEW r, NEW o, Sound(r, o), NEW from \in Int, NEW num \in Int
  PROVE  /\ Sound(DeliverReliable(r, from, num), o)
         /\ SameBut(DeliverReliable(r, from, num), r, {"packets", "handed"})
<1>n. r.lastDelivered \in Nat /\ Typed(r)
  BY DEF Sound, Typed
<1>1. PICK first : first = Max({from, r.lastDelivered + 1})
  OBVIOUS
<1>2. first \in Nat
  BY <1>1, <1>n, MaxOfTwo
<1>3. PICK S : S = {i \in NotDelivered(r, first, from + num - 1) : At(r, i).svc = "reliable"}
  OBVIOUS
<1>4. S \subseteq Nat /\ \A s \in S : At(r, s).exist = 1 /\ At(r, s).svc = "reliable"
  BY <1>2, <1>3 DEF NotDelivered
<1>5. DeliverReliable(r, from, num) = Deliver(r, S)
  BY <1>1, <1>3 DEF DeliverReliable
<1> QED
  BY <1>4, <1>5, <1>n, DeliverSound, DeliverFields

\* Discard_packets, when there is something to discard: what was not delivered is
\* delivered, and the slots are emptied. It finds no hole, as My_aru is not behind Aru.
Emptied(c, lo, hi) ==
  [c EXCEPT !.packets = [x \in DOMAIN @ |->
                           IF \E i \in lo..hi : Slot(i) = x THEN Empty ELSE @[x]],
            !.lastDiscarded = hi, !.lastDelivered = Max({@, hi})]

LEMMA DiscardIs ==
  ASSUME NEW r, NEW o, Sound(r, o), r.aru \in Nat, r.aru <= r.myAru,
         r.lastDiscarded < r.aru
  PROVE  Discard(r) = Emptied(Deliver(r, NotDelivered(r, r.lastDiscarded + 1, r.aru)),
                              r.lastDiscarded + 1, r.aru)
<1> DEFINE range == (r.lastDiscarded + 1)..r.aru
           gone == \E i \in range : ~Has(r, i)
           q == Emptied(Deliver(r, NotDelivered(r, r.lastDiscarded + 1, r.aru)),
                        r.lastDiscarded + 1, r.aru)
<1>1. r.myAru \in Nat /\ r.lastDiscarded \in Nat /\ NoHole(r)
  BY DEF Sound, Typed
<1>2. gone = FALSE
  <2>1. \A i \in range : i \in (r.lastDiscarded + 1)..r.myAru
    BY <1>1
  <2> QED
    BY <1>1, <2>1 DEF NoHole
<1>3. ~(r.aru <= r.lastDiscarded)
  BY <1>1
<1>4. Discard(r) = Alarm(q, "Discard_packets", gone)
  BY <1>3 DEF Discard, Emptied
<1> HIDE DEF gone, q
<1>5. Discard(r) = q
  BY <1>2, <1>4, NoAlarmSame
<1> QED
  BY <1>5 DEF q

LEMMA DiscardSound ==
  ASSUME NEW r, NEW o, Sound(r, o), r.aru <= r.myAru
  PROVE  /\ Sound(Discard(r), o)
         /\ SameBut(Discard(r), r, {"packets", "handed", "lastDelivered", "lastDiscarded"})
         /\ Discard(r).lastDiscarded = IF r.aru <= r.lastDiscarded THEN r.lastDiscarded ELSE r.aru
<1>t. Typed(r) /\ InWindow(r, o) /\ NoHole(r) /\ Holding(r, o)
  BY DEF Sound
<1>n. r.myAru \in Nat /\ r.lastDelivered \in Nat /\ r.lastDiscarded \in Nat /\ r.aru \in Nat
      /\ r.highest \in Nat /\ r.lastDiscarded <= r.lastDelivered
      /\ r.myAru <= r.highest /\ r.highest <= Len(o) /\ Len(o) \in Nat
      /\ Len(o) <= r.lastDiscarded + NumSlots /\ NumSlots \in Nat
  BY <1>t, RingConstants DEF Typed, InWindow
<1>1. CASE r.aru <= r.lastDiscarded
  <2>1. Discard(r) = r
    BY <1>1 DEF Discard
  <2> QED
    BY <1>1, <2>1 DEF SameBut
<1>2. CASE ~(r.aru <= r.lastDiscarded)
  <2> DEFINE range == (r.lastDiscarded + 1)..r.aru
             S == NotDelivered(r, r.lastDiscarded + 1, r.aru)
             c == Deliver(r, S)
             q == Emptied(c, r.lastDiscarded + 1, r.aru)
  <2>2. Discard(r) = q
    BY <1>2, <1>n, DiscardIs
  <2>3. S \subseteq Nat /\ \A s \in S : At(r, s).exist = 1
    BY <1>n DEF NotDelivered
  <2> HIDE DEF S
  <2>4. /\ Typed(c) /\ SameBut(c, r, {"packets", "handed"})
        /\ \A x \in Slots : /\ c.packets[x].exist # 0 <=> r.packets[x].exist # 0
                            /\ PacketOf(c.packets[x]) = PacketOf(r.packets[x])
        /\ \A x \in Slots : c.packets[x].exist = 2 =>
             r.packets[x].exist = 2 \/ \E s \in S : Slot(s) = x
    BY <2>3, <1>t, DeliverFields
  <2>s. S \subseteq range
    BY DEF S, NotDelivered
  <2> HIDE DEF c
  <2>5. c.lastDelivered = r.lastDelivered /\ DOMAIN c.packets = Slots /\ DOMAIN c = Globals
    BY <2>4 DEF SameBut, Globals, Typed
  <2>6. /\ DOMAIN q = Globals /\ SameBut(q, c, {"packets", "lastDelivered", "lastDiscarded"})
        /\ q.lastDelivered = Max({r.lastDelivered, r.aru}) /\ q.lastDiscarded = r.aru
        /\ q.packets = [x \in Slots |-> IF \E i \in range : Slot(i) = x THEN Empty
                                        ELSE c.packets[x]]
    BY <2>5 DEF SameBut, Globals, Emptied
  <2> HIDE DEF q
  <2>7. q.lastDelivered \in Nat /\ q.lastDelivered >= r.aru
    BY <2>6, <1>n, MaxNat
  <2>8. Empty \in Entries
    BY DEF Empty, Entries
  <2>9. q.packets \in [Slots -> Entries]
    <3>1. c.packets \in [Slots -> Entries]
      BY <2>4 DEF Typed
    <3> QED
      BY <2>6, <2>8, <3>1
  <2>10. SameBut(q, r, {"packets", "handed", "lastDelivered", "lastDiscarded"})
    BY <2>4, <2>6 DEF SameBut
  <2>11. Typed(q)
    BY <2>4, <2>6, <2>7, <2>9, <1>n DEF Typed, SameBut, Globals
  <2>12. q.highest = r.highest /\ q.myAru = r.myAru
    BY <2>10 DEF SameBut, Globals
  <2>13. InWindow(q, o)
    BY <1>2, <1>n, <2>6, <2>7, <2>12 DEF InWindow
  <2>14. ASSUME NEW x \in Slots, q.packets[x].exist # 0
         PROVE  /\ ~\E i \in range : Slot(i) = x
                /\ q.packets[x] = c.packets[x] /\ r.packets[x].exist # 0
                /\ PacketOf(q.packets[x]) = PacketOf(r.packets[x])
                /\ q.packets[x].seq = r.packets[x].seq
    <3>1. ~\E i \in range : Slot(i) = x
      BY <2>6, <2>14 DEF Empty
    <3>2. q.packets[x] = c.packets[x]
      BY <2>6, <3>1
    <3>3. r.packets[x].exist # 0 /\ PacketOf(q.packets[x]) = PacketOf(r.packets[x])
      BY <2>4, <2>14, <3>2
    <3> QED
      BY <3>1, <3>2, <3>3 DEF PacketOf
  <2>15. Holding(q, o)
    <3>1. ASSUME NEW x \in Slots, q.packets[x].exist # 0
          PROVE  /\ q.packets[x].seq \in (q.lastDiscarded + 1)..q.highest
                 /\ Slot(q.packets[x].seq) = x
                 /\ PacketOf(q.packets[x]) = o[q.packets[x].seq]
      <4>1. /\ q.packets[x].seq = r.packets[x].seq /\ ~\E i \in range : Slot(i) = x
            /\ PacketOf(q.packets[x]) = PacketOf(r.packets[x]) /\ r.packets[x].exist # 0
        BY <3>1, <2>14
      <4>2. /\ r.packets[x].seq \in (r.lastDiscarded + 1)..r.highest
            /\ Slot(r.packets[x].seq) = x
            /\ PacketOf(r.packets[x]) = o[r.packets[x].seq]
        BY <4>1, <1>t DEF Holding
      <4>3. r.packets[x].seq \notin range
        BY <4>1, <4>2
      <4>4. r.packets[x].seq \in (r.aru + 1)..r.highest
        BY <4>2, <4>3, <1>n
      <4> QED
        BY <4>1, <4>2, <4>4, <2>6, <2>12
    <3> QED
      BY <3>1 DEF Holding
  <2>16. NoHole(q)
    <3>1. ASSUME NEW i \in (r.aru + 1)..r.myAru PROVE Has(q, i)
      <4>1. i \in (r.lastDiscarded + 1)..r.myAru /\ i \in Nat
        BY <1>2, <1>n
      <4>2. Has(r, i) /\ Slot(i) \in Slots
        BY <4>1, <1>t, SlotRange DEF NoHole, Slots
      <4>3. ~\E j \in range : Slot(j) = Slot(i)
        <5> SUFFICES ASSUME NEW j \in range, Slot(j) = Slot(i) PROVE FALSE
          OBVIOUS
        <5>1. /\ j \in Nat /\ r.lastDiscarded < j /\ r.lastDiscarded < i
              /\ j <= r.lastDiscarded + NumSlots /\ i <= r.lastDiscarded + NumSlots
              /\ j < i
          <6>1. j \in Nat /\ r.lastDiscarded < j /\ j <= r.aru
            BY <1>n
          <6>2. i \in Nat /\ r.aru < i /\ i <= r.myAru
            BY <1>n
          <6> HIDE DEF range
          <6>3. r.lastDiscarded < i /\ j < i /\ j <= r.myAru
            BY <1>n, <6>1, <6>2
          <6>4. r.myAru <= r.lastDiscarded + NumSlots
            BY <1>n
          <6> QED
            BY <1>n, <6>1, <6>2, <6>3, <6>4
        <5>2. j = i
          BY <1>n, <4>1, <5>1, SlotOnce
        <5> QED
          BY <4>1, <5>1, <5>2
      <4>4. q.packets[Slot(i)] = c.packets[Slot(i)]
        BY <2>6, <4>2, <4>3
      <4>5. r.packets[Slot(i)] \in Entries /\ c.packets[Slot(i)] \in Entries
        BY <4>2, <1>t, <2>4 DEF Typed
      <4> QED
        BY <4>2, <4>4, <4>5, <2>4 DEF Has, At, Entries
    <3> QED
      BY <3>1, <2>6, <2>12 DEF NoHole
  <2>e. Early(q)
    <3>1. ASSUME NEW x \in Slots, q.packets[x].exist = 2
          PROVE  PacketOf(q.packets[x]) = PacketOf(r.packets[x]) /\ r.packets[x].exist = 2
      BY <2>4, <2>14, <2>s, <3>1
    <3>2. q.lastDelivered >= r.lastDelivered
      BY <2>6, <1>n, MaxNat
    <3>3. Typed(r) /\ Early(r)
      BY DEF Sound
    <3> QED
      BY <2>11, <3>1, <3>2, <3>3, EarlyKept
  <2>17. Sound(q, o)
    BY <2>11, <2>13, <2>15, <2>16, <2>e DEF Sound
  <2> QED
    BY <1>2, <2>2, <2>6, <2>10, <2>17
<1> QED
  BY <1>1, <1>2

\* The packets made of the first n messages.
AreNew(new, d, r, n) ==
  /\ new \in Seq(Packet) /\ Len(new) = n /\ DOMAIN new = 1..n
  /\ \A k \in 1..n : new[k] \in Packet /\ new[k].seq = r.highest + k /\ new[k].from = d

LEMMA NewPacketsAre ==
  ASSUME NEW d \in Daemons, NEW r, Typed(r), NEW n \in Nat, n <= Len(r.down)
  PROVE  AreNew(NewPackets(d, r, n), d, r, n)
<1> DEFINE new == NewPackets(d, r, n)
<1>1. r.highest \in Nat /\ r.down \in Seq(Services) /\ Len(r.down) \in Nat
  BY DEF Typed
<1>2. ASSUME NEW k \in 1..n PROVE r.down[k] \in Services
  <2>1. k \in 1..Len(r.down)
    BY <1>1
  <2> QED
    BY <1>1, <2>1
<1>3. new = [k \in 1..n |-> [seq |-> r.highest + k, from |-> d, svc |-> r.down[k]]]
  BY DEF NewPackets
<1>4. \A k \in 1..n : [seq |-> r.highest + k, from |-> d, svc |-> r.down[k]] \in Packet
  BY <1>1, <1>2 DEF Packet
<1>5. new \in [1..n -> Packet]
  BY <1>3, <1>4
<1> HIDE DEF new
<1>6. new \in Seq(Packet) /\ Len(new) = n /\ DOMAIN new = 1..n
  BY <1>5
<1>7. \A k \in 1..n : new[k] \in Packet /\ new[k].seq = r.highest + k /\ new[k].from = d
  BY <1>3, <1>4
<1> QED
  BY <1>6, <1>7 DEF new, AreNew

\* A slot without a packet.
LEMMA NotHas ==
  ASSUME NEW r, Typed(r), NEW s \in Nat, ~Has(r, s)
  PROVE  At(r, s).exist = 0
<1>1. Slot(s) \in Slots
  BY SlotRange DEF Slots
<1>2. At(r, s) \in Entries
  BY <1>1 DEF At, Typed
<1> QED
  BY <1>2 DEF Has, Entries

\* Numbers in the window that are above the highest are in free slots.
LEMMA FreeSlot ==
  ASSUME NEW r, NEW o, Sound(r, o), NEW s \in Nat, r.highest < s,
         s <= r.lastDiscarded + NumSlots
  PROVE  ~Has(r, s)
<1> SUFFICES ASSUME Has(r, s) PROVE FALSE
  OBVIOUS
<1>1. Slot(s) \in Slots
  BY SlotRange DEF Slots
<1>2. r.lastDiscarded \in Nat /\ r.highest \in Nat /\ r.lastDiscarded <= r.highest
      /\ NumSlots \in Nat
  BY RingConstants DEF Sound, Typed, InWindow
<1>3. r.packets[Slot(s)] \in Entries /\ r.packets[Slot(s)].exist # 0
  BY <1>1 DEF Has, At, Sound, Typed, Entries
<1>4. PICK i : i = r.packets[Slot(s)].seq
  OBVIOUS
<1>5. i \in (r.lastDiscarded + 1)..r.highest /\ Slot(i) = Slot(s)
  BY <1>1, <1>3, <1>4 DEF Sound, Holding
<1>6. i = s
  <2>1. i \in Nat /\ r.lastDiscarded < i /\ r.lastDiscarded < s /\ i < s
        /\ i <= r.lastDiscarded + NumSlots
    BY <1>2, <1>5
  <2> QED
    BY <1>2, <1>5, <2>1, SlotOnce
<1> QED
  BY <1>2, <1>5, <1>6

\* Only free slots are filled.
Filled(q, r) ==
  \A x \in Slots : \/ q.packets[x] = r.packets[x]
                   \/ r.packets[x].exist = 0 /\ q.packets[x].exist = 1

\* Send_new_packets finds its slots free, if flow control leaves room.
LEMMA SendNewSound ==
  ASSUME NEW d \in Daemons, NEW r, NEW o \in Seq(Packet), Sound(r, o),
         NEW n \in Nat, n <= Len(r.down),
         NEW new, new = NewPackets(d, r, n),
         r.highest = Len(o), Len(o) + n <= r.lastDiscarded + NumSlots
  PROVE  /\ Sound(SendNew(d, r, new), o \o new)
         /\ SameBut(SendNew(d, r, new), r, {"packets", "highest", "down"})
         /\ SendNew(d, r, new).highest = r.highest + n
         /\ Filled(SendNew(d, r, new), r)
<1>t. Typed(r) /\ InWindow(r, o) /\ NoHole(r) /\ Holding(r, o)
  BY DEF Sound
<1>n. r.myAru \in Nat /\ r.lastDelivered \in Nat /\ r.lastDiscarded \in Nat /\ r.aru \in Nat
      /\ r.highest \in Nat /\ r.lastDiscarded <= r.lastDelivered
      /\ r.myAru <= r.highest /\ Len(o) \in Nat /\ NumSlots \in Nat
      /\ r.lastDiscarded <= r.myAru
  BY <1>t, RingConstants DEF Typed, InWindow
<1>w. /\ new \in Seq(Packet) /\ Len(new) = n /\ DOMAIN new = 1..n
      /\ \A k \in 1..n : new[k] \in Packet /\ new[k].seq = r.highest + k /\ new[k].from = d
  <2>1. AreNew(NewPackets(d, r, n), d, r, n)
    BY <1>t, NewPacketsAre, Zenon
  <2> QED
    BY <2>1, Zenon DEF AreNew
<1> DEFINE In(x) == \E k \in DOMAIN new : Slot(new[k].seq) = x
           Of(x) == CHOOSE k \in DOMAIN new : Slot(new[k].seq) = x
           q == [r EXCEPT
                  !.highest = @ + Len(new),
                  !.down = SubSeq(@, Len(new) + 1, Len(@)),
                  !.packets = [x \in DOMAIN @ |-> IF In(x) THEN Entry(new[Of(x)], 1) ELSE @[x]]]
           used == \E k \in DOMAIN new : Has(r, new[k].seq)
<1>1. ~used
  <2> SUFFICES ASSUME NEW k \in 1..n PROVE ~Has(r, new[k].seq)
    BY <1>w
  <2>1. new[k].seq = r.highest + k
    BY <1>w
  <2>2. r.highest + k \in Nat /\ r.highest < r.highest + k
        /\ r.highest + k <= r.lastDiscarded + NumSlots
    BY <1>n
  <2> QED
    BY <2>1, <2>2, FreeSlot
<1>2. SendNew(d, r, new) = q
  <2>1. SendNew(d, r, new) = Alarm(q, "Send_new_packets", used)
    BY DEF SendNew
  <2>2. used = FALSE
    BY <1>1
  <2> HIDE DEF used, q
  <2>3. SendNew(d, r, new) = Alarm(q, "Send_new_packets", FALSE)
    BY <2>1, <2>2
  <2> QED
    BY <2>3, NoAlarmSame
<1>u. \A k \in 1..n : r.packets[Slot(new[k].seq)].exist = 0
  <2> TAKE k \in 1..n
  <2>1. ~Has(r, new[k].seq) /\ new[k].seq \in Nat
    BY <1>1, <1>w DEF Packet
  <2>2. PICK j \in Nat : j = new[k].seq
    BY <2>1
  <2>3. At(r, j).exist = 0
    BY <1>t, <2>1, <2>2, NotHas
  <2> QED
    BY <2>2, <2>3 DEF At
<1> HIDE DEF used
<1>3. DOMAIN r = Globals /\ DOMAIN r.packets = Slots
  BY <1>t DEF Typed
<1>5. ASSUME NEW x \in Slots, In(x)
      PROVE  Of(x) \in 1..n /\ Slot(new[Of(x)].seq) = x
  BY <1>5, <1>w
<1> HIDE DEF In, Of
<1>4. /\ DOMAIN q = Globals /\ SameBut(q, r, {"packets", "highest", "down"})
      /\ q.highest = r.highest + n /\ q.down = SubSeq(r.down, n + 1, Len(r.down))
      /\ q.packets = [x \in Slots |-> IF In(x) THEN Entry(new[Of(x)], 1) ELSE r.packets[x]]
  <2>1. DOMAIN q = Globals
    BY <1>3
  <2>2. SameBut(q, r, {"packets", "highest", "down"})
    BY <1>3 DEF SameBut, Globals
  <2>3. q.highest = r.highest + n
    BY <1>3, <1>w DEF Globals
  <2>4. q.down = SubSeq(r.down, n + 1, Len(r.down))
    BY <1>3, <1>w DEF Globals
  <2>5. q.packets = [x \in DOMAIN r.packets |->
                       IF In(x) THEN Entry(new[Of(x)], 1) ELSE r.packets[x]]
    BY <1>3 DEF Globals
  <2> QED
    BY <1>3, <2>1, <2>2, <2>3, <2>4, <2>5
<1> HIDE DEF q
<1>6. ASSUME NEW x \in Slots
      PROVE  /\ q.packets[x] \in Entries
             /\ q.packets[x].exist # 0 =>
                  \/ r.packets[x].exist # 0 /\ q.packets[x] = r.packets[x]
                  \/ \E k \in 1..n : Slot(new[k].seq) = x /\ q.packets[x] = Entry(new[k], 1)
  <2>1. CASE In(x)
    <3>1. PICK k \in 1..n : Slot(new[k].seq) = x /\ q.packets[x] = Entry(new[k], 1)
      BY <1>4, <1>5, <2>1
    <3>2. Entry(new[k], 1) \in Entries
      <4>1. new[k] \in Packet
        BY <1>w
      <4> QED
        BY <4>1 DEF Packet, Entries, Entry
    <3> QED
      BY <3>1, <3>2
  <2>2. CASE ~In(x)
    BY <1>4, <2>2, <1>t DEF Typed
  <2> QED
    BY <2>1, <2>2
<1>7. Typed(q)
  <2>1. q.packets \in [Slots -> Entries]
    BY <1>4, <1>6
  <2>2. q.down \in Seq(Services)
    BY SMTT(30), <1>4, <1>t, <1>n DEF Typed
  <2> QED
    BY <2>1, <2>2, <1>4, <1>t, <1>n DEF Typed, SameBut, Globals
<1>8. /\ q.myAru = r.myAru /\ q.lastDiscarded = r.lastDiscarded
      /\ q.lastDelivered = r.lastDelivered
  BY <1>4 DEF SameBut, Globals
<1>9. /\ Len(o \o new) = Len(o) + n
      /\ \A i \in 1..Len(o) : (o \o new)[i] = o[i]
      /\ \A k \in 1..n : (o \o new)[Len(o) + k] = new[k]
  <2>1. PICK m : m = Len(o)
    OBVIOUS
  <2>2. \A i \in 1..(m + n) : (o \o new)[i] = IF i <= m THEN o[i] ELSE new[i - m]
    BY <1>w, <2>1, ConcatProperties
  <2>3. m \in Nat /\ n \in Nat /\ Len(o \o new) = m + n
    <3>1. Len(o \o new) = Len(o) + Len(new)
      BY <1>w, ConcatProperties
    <3> QED
      BY <3>1, <1>w, <1>n, <2>1
  <2>4. ASSUME NEW k \in 1..n PROVE (o \o new)[m + k] = new[k]
    <3>1. m + k \in 1..(m + n) /\ ~(m + k <= m) /\ (m + k) - m = k
      BY <2>3
    <3> QED
      BY <2>2, <3>1
  <2>5. ASSUME NEW i \in 1..m PROVE (o \o new)[i] = o[i]
    <3>1. i \in 1..(m + n) /\ i <= m
      BY <2>3
    <3> QED
      BY <2>2, <3>1
  <2> QED
    BY <2>1, <2>3, <2>4, <2>5
<1>10. InWindow(q, o \o new)
  BY <1>4, <1>8, <1>9, <1>n DEF InWindow
<1>11. Holding(q, o \o new)
  <2>1. ASSUME NEW x \in Slots, q.packets[x].exist # 0
        PROVE  /\ q.packets[x].seq \in (q.lastDiscarded + 1)..q.highest
               /\ Slot(q.packets[x].seq) = x
               /\ PacketOf(q.packets[x]) = (o \o new)[q.packets[x].seq]
    <3>1. CASE r.packets[x].exist # 0 /\ q.packets[x] = r.packets[x]
      <4>1. /\ q.packets[x].seq \in (r.lastDiscarded + 1)..r.highest
            /\ Slot(q.packets[x].seq) = x
            /\ PacketOf(q.packets[x]) = o[q.packets[x].seq]
        BY <3>1, <1>t DEF Holding
      <4>2. PICK i : i = q.packets[x].seq
        OBVIOUS
      <4>3. i \in 1..Len(o) /\ i \in (r.lastDiscarded + 1)..(r.highest + n)
        BY SMTT(30), <4>1, <4>2, <1>n
      <4> QED
        BY <4>1, <4>2, <4>3, <1>4, <1>8, <1>9
    <3>2. ASSUME NEW k \in 1..n, Slot(new[k].seq) = x, q.packets[x] = Entry(new[k], 1)
          PROVE  /\ q.packets[x].seq \in (q.lastDiscarded + 1)..q.highest
                 /\ Slot(q.packets[x].seq) = x
                 /\ PacketOf(q.packets[x]) = (o \o new)[q.packets[x].seq]
      <4>1. new[k] \in Packet /\ new[k].seq = Len(o) + k
        BY <1>w
      <4>2. q.packets[x].seq = Len(o) + k /\ PacketOf(q.packets[x]) = new[k]
        BY <3>2, <4>1 DEF Entry, PacketOf, Packet
      <4>3. Len(o) + k \in (r.lastDiscarded + 1)..(r.highest + n)
        BY <1>n
      <4>4. Slot(q.packets[x].seq) = x
        BY <3>2, <4>1, <4>2
      <4> QED
        BY <4>2, <4>3, <4>4, <1>4, <1>8, <1>9
    <3> QED
      BY <1>6, <2>1, <3>1, <3>2
  <2> QED
    BY <2>1 DEF Holding
<1>12. NoHole(q)
  <2>1. ASSUME NEW i \in (r.lastDiscarded + 1)..r.myAru PROVE Has(q, i)
    <3>1. i \in Int
      BY <1>n
    <3>2. Has(r, i) /\ Slot(i) \in Slots
      BY <3>1, <1>t, SlotRange DEF NoHole, Slots
    <3>3. q.packets[Slot(i)] = r.packets[Slot(i)] \/ \E k \in 1..n : q.packets[Slot(i)] = Entry(new[k], 1)
      <4>1. CASE In(Slot(i))
        BY <1>4, <1>5, <3>2, <4>1
      <4>2. CASE ~In(Slot(i))
        BY <1>4, <3>2, <4>2
      <4> QED
        BY <4>1, <4>2
    <3>4. r.packets[Slot(i)].exist > 0 /\ \A p : Entry(p, 1).exist = 1
      BY <3>2 DEF Has, At, Entry
    <3>5. q.packets[Slot(i)].exist > 0
      BY <3>3, <3>4
    <3> QED
      BY <3>5 DEF Has, At
  <2> QED
    BY <2>1, <1>8 DEF NoHole
<1>e. Early(q)
  <2>1. ASSUME NEW x \in Slots, q.packets[x].exist = 2
        PROVE  q.packets[x] = r.packets[x]
    <3>1. \A p : Entry(p, 1).exist = 1
      BY DEF Entry
    <3> QED
      BY <1>6, <2>1, <3>1
  <2>2. q.lastDelivered >= r.lastDelivered
    BY <1>8, <1>n
  <2>3. Typed(r) /\ Early(r)
    BY DEF Sound
  <2> QED
    BY <1>7, <2>1, <2>2, <2>3, EarlyKept
<1>13. Sound(q, o \o new)
  BY <1>7, <1>10, <1>11, <1>12, <1>e DEF Sound
<1>14. Filled(q, r)
  <2>1. ASSUME NEW x \in Slots
        PROVE  \/ q.packets[x] = r.packets[x]
               \/ r.packets[x].exist = 0 /\ q.packets[x].exist = 1
    <3>1. CASE In(x)
      <4>1. PICK k \in 1..n : Slot(new[k].seq) = x /\ q.packets[x] = Entry(new[k], 1)
        BY <1>4, <1>5, <2>1, <3>1
      <4> QED
        BY <1>u, <4>1 DEF Entry
    <3>2. CASE ~In(x)
      BY <1>4, <3>2
    <3> QED
      BY <3>1, <3>2
  <2> QED
    BY <2>1 DEF Filled
<1> QED
  BY <1>2, <1>4, <1>13, <1>14

\* A packet that is new to the daemon is put in its slot.
Stored(r, p) ==
  [r EXCEPT !.packets[Slot(p.seq)] = Entry(p, 1), !.highest = Max({@, p.seq})]

LEMMA StoredSound ==
  ASSUME NEW r, NEW o, Sound(r, o), NEW p \in Packet, p.seq \in 1..Len(o), p = o[p.seq],
         ~(p.seq <= r.lastDiscarded)
  PROVE  /\ Sound(Stored(r, p), o)
         /\ SameBut(Stored(r, p), r, {"packets", "highest"})
         /\ Stored(r, p).highest >= r.highest /\ Stored(r, p).highest <= Len(o)
         /\ Stored(r, p).highest >= p.seq
         /\ ~Has(r, p.seq) => Filled(Stored(r, p), r)
<1> DEFINE q == Stored(r, p)
           z == Slot(p.seq)
<1>t. Typed(r) /\ InWindow(r, o) /\ NoHole(r) /\ Holding(r, o)
  BY DEF Sound
<1>n. r.myAru \in Nat /\ r.lastDelivered \in Nat /\ r.lastDiscarded \in Nat
      /\ r.highest \in Nat /\ r.lastDiscarded <= r.lastDelivered
      /\ r.myAru <= r.highest /\ r.highest <= Len(o) /\ Len(o) \in Nat /\ NumSlots \in Nat
      /\ r.lastDiscarded <= r.myAru /\ Len(o) <= r.lastDiscarded + NumSlots
  BY <1>t, RingConstants DEF Typed, InWindow
<1>p. p.seq \in Nat /\ p.seq <= Len(o) /\ p.seq > r.lastDiscarded
  BY <1>n
<1>z. z \in Slots
  BY <1>p, SlotRange DEF Slots
<1>1. Max({r.highest, p.seq}) \in Nat /\ Max({r.highest, p.seq}) >= r.highest
      /\ Max({r.highest, p.seq}) >= p.seq /\ Max({r.highest, p.seq}) <= Len(o)
  BY <1>n, <1>p, MaxNat
<1>2. DOMAIN r = Globals /\ DOMAIN r.packets = Slots
  BY <1>t DEF Typed
<1>3. /\ DOMAIN q = Globals /\ SameBut(q, r, {"packets", "highest"})
      /\ q.highest = Max({r.highest, p.seq})
      /\ q.packets = [r.packets EXCEPT ![z] = Entry(p, 1)]
  BY <1>2 DEF Stored, SameBut, Globals
<1> HIDE DEF q, z
<1>4. Entry(p, 1) \in Entries /\ Entry(p, 1).exist = 1 /\ Entry(p, 1).seq = p.seq
      /\ PacketOf(Entry(p, 1)) = p
  BY DEF Entry, Entries, Packet, PacketOf
<1>5. q.packets[z] = Entry(p, 1) /\ \A x \in Slots : x # z => q.packets[x] = r.packets[x]
  BY <1>2, <1>3, <1>z
<1>6. Typed(q)
  <2>1. q.packets \in [Slots -> Entries]
    BY <1>3, <1>4, <1>t DEF Typed
  <2> QED
    BY <2>1, <1>1, <1>3, <1>t DEF Typed, SameBut, Globals
<1>7. /\ q.myAru = r.myAru /\ q.lastDiscarded = r.lastDiscarded
      /\ q.lastDelivered = r.lastDelivered
  BY <1>3 DEF SameBut, Globals
<1>8. InWindow(q, o)
  BY <1>1, <1>3, <1>7, <1>n DEF InWindow
<1>9. Holding(q, o)
  <2>1. ASSUME NEW x \in Slots, q.packets[x].exist # 0
        PROVE  /\ q.packets[x].seq \in (q.lastDiscarded + 1)..q.highest
               /\ Slot(q.packets[x].seq) = x
               /\ PacketOf(q.packets[x]) = o[q.packets[x].seq]
    <3>1. CASE x = z
      BY <3>1, <1>1, <1>3, <1>4, <1>5, <1>7, <1>n, <1>p DEF z
    <3>2. CASE x # z
      <4>1. q.packets[x] = r.packets[x]
        BY <1>5, <3>2
      <4>2. /\ r.packets[x].seq \in (r.lastDiscarded + 1)..r.highest
            /\ Slot(r.packets[x].seq) = x
            /\ PacketOf(r.packets[x]) = o[r.packets[x].seq]
        BY <2>1, <4>1, <1>t DEF Holding
      <4> QED
        BY <4>1, <4>2, <1>1, <1>3, <1>7, <1>n
    <3> QED
      BY <3>1, <3>2
  <2> QED
    BY <2>1 DEF Holding
<1>10. NoHole(q)
  <2>1. ASSUME NEW i \in (r.lastDiscarded + 1)..r.myAru PROVE Has(q, i)
    <3>1. i \in Int
      BY <1>n
    <3>2. Has(r, i) /\ Slot(i) \in Slots
      BY <3>1, <1>t, SlotRange DEF NoHole, Slots
    <3> QED
      BY <3>2, <1>4, <1>5 DEF Has, At
  <2> QED
    BY <2>1, <1>7 DEF NoHole
<1>e. Early(q)
  <2>1. ASSUME NEW x \in Slots, q.packets[x].exist = 2
        PROVE  q.packets[x] = r.packets[x]
    BY <1>4, <1>5, <2>1
  <2>2. q.lastDelivered >= r.lastDelivered
    BY <1>7, <1>n
  <2>3. Typed(r) /\ Early(r)
    BY DEF Sound
  <2> QED
    BY <1>6, <2>1, <2>2, <2>3, EarlyKept
<1>11. Sound(q, o)
  BY <1>6, <1>8, <1>9, <1>10, <1>e DEF Sound
<1>12. ASSUME ~Has(r, p.seq) PROVE Filled(q, r)
  <2>1. r.packets[z] \in Entries
    BY <1>t, <1>z DEF Typed
  <2>2. r.packets[z].exist = 0
    BY <1>12, <2>1 DEF Has, At, Entries, z
  <2>3. q.packets[z].exist = 1
    BY <1>4, <1>5
  <2> QED
    BY <1>5, <2>2, <2>3 DEF Filled
<1> QED
  BY <1>1, <1>3, <1>11, <1>12 DEF q

-----------------------------------------------------------------------------
(* What a daemon hands over to its clients.                                *)

\* A bounded set of numbers can be listed from the lowest up: the place of x is
\* how many elements are not above it.
LEMMA AscendingIs ==
  ASSUME NEW S \in SUBSET Nat, NEW b \in Nat, \A x \in S : x <= b
  PROVE  /\ Cardinality(S) \in Nat
         /\ Ascending(S) \in [1..Cardinality(S) -> S]
         /\ \A i, j \in 1..Cardinality(S) : i < j => Ascending(S)[i] < Ascending(S)[j]
         /\ \A x \in S : \E i \in 1..Cardinality(S) : Ascending(S)[i] = x
<1>1. IsFiniteSet(S) /\ Cardinality(S) \in Nat
  BY FS_BoundedSetOfNaturals, FS_CardinalityType
<1>2. PICK n : n = Cardinality(S)
  OBVIOUS
<1> DEFINE upto(x) == {y \in S : y <= x}
           rank == [x \in S |-> Cardinality(upto(x))]
<1>3. ASSUME NEW x \in S
      PROVE  IsFiniteSet(upto(x)) /\ Cardinality(upto(x)) \in 1..n
  <2>1. upto(x) \in SUBSET S /\ upto(x) # {}
    OBVIOUS
  <2>2. IsFiniteSet(upto(x)) /\ Cardinality(upto(x)) <= n
    BY <1>1, <1>2, <2>1, FS_Subset
  <2>3. Cardinality(upto(x)) \in Nat /\ Cardinality(upto(x)) # 0
    BY <2>1, <2>2, FS_EmptySet, FS_CardinalityType
  <2> HIDE DEF upto
  <2> QED
    BY <1>1, <1>2, <2>2, <2>3
<1>4. ASSUME NEW x \in S, NEW y \in S, x < y PROVE rank[x] < rank[y]
  <2>1. upto(x) \in SUBSET upto(y) /\ upto(x) # upto(y)
    <3>1. y \in upto(y) /\ y \notin upto(x)
      BY <1>4
    <3>2. \A z \in upto(x) : z \in upto(y)
      BY <1>4
    <3> QED
      BY <3>1, <3>2
  <2>2. IsFiniteSet(upto(y)) /\ Cardinality(upto(x)) \in Nat /\ Cardinality(upto(y)) \in Nat
    BY <1>1, <1>2, <1>3
  <2> HIDE DEF upto
  <2>3. /\ Cardinality(upto(x)) <= Cardinality(upto(y))
        /\ Cardinality(upto(y)) # Cardinality(upto(x))
    BY <2>1, <2>2, FS_Subset
  <2> QED
    BY <2>2, <2>3
<1>5. rank \in [S -> 1..n] /\ \A x \in S : rank[x] = Cardinality(upto(x))
  BY <1>3
<1> HIDE DEF rank, upto
<1>6. \A x, y \in S : rank[x] = rank[y] => x = y
  <2>1. ASSUME NEW x \in S, NEW y \in S, rank[x] = rank[y] PROVE x = y
    <3>1. rank[x] \in 1..n
      BY <1>5
    <3>2. ~(x < y) /\ ~(y < x)
      BY <1>1, <1>2, <1>4, <2>1, <3>1
    <3> QED
      BY <3>2
  <2> QED
    BY <2>1
<1>7. \A k \in 1..n : \E x \in S : rank[x] = k
  <2>1. IsFiniteSet(1..n) /\ Cardinality(1..n) = Cardinality(S)
    BY <1>1, <1>2, FS_Interval
  <2>2. rank \in Injection(S, 1..n)
    BY <1>5, <1>6 DEF Injection, IsInjective
  <2>3. rank \in Surjection(S, 1..n)
    BY <2>1, <2>2, FS_Injection
  <2> QED
    BY <2>3 DEF Surjection
<1> DEFINE a == [k \in 1..n |-> CHOOSE x \in S : rank[x] = k]
<1>8. a \in [1..n -> S] /\ \A k \in 1..n : rank[a[k]] = k
  BY <1>7
<1> HIDE DEF a
<1>9. \A i, j \in 1..n : i < j => a[i] < a[j]
  <2>1. ASSUME NEW i \in 1..n, NEW j \in 1..n, i < j PROVE a[i] < a[j]
    <3>1. a[i] \in S /\ a[j] \in S /\ rank[a[i]] = i /\ rank[a[j]] = j
      BY <1>8
    <3>2. PICK x \in S, y \in S : x = a[i] /\ y = a[j]
      BY <3>1
    <3>3. rank[x] = i /\ rank[y] = j /\ x \in Nat /\ y \in Nat /\ i \in Nat /\ j \in Nat
      BY <1>1, <1>2, <3>1, <3>2
    <3>4. ~(y < x)
      BY <1>4, <2>1, <3>3
    <3>5. x # y
      BY <2>1, <3>3
    <3> QED
      BY <3>2, <3>3, <3>4, <3>5
  <2> QED
    BY <2>1
<1>10. \E c \in [1..n -> S] : \A i, j \in DOMAIN c : i < j => c[i] < c[j]
  BY <1>8, <1>9
<1>11. PICK s : s = Ascending(S)
  OBVIOUS
<1>12. s \in [1..n -> S] /\ \A i, j \in 1..n : i < j => s[i] < s[j]
  <2>1. s \in [1..n -> S] /\ \A i, j \in DOMAIN s : i < j => s[i] < s[j]
    BY <1>2, <1>10, <1>11 DEF Ascending
  <2> QED
    BY <2>1
<1>13. \A x \in S : \E i \in 1..n : s[i] = x
  <2>1. IsFiniteSet(1..n) /\ Cardinality(1..n) = Cardinality(S)
    BY <1>1, <1>2, FS_Interval
  <2>2. \A i, j \in 1..n : s[i] = s[j] => i = j
    <3>1. ASSUME NEW i \in 1..n, NEW j \in 1..n, s[i] = s[j] PROVE i = j
      <4>1. s[i] \in Nat /\ s[j] \in Nat
        BY <1>12
      <4> QED
        BY <1>1, <1>2, <1>12, <3>1, <4>1
    <3> QED
      BY <3>1
  <2>3. s \in Injection(1..n, S)
    BY <1>12, <2>2 DEF Injection, IsInjective
  <2>4. s \in Surjection(1..n, S)
    BY <1>1, <2>1, <2>3, FS_Injection
  <2> QED
    BY <2>4 DEF Surjection
<1> QED
  BY <1>1, <1>2, <1>11, <1>12, <1>13

\* s may be next when the numbers in before have been handed over; o is the order, and
\* what is up to l has reached everyone (MayHand in OrderedDelivery).
InTurn(s, before, o, l) ==
  /\ s \in 1..Len(o) /\ s \notin before
  /\ o[s].svc = "reliable" \/ 1..(s - 1) \subseteq before
  /\ o[s].svc = "safe" => s <= l

\* The clients have been handed h, and then the rest of g.
Continues(g, h, o, l) ==
  /\ Len(h) <= Len(g) /\ \A k \in 1..Len(h) : g[k] = h[k]
  /\ \A k \in (Len(h) + 1)..Len(g) : InTurn(g[k], {g[j] : j \in 1..(k - 1)}, o, l)

\* What the clients have been handed: all that counts as delivered, and those packets
\* of the buffer that are marked so.
Clients(r) ==
  /\ r.handed \in Seq(Nat)
  /\ \A i \in 1..r.lastDelivered : i \in Range(r.handed)
  /\ \A i \in Range(r.handed) :
       i <= r.lastDiscarded \/ (At(r, i).exist = 2 /\ At(r, i).seq = i)
  /\ \A x \in Slots : /\ r.packets[x].exist = 2 => r.packets[x].seq \in Range(r.handed)
                      /\ r.packets[x].exist = 0 => r.packets[x].seq = 0

\* What has reached the daemon stays.
Keeps(q, r) ==
  /\ r.lastDiscarded <= q.lastDiscarded
  /\ \A i \in Nat : q.lastDiscarded < i /\ At(r, i).seq = i => At(q, i).seq = i

\* A daemon goes from r to q and serves its clients.
Serves(q, r, o, l) ==
  Clients(q) /\ Continues(q.handed, r.handed, o, l) /\ Keeps(q, r)

LEMMA ContinuesOn ==
  ASSUME NEW f \in Seq(Nat), NEW g \in Seq(Nat), NEW h \in Seq(Nat), NEW o, NEW l,
         Continues(f, g, o, l), Continues(g, h, o, l)
  PROVE  Continues(f, h, o, l)
<1>1. /\ Len(h) <= Len(g) /\ \A k \in 1..Len(h) : g[k] = h[k]
      /\ \A k \in (Len(h) + 1)..Len(g) : InTurn(g[k], {g[j] : j \in 1..(k - 1)}, o, l)
  BY DEF Continues
<1>2. /\ Len(g) <= Len(f) /\ \A k \in 1..Len(g) : f[k] = g[k]
      /\ \A k \in (Len(g) + 1)..Len(f) : InTurn(f[k], {f[j] : j \in 1..(k - 1)}, o, l)
  BY DEF Continues
<1>3. Len(f) \in Nat /\ Len(g) \in Nat /\ Len(h) \in Nat
  OBVIOUS
<1>4. ASSUME NEW k \in (Len(h) + 1)..Len(f)
      PROVE  InTurn(f[k], {f[j] : j \in 1..(k - 1)}, o, l)
  <2>1. CASE k > Len(g)
    <3>1. k \in (Len(g) + 1)..Len(f)
      BY <1>3, <2>1
    <3> QED
      BY <1>2, <3>1
  <2>2. CASE k <= Len(g)
    <3>1. \A j \in 1..k : f[j] = g[j]
      <4>1. \A j \in 1..k : j \in 1..Len(g)
        BY <1>3, <2>2
      <4> QED
        BY <1>2, <4>1
    <3>2. {f[j] : j \in 1..(k - 1)} = {g[j] : j \in 1..(k - 1)}
      <4>1. \A j \in 1..(k - 1) : j \in 1..k
        BY <1>3
      <4> QED
        BY <3>1, <4>1
    <3>3. f[k] = g[k] /\ k \in (Len(h) + 1)..Len(g)
      <4>1. k \in (Len(h) + 1)..Len(g) /\ k \in 1..k
        BY <1>3, <2>2
      <4> QED
        BY <3>1, <4>1
    <3>4. PICK B : B = {g[j] : j \in 1..(k - 1)}
      OBVIOUS
    <3>5. InTurn(g[k], B, o, l)
      BY <1>1, <3>3, <3>4
    <3> QED
      BY <3>2, <3>3, <3>4, <3>5
  <2> QED
    BY <1>3, <2>1, <2>2
<1>5. \A k \in 1..Len(h) : f[k] = h[k]
  <2> TAKE k \in 1..Len(h)
  <2>1. k \in 1..Len(g)
    BY <1>1, <1>3
  <2> QED
    BY <1>1, <1>2, <2>1
<1>6. Len(h) <= Len(f)
  BY <1>1, <1>2, <1>3
<1> QED
  BY <1>4, <1>5, <1>6 DEF Continues

\* So do two steps one after the other.
LEMMA ServesOn ==
  ASSUME NEW p, NEW q, NEW r, NEW o, NEW l, Clients(r), Typed(p), Typed(q), Typed(r),
         Serves(p, q, o, l), Serves(q, r, o, l)
  PROVE  Serves(p, r, o, l)
<1>1. p.handed \in Seq(Nat) /\ q.handed \in Seq(Nat) /\ r.handed \in Seq(Nat)
  BY DEF Serves, Clients
<1>2. Continues(p.handed, r.handed, o, l)
  BY <1>1, ContinuesOn DEF Serves
<1>3. p.lastDiscarded \in Nat /\ q.lastDiscarded \in Nat /\ r.lastDiscarded \in Nat
  BY DEF Typed
<1>4. q.lastDiscarded <= p.lastDiscarded /\ r.lastDiscarded <= q.lastDiscarded
  BY DEF Serves, Keeps
<1>5. Keeps(p, r)
  <2>1. ASSUME NEW i \in Nat, p.lastDiscarded < i, At(r, i).seq = i PROVE At(p, i).seq = i
    <3>1. q.lastDiscarded < i
      BY <1>3, <1>4, <2>1
    <3>2. At(q, i).seq = i
      BY <2>1, <3>1 DEF Serves, Keeps
    <3> QED
      BY <2>1, <3>2 DEF Serves, Keeps
  <2> QED
    BY <1>3, <1>4, <2>1 DEF Keeps
<1> QED
  BY <1>2, <1>5 DEF Serves

\* A step that serves nobody.
LEMMA ServesSame ==
  ASSUME NEW q, NEW r, NEW o, NEW l, Typed(r), Clients(r),
         q.handed = r.handed, q.packets = r.packets, q.lastDiscarded = r.lastDiscarded,
         q.lastDelivered = r.lastDelivered
  PROVE  Serves(q, r, o, l)
<1>1. Clients(q)
  BY DEF Clients, At
<1>2. Continues(q.handed, r.handed, o, l)
  <2>1. PICK h : h = r.handed
    OBVIOUS
  <2>2. h \in Seq(Nat) /\ Len(h) \in Nat
    BY <2>1 DEF Clients
  <2>3. (Len(h) + 1)..Len(h) = {}
    BY <2>2
  <2> QED
    BY <2>1, <2>2, <2>3 DEF Continues
<1>3. Keeps(q, r)
  BY DEF Keeps, At, Typed
<1> QED
  BY <1>1, <1>2, <1>3 DEF Serves

LEMMA ServesSameBut ==
  ASSUME NEW q, NEW r, NEW o, NEW l, Typed(r), Clients(r),
         SameBut(q, r, Globals \ {"handed", "packets", "lastDiscarded", "lastDelivered"})
  PROVE  Serves(q, r, o, l)
<1>1. /\ q.handed = r.handed /\ q.packets = r.packets /\ q.lastDiscarded = r.lastDiscarded
      /\ q.lastDelivered = r.lastDelivered
  BY DEF SameBut, Globals
<1> QED
  BY <1>1, ServesSame

\* A packet put in a free slot displaces none.
LEMMA ServesFilled ==
  ASSUME NEW q, NEW r, NEW o, NEW l, Typed(r), Clients(r),
         SameBut(q, r, {"packets", "highest", "down"}), Filled(q, r)
  PROVE  Serves(q, r, o, l)
<1>1. /\ q.handed = r.handed /\ q.lastDiscarded = r.lastDiscarded
      /\ q.lastDelivered = r.lastDelivered /\ r.lastDiscarded \in Nat
  BY DEF SameBut, Globals, Typed
<1>2. ASSUME NEW i \in Nat, At(r, i).exist # 0 \/ (i # 0 /\ At(r, i).seq = i)
      PROVE  At(q, i) = At(r, i)
  <2>1. Slot(i) \in Slots
    BY SlotRange DEF Slots
  <2>2. r.packets[Slot(i)].exist # 0
    BY <1>2, <2>1 DEF Clients, At
  <2> QED
    BY <2>1, <2>2 DEF Filled, At
<1>3. Continues(q.handed, r.handed, o, l)
  <2>1. PICK h : h = r.handed
    OBVIOUS
  <2>2. h \in Seq(Nat) /\ Len(h) \in Nat
    BY <2>1 DEF Clients
  <2>3. (Len(h) + 1)..Len(h) = {}
    BY <2>2
  <2> QED
    BY <1>1, <2>1, <2>2, <2>3 DEF Continues
<1>4. Keeps(q, r)
  <2>1. ASSUME NEW i \in Nat, q.lastDiscarded < i, At(r, i).seq = i PROVE At(q, i).seq = i
    BY <1>1, <1>2, <2>1
  <2> QED
    BY <1>1, <2>1 DEF Keeps
<1>5. Clients(q)
  <2>1. r.handed \in Seq(Nat) /\ \A i \in 1..r.lastDelivered : i \in Range(r.handed)
    BY DEF Clients
  <2>2. ASSUME NEW i \in Range(r.handed)
        PROVE  i <= r.lastDiscarded \/ (At(q, i).exist = 2 /\ At(q, i).seq = i)
    <3>1. i \in Nat
      BY <2>1 DEF Range
    <3>2. i <= r.lastDiscarded \/ (At(r, i).exist = 2 /\ At(r, i).seq = i)
      BY DEF Clients
    <3> QED
      BY <1>2, <3>1, <3>2
  <2>3. \A x \in Slots : /\ q.packets[x].exist = 2 => q.packets[x].seq \in Range(r.handed)
                         /\ q.packets[x].exist = 0 => q.packets[x].seq = 0
    BY DEF Filled, Clients
  <2> QED
    BY <1>1, <2>1, <2>2, <2>3 DEF Clients
<1> QED
  BY <1>3, <1>4, <1>5 DEF Serves

\* S is what Deliver_packet may be called for: packets that wait in the window, none
\* before its turn, and the safe ones up to l.
Ready(r, S, l) ==
  /\ S \subseteq (r.lastDiscarded + 1)..r.highest
  /\ \A s \in S :
       /\ At(r, s).exist = 1
       /\ At(r, s).svc = "reliable" \/ \A i \in 1..(s - 1) : i \in Range(r.handed) \/ i \in S
       /\ At(r, s).svc = "safe" => s <= l

\* g is h with the numbers of S behind it, from the lowest up: the k-th one is a[k].
Adds(g, h, S, a, n) ==
  /\ n \in Nat /\ a \in [1..n -> S]
  /\ \A i, j \in 1..n : i < j => a[i] < a[j]
  /\ \A x \in S : \E i \in 1..n : a[i] = x
  /\ h \in Seq(Nat) /\ g \in Seq(Nat) /\ Len(g) = Len(h) + n
  /\ \A k \in 1..Len(h) : g[k] = h[k]
  /\ \A k \in 1..n : g[Len(h) + k] = a[k]

\* What Deliver_packet hands over, as a sequence.
LEMMA DeliverHands ==
  ASSUME NEW r, NEW o, Sound(r, o), Clients(r), NEW l \in Nat, NEW S, Ready(r, S, l)
  PROVE  \E a, n : Adds(Deliver(r, S).handed, r.handed, S, a, n)
<1>1. Typed(r) /\ r.highest \in Nat /\ r.lastDiscarded \in Nat /\ DOMAIN r = Globals
      /\ r.handed \in Seq(Nat)
  BY DEF Sound, Typed, Clients
<1>2. S \in SUBSET Nat /\ \A x \in S : x <= r.highest
  BY <1>1 DEF Ready
<1>3. PICK a, n : a = Ascending(S) /\ n = Cardinality(S)
  OBVIOUS
<1>4. /\ n \in Nat /\ a \in [1..n -> S]
      /\ \A i, j \in 1..n : i < j => a[i] < a[j]
      /\ \A x \in S : \E i \in 1..n : a[i] = x
  <2>1. /\ Cardinality(S) \in Nat
        /\ Ascending(S) \in [1..Cardinality(S) -> S]
        /\ \A i, j \in 1..Cardinality(S) : i < j => Ascending(S)[i] < Ascending(S)[j]
        /\ \A x \in S : \E i \in 1..Cardinality(S) : Ascending(S)[i] = x
    <3>1. PICK b : b = r.highest
      OBVIOUS
    <3>2. b \in Nat /\ \A x \in S : x <= b
      BY <1>1, <1>2, <3>1
    <3> QED
      BY <1>2, <3>2, AscendingIs
  <2> QED
    BY <1>3, <2>1
<1>5. ASSUME NEW k \in 1..n PROVE At(r, a[k]).seq = a[k]
  <2>1. PICK s \in S : s = a[k]
    BY <1>4
  <2>2. At(r, s).exist = 1 /\ s \in Nat /\ r.lastDiscarded < s /\ s <= r.highest
    BY <1>1, <1>2 DEF Ready
  <2>3. Has(r, s)
    BY <2>2 DEF Has
  <2>4. At(r, s).seq = s
    BY <2>2, <2>3, Held
  <2> QED
    BY <2>1, <2>4
<1>6. Deliver(r, S).handed = r.handed \o [k \in DOMAIN a |-> At(r, a[k]).seq]
  BY <1>1, <1>3 DEF Deliver, Globals
<1>7. [k \in DOMAIN a |-> At(r, a[k]).seq] = a
  BY <1>4, <1>5
<1>8. a \in Seq(Nat) /\ Len(a) = n
  <2>1. \A k \in 1..n : a[k] \in Nat
    BY <1>2, <1>4
  <2>2. a \in [1..n -> Nat] /\ n \in Nat
    BY <1>4, <2>1
  <2>3. a \in Seq(Nat)
    BY <2>2, SeqDef
  <2>4. Len(a) = n
    BY <2>2, <2>3, LenProperties
  <2> QED
    BY <2>3, <2>4
<1>9. PICK h : h = r.handed
  OBVIOUS
<1>10. PICK m : m = Len(h)
  OBVIOUS
<1>11. /\ m \in Nat /\ Len(h \o a) = m + n /\ h \o a \in Seq(Nat)
       /\ \A k \in 1..(m + n) : (h \o a)[k] = IF k <= m THEN h[k] ELSE a[k - m]
  <2>1. h \in Seq(Nat) /\ a \in Seq(Nat) /\ m = Len(h) /\ n = Len(a)
    BY <1>1, <1>8, <1>9, <1>10
  <2> QED
    BY <2>1, ConcatProperties, LenProperties
<1>12. \A k \in 1..m : (h \o a)[k] = h[k]
  <2> TAKE k \in 1..m
  <2>1. k \in 1..(m + n) /\ k <= m
    BY <1>4, <1>11
  <2> QED
    BY <1>11, <2>1
<1>13. \A k \in 1..n : (h \o a)[m + k] = a[k]
  <2> TAKE k \in 1..n
  <2>1. m + k \in 1..(m + n) /\ ~(m + k <= m) /\ (m + k) - m = k
    BY <1>4, <1>11
  <2> QED
    BY <1>11, <2>1
<1>14. Adds(h \o a, h, S, a, n)
  BY <1>1, <1>4, <1>9, <1>10, <1>11, <1>12, <1>13 DEF Adds
<1> QED
  BY <1>6, <1>7, <1>9, <1>14

\* Deliver_packet.
LEMMA DeliverServes ==
  ASSUME NEW r, NEW o, Sound(r, o), Clients(r), NEW l \in Nat, NEW S, Ready(r, S, l)
  PROVE  /\ Serves(Deliver(r, S), r, o, l)
         /\ Range(Deliver(r, S).handed) = Range(r.handed) \cup S
<1>1. /\ Typed(r) /\ r.highest \in Nat /\ r.lastDiscarded \in Nat /\ DOMAIN r = Globals
      /\ r.handed \in Seq(Nat) /\ DOMAIN r.packets = Slots /\ r.packets \in [Slots -> Entries]
  BY DEF Sound, Typed, Clients
<1>2. \A s \in S : /\ s \in Nat /\ r.lastDiscarded < s /\ s <= r.highest
                   /\ At(r, s).exist = 1 /\ At(r, s).seq = s
                   /\ At(r, s).svc = o[s].svc /\ s \in 1..Len(o) /\ Slot(s) \in Slots
  <2> TAKE s \in S
  <2>1. s \in Nat /\ r.lastDiscarded < s /\ s <= r.highest /\ At(r, s).exist = 1
    BY <1>1 DEF Ready
  <2>2. Has(r, s)
    BY <2>1 DEF Has
  <2>3. At(r, s).seq = s /\ At(r, s).svc = o[s].svc /\ s \in 1..Len(o)
    BY <2>1, <2>2, Held
  <2>4. Slot(s) \in Slots
    BY <2>1, SlotRange DEF Slots
  <2> QED
    BY <2>1, <2>3, <2>4
<1>3. PICK a, n : Adds(Deliver(r, S).handed, r.handed, S, a, n)
  BY DeliverHands
<1>5. PICK h, g, m : h = r.handed /\ g = Deliver(r, S).handed /\ m = Len(r.handed)
  OBVIOUS
<1>4. /\ n \in Nat /\ a \in [1..n -> S]
      /\ \A i, j \in 1..n : i < j => a[i] < a[j]
      /\ \A x \in S : \E i \in 1..n : a[i] = x
  BY <1>3 DEF Adds
<1>6. /\ n \in Nat /\ h \in Seq(Nat) /\ g \in Seq(Nat) /\ m \in Nat /\ Len(h) = m /\ Len(g) = m + n
      /\ \A k \in 1..m : g[k] = h[k]
      /\ \A k \in 1..n : g[m + k] = a[k]
      /\ DOMAIN h = 1..m /\ DOMAIN g = 1..(m + n)
  <2>1. Adds(g, h, S, a, n)
    BY <1>3, <1>5
  <2>2. Len(h) = m
    BY <1>5
  <2>3. /\ n \in Nat /\ h \in Seq(Nat) /\ g \in Seq(Nat) /\ Len(g) = m + n
        /\ \A k \in 1..m : g[k] = h[k]
        /\ \A k \in 1..n : g[m + k] = a[k]
    BY <2>1, <2>2 DEF Adds
  <2>4. m \in Nat /\ DOMAIN h = 1..m /\ DOMAIN g = 1..(m + n)
    BY <2>2, <2>3, LenProperties
  <2> QED
    BY <2>2, <2>3, <2>4
<1>7. ASSUME NEW k \in (m + 1)..(m + n) PROVE k - m \in 1..n /\ g[k] = a[k - m] /\ a[k - m] \in S
  <2>1. k - m \in 1..n /\ m + (k - m) = k
    BY <1>6
  <2>2. g[m + (k - m)] = a[k - m]
    BY <1>6, <2>1
  <2> QED
    BY <1>4, <2>1, <2>2
<1>8. Range(g) = Range(h) \cup S
  <2>1. ASSUME NEW k \in 1..(m + n) PROVE g[k] \in Range(h) \cup S
    <3>1. CASE k <= m
      <4>1. k \in 1..m /\ k \in DOMAIN h /\ g[k] = h[k]
        BY <1>6, <3>1
      <4> QED
        BY <4>1 DEF Range
    <3>2. CASE k > m
      <4>1. k \in (m + 1)..(m + n)
        BY <1>6, <3>2
      <4> QED
        BY <1>7, <4>1
    <3> QED
      BY <1>6, <3>1, <3>2
  <2>2. ASSUME NEW i \in Range(h) PROVE i \in Range(g)
    <3>1. PICK k \in 1..m : i = h[k]
      BY <1>6 DEF Range
    <3>2. k \in 1..(m + n) /\ g[k] = i
      BY <1>6, <3>1
    <3> QED
      BY <1>6, <3>2 DEF Range
  <2>3. ASSUME NEW x \in S PROVE x \in Range(g)
    <3>1. PICK i \in 1..n : a[i] = x
      BY <1>4
    <3>2. m + i \in 1..(m + n) /\ g[m + i] = x
      BY <1>6, <3>1
    <3> QED
      BY <1>6, <3>2 DEF Range
  <2>4. \A i \in Range(g) : i \in Range(h) \cup S
    BY <1>6, <2>1 DEF Range
  <2> QED
    BY <2>2, <2>3, <2>4
<1>9. \A s \in S : s \notin Range(h)
  <2> SUFFICES ASSUME NEW s \in S, s \in Range(h) PROVE FALSE
    OBVIOUS
  <2>1. s <= r.lastDiscarded \/ At(r, s).exist = 2
    BY <1>5 DEF Clients
  <2> QED
    BY <1>1, <1>2, <2>1
<1>10. Continues(g, h, o, l)
  <2>1. ASSUME NEW k \in (m + 1)..(m + n) PROVE InTurn(g[k], {g[j] : j \in 1..(k - 1)}, o, l)
    <3>1. PICK s \in S : s = g[k]
      BY <1>7
    <3>2. PICK B : B = {g[j] : j \in 1..(k - 1)}
      OBVIOUS
    <3>3. k - m \in 1..n /\ s = a[k - m] /\ k \in Nat
      BY <1>6, <1>7, <3>1
    <3>4. s \notin B
      <4> SUFFICES ASSUME NEW j \in 1..(k - 1), g[j] = s PROVE FALSE
        BY <3>2
      <4>1. CASE j <= m
        <5>1. j \in 1..m
          BY <1>6, <3>3, <4>1
        <5>2. s \in Range(h)
          BY <1>6, <5>1 DEF Range
        <5> QED
          BY <1>9, <5>2
      <4>2. CASE j > m
        <5>1. j \in (m + 1)..(m + n) /\ j - m < k - m
          BY <1>6, <3>3, <4>2
        <5>2. j - m \in 1..n /\ g[j] = a[j - m]
          BY <1>7, <5>1
        <5>3. a[j - m] < a[k - m]
          BY <1>4, <3>3, <5>1, <5>2
        <5> QED
          BY <1>2, <3>3, <5>2, <5>3
      <4> QED
        BY <1>6, <3>3, <4>1, <4>2
    <3>5. /\ o[s].svc = At(r, s).svc /\ s \in 1..Len(o) /\ s \in Nat
          /\ At(r, s).svc = "reliable" \/ \A i \in 1..(s - 1) : i \in Range(h) \/ i \in S
          /\ At(r, s).svc = "safe" => s <= l
      BY <1>2, <1>5 DEF Ready
    <3>6. ASSUME NEW i \in 1..(s - 1), i \in Range(h) \/ i \in S PROVE i \in B
      <4>1. CASE i \in Range(h)
        <5>1. PICK j \in 1..m : i = h[j]
          BY <1>6, <4>1 DEF Range
        <5>2. j \in 1..(k - 1) /\ g[j] = i
          BY <1>6, <3>3, <5>1
        <5> QED
          BY <3>2, <5>2
      <4>2. CASE i \in S
        <5>1. PICK j \in 1..n : a[j] = i
          BY <1>4, <4>2
        <5>2. i < s /\ i \in Nat
          BY <3>5
        <5>3. ~(k - m < j) /\ j # k - m
          <6>1. PICK c \in 1..n : c = k - m
            BY <3>3
          <6>2. a[c] = s /\ a[j] = i /\ (c < j => a[c] < a[j])
            BY <1>4, <3>3, <5>1, <6>1
          <6>3. ~(c < j) /\ j # c
            BY <3>5, <5>2, <6>2
          <6> QED
            BY <6>1, <6>3
        <5>4. m + j \in 1..(k - 1)
          <6>1. j \in Nat /\ 1 <= j /\ k - m \in Nat
            BY <1>6, <3>3
          <6>2. j < k - m
            BY <5>3, <6>1
          <6> QED
            BY <1>6, <3>3, <6>1, <6>2
        <5>5. g[m + j] = i
          BY <1>6, <5>1
        <5> QED
          BY <3>2, <5>4, <5>5
      <4> QED
        BY <3>6, <4>1, <4>2
    <3>7. o[s].svc = "reliable" \/ 1..(s - 1) \subseteq B
      BY <3>5, <3>6
    <3>8. InTurn(s, B, o, l)
      BY <3>4, <3>5, <3>7 DEF InTurn
    <3> QED
      BY <3>1, <3>2, <3>8
  <2>2. m <= m + n
    BY <1>6
  <2> QED
    BY <1>6, <2>1, <2>2 DEF Continues
<1>11. PICK q : q = Deliver(r, S)
  OBVIOUS
<1>12. /\ q.handed = g /\ Typed(q) /\ SameBut(q, r, {"packets", "handed"})
       /\ q.packets = [x \in Slots |-> IF \E s \in S : Slot(s) = x
                                       THEN [r.packets[x] EXCEPT !.exist = 2]
                                       ELSE r.packets[x]]
  <2>1. S \subseteq Nat /\ \A s \in S : At(r, s).exist = 1
    BY <1>2
  <2>2. Typed(q) /\ SameBut(q, r, {"packets", "handed"})
    BY <1>1, <1>11, <2>1, DeliverFields
  <2>3. q.packets = [x \in DOMAIN r.packets |->
                        IF \E s \in S : Slot(s) = x
                        THEN [r.packets[x] EXCEPT !.exist = 2] ELSE r.packets[x]]
    BY <1>1, <1>11 DEF Deliver, Globals
  <2> QED
    BY <1>1, <1>5, <1>11, <2>2, <2>3
<1>13. q.lastDiscarded = r.lastDiscarded /\ q.lastDelivered = r.lastDelivered
  BY <1>12 DEF SameBut, Globals
<1>14. ASSUME NEW x \in Slots
       PROVE  /\ q.packets[x].seq = r.packets[x].seq
              /\ r.packets[x].exist = 2 => q.packets[x].exist = 2
              /\ q.packets[x].exist = 0 => r.packets[x].exist = 0
              /\ q.packets[x].exist = 2 =>
                   r.packets[x].exist = 2 \/ \E s \in S : Slot(s) = x
              /\ (\E s \in S : Slot(s) = x) => q.packets[x].exist = 2
  <2>1. r.packets[x] \in Entries
    BY <1>1
  <2>2. CASE \E s \in S : Slot(s) = x
    <3>1. q.packets[x] = [r.packets[x] EXCEPT !.exist = 2]
      BY <1>12, <2>2
    <3>2. q.packets[x].exist = 2 /\ q.packets[x].seq = r.packets[x].seq
      BY <2>1, <3>1 DEF Entries
    <3> QED
      BY <2>2, <3>2
  <2>3. CASE ~\E s \in S : Slot(s) = x
    <3>1. q.packets[x] = r.packets[x]
      BY <1>12, <2>3
    <3> QED
      BY <2>3, <3>1
  <2> QED
    BY <2>2, <2>3
<1>15. ASSUME NEW i \in Nat PROVE At(q, i).seq = At(r, i).seq /\ Slot(i) \in Slots
  <2>1. Slot(i) \in Slots
    BY SlotRange DEF Slots
  <2> QED
    BY <1>14, <2>1 DEF At
<1>16. Clients(q)
  <2>1. \A i \in 1..q.lastDelivered : i \in Range(g)
    BY <1>5, <1>8, <1>13 DEF Clients
  <2>2. ASSUME NEW i \in Range(g)
        PROVE  i <= q.lastDiscarded \/ (At(q, i).exist = 2 /\ At(q, i).seq = i)
    <3>1. CASE i \in S
      <4>1. q.packets[Slot(i)].exist = 2
        BY <1>2, <1>14, <3>1
      <4> QED
        BY <1>2, <1>15, <3>1, <4>1 DEF At
    <3>2. CASE i \in Range(h)
      <4>1. i \in Nat
        BY <1>6, <3>2 DEF Range
      <4>2. i <= r.lastDiscarded \/ (At(r, i).exist = 2 /\ At(r, i).seq = i)
        BY <1>5, <3>2 DEF Clients
      <4> QED
        BY <1>13, <1>14, <1>15, <4>1, <4>2 DEF At
    <3> QED
      BY <1>8, <3>1, <3>2
  <2>3. ASSUME NEW x \in Slots
        PROVE  /\ q.packets[x].exist = 2 => q.packets[x].seq \in Range(g)
               /\ q.packets[x].exist = 0 => q.packets[x].seq = 0
    <3>1. CASE q.packets[x].exist = 0
      BY <1>14, <3>1 DEF Clients
    <3>2. CASE q.packets[x].exist = 2 /\ r.packets[x].exist = 2
      BY <1>5, <1>8, <1>14, <3>2 DEF Clients
    <3>3. ASSUME NEW s \in S, Slot(s) = x PROVE q.packets[x].seq \in Range(g)
      <4>1. r.packets[x].seq = s
        BY <1>2, <3>3 DEF At
      <4> QED
        BY <1>8, <1>14, <4>1
    <3> QED
      BY <1>14, <3>1, <3>2, <3>3
  <2> QED
    BY <1>6, <1>12, <2>1, <2>2, <2>3 DEF Clients
<1>17. Keeps(q, r)
  BY <1>1, <1>13, <1>15 DEF Keeps
<1> QED
  BY <1>5, <1>8, <1>10, <1>11, <1>12, <1>16, <1>17 DEF Serves

\* What the daemon has, its clients have or it is still to be delivered.
LEMMA HeldHanded ==
  ASSUME NEW r, NEW o, Sound(r, o), Clients(r), NEW i \in Nat, r.lastDiscarded < i,
         i <= r.highest, Has(r, i)
  PROVE  At(r, i).exist = 1 \/ i \in Range(r.handed)
<1>1. At(r, i).seq = i /\ At(r, i).exist \in {1, 2}
  BY Held
<1>2. Slot(i) \in Slots
  BY SlotRange DEF Slots
<1> QED
  BY <1>1, <1>2 DEF At, Clients

\* Last_delivered goes up to what the clients have.
LEMMA ServesUpTo ==
  ASSUME NEW q, NEW r, NEW o, NEW l, Typed(r), Clients(r),
         SameBut(q, r, {"lastDelivered"}), \A i \in 1..q.lastDelivered : i \in Range(r.handed)
  PROVE  Serves(q, r, o, l)
<1>1. q.handed = r.handed /\ q.packets = r.packets /\ q.lastDiscarded = r.lastDiscarded
  BY DEF SameBut, Globals
<1>2. Clients(q)
  BY <1>1 DEF Clients, At
<1>3. Continues(q.handed, r.handed, o, l)
  <2>1. PICK h : h = r.handed
    OBVIOUS
  <2>2. h \in Seq(Nat) /\ Len(h) \in Nat
    BY <2>1 DEF Clients
  <2>3. (Len(h) + 1)..Len(h) = {}
    BY <2>2
  <2> QED
    BY <1>1, <2>1, <2>2, <2>3 DEF Continues
<1>4. Keeps(q, r)
  BY <1>1 DEF Keeps, At, Typed
<1> QED
  BY <1>2, <1>3, <1>4 DEF Serves

\* Deliver_agreed_packets.
LEMMA DeliverAgreedServes ==
  ASSUME NEW r, NEW o, Sound(r, o), Clients(r), NEW l \in Nat
  PROVE  Serves(DeliverAgreed(r), r, o, l)
<1>1. /\ Typed(r) /\ r.myAru \in Nat /\ r.lastDelivered \in Nat /\ r.lastDiscarded \in Nat
      /\ r.lastDiscarded <= r.lastDelivered /\ r.highest \in Nat /\ r.myAru <= r.highest
  BY DEF Sound, Typed, InWindow
<1>2. PICK last : /\ AgreedTo(r, last)
                  /\ DeliverAgreed(r) =
                       [Deliver(r, NotDelivered(r, r.lastDelivered + 1, last))
                          EXCEPT !.lastDelivered = Max({@, last})]
  BY DeliverAgreedIs
<1>3. PICK S : S = NotDelivered(r, r.lastDelivered + 1, last)
  OBVIOUS
<1>4. ASSUME NEW i \in Nat, r.lastDelivered < i, i <= last
      PROVE  /\ Has(r, i) /\ (At(r, i).exist = 1 => At(r, i).svc # "safe")
             /\ i \in S \/ i \in Range(r.handed)
  <2>1. last \in Int /\ last <= r.myAru /\ i \in (r.lastDelivered + 1)..last
    BY <1>1, <1>2, <1>4 DEF AgreedTo
  <2>2. Has(r, i) /\ (At(r, i).exist = 1 => At(r, i).svc # "safe")
    BY <1>2, <2>1 DEF AgreedTo
  <2>3. r.lastDiscarded < i /\ i <= r.highest
    BY <1>1, <1>4, <2>1
  <2>4. At(r, i).exist = 1 \/ i \in Range(r.handed)
    BY <2>2, <2>3, HeldHanded
  <2> QED
    BY <1>3, <2>1, <2>2, <2>4 DEF NotDelivered
<1>5. ASSUME NEW i \in Nat, i <= r.lastDelivered \/ i <= last, i >= 1
      PROVE  i \in Range(r.handed) \/ i \in S
  <2>1. CASE i <= r.lastDelivered
    <3>1. i \in 1..r.lastDelivered
      BY <1>1, <1>5, <2>1
    <3> QED
      BY <3>1 DEF Clients
  <2>2. CASE i > r.lastDelivered
    BY <1>1, <1>4, <1>5, <2>2
  <2> QED
    BY <1>1, <2>1, <2>2
<1>6. \A s \in S : /\ s \in Nat /\ r.lastDelivered < s /\ s <= last /\ last \in Int
                   /\ last <= r.myAru /\ At(r, s).exist = 1
  BY <1>1, <1>2, <1>3 DEF AgreedTo, NotDelivered
<1>7. Ready(r, S, l)
  <2>1. S \subseteq (r.lastDiscarded + 1)..r.highest
    BY <1>1, <1>6
  <2>2. ASSUME NEW s \in S
        PROVE  /\ At(r, s).exist = 1
               /\ \A i \in 1..(s - 1) : i \in Range(r.handed) \/ i \in S
               /\ At(r, s).svc # "safe"
    <3>1. s \in Nat /\ r.lastDelivered < s /\ s <= last /\ last \in Int /\ At(r, s).exist = 1
      BY <1>6
    <3>2. At(r, s).svc # "safe"
      BY <1>4, <3>1
    <3>3. ASSUME NEW i \in 1..(s - 1) PROVE i \in Range(r.handed) \/ i \in S
      <4>1. i \in Nat /\ i >= 1 /\ i <= last
        BY <3>1
      <4> QED
        BY <1>5, <4>1
    <3> QED
      BY <3>1, <3>2, <3>3
  <2> QED
    BY <2>1, <2>2 DEF Ready
<1>8. PICK c : c = Deliver(r, S)
  OBVIOUS
<1>9. Serves(c, r, o, l) /\ Range(c.handed) = Range(r.handed) \cup S
  BY <1>7, <1>8, DeliverServes
<1>10. Typed(c) /\ SameBut(c, r, {"packets", "handed"})
  <2>1. S \subseteq Nat /\ \A s \in S : At(r, s).exist = 1
    BY <1>6
  <2> QED
    BY <1>1, <1>8, <2>1, DeliverFields
<1>11. PICK q : q = DeliverAgreed(r)
  OBVIOUS
<1>12. c.lastDelivered = r.lastDelivered
  BY <1>10 DEF SameBut, Globals
<1>13. q = [c EXCEPT !.lastDelivered = Max({@, last})]
  BY <1>2, <1>3, <1>8, <1>11
<1>14. SameBut(q, c, {"lastDelivered"}) /\ q.lastDelivered = Max({r.lastDelivered, last})
  BY <1>10, <1>12, <1>13 DEF SameBut, Typed, Globals
<1>15. q.lastDelivered \in Nat /\ (q.lastDelivered = r.lastDelivered \/ q.lastDelivered = last)
  BY <1>1, <1>2, <1>14, MaxNat DEF AgreedTo
<1>16. \A i \in 1..q.lastDelivered : i \in Range(c.handed)
  <2> TAKE i \in 1..q.lastDelivered
  <2>1. i \in Nat /\ i >= 1 /\ (i <= r.lastDelivered \/ i <= last)
    BY <1>15
  <2> QED
    BY <1>5, <1>9, <2>1
<1>17. Serves(q, c, o, l)
  BY <1>9, <1>10, <1>14, <1>16, ServesUpTo DEF Serves
<1>18. Typed(q)
  BY <1>11, DeliverAgreedSound DEF Sound
<1> QED
  BY <1>1, <1>9, <1>10, <1>11, <1>17, <1>18, ServesOn

\* Deliver_reliable_packets.
LEMMA DeliverReliableServes ==
  ASSUME NEW r, NEW o, Sound(r, o), Clients(r), NEW l \in Nat, NEW from \in Int,
         NEW num \in Int, from + num - 1 <= r.highest
  PROVE  Serves(DeliverReliable(r, from, num), r, o, l)
<1>1. /\ r.lastDelivered \in Nat /\ r.lastDiscarded \in Nat
      /\ r.lastDiscarded <= r.lastDelivered /\ r.highest \in Nat
  BY DEF Sound, Typed, InWindow
<1>2. PICK first : first = Max({from, r.lastDelivered + 1})
  OBVIOUS
<1>3. first \in Int /\ r.lastDelivered + 1 <= first
  BY <1>1, <1>2, MaxOfTwo
<1>4. PICK S : S = {i \in NotDelivered(r, first, from + num - 1) : At(r, i).svc = "reliable"}
  OBVIOUS
<1>5. Ready(r, S, l)
  BY <1>1, <1>3, <1>4 DEF Ready, NotDelivered
<1>6. DeliverReliable(r, from, num) = Deliver(r, S)
  BY <1>2, <1>4 DEF DeliverReliable
<1> QED
  BY <1>5, <1>6, DeliverServes

\* Nobody misses what is emptied, if the clients have it.
LEMMA EmptiedServes ==
  ASSUME NEW c, NEW o, Typed(c), InWindow(c, o), Holding(c, o), Clients(c), NEW l, NEW a \in Nat,
         c.lastDiscarded < a, \A i \in 1..a : i \in Range(c.handed)
  PROVE  Serves(Emptied(c, c.lastDiscarded + 1, a), c, o, l)
<1>1. /\ Typed(c) /\ Holding(c, o) /\ c.lastDelivered \in Nat /\ c.lastDiscarded \in Nat
      /\ c.highest \in Nat /\ c.highest <= Len(o) /\ Len(o) \in Nat /\ NumSlots \in Nat
      /\ Len(o) <= c.lastDiscarded + NumSlots
      /\ DOMAIN c = Globals /\ DOMAIN c.packets = Slots
  BY RingConstants DEF Typed, InWindow
<1>2. PICK d : d = c.lastDiscarded
  OBVIOUS
<1>3. PICK q : q = Emptied(c, d + 1, a)
  OBVIOUS
<1>4. /\ q.handed = c.handed /\ q.lastDiscarded = a /\ q.lastDelivered = Max({c.lastDelivered, a})
      /\ q.packets = [x \in Slots |-> IF \E i \in (d + 1)..a : Slot(i) = x THEN Empty
                                      ELSE c.packets[x]]
  BY <1>1, <1>3 DEF Emptied, Globals
<1>5. ASSUME NEW i \in Nat, a < i, At(c, i).seq = i
      PROVE  At(q, i) = At(c, i)
  <2>1. Slot(i) \in Slots
    BY SlotRange DEF Slots
  <2>2. c.packets[Slot(i)].exist # 0
    BY <1>5, <2>1 DEF Clients, At
  <2>3. c.packets[Slot(i)].seq \in (c.lastDiscarded + 1)..c.highest
    BY <1>1, <2>1, <2>2 DEF Holding
  <2>4. i <= d + NumSlots
    BY <1>1, <1>2, <1>5, <2>3 DEF At
  <2>5. ASSUME NEW j \in (d + 1)..a, Slot(j) = Slot(i) PROVE FALSE
    <3>1. j \in Nat /\ d \in Nat /\ d < j /\ d < i /\ j <= d + NumSlots /\ j < i
      BY <1>1, <1>2, <1>5, <2>4, <2>5
    <3>2. j = i
      BY <2>4, <2>5, <3>1, SlotOnce
    <3> QED
      BY <3>1, <3>2
  <2>6. ~\E j \in (d + 1)..a : Slot(j) = Slot(i)
    BY <2>5
  <2>7. q.packets[Slot(i)] = c.packets[Slot(i)]
    BY <1>4, <2>1, <2>6
  <2> QED
    BY <2>7 DEF At
<1>6. Continues(q.handed, c.handed, o, l)
  <2>1. PICK h : h = c.handed
    OBVIOUS
  <2>2. h \in Seq(Nat) /\ Len(h) \in Nat
    BY <2>1 DEF Clients
  <2>3. (Len(h) + 1)..Len(h) = {}
    BY <2>2
  <2> QED
    BY <1>4, <2>1, <2>2, <2>3 DEF Continues
<1>7. Keeps(q, c)
  <2>1. c.lastDiscarded <= q.lastDiscarded
    BY <1>1, <1>2, <1>4
  <2> QED
    BY <1>4, <1>5, <2>1 DEF Keeps
<1>8. Clients(q)
  <2>1. c.handed \in Seq(Nat)
    BY DEF Clients
  <2>2. ASSUME NEW i \in 1..q.lastDelivered PROVE i \in Range(c.handed)
    <3>1. q.lastDelivered \in Nat /\ (q.lastDelivered = c.lastDelivered \/ q.lastDelivered = a)
      BY <1>1, <1>4, MaxNat
    <3>2. i \in 1..c.lastDelivered \/ i \in 1..a
      BY <3>1
    <3> QED
      BY <3>2 DEF Clients
  <2>3. ASSUME NEW i \in Range(c.handed)
        PROVE  i <= q.lastDiscarded \/ (At(q, i).exist = 2 /\ At(q, i).seq = i)
    <3>1. i \in Nat
      BY <2>1 DEF Range
    <3>2. CASE i > a
      <4>1. At(c, i).exist = 2 /\ At(c, i).seq = i
        BY <1>1, <3>1, <3>2 DEF Clients
      <4> QED
        BY <1>5, <3>1, <3>2, <4>1
    <3> QED
      BY <1>4, <3>1, <3>2
  <2>4. ASSUME NEW x \in Slots
        PROVE  /\ q.packets[x].exist = 2 => q.packets[x].seq \in Range(c.handed)
               /\ q.packets[x].exist = 0 => q.packets[x].seq = 0
    <3>1. CASE \E i \in (d + 1)..a : Slot(i) = x
      <4>1. q.packets[x] = Empty
        BY <1>4, <3>1
      <4> QED
        BY <4>1 DEF Empty
    <3>2. CASE ~\E i \in (d + 1)..a : Slot(i) = x
      <4>1. q.packets[x] = c.packets[x]
        BY <1>4, <3>2
      <4> QED
        BY <4>1 DEF Clients
    <3> QED
      BY <3>1, <3>2
  <2> QED
    BY <1>4, <2>1, <2>2, <2>3, <2>4 DEF Clients
<1> QED
  BY <1>2, <1>3, <1>6, <1>7, <1>8 DEF Serves

\* Discard_packets; what is up to l everyone has.
LEMMA DiscardServes ==
  ASSUME NEW r, NEW o, Sound(r, o), Clients(r), NEW l \in Nat, r.aru \in Nat,
         r.aru <= r.myAru, r.aru <= l
  PROVE  Serves(Discard(r), r, o, l)
<1>1. /\ Typed(r) /\ r.lastDelivered \in Nat /\ r.lastDiscarded \in Nat /\ r.myAru \in Nat
      /\ r.lastDiscarded <= r.lastDelivered /\ r.highest \in Nat /\ r.myAru <= r.highest
      /\ NoHole(r)
  BY DEF Sound, Typed, InWindow
<1>2. CASE r.aru <= r.lastDiscarded
  <2>1. Discard(r) = r
    BY <1>2 DEF Discard
  <2> QED
    BY <1>1, <2>1, ServesSame
<1>3. CASE r.lastDiscarded < r.aru
  <2>1. PICK S : S = NotDelivered(r, r.lastDiscarded + 1, r.aru)
    OBVIOUS
  <2>2. PICK c : c = Deliver(r, S)
    OBVIOUS
  <2>3. PICK q : q = Discard(r)
    OBVIOUS
  <2>4. \A s \in S : s \in (r.lastDiscarded + 1)..r.aru /\ At(r, s).exist = 1
    BY <2>1 DEF NotDelivered
  <2>5. ASSUME NEW i \in 1..r.aru PROVE i \in Range(r.handed) \/ i \in S
    <3>1. CASE i <= r.lastDiscarded
      <4>1. i \in 1..r.lastDelivered
        BY <1>1, <3>1
      <4> QED
        BY <4>1 DEF Clients
    <3>2. CASE i > r.lastDiscarded
      <4>1. i \in (r.lastDiscarded + 1)..r.aru /\ i \in (r.lastDiscarded + 1)..r.myAru
            /\ i \in Nat /\ i <= r.highest
        BY <1>1, <3>2
      <4>2. Has(r, i)
        BY <1>1, <4>1 DEF NoHole
      <4>3. At(r, i).exist = 1 \/ i \in Range(r.handed)
        BY <3>2, <4>1, <4>2, HeldHanded
      <4> QED
        BY <2>1, <4>1, <4>3 DEF NotDelivered
    <3> QED
      BY <1>1, <3>1, <3>2
  <2>6. Ready(r, S, l)
    <3>1. \A s \in S : s \in (r.lastDiscarded + 1)..r.highest /\ s <= l
      BY <1>1, <2>4
    <3>2. ASSUME NEW s \in S, NEW i \in 1..(s - 1) PROVE i \in Range(r.handed) \/ i \in S
      <4>1. i \in 1..r.aru
        BY <1>1, <2>4
      <4> QED
        BY <2>5, <4>1
    <3> QED
      BY <2>4, <3>1, <3>2 DEF Ready
  <2>7. Serves(c, r, o, l) /\ Range(c.handed) = Range(r.handed) \cup S
    BY <2>2, <2>6, DeliverServes
  <2>8. S \subseteq Nat /\ \A s \in S : At(r, s).exist = 1
    BY <1>1, <2>4
  <2>9. /\ Typed(c) /\ InWindow(c, o) /\ Holding(c, o)
        /\ c.lastDiscarded = r.lastDiscarded
    <3>1. Typed(c) /\ InWindow(c, o) /\ Holding(c, o)
      BY <2>2, <2>8, DeliverPlaced
    <3>2. SameBut(c, r, {"packets", "handed"})
      BY <1>1, <2>2, <2>8, DeliverFields
    <3> QED
      BY <3>1, <3>2 DEF SameBut, Globals
  <2>10. q = Emptied(c, c.lastDiscarded + 1, r.aru)
    BY <1>3, <2>1, <2>2, <2>3, <2>9, DiscardIs
  <2>11. Serves(q, c, o, l)
    <3>1. \A i \in 1..r.aru : i \in Range(c.handed)
      BY <2>5, <2>7
    <3>2. Clients(c) /\ c.lastDiscarded < r.aru
      BY <1>3, <2>7, <2>9 DEF Serves
    <3> QED
      BY <2>9, <2>10, <3>1, <3>2, EmptiedServes
  <2>12. Typed(q)
    BY <2>3, DiscardSound DEF Sound
  <2> QED
    BY <1>1, <2>3, <2>7, <2>9, <2>11, <2>12, ServesOn
<1> QED
  BY <1>1, <1>2, <1>3

-----------------------------------------------------------------------------
(* The pieces of Prot_handle_token.                                        *)

\* The aru of the last token the daemon took in this ring.
AruSeen(r) == IF r.justInstalled THEN 0 ELSE r.lastToken.aru

\* A record that has the numbers and the packets of r is as sound.
LEMMA SoundSame ==
  ASSUME NEW r, NEW o, Sound(r, o), NEW q, Typed(q),
         SameBut(q, r, Globals \ {"highest", "myAru", "lastDiscarded", "lastDelivered", "packets"})
  PROVE  Sound(q, o)
<1>1. /\ q.highest = r.highest /\ q.myAru = r.myAru /\ q.lastDiscarded = r.lastDiscarded
      /\ q.lastDelivered = r.lastDelivered /\ q.packets = r.packets
  BY DEF SameBut, Globals
<1>2. r.lastDelivered \in Nat
  BY DEF Sound, Typed
<1>3. q.lastDelivered >= r.lastDelivered
  BY <1>1, <1>2
<1> QED
  BY <1>1, <1>3, SoundKept

LEMMA TokenAru ==
  ASSUME NEW t \in Token, NEW a \in Nat
  PROVE  [t EXCEPT !.aru = a] \in Token
<1> DEFINE R == [arq : 0..(ArqMod - 1), retrans : Nat, seq : Nat, aru : Nat, aruLast : Daemons,
                 fc : Int, rtrTo : 0..NumDaemons, rtr : SUBSET Nat]
<1>1. t \in R /\ IsFiniteSet(t.rtr)
  BY DEF Token
<1>2. [t EXCEPT !.aru = a] \in R /\ [t EXCEPT !.aru = a].rtr = t.rtr
  BY <1>1
<1> QED
  BY <1>1, <1>2 DEF Token

LEMMA InstalledSound ==
  ASSUME NEW r, NEW o, Sound(r, o)
  PROVE  /\ Sound(Installed(r), o)
         /\ SameBut(Installed(r), r, {"justInstalled", "lastToken"})
         /\ Installed(r).justInstalled = FALSE
         /\ Installed(r).lastToken = [r.lastToken EXCEPT !.aru = AruSeen(r)]
<1> DEFINE q == Installed(r)
<1>t. Typed(r)
  BY DEF Sound
<1>1. CASE r.justInstalled
  <2>1. q = [r EXCEPT !.justInstalled = FALSE, !.lastToken = [r.lastToken EXCEPT !.aru = 0]]
    BY <1>1 DEF Installed
  <2>2. DOMAIN q = Globals /\ SameBut(q, r, {"justInstalled", "lastToken"})
        /\ q.justInstalled = FALSE /\ q.lastToken = [r.lastToken EXCEPT !.aru = 0]
    BY <2>1, <1>t DEF Typed, SameBut, Globals
  <2>3. q.lastToken \in Token
    <3>1. r.lastToken \in Token
      BY <1>t DEF Typed
    <3> QED
      BY <3>1, <2>2, TokenAru
  <2> HIDE DEF q
  <2>4. Typed(q)
    BY <2>2, <2>3, <1>t DEF Typed, SameBut, Globals
  <2>5. Sound(q, o)
    <3>1. SameBut(q, r, Globals \ {"highest", "myAru", "lastDiscarded", "lastDelivered", "packets"})
      BY <2>2 DEF SameBut, Globals
    <3> QED
      BY <2>4, <3>1, SoundSame
  <2> QED
    BY <1>1, <2>2, <2>5 DEF AruSeen, q
<1>2. CASE ~r.justInstalled
  <2>1. q = r /\ r.justInstalled = FALSE
    BY <1>2, <1>t DEF Installed, Typed
  <2>2. r.lastToken = [r.lastToken EXCEPT !.aru = r.lastToken.aru]
    BY <1>t DEF Typed, Token
  <2> QED
    BY <1>2, <2>1, <2>2 DEF AruSeen, SameBut
<1> QED
  BY <1>1, <1>2

\* Highest_seq is that of the token, and no request is stale.
LEMMA TokenSeenSound ==
  ASSUME NEW r, NEW o, Sound(r, o), NEW t \in Token, t.seq = Len(o),
         \A s \in t.rtr : r.aru < s
  PROVE  /\ Sound(TokenSeen(r, t), o) /\ SameBut(TokenSeen(r, t), r, {"highest"})
         /\ TokenSeen(r, t).highest = Len(o)
<1> DEFINE q == TokenSeen(r, t)
<1> DEFINE stale == \E s \in t.rtr : s < r.aru
<1>t. Typed(r) /\ InWindow(r, o) /\ Holding(r, o) /\ NoHole(r)
  BY DEF Sound
<1>n. r.highest \in Nat /\ r.highest <= Len(o) /\ Len(o) \in Nat /\ r.aru \in Nat
  BY <1>t DEF Typed, InWindow
<1>1. stale = FALSE
  <2>1. \A s \in t.rtr : s \in Nat
    BY DEF Token
  <2>2. \A s \in t.rtr : ~(s < r.aru)
    BY <2>1, <1>n
  <2> QED
    BY <2>2
<1>2. q = [r EXCEPT !.highest = Max({r.highest, Len(o)})]
  <2> DEFINE c == [r EXCEPT !.highest = Max({@, t.seq})]
  <2>1. q = Alarm(c, "Answer_retrans", stale)
    BY DEF TokenSeen
  <2> HIDE DEF c, stale
  <2>2. q = Alarm(c, "Answer_retrans", FALSE)
    BY <1>1, <2>1
  <2>3. q = c
    BY <2>2, NoAlarmSame
  <2> QED
    BY <2>3 DEF c
<1> HIDE DEF q
<1>3. Max({r.highest, Len(o)}) = Len(o)
  <2>1. PICK m : m = Len(o)
    OBVIOUS
  <2>2. Max({r.highest, m}) = IF r.highest >= m THEN r.highest ELSE m
    BY <1>n, <2>1, MaxOfTwo
  <2> QED
    BY <2>1, <2>2, <1>n
<1>4. DOMAIN q = Globals /\ SameBut(q, r, {"highest"}) /\ q.highest = Len(o)
  BY <1>2, <1>3, <1>t DEF Typed, SameBut, Globals
<1>5. Typed(q)
  BY <1>4, <1>t, <1>n DEF Typed, SameBut, Globals
<1>6. /\ q.myAru = r.myAru /\ q.lastDiscarded = r.lastDiscarded
      /\ q.lastDelivered = r.lastDelivered /\ q.packets = r.packets
  BY <1>4 DEF SameBut, Globals
<1>7. InWindow(q, o)
  BY <1>4, <1>6, <1>t, <1>n DEF InWindow, Typed
<1>8. Holding(q, o)
  <2>1. ASSUME NEW x \in Slots, q.packets[x].exist # 0
        PROVE  q.packets[x].seq \in (q.lastDiscarded + 1)..q.highest
    <3>1. r.packets[x].seq \in (r.lastDiscarded + 1)..r.highest
      BY <2>1, <1>6, <1>t DEF Holding
    <3>2. r.lastDiscarded \in Nat
      BY <1>t DEF Typed
    <3> QED
      BY <3>1, <3>2, <1>4, <1>6, <1>n
  <2> QED
    BY <2>1, <1>6, <1>t DEF Holding
<1>9. NoHole(q)
  BY <1>6, <1>t DEF NoHole, Has, At
<1> QED
  <2>e. Early(q)
    BY <1>6 DEF Sound, Early
  <2>1. Sound(q, o)
    BY <1>5, <1>7, <1>8, <1>9, <2>e DEF Sound
  <2> QED
    BY <1>4, <2>1 DEF q

\* A packet that was numbered.
Numbered(p, o) == p \in Packet /\ p.seq \in 1..Len(o) /\ p = o[p.seq]

LEMMA NumberedLater ==
  ASSUME NEW o \in Seq(Packet), NEW new \in Seq(Packet), NEW p, Numbered(p, o)
  PROVE  Numbered(p, o \o new)
<1>1. /\ Len(o \o new) = Len(o) + Len(new)
      /\ \A i \in 1..Len(o) + Len(new) : (o \o new)[i] = IF i <= Len(o) THEN o[i] ELSE new[i - Len(o)]
  BY ConcatProperties
<1>2. PICK i : i = p.seq
  OBVIOUS
<1>3. i \in 1..Len(o) /\ p = o[i] /\ p \in Packet
  BY <1>2 DEF Numbered
<1>4. Len(o) \in Nat /\ Len(new) \in Nat
  OBVIOUS
<1>5. i \in 1..(Len(o) + Len(new)) /\ i <= Len(o)
  BY <1>3, <1>4
<1>6. (o \o new)[i] = o[i]
  BY <1>1, <1>5
<1> QED
  BY <1>1, <1>2, <1>3, <1>5, <1>6 DEF Numbered

\* What Answer_retrans sends.
LEMMA AnswerNumbered ==
  ASSUME NEW r, NEW o \in Seq(Packet), Sound(r, o), NEW t \in Token
  PROVE  (\A p \in Answer(r, t) : Numbered(p, o)) /\ IsFiniteSet(Answer(r, t))
<1>t. Typed(r) /\ InWindow(r, o) /\ Holding(r, o)
  BY DEF Sound
<1>1. ASSUME NEW s \in Answered(r, t) PROVE Numbered(PacketOf(At(r, s)), o)
  <2>1. s \in Nat /\ Has(r, s)
    BY DEF Answered, Token
  <2>2. PICK x : x = Slot(s)
    OBVIOUS
  <2>3. x \in Slots
    BY <2>1, <2>2, SlotRange DEF Slots
  <2>4. r.packets[x] \in Entries /\ r.packets[x].exist # 0
    BY <2>1, <2>2, <2>3, <1>t DEF Has, At, Typed, Entries
  <2>5. /\ r.packets[x].seq \in (r.lastDiscarded + 1)..r.highest
        /\ PacketOf(r.packets[x]) = o[r.packets[x].seq]
    BY <2>3, <2>4, <1>t DEF Holding
  <2>6. r.packets[x].seq \in 1..Len(o)
    BY SMTT(30), <2>5, <1>t DEF InWindow, Typed
  <2>7. PacketOf(r.packets[x]).seq = r.packets[x].seq
    BY DEF PacketOf
  <2>8. PacketOf(r.packets[x]) \in Packet
    <3>1. PICK i : i = r.packets[x].seq
      OBVIOUS
    <3>2. i \in 1..Len(o)
      BY <2>6, <3>1
    <3> QED
      BY <3>1, <3>2, <2>5
  <2> QED
    BY <2>2, <2>5, <2>6, <2>7, <2>8 DEF At, Numbered
<1>2. IsFiniteSet(Answered(r, t))
  <2>1. Answered(r, t) \subseteq t.rtr /\ IsFiniteSet(t.rtr)
    BY DEF Answered, Token
  <2> QED
    BY <2>1, FS_Subset
<1>3. IsFiniteSet(Answer(r, t))
  <2> DEFINE f == [s \in Answered(r, t) |-> PacketOf(At(r, s))]
  <2>1. f \in Surjection(Answered(r, t), Answer(r, t))
    BY DEF Surjection, Answer
  <2> HIDE DEF f
  <2> QED
    BY <1>2, <2>1, FS_Surjection
<1> QED
  BY <1>1, <1>3 DEF Answer

Up(a) == (a + 1) % ArqMod
Dn(a) == (a - 1) % ArqMod

\* The token that goes out, d has the state r and takes over the aru or not.
TokenSent(d, r, t, out) ==
  /\ out \in Token /\ out.seq = r.highest
  /\ out.arq = IF d = Leader THEN Up(t.arq) ELSE t.arq
  /\ out.aru = IF TakesAru(d, r, t) THEN r.myAru ELSE t.aru
  /\ out.aruLast = IF TakesAru(d, r, t) THEN d ELSE t.aruLast
  /\ \A s \in out.rtr : s > r.myAru

LEMMA TokenOutIs ==
  ASSUME NEW d \in Daemons, NEW r, Typed(r), NEW t \in Token,
         NEW m \in Nat, NEW n \in Nat
  PROVE  TokenSent(d, r, t, TokenOut(d, r, t, m, n))
<1> DEFINE out == TokenOut(d, r, t, m, n)
           R == [arq : 0..(ArqMod - 1), retrans : Nat, seq : Nat, aru : Nat, aruLast : Daemons,
                 fc : Int, rtrTo : 0..NumDaemons, rtr : SUBSET Nat]
<1>t. t \in R
  BY DEF Token
<1>r. r.myAru \in Nat /\ r.highest \in Nat /\ r.lastRetrans \in Nat /\ r.lastSent \in Nat
      /\ r.lastToken \in Token
  BY DEF Typed
<1>1. Missing(r) \subseteq (r.myAru + 1)..MaxRtr(r) /\ MaxRtr(r) \in Nat
  BY <1>r DEF Missing, Lowest, MaxRtr, Token
<1>2. IsFiniteSet(Missing(r)) /\ Missing(r) \subseteq Nat /\ \A s \in Missing(r) : s > r.myAru
  <2>1. IsFiniteSet((r.myAru + 1)..MaxRtr(r))
    <3>1. r.myAru + 1 \in Int /\ MaxRtr(r) \in Int
      BY <1>1, <1>r
    <3> QED
      BY <3>1, FS_Interval
  <2>2. IsFiniteSet(Missing(r))
    BY <2>1, <1>1, FS_Subset
  <2> QED
    BY <2>2, <1>1, <1>r
<1>3. FlowControl(r, t, m, n) \in Int
  BY <1>t, <1>r DEF FlowControl
<1>4. (t.arq + 1) % ArqMod \in 0..(ArqMod - 1)
  <2>1. PICK a : a = ArqMod
    OBVIOUS
  <2>2. a \in Nat \ {0} /\ t.arq \in Int
    BY <1>t, <2>1, RingConstants
  <2>3. (t.arq + 1) % a \in 0..(a - 1)
    BY <2>2
  <2> QED
    BY <2>1, <2>3
<1>5. Everyone \in 0..NumDaemons /\ d \in 0..NumDaemons
  BY RingConstants DEF Everyone
<1>6. /\ out.seq = r.highest
      /\ out.arq = IF d = Leader THEN Up(t.arq) ELSE t.arq
      /\ out.aru = IF TakesAru(d, r, t) THEN r.myAru ELSE t.aru
      /\ out.aruLast = IF TakesAru(d, r, t) THEN d ELSE t.aruLast
      /\ out.rtr = Missing(r)
  BY DEF TokenOut, Up
<1>7. out \in R
  <2>1. (IF d = Leader THEN (t.arq + 1) % ArqMod ELSE t.arq) \in 0..(ArqMod - 1)
    BY <1>4, <1>t
  <2>2. (IF d = Leader THEN 0 ELSE t.retrans) \in Nat
    BY <1>t
  <2>3. (IF TakesAru(d, r, t) THEN r.myAru ELSE t.aru) \in Nat
    BY <1>t, <1>r
  <2>4. (IF TakesAru(d, r, t) THEN d ELSE t.aruLast) \in Daemons
    BY <1>t
  <2>5. (IF Missing(r) = {} THEN Everyone ELSE IF Answered(r, t) = t.rtr THEN d ELSE Everyone)
          \in 0..NumDaemons
    BY <1>5
  <2> QED
    BY <2>1, <2>2, <2>3, <2>4, <2>5, <1>2, <1>3, <1>r DEF TokenOut
<1> HIDE DEF out
<1>8. out \in Token
  BY <1>2, <1>6, <1>7 DEF Token
<1> QED
  BY <1>2, <1>6, <1>8 DEF out, TokenSent

LEMMA HeaderIs ==
  ASSUME NEW t \in Token
  PROVE  /\ Header(t) \in Token
         /\ Header(t).arq = t.arq /\ Header(t).seq = t.seq /\ Header(t).aru = t.aru
         /\ Header(t).aruLast = t.aruLast /\ Header(t).rtr = {}
<1> DEFINE R == [arq : 0..(ArqMod - 1), retrans : Nat, seq : Nat, aru : Nat, aruLast : Daemons,
                 fc : Int, rtrTo : 0..NumDaemons, rtr : SUBSET Nat]
<1>1. t \in R
  BY DEF Token
<1>2. {} \in SUBSET Nat /\ Everyone \in 0..NumDaemons /\ IsFiniteSet({})
  BY RingConstants, FS_EmptySet DEF Everyone
<1>3. Header(t) \in R /\ Header(t).rtr = {}
  BY <1>1, <1>2 DEF Header
<1> QED
  BY <1>1, <1>2, <1>3 DEF Header, Token

\* What the flow control lets a daemon send fits in the slots.
LEMMA RoomToSend ==
  ASSUME SlotsSuffice, NEW r, NEW o, Sound(r, o), r.highest = Len(o), r.lastDiscarded = r.aru,
         NEW fc \in Int, NEW n, n = Min({Allowed(r, fc), Len(r.down)})
  PROVE  n \in Nat /\ n <= Len(r.down) /\ Len(o) + n <= r.lastDiscarded + NumSlots
<1>1. PICK a : a = Allowed(r, fc)
  OBVIOUS
<1>2. PICK l : l = Len(r.down)
  OBVIOUS
<1>3. l \in Nat
  BY <1>2 DEF Sound, Typed
<1>4. r.aru \in Nat /\ Len(o) \in Nat /\ Len(o) <= r.lastDiscarded + NumSlots
  BY DEF Sound, Typed, InWindow
<1>5. a \in 0..Smaller(Window, PersonalWindow)
      /\ (Len(o) > r.aru + SeqGap => a = 0)
  BY <1>1, <1>4, AllowedRange
<1>6. PICK w : w = Smaller(Window, PersonalWindow)
  OBVIOUS
<1>7. w \in Nat /\ SeqGap \in Nat /\ NumSlots \in Nat /\ SeqGap + w <= NumSlots
  BY <1>6, RingConstants DEF SlotsSuffice
<1>8. a \in Nat /\ a <= w
  BY <1>5, <1>6, <1>7
<1>9. n \in {a, l} /\ n <= a /\ n <= l
  <2>1. {a, l} \in SUBSET Nat
    BY <1>3, <1>8
  <2>2. n = Min({a, l})
    BY <1>1, <1>2
  <2> QED
    BY <2>1, <2>2, MinOf
<1> QED
  BY <1>2, <1>3, <1>4, <1>5, <1>7, <1>8, <1>9

-----------------------------------------------------------------------------
(* Prot_handle_token by d, which had the state r, when the token is taken: *)
(* new is what it numbers, q its state after that, out the token it sends. *)

Taken(d, r, t, o, new, q, out, answer) ==
  /\ new \in Seq(Packet) /\ Sound(q, o \o new)
  /\ Len(o \o new) <= r.lastDiscarded + NumSlots
  /\ \A k \in DOMAIN new : Numbered(new[k], o \o new)
  /\ \A k \in DOMAIN new : new[k].seq = Len(o) + k /\ new[k].from = d
  /\ \A p \in answer : Numbered(p, o)
  /\ q.highest = Len(o \o new) /\ q.myAru >= r.myAru
  /\ q.aru = AruOf(out, [r.lastToken EXCEPT !.aru = AruSeen(r)])
  /\ q.lastDiscarded = q.aru
  /\ q.justInstalled = FALSE /\ q.exits = r.exits
  /\ q.lastToken = Header(out)
  /\ TokenSent(d, q, t, out)
  /\ Clients(r) => Serves(q, r, o \o new, q.lastDiscarded)

\* The rest of Prot_handle_token, if Aru does not go back and nothing up to it
\* is missing.
LEMMA TokenDoneSound ==
  ASSUME NEW r, NEW o, Sound(r, o), NEW out \in Token, NEW m \in Nat, NEW n \in Nat,
         r.aru <= AruOf(out, r.lastToken), AruOf(out, r.lastToken) <= r.myAru,
         r.lastDiscarded = r.aru
  PROVE  /\ Sound(TokenDone(r, out, m, n), o)
         /\ SameBut(TokenDone(r, out, m, n), r,
                    {"packets", "handed", "lastDelivered", "lastDiscarded", "lastRetrans",
                     "lastSent", "aru", "tokenCounter", "lastToken"})
         /\ TokenDone(r, out, m, n).aru = AruOf(out, r.lastToken)
         /\ TokenDone(r, out, m, n).lastDiscarded = AruOf(out, r.lastToken)
         /\ TokenDone(r, out, m, n).lastToken = Header(out)
         /\ Clients(r) => Serves(TokenDone(r, out, m, n), r, o, AruOf(out, r.lastToken))
<1> DEFINE newAru == AruOf(out, r.lastToken)
           done == [r EXCEPT
                 !.lastRetrans = m,
                 !.lastSent = n,
                 !.aru = newAru,
                 !.tokenCounter = IF r.highest = newAru THEN Min({@ + 1, 2}) ELSE 0,
                 !.lastToken = Header(out)]
           alarmed == Alarm(done, "illegally lowering Aru", newAru < r.aru)
           discarded == Discard(done)
           agreed == DeliverAgreed(discarded)
           q == DeliverReliable(agreed, r.highest - n + 1, n)
<1>t. Typed(r)
  BY DEF Sound
<1>n. r.aru \in Nat /\ r.myAru \in Nat /\ r.lastToken \in Token /\ r.highest \in Nat
      /\ r.lastDiscarded \in Nat
  BY <1>t DEF Typed
<1>a. newAru \in Nat /\ Header(out) \in Token
  BY <1>n, HeaderIs DEF AruOf, Token
<1>1. TokenDone(r, out, m, n) = q
  <2>1. TokenDone(r, out, m, n) = DeliverReliable(DeliverAgreed(Discard(alarmed)),
                                                  r.highest - n + 1, n)
    BY DEF TokenDone
  <2>2. (newAru < r.aru) = FALSE
    BY <1>n, <1>a
  <2> HIDE DEF done, newAru
  <2>3. alarmed = Alarm(done, "illegally lowering Aru", FALSE)
    BY <2>2
  <2>4. alarmed = done
    BY <2>3, NoAlarmSame
  <2> HIDE DEF alarmed
  <2> QED
    BY <2>1, <2>4
<1> HIDE DEF newAru
<1>2. /\ DOMAIN done = Globals
      /\ SameBut(done, r, {"lastRetrans", "lastSent", "aru", "tokenCounter", "lastToken"})
      /\ done.lastRetrans = m /\ done.lastSent = n /\ done.aru = newAru
      /\ done.lastToken = Header(out)
  BY <1>t DEF Typed, SameBut, Globals
<1> HIDE DEF done
<1>3. Typed(done)
  BY <1>2, <1>t, <1>a DEF Typed, SameBut, Globals
<1>4. Sound(done, o)
  <2>1. SameBut(done, r, Globals \ {"highest", "myAru", "lastDiscarded", "lastDelivered", "packets"})
    BY <1>2 DEF SameBut, Globals
  <2> QED
    BY <1>3, <2>1, SoundSame
<1>5. done.aru <= done.myAru /\ done.myAru = r.myAru /\ done.lastDiscarded = r.aru
  BY <1>2 DEF SameBut, Globals, newAru
<1>6. /\ Sound(discarded, o)
      /\ SameBut(discarded, done, {"packets", "handed", "lastDelivered", "lastDiscarded"})
      /\ discarded.lastDiscarded = IF done.aru <= done.lastDiscarded THEN done.lastDiscarded
                                   ELSE done.aru
  BY <1>4, <1>5, DiscardSound
<1>7. discarded.lastDiscarded = newAru
  <2>1. r.aru <= newAru
    BY DEF newAru
  <2> QED
    BY <1>2, <1>5, <1>6, <2>1, <1>n, <1>a
<1> HIDE DEF discarded
<1>8. /\ Sound(agreed, o)
      /\ SameBut(agreed, discarded, {"packets", "handed", "lastDelivered"})
  BY <1>6, DeliverAgreedSound
<1> HIDE DEF agreed
<1>9. Sound(q, o) /\ SameBut(q, agreed, {"packets", "handed"})
  BY <1>8, <1>n, DeliverReliableSound
<1> HIDE DEF q
<1>10. SameBut(q, r, {"packets", "handed", "lastDelivered", "lastDiscarded", "lastRetrans",
                      "lastSent", "aru", "tokenCounter", "lastToken"})
  BY <1>2, <1>6, <1>8, <1>9 DEF SameBut
<1>11. q.aru = newAru /\ q.lastDiscarded = newAru /\ q.lastToken = Header(out)
  BY <1>2, <1>6, <1>7, <1>8, <1>9 DEF SameBut, Globals
<1>12. ASSUME Clients(r) PROVE Serves(q, r, o, newAru)
  <2>1. Serves(done, r, o, newAru)
    <3>1. SameBut(done, r, Globals \ {"handed", "packets", "lastDiscarded", "lastDelivered"})
      BY <1>2 DEF SameBut, Globals
    <3> QED
      BY <3>1, <1>12, <1>t, ServesSameBut
  <2>2. Serves(discarded, done, o, newAru)
    <3>1. done.aru \in Nat /\ done.aru <= newAru /\ done.aru <= done.myAru /\ Clients(done)
      BY <2>1, <1>2, <1>5, <1>a DEF Serves
    <3>2. Serves(Discard(done), done, o, newAru)
      BY <3>1, <1>4, <1>a, DiscardServes
    <3> QED
      BY <3>2 DEF discarded
  <2>3. Serves(agreed, discarded, o, newAru)
    <3>1. Clients(discarded)
      BY <2>2 DEF Serves
    <3>2. Serves(DeliverAgreed(discarded), discarded, o, newAru)
      BY <3>1, <1>6, <1>a, DeliverAgreedServes
    <3> QED
      BY <3>2 DEF agreed
  <2>4. Serves(q, agreed, o, newAru)
    <3>1. agreed.highest = r.highest
      BY <1>2, <1>6, <1>8 DEF SameBut, Globals
    <3>2. Clients(agreed)
      BY <2>3 DEF Serves
    <3>3. /\ r.highest - n + 1 \in Int /\ n \in Int
          /\ (r.highest - n + 1) + n - 1 <= agreed.highest
      BY <3>1, <1>n
    <3>4. Serves(DeliverReliable(agreed, r.highest - n + 1, n), agreed, o, newAru)
      BY <3>2, <3>3, <1>8, <1>a, DeliverReliableServes
    <3> QED
      BY <3>4 DEF q
  <2>5. Typed(discarded) /\ Typed(agreed) /\ Typed(q)
    BY <1>6, <1>8, <1>9 DEF Sound
  <2>6. Serves(discarded, r, o, newAru)
    BY <1>3, <1>12, <1>t, <2>1, <2>2, <2>5, ServesOn
  <2>7. Serves(agreed, r, o, newAru)
    BY <1>12, <1>t, <2>3, <2>5, <2>6, ServesOn
  <2> QED
    BY <1>12, <1>t, <2>4, <2>5, <2>7, ServesOn
<1> QED
  BY <1>1, <1>9, <1>10, <1>11, <1>12 DEF newAru

\* The values that TakeToken names.
LEMMA TakeTokenIs ==
  ASSUME NEW d, NEW t, TakeToken(d, t)
  PROVE  \E r, answer, new, sent, out :
       /\ r = TokenSeen(Installed(st[d]), t)
       /\ answer = Answer(r, t)
       /\ new = NewPackets(d, r, Min({Allowed(r, t.fc), Len(r.down)}))
       /\ sent = RaiseMyAru(SendNew(d, r, new))
       /\ out = TokenOut(d, sent, t, Cardinality(answer), Len(new))
       /\ st' = [st EXCEPT ![d] = TokenDone(sent, out, Cardinality(answer), Len(new))]
       /\ order' = order \o new
       /\ net' = Sent(d, t.rtrTo, answer, new)
       /\ tokens' = IF d = Leader /\ Holds(sent) THEN Without(d, t)
                    ELSE SendToken(Without(d, t), d, out)
BY Zenon DEF TakeToken

\* A token that is taken leaves the daemon sound, if nothing it asks for is below
\* Aru and its aru does not go back.
LEMMA TakeTokenDoes ==
  ASSUME SlotsSuffice, NEW d \in Daemons, NEW t \in Token, order \in Seq(Packet),
         Sound(st[d], order), t.seq = Len(order), st[d].lastDiscarded = st[d].aru,
         AruSeen(st[d]) <= st[d].myAru, st[d].aru <= AruSeen(st[d]), st[d].aru <= t.aru,
         \A s \in t.rtr : st[d].aru < s,
         TakeToken(d, t)
  PROVE  \E new, q, out, answer :
           /\ Taken(d, st[d], t, order, new, q, out, answer)
           /\ st' = [st EXCEPT ![d] = q] /\ order' = order \o new
           /\ net' = Sent(d, t.rtrTo, answer, new)
           /\ tokens' \in {Without(d, t), SendToken(Without(d, t), d, out)}
<1>1. PICK r, answer, new, sent, out :
       /\ r = TokenSeen(Installed(st[d]), t)
       /\ answer = Answer(r, t)
       /\ new = NewPackets(d, r, Min({Allowed(r, t.fc), Len(r.down)}))
       /\ sent = RaiseMyAru(SendNew(d, r, new))
       /\ out = TokenOut(d, sent, t, Cardinality(answer), Len(new))
       /\ st' = [st EXCEPT ![d] = TokenDone(sent, out, Cardinality(answer), Len(new))]
       /\ order' = order \o new
       /\ net' = Sent(d, t.rtrTo, answer, new)
       /\ tokens' = IF d = Leader /\ Holds(sent) THEN Without(d, t)
                    ELSE SendToken(Without(d, t), d, out)
  BY TakeTokenIs, Zenon
<1>c. Sound(st[d], order) /\ Typed(st[d]) /\ st[d].myAru \in Nat /\ st[d].aru \in Nat
  BY DEF Sound, Typed
<1>2. PICK i : i = Installed(st[d])
  OBVIOUS
<1>3. /\ Sound(i, order) /\ SameBut(i, st[d], {"justInstalled", "lastToken"})
      /\ i.justInstalled = FALSE /\ i.lastToken = [st[d].lastToken EXCEPT !.aru = AruSeen(st[d])]
  BY <1>2, <1>c, InstalledSound
<1>4. i.aru = st[d].aru
  BY <1>3 DEF SameBut, Globals
<1>5. Sound(r, order) /\ SameBut(r, i, {"highest"}) /\ r.highest = Len(order)
  <2>1. \A s \in t.rtr : i.aru < s
    BY <1>4
  <2>2. r = TokenSeen(i, t)
    BY <1>1, <1>2
  <2> QED
    BY <1>3, <2>1, <2>2, TokenSeenSound
<1>6. /\ SameBut(r, st[d], {"justInstalled", "lastToken", "highest"})
      /\ r.justInstalled = FALSE /\ r.lastToken = [st[d].lastToken EXCEPT !.aru = AruSeen(st[d])]
  BY <1>3, <1>5 DEF SameBut, Globals
<1>7. r.aru = st[d].aru /\ r.lastDiscarded = r.aru /\ r.myAru = st[d].myAru
      /\ r.exits = st[d].exits /\ r.lastDiscarded = st[d].lastDiscarded
  BY <1>6 DEF SameBut, Globals
<1>8. PICK n : n = Min({Allowed(r, t.fc), Len(r.down)})
  OBVIOUS
<1>9. n \in Nat /\ n <= Len(r.down) /\ Len(order) + n <= r.lastDiscarded + NumSlots
  <2>1. t.fc \in Int
    BY DEF Token
  <2> QED
    BY <2>1, <1>5, <1>7, <1>8, RoomToSend
<1>10. new = NewPackets(d, r, n)
  BY <1>1, <1>8
<1>11. AreNew(new, d, r, n)
  <2>1. Typed(r)
    BY <1>5 DEF Sound
  <2> QED
    BY <1>9, <1>10, <2>1, NewPacketsAre
<1>12. new \in Seq(Packet) /\ Len(new) = n /\ DOMAIN new = 1..n
       /\ \A k \in 1..n : new[k] \in Packet /\ new[k].seq = r.highest + k /\ new[k].from = d
  BY <1>11 DEF AreNew
<1>13. PICK sending : sending = SendNew(d, r, new)
  OBVIOUS
<1>14. /\ Sound(sending, order \o new)
       /\ SameBut(sending, r, {"packets", "highest", "down"})
       /\ sending.highest = r.highest + n
       /\ Filled(sending, r)
  BY <1>5, <1>9, <1>10, <1>13, SendNewSound
<1>15. /\ Sound(sent, order \o new) /\ sent.myAru >= sending.myAru
       /\ SameBut(sent, sending, {"myAru"})
  <2>1. sent = RaiseMyAru(sending)
    BY <1>1, <1>13
  <2> QED
    BY <1>14, <2>1, RaiseMyAruSound
<1>16. /\ sent.lastToken = [st[d].lastToken EXCEPT !.aru = AruSeen(st[d])]
       /\ sent.aru = st[d].aru /\ sent.lastDiscarded = sent.aru /\ sent.exits = st[d].exits
       /\ sent.justInstalled = FALSE /\ sent.highest = Len(order) + n
       /\ sent.myAru >= st[d].myAru
  BY <1>5, <1>6, <1>7, <1>14, <1>15 DEF SameBut, Globals
<1>17. Typed(sent)
  BY <1>15 DEF Sound
<1>18. Len(order \o new) = Len(order) + n /\ order \o new \in Seq(Packet)
  BY <1>12, ConcatProperties
<1>19. Cardinality(answer) \in Nat /\ \A p \in answer : Numbered(p, order)
  <2>1. (\A p \in answer : Numbered(p, order)) /\ IsFiniteSet(answer)
    BY <1>1, <1>5, AnswerNumbered
  <2> QED
    BY <2>1, FS_CardinalityType
<1>20. PICK m : m = Cardinality(answer)
  OBVIOUS
<1>21. TokenSent(d, sent, t, out)
  <2>1. out = TokenOut(d, sent, t, m, n)
    BY <1>1, <1>12, <1>20
  <2> QED
    BY <1>9, <1>17, <1>19, <1>20, <2>1, TokenOutIs
<1>22. /\ out \in Token /\ out.aru = (IF TakesAru(d, sent, t) THEN sent.myAru ELSE t.aru)
  BY <1>21 DEF TokenSent
<1>23. PICK a : a = AruOf(out, sent.lastToken)
  OBVIOUS
<1>24. sent.aru <= a /\ a <= sent.myAru
  <2>1. sent.lastToken.aru = AruSeen(st[d])
    <3>1. st[d].lastToken \in Token
      BY <1>c DEF Typed
    <3> QED
      BY <1>16, <3>1 DEF Token
  <2>2. AruSeen(st[d]) \in Nat
    BY <1>c DEF AruSeen, Typed, Token
  <2>3. sent.myAru \in Nat /\ t.aru \in Nat /\ out.aru \in Nat
    BY <1>17, <1>22 DEF Typed, Token
  <2>4. a = IF out.aru > AruSeen(st[d]) THEN AruSeen(st[d]) ELSE out.aru
    BY <1>23, <2>1 DEF AruOf
  <2> QED
    BY <1>16, <1>22, <2>2, <2>3, <2>4, <1>c
<1>25. PICK q : q = TokenDone(sent, out, m, n)
  OBVIOUS
<1>26. /\ Sound(q, order \o new)
       /\ SameBut(q, sent,
                    {"packets", "handed", "lastDelivered", "lastDiscarded", "lastRetrans",
                     "lastSent", "aru", "tokenCounter", "lastToken"})
       /\ q.aru = AruOf(out, sent.lastToken) /\ q.lastDiscarded = AruOf(out, sent.lastToken)
       /\ q.lastToken = Header(out)
       /\ Clients(sent) => Serves(q, sent, order \o new, AruOf(out, sent.lastToken))
  BY <1>9, <1>15, <1>16, <1>19, <1>20, <1>22, <1>23, <1>24, <1>25, TokenDoneSound
<1>27. /\ q.highest = sent.highest /\ q.myAru = sent.myAru
       /\ q.justInstalled = sent.justInstalled /\ q.exits = sent.exits
  BY <1>26 DEF SameBut, Globals
<1>28. TokenSent(d, q, t, out)
  BY <1>21, <1>27 DEF TokenSent, TakesAru
<1>29. \A k \in DOMAIN new : Numbered(new[k], order \o new)
  <2> SUFFICES ASSUME NEW k \in 1..n PROVE Numbered(new[k], order \o new)
    BY <1>12
  <2>1. PICK l : l = Len(order)
    OBVIOUS
  <2>2. l \in Nat /\ l + k \in 1..(l + n) /\ ~(l + k <= l) /\ (l + k) - l = k
    BY <2>1, <1>9
  <2>3. new[k].seq = l + k /\ new[k] \in Packet
    BY <1>5, <1>12, <2>1
  <2>4. \A j \in 1..(l + n) : (order \o new)[j] = IF j <= l THEN order[j] ELSE new[j - l]
    BY <1>12, <2>1, ConcatProperties
  <2>5. (order \o new)[l + k] = new[k]
    BY <2>2, <2>4
  <2> QED
    BY <1>18, <2>1, <2>2, <2>3, <2>5 DEF Numbered
<1>s. ASSUME Clients(st[d]) PROVE Serves(q, st[d], order \o new, q.lastDiscarded)
  <2>1. PICK c, o, l : c = st[d] /\ o = order \o new /\ l = q.lastDiscarded
    OBVIOUS
  <2>2. Serves(r, c, o, l)
    <3>1. SameBut(r, c, Globals \ {"handed", "packets", "lastDiscarded", "lastDelivered"})
      BY <1>6, <2>1 DEF SameBut, Globals
    <3> QED
      BY <3>1, <1>c, <1>s, <2>1, ServesSameBut
  <2>3. Serves(sending, r, o, l)
    <3>1. SameBut(sending, r, {"packets", "highest", "down"}) /\ Filled(sending, r)
      BY <1>14
    <3>2. Clients(r) /\ Typed(r)
      BY <1>5, <2>2 DEF Serves, Sound
    <3> QED
      BY <3>1, <3>2, ServesFilled
  <2>4. Serves(sent, sending, o, l)
    <3>1. SameBut(sent, sending, Globals \ {"handed", "packets", "lastDiscarded", "lastDelivered"})
      BY <1>15 DEF SameBut, Globals
    <3>2. Clients(sending) /\ Typed(sending)
      BY <1>14, <2>3 DEF Serves, Sound
    <3> QED
      BY <3>1, <3>2, ServesSameBut
  <2>5. Serves(q, sent, o, l)
    BY <1>26, <2>1, <2>4 DEF Serves
  <2>6. Typed(c) /\ Typed(r) /\ Typed(sending) /\ Typed(q) /\ Clients(c)
    BY <1>c, <1>s, <1>5, <1>14, <1>26, <2>1 DEF Sound
  <2>7. Serves(sending, c, o, l)
    BY <2>2, <2>3, <2>6, ServesOn
  <2>8. Serves(sent, c, o, l)
    BY <1>17, <2>4, <2>6, <2>7, ServesOn
  <2>9. Serves(q, c, o, l)
    BY <1>17, <2>5, <2>6, <2>8, ServesOn
  <2> QED
    BY <2>1, <2>9
<1>30. Taken(d, st[d], t, order, new, q, out, answer)
  <2>1. \A k \in DOMAIN new : new[k].seq = Len(order) + k /\ new[k].from = d
    BY <1>5, <1>12
  <2> QED
    BY <1>7, <1>9, <1>12, <1>16, <1>18, <1>19, <1>26, <1>27, <1>28, <1>29, <1>s, <2>1
    DEF Taken
<1>31. st' = [st EXCEPT ![d] = q]
  BY <1>1, <1>12, <1>20, <1>25
<1> QED
  BY <1>1, <1>30, <1>31

-----------------------------------------------------------------------------
(* A step of one daemon that leaves its place in the ring as it was: q is  *)
(* its state after the step, r before.                                     *)

\* Two tokens that agree in all that the invariant of the ring looks at.
SameToken(u, t) ==
  u.arq = t.arq /\ u.seq = t.seq /\ u.aru = t.aru /\ u.aruLast = t.aruLast /\ u.rtr = t.rtr

Kept(q, r, o) ==
  /\ Sound(q, o) /\ q.myAru >= r.myAru
  /\ q.aru = r.aru /\ q.lastDiscarded = r.lastDiscarded
  /\ q.justInstalled = r.justInstalled /\ q.exits = r.exits
  /\ SameToken(q.lastToken, r.lastToken)
  /\ Clients(r) => Serves(q, r, o, q.lastDiscarded)

\* A step from the states s and the order o to s2 and o2 serves the clients of one
\* daemon, which may have numbered the packets new.
ServesOne(d, q, new, s, o, s2, o2) ==
  /\ s2 = [s EXCEPT ![d] = q] /\ o2 = o \o new /\ new \in Seq(Packet)
  /\ \A k \in DOMAIN new : new[k].seq = Len(o) + k /\ new[k].from = d
  /\ Clients(s[d]) => Serves(q, s[d], o2, q.lastDiscarded)

Served(s, o, s2, o2) ==
  (s2 = s /\ o2 = o) \/ \E d \in Daemons : \E q, new : ServesOne(d, q, new, s, o, s2, o2)

LEMMA KeptServes ==
  ASSUME NEW d \in Daemons, NEW q, NEW s, NEW o \in Seq(Packet), Kept(q, s[d], o)
  PROVE  Served(s, o, [s EXCEPT ![d] = q], o)
<1>1. PICK new : new = <<>>
  OBVIOUS
<1>2. new \in Seq(Packet) /\ DOMAIN new = {} /\ o \o new = o
  BY <1>1, ConcatEmptySeq
<1>3. ServesOne(d, q, new, s, o, [s EXCEPT ![d] = q], o)
  BY <1>2 DEF ServesOne, Kept
<1> QED
  BY <1>3 DEF Served

LEMMA KeptItself ==
  ASSUME NEW r, NEW o, Sound(r, o)
  PROVE  Kept(r, r, o)
<1>1. r.myAru \in Nat /\ Typed(r)
  BY DEF Sound, Typed
<1>2. Clients(r) => Serves(r, r, o, r.lastDiscarded)
  BY <1>1, ServesSame
<1> QED
  BY <1>1, <1>2 DEF Kept, SameToken

\* Prot_handle_bcast.
LEMMA BcastDoes ==
  ASSUME NEW d \in Daemons, HandleBcast(d), Sound(st[d], order),
         \A p \in net[d] : Numbered(p, order)
  PROVE  /\ st' = st \/ \E q : Kept(q, st[d], order) /\ st' = [st EXCEPT ![d] = q]
         /\ \E p \in net[d] : net' = [net EXCEPT ![d] = @ \ {p}]
         /\ UNCHANGED <<order, tokens>>
<1>1. PICK p \in net[d] :
        /\ st' = IF p.seq <= st[d].lastDiscarded \/ Has(st[d], p.seq) THEN st
                 ELSE [st EXCEPT ![d] = IF p.seq = st[d].myAru + 1
                                        THEN DeliverAgreed(RaiseMyAru(Stored(st[d], p)))
                                        ELSE DeliverReliable(Stored(st[d], p), p.seq, 1)]
        /\ net' = [net EXCEPT ![d] = @ \ {p}]
        /\ UNCHANGED <<order, tokens>>
  BY Zenon DEF HandleBcast, Stored
<1>2. CASE st' = st
  BY <1>1, <1>2
<1>3. CASE ~(st' = st)
  <2>1. PICK r : r = st[d]
    OBVIOUS
  <2>2. Numbered(p, order) /\ ~(p.seq <= r.lastDiscarded) /\ ~Has(r, p.seq)
    BY <1>1, <1>3, <2>1
  <2>3. PICK r1 : r1 = Stored(r, p)
    OBVIOUS
  <2>4. /\ Sound(r1, order) /\ SameBut(r1, r, {"packets", "highest"})
        /\ p.seq <= r1.highest /\ Filled(r1, r)
    <3>1. /\ Sound(r1, order) /\ SameBut(r1, r, {"packets", "highest"})
          /\ r1.highest >= p.seq /\ Filled(r1, r)
      BY <2>1, <2>2, <2>3, StoredSound DEF Numbered
    <3>2. p.seq \in Nat /\ r1.highest \in Nat
      BY <2>2, <3>1 DEF Numbered, Packet, Sound, Typed
    <3> QED
      BY <3>1, <3>2
  <2>5. PICK r2 : r2 = RaiseMyAru(r1)
    OBVIOUS
  <2>6. /\ Sound(r2, order) /\ r2.myAru >= r1.myAru /\ SameBut(r2, r1, {"myAru"})
    BY <2>4, <2>5, RaiseMyAruSound
  <2>7. PICK q : q = IF p.seq = r.myAru + 1 THEN DeliverAgreed(r2)
                     ELSE DeliverReliable(r1, p.seq, 1)
    OBVIOUS
  <2>8. st' = [st EXCEPT ![d] = q]
    BY <1>1, <1>3, <2>1, <2>3, <2>5, <2>7
  <2>9. r.myAru \in Nat /\ p.seq \in Int /\ r1.myAru = r.myAru /\ r.lastToken \in Token
    BY <2>1, <2>2, <2>4 DEF Sound, Typed, Numbered, Packet, SameBut, Globals
  <2>11. ASSUME Clients(r) PROVE Serves(q, r, order, q.lastDiscarded)
    <3>1. PICK l : l = q.lastDiscarded
      OBVIOUS
    <3>2. Typed(r) /\ Typed(r1) /\ Typed(r2)
      BY <2>1, <2>4, <2>6 DEF Sound
    <3>3. Serves(r1, r, order, l) /\ Clients(r1)
      <4>1. SameBut(r1, r, {"packets", "highest", "down"})
        BY <2>4 DEF SameBut
      <4> QED
        BY <2>4, <2>11, <3>2, <4>1, ServesFilled DEF Serves
    <3>4. CASE p.seq = r.myAru + 1
      <4>1. Serves(r2, r1, order, l)
        <5>1. SameBut(r2, r1, Globals \ {"handed", "packets", "lastDiscarded", "lastDelivered"})
          BY <2>6 DEF SameBut, Globals
        <5> QED
          BY <3>2, <3>3, <5>1, ServesSameBut
      <4>2. q = DeliverAgreed(r2)
        BY <2>7, <3>4
      <4>3. Typed(q) /\ l \in Nat
        BY <2>6, <3>1, <4>2, DeliverAgreedSound DEF Sound, Typed
      <4>4. Serves(q, r2, order, l)
        BY <2>6, <4>1, <4>2, <4>3, DeliverAgreedServes DEF Serves
      <4>5. Serves(r2, r, order, l)
        BY <2>11, <3>2, <3>3, <4>1, ServesOn
      <4>6. Serves(q, r, order, l)
        BY <2>11, <3>2, <4>3, <4>4, <4>5, ServesOn
      <4> QED
        BY <3>1, <4>6
    <3>5. CASE ~(p.seq = r.myAru + 1)
      <4>1. q = DeliverReliable(r1, p.seq, 1)
        BY <2>7, <3>5
      <4>2. Typed(q) /\ l \in Nat
        <5>1. Sound(q, order)
          BY <2>4, <2>9, <4>1, DeliverReliableSound
        <5> QED
          BY <3>1, <5>1 DEF Sound, Typed
      <4>3. p.seq + 1 - 1 <= r1.highest /\ 1 \in Int
        BY <2>4, <2>9
      <4>4. Serves(q, r1, order, l)
        BY <2>4, <2>9, <3>3, <4>1, <4>2, <4>3, DeliverReliableServes
      <4>5. Serves(q, r, order, l)
        BY <2>11, <3>2, <3>3, <4>2, <4>4, ServesOn
      <4> QED
        BY <3>1, <4>5
    <3> QED
      BY <3>4, <3>5
  <2>10. Kept(q, r, order)
    <3>1. CASE p.seq = r.myAru + 1
      <4>1. q = DeliverAgreed(r2)
        BY <2>7, <3>1
      <4>2. /\ Sound(q, order)
            /\ SameBut(q, r2, {"packets", "handed", "lastDelivered"})
        BY <2>6, <4>1, DeliverAgreedSound
      <4>3. /\ q.myAru = r2.myAru
            /\ q.aru = r.aru /\ q.lastDiscarded = r.lastDiscarded
            /\ q.justInstalled = r.justInstalled /\ q.exits = r.exits
            /\ q.lastToken = r.lastToken
        BY <2>4, <2>6, <4>2 DEF SameBut, Globals
      <4> QED
        BY <2>6, <2>9, <2>11, <4>2, <4>3 DEF Kept, SameToken
    <3>2. CASE ~(p.seq = r.myAru + 1)
      <4>1. q = DeliverReliable(r1, p.seq, 1)
        BY <2>7, <3>2
      <4>2. Sound(q, order) /\ SameBut(q, r1, {"packets", "handed"})
        BY <2>4, <2>9, <4>1, DeliverReliableSound
      <4>3. /\ q.myAru = r1.myAru
            /\ q.aru = r.aru /\ q.lastDiscarded = r.lastDiscarded
            /\ q.justInstalled = r.justInstalled /\ q.exits = r.exits
            /\ q.lastToken = r.lastToken
        BY <2>4, <4>2 DEF SameBut, Globals
      <4> QED
        BY <2>9, <2>11, <4>2, <4>3 DEF Kept, SameToken
    <3> QED
      BY <3>1, <3>2
  <2> QED
    BY <1>1, <2>1, <2>8, <2>10
<1> QED
  BY <1>2, <1>3

\* Fields that no other component looks at.
LEMMA KeptSame ==
  ASSUME NEW r, NEW o, Sound(r, o), NEW q, Typed(q),
         SameBut(q, r, {"down", "late", "tokenCounter", "lastToken"}),
         SameToken(q.lastToken, r.lastToken)
  PROVE  Kept(q, r, o)
<1>1. SameBut(q, r, Globals \ {"highest", "myAru", "lastDiscarded", "lastDelivered", "packets"})
  BY DEF SameBut, Globals
<1>2. Sound(q, o)
  BY <1>1, SoundSame
<1>3. r.myAru \in Nat /\ Typed(r)
  BY DEF Sound, Typed
<1>4. /\ q.myAru = r.myAru /\ q.aru = r.aru /\ q.lastDiscarded = r.lastDiscarded
      /\ q.justInstalled = r.justInstalled /\ q.exits = r.exits
  BY DEF SameBut, Globals
<1>5. SameBut(q, r, Globals \ {"handed", "packets", "lastDiscarded", "lastDelivered"})
  BY DEF SameBut, Globals
<1>6. Clients(r) => Serves(q, r, o, q.lastDiscarded)
  BY <1>3, <1>5, ServesSameBut
<1> QED
  BY <1>2, <1>3, <1>4, <1>6 DEF Kept

LEMMA TokenRetrans ==
  ASSUME NEW t \in Token, NEW a \in Nat
  PROVE  [t EXCEPT !.retrans = a] \in Token /\ SameToken([t EXCEPT !.retrans = a], t)
<1> DEFINE R == [arq : 0..(ArqMod - 1), retrans : Nat, seq : Nat, aru : Nat, aruLast : Daemons,
                 fc : Int, rtrTo : 0..NumDaemons, rtr : SUBSET Nat]
<1>1. t \in R /\ IsFiniteSet(t.rtr)
  BY DEF Token
<1>2. [t EXCEPT !.retrans = a] \in R /\ [t EXCEPT !.retrans = a].rtr = t.rtr
  BY <1>1
<1> QED
  BY <1>1, <1>2 DEF Token, SameToken

\* Prot_token_hurry by d with the state r: the last token is sent once more.
LEMMA HurryDoes ==
  ASSUME NEW d \in Daemons, NEW tok, NEW r, Hurry(tok, d, r),
         Sound(st[d], order), Kept(r, st[d], order)
  PROVE  \E q : /\ Kept(q, st[d], order) /\ st' = [st EXCEPT ![d] = q]
                /\ tokens' = SendToken(tok, d, q.lastToken)
<1>t. Typed(r) /\ r.lastToken \in Token /\ r.lastToken.retrans \in Nat
  BY DEF Kept, Sound, Typed, Token
<1>1. PICK u : u = IF d = Leader THEN [r.lastToken EXCEPT !.retrans = (@ + 1) % 16]
                   ELSE r.lastToken
  OBVIOUS
<1>2. u \in Token /\ SameToken(u, r.lastToken)
  <2>1. (r.lastToken.retrans + 1) % 16 \in Nat
    BY <1>t
  <2>2. CASE d = Leader
    BY <1>1, <1>t, <2>1, <2>2, TokenRetrans
  <2>3. CASE d # Leader
    BY <1>1, <1>t, <2>3 DEF SameToken
  <2> QED
    BY <2>2, <2>3
<1>3. PICK q : q = [r EXCEPT !.lastToken = u]
  OBVIOUS
<1>4. DOMAIN q = Globals /\ SameBut(q, r, {"lastToken"}) /\ q.lastToken = u
  BY <1>3, <1>t DEF Typed, SameBut, Globals
<1>5. Typed(q)
  BY <1>2, <1>4, <1>t DEF Typed, SameBut, Globals
<1>6. Kept(q, r, order)
  <2>1. SameBut(q, r, {"down", "late", "tokenCounter", "lastToken"})
    BY <1>4 DEF SameBut
  <2>2. Sound(r, order)
    BY DEF Kept
  <2> QED
    BY <1>2, <1>4, <1>5, <2>1, <2>2, KeptSame
<1>7. Kept(q, st[d], order)
  <2>1. q.myAru \in Nat /\ r.myAru \in Nat /\ st[d].myAru \in Nat
    BY <1>5, <1>t DEF Sound, Typed
  <2>2. q.myAru >= st[d].myAru
    BY <1>6, <2>1 DEF Kept
  <2>3. ASSUME Clients(st[d]) PROVE Serves(q, st[d], order, q.lastDiscarded)
    <3>1. PICK c, o, l : c = st[d] /\ o = order /\ l = q.lastDiscarded
      OBVIOUS
    <3>2. Serves(r, c, o, l) /\ Clients(r)
      BY <1>6, <2>3, <3>1 DEF Kept, Serves
    <3>3. Serves(q, r, o, l)
      BY <1>6, <3>1, <3>2 DEF Kept
    <3>4. Typed(c) /\ Clients(c)
      BY <2>3, <3>1 DEF Sound
    <3>5. Serves(q, c, o, l)
      BY <1>5, <1>t, <3>2, <3>3, <3>4, ServesOn
    <3> QED
      BY <3>1, <3>5
  <2> QED
    BY <1>6, <2>2, <2>3 DEF Kept, SameToken
<1>8. st' = [st EXCEPT ![d] = q] /\ tokens' = SendToken(tok, d, u)
  BY <1>1, <1>3 DEF Hurry
<1> QED
  BY <1>4, <1>7, <1>8

-----------------------------------------------------------------------------
(* The ring: h is the daemon that took the token last, s the states of the *)
(* daemons, o the packets numbered so far, k the tokens and n the packets  *)
(* on their way.                                                           *)

\* The ARQ field has three values or more: one up is not one down.
LEMMA UpDown ==
  ASSUME NEW a \in 0..(ArqMod - 1)
  PROVE  /\ Up(a) \in 0..(ArqMod - 1) /\ Dn(a) \in 0..(ArqMod - 1)
         /\ Up(Dn(a)) = a /\ Dn(Up(a)) = a /\ Up(a) # a /\ Up(a) # Dn(a)
<1>1. PICK m : m = ArqMod
  OBVIOUS
<1>2. m \in Nat \ {0} /\ m >= 3 /\ a \in 0..(m - 1)
  BY <1>1, RingConstants
<1>3. \A x \in 0..(m - 1) : (x + 1) % m = IF x = m - 1 THEN 0 ELSE x + 1
  <2>1. ASSUME NEW x \in 0..(m - 1) PROVE (x + 1) % m = IF x = m - 1 THEN 0 ELSE x + 1
    <3>1. CASE x = m - 1
      <4>1. x + 1 = m /\ m % m = 0
        BY <1>2, <3>1
      <4> QED
        BY <3>1, <4>1
    <3>2. CASE x # m - 1
      <4>1. x + 1 \in 0..(m - 1)
        BY <1>2, <3>2
      <4>2. \A y \in 0..(m - 1) : y % m = y
        BY <1>2
      <4> QED
        BY <3>2, <4>1, <4>2
    <3> QED
      BY <3>1, <3>2
  <2> QED
    BY <2>1
<1>4. \A x \in 0..(m - 1) : (x - 1) % m = IF x = 0 THEN m - 1 ELSE x - 1
  <2>1. ASSUME NEW x \in 0..(m - 1) PROVE (x - 1) % m = IF x = 0 THEN m - 1 ELSE x - 1
    <3>1. CASE x = 0
      <4>1. (0 - 1) % m = m - 1
        BY <1>2
      <4> QED
        BY <3>1, <4>1
    <3>2. CASE x # 0
      <4>1. x - 1 \in 0..(m - 1)
        BY <1>2, <3>2
      <4>2. \A y \in 0..(m - 1) : y % m = y
        BY <1>2
      <4> QED
        BY <3>2, <4>1, <4>2
    <3> QED
      BY <3>1, <3>2
  <2> QED
    BY <2>1
<1>5. PICK u : u = Up(a)
  OBVIOUS
<1>6. PICK w : w = Dn(a)
  OBVIOUS
<1>7. u = (IF a = m - 1 THEN 0 ELSE a + 1) /\ w = (IF a = 0 THEN m - 1 ELSE a - 1)
  BY <1>1, <1>2, <1>3, <1>4, <1>5, <1>6 DEF Up, Dn
<1>8. u \in 0..(m - 1) /\ w \in 0..(m - 1) /\ u # a /\ u # w
  BY <1>2, <1>7
<1>9. Up(w) = IF w = m - 1 THEN 0 ELSE w + 1
  BY <1>1, <1>3, <1>8 DEF Up
<1>10. Dn(u) = IF u = 0 THEN m - 1 ELSE u - 1
  BY <1>1, <1>4, <1>8 DEF Dn
<1>11. Up(w) = a /\ Dn(u) = a
  BY <1>2, <1>7, <1>9, <1>10
<1> QED
  BY <1>1, <1>5, <1>6, <1>8, <1>11

\* How many daemons have taken the token since d did.
Age(h, d) == IF d <= h THEN h - d ELSE (h - d) + NumDaemons

LEMMA SuccIs ==
  ASSUME NEW h \in Daemons
  PROVE  /\ Succ(h) = IF h = NumDaemons THEN 1 ELSE h + 1
         /\ Succ(h) \in Daemons /\ Succ(h) # h
<1>1. PICK m : m = NumDaemons
  OBVIOUS
<1>2. m \in Nat \ {0} /\ m >= 2 /\ h \in 1..m
  BY <1>1, RingConstants
<1>3. h % m = IF h = m THEN 0 ELSE h
  <2>1. CASE h = m
    <3>1. m % m = 0
      BY <1>2
    <3> QED
      BY <2>1, <3>1
  <2>2. CASE h # m
    <3>1. h \in 0..(m - 1)
      BY <1>2, <2>2
    <3> QED
      BY <1>2, <2>2, <3>1
  <2> QED
    BY <2>1, <2>2
<1>4. Succ(h) = (h % m) + 1
  BY <1>1 DEF Succ
<1> QED
  BY <1>1, <1>2, <1>3, <1>4 DEF Daemons

LEMMA SuccOnce ==
  ASSUME NEW d \in Daemons, NEW e \in Daemons, Succ(d) = Succ(e)
  PROVE  d = e
<1>1. PICK m : m = NumDaemons
  OBVIOUS
<1>2. m \in Nat /\ m >= 2 /\ d \in 1..m /\ e \in 1..m
  BY <1>1, RingConstants
<1>3. /\ Succ(d) = IF d = m THEN 1 ELSE d + 1
      /\ Succ(e) = IF e = m THEN 1 ELSE e + 1
  BY <1>1, SuccIs
<1>4. (IF d = m THEN 1 ELSE d + 1) = (IF e = m THEN 1 ELSE e + 1)
  BY <1>3
<1> QED
  BY <1>2, <1>4

LEMMA AgeIs ==
  ASSUME NEW h \in Daemons, NEW d \in Daemons
  PROVE  /\ Age(h, d) \in 0..(NumDaemons - 1) /\ (Age(h, d) = 0 <=> d = h)
         /\ Age(h, d) <= Age(h, Succ(h))
         /\ Age(Succ(h), d) = IF d = Succ(h) THEN 0 ELSE Age(h, d) + 1
<1>1. PICK m : m = NumDaemons
  OBVIOUS
<1>2. m \in Nat /\ m >= 2 /\ h \in 1..m /\ d \in 1..m
  BY <1>1, RingConstants
<1>3. PICK k : k = Succ(h)
  OBVIOUS
<1>4. k = IF h = m THEN 1 ELSE h + 1
  BY <1>1, <1>3, SuccIs
<1>5. /\ Age(h, d) = IF d <= h THEN h - d ELSE (h - d) + m
      /\ Age(k, d) = IF d <= k THEN k - d ELSE (k - d) + m
      /\ Age(h, k) = IF k <= h THEN h - k ELSE (h - k) + m
  BY <1>1 DEF Age
<1>6. Age(h, d) \in 0..(m - 1) /\ (Age(h, d) = 0 <=> d = h)
  BY <1>2, <1>5
<1>7. Age(h, k) = m - 1
  BY <1>2, <1>4, <1>5
<1>8. Age(k, d) = IF d = k THEN 0 ELSE Age(h, d) + 1
  BY <1>2, <1>4, <1>5
<1> QED
  BY <1>1, <1>2, <1>3, <1>6, <1>7, <1>8

\* The ARQ of the last token d let in; the leader changes it on the way.
Seen(s, d) == IF d = Leader THEN Dn(s[d].lastToken.arq) ELSE s[d].lastToken.arq

\* A copy of the token that h sent.
Copy(h, s, t) ==
  /\ t.seq = s[h].lastToken.seq /\ t.aru = s[h].lastToken.aru
  /\ t.aruLast = s[h].lastToken.aruLast
  /\ \A i \in t.rtr : \A d \in Daemons : s[d].aru < i

\* The daemons up to h have let in the leader's present token, the others the one
\* before.
Arqs(h, s) ==
  \A d \in Daemons \ {Leader} :
    s[d].lastToken.arq = IF d <= h THEN s[Leader].lastToken.arq ELSE Dn(s[Leader].lastToken.arq)

\* What comes to d is old, but to the daemon after h it may be new.
Link(h, s, d, T) ==
  \/ \A t \in T : t.arq \in {Seen(s, d), Dn(Seen(s, d))}
  \/ d = Succ(h) /\ \A t \in T : t.arq = Seen(s, d) \/ (t.arq = Up(Seen(s, d)) /\ Copy(h, s, t))
Links(h, s, k) == \A d \in Daemons : Link(h, s, d, k[d])

\* The token numbers all packets; nobody has seen an aru above its own My_aru,
\* and everyone has discarded what is up to its Aru.
Seqs(h, s, o) ==
  /\ s[h].lastToken.seq = Len(o)
  /\ \A d \in Daemons : AruSeen(s[d]) <= s[d].myAru /\ s[d].lastDiscarded = s[d].aru

\* Nobody believes in an aru that another has not seen (or may be about to
\* take back), and who saw the token since its aru was last set saw no more.
Arus(h, s) ==
  \A d, e \in Daemons :
    /\ s[d].aru <= AruSeen(s[e])
    /\ Age(h, e) <= Age(h, d) =>
         /\ Smaller(AruSeen(s[d]), s[h].lastToken.aru) <= AruSeen(s[e])
         /\ s[d].aru <= s[e].aru
    /\ Age(h, d) <= Age(h, s[h].lastToken.aruLast) => AruSeen(s[d]) <= s[h].lastToken.aru

\* The globals of all, and what is on its way.
Good(s, o, k, n) ==
  /\ DOMAIN s = Daemons /\ o \in Seq(Packet)
  /\ \A d \in Daemons : Sound(s[d], o) /\ s[d].exits = {} /\ s[d].lastToken.rtr = {}
  /\ DOMAIN k = Daemons /\ \A d \in Daemons : k[d] \subseteq Token
  /\ DOMAIN n = Daemons /\ \A d \in Daemons : \A p \in n[d] : Numbered(p, o)

\* The invariant, with h for the daemon that took the token last.
Ring(h, s, o, k, n) ==
  Good(s, o, k, n) /\ Arqs(h, s) /\ Links(h, s, k) /\ Seqs(h, s, o) /\ Arus(h, s)

\* The same of the numbers alone: A[d] is the aru d saw, R[d] its own, a and l
\* are what the token says.
ArusOf(h, A, R, a, l) ==
  \A d, e \in Daemons :
    /\ R[d] <= A[e]
    /\ Age(h, e) <= Age(h, d) => Smaller(A[d], a) <= A[e] /\ R[d] <= R[e]
    /\ Age(h, d) <= Age(h, l) => A[d] <= a

\* The daemon S after h takes the token: what it sees is what the token says, or
\* it sets the aru, as TakesAru allows.
NextArus(h, S, A, R, a, l, B, C, l2) ==
  /\ h \in Daemons /\ S \in Daemons /\ S = Succ(h)
  /\ A \in [Daemons -> Nat] /\ R \in [Daemons -> Nat] /\ a \in Nat /\ l \in Daemons
  /\ B \in [Daemons -> Nat] /\ C \in [Daemons -> Nat] /\ l2 \in Daemons
  /\ ArusOf(h, A, R, a, l)
  /\ \A d \in Daemons : d # S => B[d] = A[d] /\ C[d] = R[d]
  /\ C[S] = Smaller(B[S], A[S])
  /\ \/ B[S] = a /\ l2 = l
     \/ /\ l2 = S /\ B[S] >= A[S]
        /\ B[S] <= a \/ l = S \/ \A d \in Daemons : A[d] <= a

LEMMA ArusNext ==
  ASSUME NEW h, NEW S, NEW A, NEW R, NEW a, NEW l, NEW B, NEW C, NEW l2,
         NextArus(h, S, A, R, a, l, B, C, l2)
  PROVE  ArusOf(S, B, C, B[S], l2)
<1> USE DEF NextArus
<1>0. \A d \in Daemons : A[d] \in Nat /\ B[d] \in Nat /\ R[d] \in Nat /\ C[d] \in Nat
  OBVIOUS
<1>a. \A d \in Daemons : /\ Age(h, d) \in Nat /\ Age(h, d) <= Age(h, S)
                         /\ Age(S, d) = IF d = S THEN 0 ELSE Age(h, d) + 1
  <2> TAKE d \in Daemons
  <2>1. /\ Age(h, d) \in 0..(NumDaemons - 1) /\ Age(h, d) <= Age(h, Succ(h))
        /\ Age(Succ(h), d) = IF d = Succ(h) THEN 0 ELSE Age(h, d) + 1
    BY AgeIs
  <2>2. Age(h, d) \in Nat
    BY <2>1, RingConstants
  <2> QED
    BY <2>1, <2>2
<1>1. \A d \in Daemons : R[d] <= B[S]
  <2> TAKE d \in Daemons
  <2>1. CASE B[S] = a
    <3>1. Age(h, h) <= Age(h, l)
      BY <1>a, AgeIs
    <3>2. A[h] <= a /\ R[d] <= A[h]
      BY <3>1 DEF ArusOf
    <3> QED
      BY <2>1, <3>2, <1>0
  <2>2. CASE B[S] >= A[S]
    <3>1. R[d] <= A[S]
      BY DEF ArusOf
    <3> QED
      BY <2>2, <3>1, <1>0
  <2> QED
    BY <2>1, <2>2
<1>2. B[S] <= a \/ \A d \in Daemons : A[d] <= a
  <2>1. CASE l = S
    <3>1. \A d \in Daemons : Age(h, d) <= Age(h, l) => A[d] <= a
      BY DEF ArusOf
    <3> QED
      BY <2>1, <3>1, <1>a
  <2>2. CASE B[S] = a
    BY <2>2
  <2> QED
    BY <2>1, <2>2
<1>3. \A d, e \in Daemons : Age(h, e) <= Age(h, d) => Smaller(A[d], B[S]) <= A[e]
  <2> SUFFICES ASSUME NEW d \in Daemons, NEW e \in Daemons, Age(h, e) <= Age(h, d)
               PROVE  Smaller(A[d], B[S]) <= A[e]
    OBVIOUS
  <2>1. Smaller(A[d], a) <= A[e]
    BY DEF ArusOf
  <2> QED
    BY <1>0, <1>2, <2>1 DEF Smaller
<1>4. \A e \in Daemons : C[S] <= B[e]
  <2> TAKE e \in Daemons
  <2>1. CASE e = S
    BY <1>0, <2>1 DEF Smaller
  <2>2. CASE e # S
    <3>1. Smaller(A[S], B[S]) <= A[e]
      BY <1>3, <1>a
    <3> QED
      BY <2>2, <3>1, <1>0 DEF Smaller
  <2> QED
    BY <2>1, <2>2
<1>5. \A d, e \in Daemons : C[d] <= B[e]
  <2> TAKE d, e \in Daemons
  <2>1. CASE d = S
    BY <1>4, <2>1
  <2>2. CASE d # S /\ e = S
    BY <1>1, <2>2
  <2>3. CASE d # S /\ e # S
    <3>1. R[d] <= A[e]
      BY DEF ArusOf
    <3> QED
      BY <2>3, <3>1
  <2> QED
    BY <2>1, <2>2, <2>3
<1>6. \A d, e \in Daemons : Age(S, e) <= Age(S, d) =>
                              Smaller(B[d], B[S]) <= B[e] /\ C[d] <= C[e]
  <2> SUFFICES ASSUME NEW d \in Daemons, NEW e \in Daemons, Age(S, e) <= Age(S, d)
               PROVE  Smaller(B[d], B[S]) <= B[e] /\ C[d] <= C[e]
    OBVIOUS
  <2>1. CASE e = S
    <3>1. Smaller(B[d], B[S]) <= B[S]
      BY <1>0 DEF Smaller
    <3>2. CASE d = S
      BY <2>1, <3>1, <3>2, <1>0
    <3>3. CASE d # S
      <4>1. R[d] <= B[S] /\ R[d] <= A[S]
        BY <1>1 DEF ArusOf
      <4>2. C[d] <= C[S]
        BY <3>3, <4>1, <1>0 DEF Smaller
      <4> QED
        BY <2>1, <3>1, <4>2
    <3> QED
      BY <3>2, <3>3
  <2>2. CASE e # S
    <3>1. d # S /\ Age(h, e) <= Age(h, d)
      BY <2>2, <1>a
    <3>2. Smaller(A[d], B[S]) <= A[e] /\ R[d] <= R[e]
      BY <1>3, <3>1 DEF ArusOf
    <3> QED
      BY <2>2, <3>1, <3>2
  <2> QED
    BY <2>1, <2>2
<1>7. \A d \in Daemons : Age(S, d) <= Age(S, l2) => B[d] <= B[S]
  <2> SUFFICES ASSUME NEW d \in Daemons, Age(S, d) <= Age(S, l2) PROVE B[d] <= B[S]
    OBVIOUS
  <2>1. CASE d = S
    BY <2>1, <1>0
  <2>2. CASE d # S
    <3>1. l2 # S
      BY <2>2, <1>a
    <3>2. B[S] = a /\ l2 = l /\ Age(h, d) <= Age(h, l)
      BY <2>2, <3>1, <1>a
    <3>3. A[d] <= a
      BY <3>2 DEF ArusOf
    <3> QED
      BY <2>2, <3>2, <3>3
  <2> QED
    BY <2>1, <2>2
<1> QED
  BY <1>5, <1>6, <1>7 DEF ArusOf

LEMMA ArusAre ==
  ASSUME NEW h \in Daemons, NEW s
  PROVE  Arus(h, s) <=>
           ArusOf(h, [d \in Daemons |-> AruSeen(s[d])], [d \in Daemons |-> s[d].aru],
                  s[h].lastToken.aru, s[h].lastToken.aruLast)
BY DEF Arus, ArusOf

-----------------------------------------------------------------------------
(* A daemon keeps its place in the ring.                                   *)

\* A step that only adds to what a daemon has, or serves its clients, does not
\* disturb the ring.
LEMMA PlacesKept ==
  ASSUME NEW h \in Daemons, NEW s, NEW o, NEW k, NEW n, Ring(h, s, o, k, n),
         NEW d \in Daemons, NEW q, Kept(q, s[d], o),
         NEW s2, s2 = [s EXCEPT ![d] = q]
  PROVE  Ring(h, s2, o, k, n)
<1>g. Good(s, o, k, n) /\ Arqs(h, s) /\ Links(h, s, k) /\ Seqs(h, s, o) /\ Arus(h, s)
  BY DEF Ring
<1>k. \A e \in Daemons : s2[e] = IF e = d THEN q ELSE s[e]
  BY <1>g DEF Good
<1>1. \A e \in Daemons :
        /\ SameToken(s2[e].lastToken, s[e].lastToken)
        /\ s2[e].aru = s[e].aru /\ s2[e].lastDiscarded = s[e].lastDiscarded
        /\ s2[e].justInstalled = s[e].justInstalled /\ s2[e].exits = s[e].exits
        /\ s2[e].myAru >= s[e].myAru /\ Sound(s2[e], o)
  <2> TAKE e \in Daemons
  <2>1. CASE e = d
    BY <1>k, <2>1 DEF Kept
  <2>2. CASE e # d
    <3>1. Sound(s[e], o) /\ s2[e] = s[e]
      BY <1>g, <1>k, <2>2 DEF Good
    <3> QED
      BY <3>1, KeptItself DEF Kept
  <2> QED
    BY <2>1, <2>2
<1> HIDE DEF SameToken
<1>2. \A e \in Daemons :
        /\ s2[e].lastToken.arq = s[e].lastToken.arq /\ s2[e].lastToken.seq = s[e].lastToken.seq
        /\ s2[e].lastToken.aru = s[e].lastToken.aru
        /\ s2[e].lastToken.aruLast = s[e].lastToken.aruLast
        /\ s2[e].lastToken.rtr = s[e].lastToken.rtr
  BY <1>1 DEF SameToken
<1>3. \A e \in Daemons : AruSeen(s2[e]) = AruSeen(s[e]) /\ Seen(s2, e) = Seen(s, e)
  BY <1>1, <1>2 DEF AruSeen, Seen
<1>4. Good(s2, o, k, n)
  <2>1. DOMAIN s2 = Daemons
    BY <1>g DEF Good
  <2> QED
    BY <2>1, <1>1, <1>2, <1>g DEF Good
<1>5. Arqs(h, s2)
  BY <1>2, <1>g, RingConstants DEF Arqs
<1>6. Links(h, s2, k)
  <2>1. \A t : Copy(h, s, t) <=> Copy(h, s2, t)
    BY <1>1, <1>2 DEF Copy
  <2>2. ASSUME NEW e \in Daemons PROVE Link(h, s2, e, k[e])
    <3>1. Link(h, s, e, k[e])
      BY <1>g DEF Links
    <3>2. Seen(s2, e) = Seen(s, e)
      BY <1>3
    <3> QED
      BY <2>1, <3>1, <3>2, Zenon DEF Link
  <2> QED
    BY <2>2 DEF Links
<1>7. Seqs(h, s2, o)
  <2>1. s2[h].lastToken.seq = Len(o)
    BY <1>2, <1>g DEF Seqs
  <2>2. ASSUME NEW e \in Daemons
        PROVE  AruSeen(s2[e]) <= s2[e].myAru /\ s2[e].lastDiscarded = s2[e].aru
    <3>1. AruSeen(s[e]) <= s[e].myAru /\ s[e].lastDiscarded = s[e].aru
      BY <1>g DEF Seqs
    <3>2. s2[e].myAru \in Nat /\ s[e].myAru \in Nat /\ AruSeen(s[e]) \in Nat
      BY <1>1, <1>g DEF Good, Sound, Typed, AruSeen, Token
    <3> QED
      BY <3>1, <3>2, <1>1, <1>3
  <2> QED
    BY <2>1, <2>2 DEF Seqs
<1>8. Arus(h, s2)
  <2>1. s2[h].lastToken.aru = s[h].lastToken.aru /\ s2[h].lastToken.aruLast = s[h].lastToken.aruLast
    BY <1>2
  <2> QED
    BY <2>1, <1>1, <1>3, <1>g DEF Arus
<1> QED
  BY <1>4, <1>5, <1>6, <1>7, <1>8 DEF Ring

-----------------------------------------------------------------------------
(* What is on its way.                                                     *)

\* Losing a datagram does not disturb it.
LEMMA FewerOnTheWay ==
  ASSUME NEW h \in Daemons, NEW s, NEW o, NEW k, NEW n, Ring(h, s, o, k, n),
         NEW k2, DOMAIN k2 = Daemons, \A e \in Daemons : k2[e] \subseteq k[e],
         NEW n2, DOMAIN n2 = Daemons, \A e \in Daemons : n2[e] \subseteq n[e]
  PROVE  Ring(h, s, o, k2, n2)
<1>1. Good(s, o, k2, n2)
  BY DEF Ring, Good
<1>2. ASSUME NEW d \in Daemons PROVE Link(h, s, d, k2[d])
  <2>1. Link(h, s, d, k[d]) /\ k2[d] \subseteq k[d]
    BY DEF Ring, Links
  <2> QED
    BY <2>1 DEF Link
<1> QED
  BY <1>1, <1>2 DEF Ring, Links

\* Every daemon is where its successor is, but h which is ahead.
LEMMA Ahead ==
  ASSUME NEW h \in Daemons, NEW s, Arqs(h, s),
         \A d \in Daemons : s[d].lastToken \in Token, NEW d \in Daemons
  PROVE  /\ Seen(s, Succ(d)) \in 0..(ArqMod - 1)
         /\ s[d].lastToken.arq = IF d = h THEN Up(Seen(s, Succ(d))) ELSE Seen(s, Succ(d))
<1>1. \A e \in Daemons : s[e].lastToken.arq \in 0..(ArqMod - 1)
  BY DEF Token
<1>2. PICK a : a = s[Leader].lastToken.arq
  OBVIOUS
<1>3. a \in 0..(ArqMod - 1) /\ Dn(a) \in 0..(ArqMod - 1) /\ Up(Dn(a)) = a
  BY <1>1, <1>2, RingConstants, UpDown
<1>4. \A e \in Daemons : e # Leader => s[e].lastToken.arq = IF e <= h THEN a ELSE Dn(a)
  BY <1>2 DEF Arqs
<1>5. PICK e : e = Succ(d)
  OBVIOUS
<1>6. PICK m : m = NumDaemons
  OBVIOUS
<1>7. m \in Nat /\ m >= 2 /\ d \in 1..m /\ e \in 1..m /\ h \in 1..m /\ e \in Daemons
      /\ e = (IF d = m THEN 1 ELSE d + 1)
  BY <1>5, <1>6, SuccIs, RingConstants
<1>8. s[d].lastToken.arq = IF d <= h THEN a ELSE Dn(a)
  <2>1. CASE d = Leader
    <3>1. d <= h
      BY <1>7, <2>1 DEF Leader
    <3> QED
      BY <1>2, <2>1, <3>1
  <2>2. CASE d # Leader
    BY <1>4, <2>2
  <2> QED
    BY <2>1, <2>2
<1>9. Seen(s, e) = IF e = 1 THEN Dn(a) ELSE IF e <= h THEN a ELSE Dn(a)
  BY <1>2, <1>4, <1>7 DEF Seen, Leader
<1>10. CASE d = h
  <2>1. Seen(s, e) = Dn(a) /\ s[d].lastToken.arq = a
    BY <1>7, <1>8, <1>9, <1>10
  <2> QED
    BY <1>3, <1>5, <1>10, <2>1
<1>11. CASE d # h
  <2>1. d = m => Seen(s, e) = Dn(a) /\ s[d].lastToken.arq = Dn(a)
    BY <1>7, <1>8, <1>9, <1>11
  <2>2. d # m => Seen(s, e) = s[d].lastToken.arq
    BY <1>7, <1>8, <1>9, <1>11
  <2>3. s[d].lastToken.arq = Seen(s, e)
    BY <2>1, <2>2
  <2> QED
    BY <1>1, <1>5, <1>11, <2>3
<1> QED
  BY <1>10, <1>11

\* The token of d goes to the daemon after it, where only younger ones are left.
LEMMA LinksSent ==
  ASSUME NEW h \in Daemons, NEW s, Arqs(h, s), \A d \in Daemons : s[d].lastToken \in Token,
         NEW d \in Daemons, NEW k, DOMAIN k = Daemons, Links(h, s, k),
         NEW u \in Token, u.arq = s[d].lastToken.arq, d = h => Copy(h, s, u),
         NEW k2, k2 = SendToken(k, d, u)
  PROVE  Links(h, s, k2)
<1>1. PICK e : e = Succ(d)
  OBVIOUS
<1>2. e \in Daemons
  BY <1>1, SuccIs
<1>3. /\ k2[e] = {v \in k[e] : v.arq \in {u.arq, (u.arq - 1) % ArqMod}} \cup {u}
      /\ \A g \in Daemons : g # e => k2[g] = k[g]
  BY <1>1, <1>2 DEF SendToken
<1>4. PICK a : a = Seen(s, e)
  OBVIOUS
<1>5. /\ a \in 0..(ArqMod - 1) /\ u.arq = IF d = h THEN Up(a) ELSE a
      /\ Dn(Up(a)) = a /\ Up(a) # a /\ Up(a) # Dn(a)
  BY <1>1, <1>4, Ahead, UpDown
<1>6. Link(h, s, e, k[e])
  BY <1>2 DEF Links
<1>7. Link(h, s, e, k2[e])
  <2>1. CASE d = h
    <3>1. e = Succ(h) /\ u.arq = Up(a) /\ (u.arq - 1) % ArqMod = a
      BY <1>1, <1>5, <2>1 DEF Dn
    <3>2. ASSUME NEW v \in k2[e] PROVE v.arq = a \/ (v.arq = Up(a) /\ Copy(h, s, v))
      <4>1. CASE v = u
        BY <2>1, <3>1, <4>1
      <4>2. CASE v # u
        <5>1. v \in k[e] /\ v.arq \in {Up(a), a}
          BY <1>3, <3>1, <3>2, <4>2
        <5> QED
          BY <5>1, <1>4, <1>5, <1>6 DEF Link
      <4> QED
        BY <4>1, <4>2
    <3> QED
      BY <3>1, <3>2, <1>4 DEF Link
  <2>2. CASE d # h
    <3>1. u.arq = a /\ (u.arq - 1) % ArqMod = Dn(a)
      BY <1>5, <2>2 DEF Dn
    <3>2. \A v \in k2[e] : v.arq \in {a, Dn(a)}
      BY <1>3, <3>1
    <3> QED
      BY <3>2, <1>4 DEF Link
  <2> QED
    BY <2>1, <2>2
<1> QED
  BY <1>3, <1>7 DEF Links

\* Nor does a token that is sent once more.
LEMMA TokenSentAgain ==
  ASSUME NEW h \in Daemons, NEW s, NEW o, NEW k, NEW n, Ring(h, s, o, k, n),
         NEW d \in Daemons, NEW k2, k2 = SendToken(k, d, s[d].lastToken)
  PROVE  Ring(h, s, o, k2, n)
<1>g. Good(s, o, k, n) /\ Arqs(h, s) /\ Links(h, s, k)
  BY DEF Ring
<1>1. \A e \in Daemons : s[e].lastToken \in Token /\ s[e].lastToken.rtr = {}
  BY <1>g DEF Good, Sound, Typed
<1>2. Copy(h, s, s[h].lastToken)
  BY <1>1 DEF Copy
<1>3. DOMAIN k = Daemons
  BY <1>g DEF Good
<1>4. PICK u : u = s[d].lastToken
  OBVIOUS
<1>5. Links(h, s, k2)
  <2>1. u \in Token /\ u.arq = s[d].lastToken.arq /\ (d = h => Copy(h, s, u))
    BY <1>1, <1>2, <1>4
  <2>2. k2 = SendToken(k, d, u)
    BY <1>4
  <2> QED
    BY <1>g, <1>1, <1>3, <2>1, <2>2, LinksSent
<1>6. DOMAIN k2 = Daemons /\ \A e \in Daemons : k2[e] \subseteq Token
  <2>1. DOMAIN k2 = Daemons
    BY <1>3 DEF SendToken
  <2>2. ASSUME NEW e \in Daemons PROVE k2[e] \subseteq k[e] \cup {u}
    BY <1>3, <1>4, <2>2 DEF SendToken
  <2> QED
    BY <1>g, <1>1, <1>4, <2>1, <2>2 DEF Good
<1>7. Good(s, o, k2, n)
  BY <1>g, <1>6 DEF Good
<1> QED
  BY <1>5, <1>7 DEF Ring

\* Numbering more packets leaves the daemons that do not have them yet sound.
LEMMA SoundLonger ==
  ASSUME NEW r, NEW o \in Seq(Packet), NEW new \in Seq(Packet), Sound(r, o),
         Len(o \o new) <= r.lastDiscarded + NumSlots
  PROVE  Sound(r, o \o new)
<1>1. /\ Len(o \o new) = Len(o) + Len(new)
      /\ \A i \in 1..Len(o) + Len(new) : (o \o new)[i] = IF i <= Len(o) THEN o[i] ELSE new[i - Len(o)]
  BY ConcatProperties
<1>2. Len(o) \in Nat /\ Len(new) \in Nat /\ r.lastDiscarded \in Nat /\ r.highest \in Nat
      /\ r.highest <= Len(o)
  BY DEF Sound, Typed, InWindow
<1>3. InWindow(r, o \o new)
  BY <1>1, <1>2 DEF Sound, InWindow
<1>4. Holding(r, o \o new)
  <2>1. ASSUME NEW x \in Slots, r.packets[x].exist # 0
        PROVE  PacketOf(r.packets[x]) = (o \o new)[r.packets[x].seq]
    <3>1. PICK i : i = r.packets[x].seq
      OBVIOUS
    <3>2. i \in (r.lastDiscarded + 1)..r.highest /\ PacketOf(r.packets[x]) = o[i]
      BY <2>1, <3>1 DEF Sound, Holding
    <3>3. i \in 1..(Len(o) + Len(new)) /\ i <= Len(o)
      BY <1>2, <3>2
    <3> QED
      BY <1>1, <3>1, <3>2, <3>3
  <2> QED
    BY <2>1 DEF Sound, Holding
<1> QED
  BY <1>3, <1>4 DEF Sound

\* S, the daemon after h, takes the token t: s2 to n2 are what s to n become.
Turn(h, S, t, new, q, out, answer, w, s, o, k, n, s2, o2, k2, n2) ==
  /\ h \in Daemons /\ S \in Daemons /\ S = Succ(h)
  /\ Ring(h, s, o, k, n)
  /\ t \in k[S] /\ t.arq = Up(Seen(s, S)) /\ Copy(h, s, t)
  /\ Taken(S, s[S], t, o, new, q, out, answer)
  /\ s2 = [s EXCEPT ![S] = q] /\ o2 = o \o new
  /\ w = [k EXCEPT ![S] = @ \ {t}] /\ k2 \in {w, SendToken(w, S, out)}
  /\ DOMAIN n2 = Daemons
  /\ \A e \in Daemons : n2[e] \subseteq n[e] \cup answer \cup Range(new)

\* The daemon after h becomes the one that took the token last.
LEMMA RingTaken ==
  ASSUME NEW h, NEW S, NEW t, NEW new, NEW q, NEW out, NEW answer, NEW w,
         NEW s, NEW o, NEW k, NEW n, NEW s2, NEW o2, NEW k2, NEW n2,
         Turn(h, S, t, new, q, out, answer, w, s, o, k, n, s2, o2, k2, n2)
  PROVE  Ring(S, s2, o2, k2, n2)
<1> /\ h \in Daemons /\ S \in Daemons /\ S = Succ(h)
    /\ Ring(h, s, o, k, n)
    /\ t \in k[S] /\ t.arq = Up(Seen(s, S)) /\ Copy(h, s, t)
    /\ Taken(S, s[S], t, o, new, q, out, answer)
    /\ s2 = [s EXCEPT ![S] = q] /\ o2 = o \o new
    /\ w = [k EXCEPT ![S] = @ \ {t}] /\ k2 \in {w, SendToken(w, S, out)}
    /\ DOMAIN n2 = Daemons
    /\ \A e \in Daemons : n2[e] \subseteq n[e] \cup answer \cup Range(new)
  BY DEF Turn
<1>g. Good(s, o, k, n) /\ Arqs(h, s) /\ Links(h, s, k) /\ Seqs(h, s, o) /\ Arus(h, s)
  BY DEF Ring
<1>k. s2[S] = q /\ \A e \in Daemons : e # S => s2[e] = s[e]
  BY <1>g DEF Good
<1>q. /\ new \in Seq(Packet) /\ o2 \in Seq(Packet) /\ Sound(q, o2)
      /\ Len(o2) <= s[S].lastDiscarded + NumSlots
      /\ \A p \in Range(new) : Numbered(p, o2)
      /\ \A p \in answer : Numbered(p, o)
      /\ q.highest = Len(o2) /\ q.myAru >= s[S].myAru
      /\ q.aru = AruOf(out, [s[S].lastToken EXCEPT !.aru = AruSeen(s[S])])
      /\ q.lastDiscarded = q.aru
      /\ q.justInstalled = FALSE /\ q.exits = s[S].exits
      /\ q.lastToken = Header(out)
      /\ TokenSent(S, q, t, out)
  <2>1. new \in Seq(Packet) /\ o \in Seq(Packet) /\ o2 = o \o new
    BY <1>g DEF Taken, Good
  <2>2. o2 \in Seq(Packet)
    BY <2>1, ConcatProperties
  <2>3. \A p \in Range(new) : Numbered(p, o2)
    BY <2>1 DEF Taken, Range
  <2> QED
    BY <2>1, <2>2, <2>3 DEF Taken
<1>t. /\ t \in Token /\ t.aru = s[h].lastToken.aru /\ t.aruLast = s[h].lastToken.aruLast
      /\ t.seq = Len(o)
  BY <1>g DEF Good, Copy, Seqs
<1>o. /\ out \in Token /\ out.seq = Len(o2)
      /\ out.arq = IF S = Leader THEN Up(t.arq) ELSE t.arq
      /\ out.aru = IF TakesAru(S, q, t) THEN q.myAru ELSE t.aru
      /\ out.aruLast = IF TakesAru(S, q, t) THEN S ELSE t.aruLast
      /\ \A i \in out.rtr : i > q.myAru
  BY <1>q DEF TokenSent
<1>h. /\ q.lastToken \in Token
      /\ q.lastToken.arq = out.arq /\ q.lastToken.seq = out.seq /\ q.lastToken.aru = out.aru
      /\ q.lastToken.aruLast = out.aruLast /\ q.lastToken.rtr = {}
  BY <1>o, <1>q, HeaderIs
<1>d. \A e \in Daemons : /\ Sound(s[e], o) /\ Typed(s[e]) /\ s[e].lastToken \in Token
                         /\ s[e].lastDiscarded = s[e].aru /\ AruSeen(s[e]) \in Nat
                         /\ s[e].aru \in Nat /\ AruSeen(s[e]) <= s[e].myAru
                         /\ s[e].myAru \in Nat /\ AruSeen(s[e]) <= Len(o) /\ Len(o) \in Nat
  <2> TAKE e \in Daemons
  <2>1. Sound(s[e], o) /\ s[e].lastDiscarded = s[e].aru /\ AruSeen(s[e]) <= s[e].myAru
    BY <1>g DEF Good, Seqs
  <2>2. Typed(s[e]) /\ s[e].lastToken \in Token /\ s[e].aru \in Nat /\ s[e].myAru \in Nat
        /\ s[e].highest \in Nat
    BY <2>1 DEF Sound, Typed
  <2>3. AruSeen(s[e]) \in Nat
    BY <2>2 DEF AruSeen, Token
  <2>4. s[e].myAru <= s[e].highest /\ s[e].highest <= Len(o) /\ Len(o) \in Nat
    BY <2>1 DEF Sound, InWindow
  <2> QED
    BY <2>1, <2>2, <2>3, <2>4
<1>a. \A e \in Daemons : s[S].aru <= s[e].aru
  <2> TAKE e \in Daemons
  <2>1. Age(h, e) <= Age(h, S)
    BY AgeIs
  <2> QED
    BY <2>1, <1>g DEF Arus
<1>1. Good(s2, o2, k2, n2)
  <2>1. ASSUME NEW e \in Daemons
        PROVE  Sound(s2[e], o2) /\ s2[e].exits = {} /\ s2[e].lastToken.rtr = {}
    <3>1. CASE e = S
      BY <1>g, <1>h, <1>k, <1>q, <3>1 DEF Good
    <3>2. CASE e # S
      <4>1. Len(o2) <= s[e].lastDiscarded + NumSlots
        <5>1. /\ Len(o2) \in Nat /\ NumSlots \in Nat
              /\ s[S].lastDiscarded = s[S].aru /\ s[e].lastDiscarded = s[e].aru
              /\ s[S].aru \in Nat /\ s[e].aru \in Nat
          <6>1. Len(o2) \in Nat
            BY <1>q DEF Sound, InWindow
          <6> QED
            BY <6>1, <1>d, RingConstants
        <5> QED
          BY <1>a, <1>q, <5>1
      <4>2. Sound(s[e], o2)
        BY <1>d, <1>g, <1>q, <4>1, SoundLonger DEF Good
      <4> QED
        BY <1>g, <1>k, <3>2, <4>2 DEF Good
    <3> QED
      BY <3>1, <3>2
  <2>2. DOMAIN s2 = Daemons
    BY <1>g DEF Good
  <2>3. DOMAIN w = Daemons /\ \A e \in Daemons : w[e] \subseteq Token
    BY <1>g DEF Good
  <2>4. DOMAIN k2 = Daemons /\ \A e \in Daemons : k2[e] \subseteq Token
    <3>1. CASE k2 = w
      BY <2>3, <3>1
    <3>2. CASE k2 = SendToken(w, S, out)
      <4>1. DOMAIN k2 = Daemons
        BY <2>3, <3>2 DEF SendToken
      <4>2. ASSUME NEW e \in Daemons PROVE k2[e] \subseteq w[e] \cup {out}
        BY <2>3, <3>2 DEF SendToken
      <4> QED
        BY <2>3, <4>1, <4>2, <1>o
    <3> QED
      BY <3>1, <3>2
  <2>5. ASSUME NEW e \in Daemons, NEW p \in n2[e] PROVE Numbered(p, o2)
    <3>1. CASE p \in Range(new)
      BY <1>q, <3>1
    <3>2. CASE p \in n[e] \cup answer
      <4>1. Numbered(p, o)
        BY <1>g, <1>q, <3>2 DEF Good
      <4> QED
        BY <4>1, <1>g, <1>q, NumberedLater DEF Good
    <3> QED
      BY <3>1, <3>2
  <2> QED
    BY <1>q, <2>1, <2>2, <2>4, <2>5 DEF Good
<1>2. Arqs(S, s2)
  <2>1. PICK a : a = s[Leader].lastToken.arq
    OBVIOUS
  <2>2. a \in 0..(ArqMod - 1) /\ Up(Dn(a)) = a /\ Dn(Up(a)) = a
    <3>1. a \in 0..(ArqMod - 1)
      BY <1>d, <2>1, RingConstants DEF Token
    <3> QED
      BY <3>1, UpDown
  <2>3. \A e \in Daemons : e # Leader => s[e].lastToken.arq = IF e <= h THEN a ELSE Dn(a)
    BY <1>g, <2>1 DEF Arqs
  <2>4. PICK m : m = NumDaemons
    OBVIOUS
  <2>5. m \in Nat /\ m >= 2 /\ h \in 1..m /\ S \in 1..m /\ Daemons = 1..m
        /\ S = (IF h = m THEN 1 ELSE h + 1)
    BY <2>4, SuccIs, RingConstants
  <2>6. CASE S = Leader
    <3>1. t.arq = a /\ q.lastToken.arq = Up(a)
      BY <1>h, <1>o, <2>1, <2>2, <2>6 DEF Seen
    <3>2. s2[Leader].lastToken.arq = Up(a)
      BY <1>k, <2>6, <3>1
    <3>3. ASSUME NEW e \in Daemons, e # Leader PROVE s2[e].lastToken.arq = a /\ ~(e <= S)
      <4>1. h = m
        BY <2>5, <2>6 DEF Leader
      <4>2. s[e].lastToken.arq = a
        BY <2>3, <2>5, <3>3, <4>1
      <4>3. s2[e] = s[e]
        BY <1>k, <2>6, <3>3
      <4> QED
        BY <2>5, <2>6, <3>3, <4>2, <4>3 DEF Leader
    <3> QED
      BY <2>2, <3>2, <3>3 DEF Arqs
  <2>7. CASE S # Leader
    <3>1. S = h + 1 /\ h # m
      BY <2>5, <2>7 DEF Leader
    <3>2. s[S].lastToken.arq = Dn(a)
      BY <2>3, <2>5, <2>7, <3>1
    <3>3. q.lastToken.arq = a
      BY <1>h, <1>o, <2>2, <2>7, <3>2 DEF Seen
    <3>4. s2[Leader].lastToken.arq = a
      BY <1>k, <2>1, <2>7, RingConstants
    <3>5. ASSUME NEW e \in Daemons, e # Leader
          PROVE  s2[e].lastToken.arq = IF e <= S THEN a ELSE Dn(a)
      <4>1. CASE e = S
        <5>1. e <= S
          BY <2>5, <4>1
        <5> QED
          BY <1>k, <3>3, <4>1, <5>1
      <4>2. CASE e # S
        <5>1. s2[e] = s[e] /\ (e <= S <=> e <= h)
          BY <1>k, <2>5, <3>1, <4>2
        <5> QED
          BY <2>3, <3>5, <5>1
      <4> QED
        BY <4>1, <4>2
    <3> QED
      BY <3>4, <3>5 DEF Arqs
  <2> QED
    BY <2>6, <2>7
<1>s. AruSeen(q) = out.aru /\ \A e \in Daemons : e # S => AruSeen(s2[e]) = AruSeen(s[e])
  BY <1>k, <1>q, <1>h DEF AruSeen
<1>n. out.aru \in Nat /\ q.myAru \in Nat /\ t.aru \in Nat /\ q.aru \in Nat
      /\ t.aruLast \in Daemons /\ out.aruLast \in Daemons /\ out.aru <= q.myAru
  <2>1. out.aru \in Nat /\ q.myAru \in Nat /\ t.aru \in Nat /\ q.aru \in Nat
        /\ t.aruLast \in Daemons /\ out.aruLast \in Daemons
    BY <1>o, <1>t, <1>q DEF Token, Sound, Typed
  <2>2. out.aru <= q.myAru
    BY <2>1, <1>o DEF TakesAru
  <2> QED
    BY <2>1, <2>2
<1>3. Seqs(S, s2, o2)
  <2>1. s2[S].lastToken.seq = Len(o2)
    BY <1>h, <1>k, <1>o
  <2>2. ASSUME NEW e \in Daemons
        PROVE  AruSeen(s2[e]) <= s2[e].myAru /\ s2[e].lastDiscarded = s2[e].aru
    <3>1. CASE e = S
      BY <1>k, <1>n, <1>q, <1>s, <3>1
    <3>2. CASE e # S
      BY <1>d, <1>k, <1>s, <3>2
    <3> QED
      BY <3>1, <3>2
  <2> QED
    BY <2>1, <2>2 DEF Seqs
<1>r. q.aru = Smaller(out.aru, AruSeen(s[S]))
  <2>1. [s[S].lastToken EXCEPT !.aru = AruSeen(s[S])].aru = AruSeen(s[S])
    BY <1>d DEF Token
  <2>2. AruSeen(s[S]) \in Nat
    BY <1>d
  <2> QED
    BY <1>n, <1>q, <2>1, <2>2 DEF AruOf, Smaller
<1>4. Arus(S, s2)
  <2> DEFINE A == [e \in Daemons |-> AruSeen(s[e])]
             R == [e \in Daemons |-> s[e].aru]
             B == [e \in Daemons |-> AruSeen(s2[e])]
             C == [e \in Daemons |-> s2[e].aru]
  <2>1. ArusOf(h, A, R, t.aru, t.aruLast)
    BY <1>g, <1>t, ArusAre
  <2>2. A \in [Daemons -> Nat] /\ R \in [Daemons -> Nat]
    BY <1>d
  <2>3. /\ B[S] = out.aru /\ C[S] = q.aru /\ A[S] = AruSeen(s[S])
        /\ \A e \in Daemons : e # S => B[e] = A[e] /\ C[e] = R[e]
    BY <1>k, <1>s
  <2>4. B \in [Daemons -> Nat] /\ C \in [Daemons -> Nat]
    <3>1. \A e \in Daemons : AruSeen(s2[e]) \in Nat /\ s2[e].aru \in Nat
      BY <1>d, <1>k, <1>n, <1>s
    <3> QED
      BY <3>1
  <2>5. \A e \in Daemons : A[e] <= Len(o)
    BY <1>d
  <2> HIDE DEF A, R, B, C
  <2>6. C[S] = Smaller(B[S], A[S])
    BY <1>r, <2>3
  <2>7. \/ B[S] = t.aru /\ out.aruLast = t.aruLast
        \/ /\ out.aruLast = S /\ B[S] >= A[S]
           /\ B[S] <= t.aru \/ t.aruLast = S \/ \A e \in Daemons : A[e] <= t.aru
    <3>1. CASE TakesAru(S, q, t)
      <4>1. out.aruLast = S /\ B[S] = q.myAru
        BY <1>o, <2>3, <3>1
      <4>2. B[S] >= A[S]
        <5>1. /\ q.myAru \in Nat /\ q.myAru >= s[S].myAru /\ s[S].myAru \in Nat
              /\ AruSeen(s[S]) \in Nat /\ AruSeen(s[S]) <= s[S].myAru
          BY <1>d, <1>n, <1>q
        <5> QED
          BY <2>3, <4>1, <5>1
      <4>3. t.aru > q.myAru => B[S] <= t.aru
        BY <1>n, <4>1
      <4>4. t.aru = t.seq => \A e \in Daemons : A[e] <= t.aru
        BY <1>t, <2>5
      <4> QED
        BY <3>1, <4>1, <4>2, <4>3, <4>4 DEF TakesAru
    <3>2. CASE ~TakesAru(S, q, t)
      BY <1>o, <2>3, <3>2
    <3> QED
      BY <3>1, <3>2
  <2>8. ArusOf(S, B, C, B[S], out.aruLast)
    <3>1. NextArus(h, S, A, R, t.aru, t.aruLast, B, C, out.aruLast)
      BY <1>n, <2>1, <2>2, <2>3, <2>4, <2>6, <2>7 DEF NextArus
    <3> QED
      BY <3>1, ArusNext
  <2>9. s2[S].lastToken.aru = B[S] /\ s2[S].lastToken.aruLast = out.aruLast
    BY <1>h, <1>k, <2>3
  <2>10. ArusOf(S, [e \in Daemons |-> AruSeen(s2[e])], [e \in Daemons |-> s2[e].aru],
                s2[S].lastToken.aru, s2[S].lastToken.aruLast)
    BY <2>8, <2>9 DEF B, C
  <2> QED
    BY <2>10 DEF Arus, ArusOf
<1>5. Links(S, s2, k2)
  <2>1. PICK a : a = Seen(s, S)
    OBVIOUS
  <2>2. /\ a \in 0..(ArqMod - 1) /\ Dn(Up(a)) = a /\ Up(a) # a /\ Up(a) # Dn(a)
        /\ Up(a) \in 0..(ArqMod - 1)
    <3>1. \A e \in Daemons : s[e].lastToken \in Token
      BY <1>d
    <3>2. a \in 0..(ArqMod - 1)
      BY <1>g, <2>1, <3>1, Ahead
    <3> QED
      BY <3>2, UpDown
  <2>3. Seen(s2, S) = Up(a) /\ \A e \in Daemons : e # S => Seen(s2, e) = Seen(s, e)
    <3>1. s2[S].lastToken.arq = IF S = Leader THEN Up(Up(a)) ELSE Up(a)
      BY <1>h, <1>k, <1>o, <2>1
    <3>2. Dn(Up(Up(a))) = Up(a)
      BY <2>2, UpDown
    <3> QED
      BY <1>k, <3>1, <3>2 DEF Seen
  <2>4. Links(S, s2, w)
    <3>1. ASSUME NEW e \in Daemons PROVE Link(S, s2, e, w[e])
      <4>1. Link(h, s, e, k[e]) /\ w[e] \subseteq k[e]
        BY <1>g DEF Links, Good
      <4>2. CASE e = S
        <5>1. \A v \in k[S] : v.arq \in {Up(a), a}
          BY <2>1, <2>2, <4>1, <4>2 DEF Link
        <5> QED
          BY <2>2, <2>3, <4>1, <4>2, <5>1 DEF Link
      <4>3. CASE e # S
        <5>1. \A v \in k[e] : v.arq \in {Seen(s, e), Dn(Seen(s, e))}
          BY <4>1, <4>3 DEF Link
        <5> QED
          BY <2>3, <4>1, <4>3, <5>1 DEF Link
      <4> QED
        BY <4>2, <4>3
    <3> QED
      BY <3>1 DEF Links
  <2>5. CASE k2 = w
    BY <2>4, <2>5
  <2>6. CASE k2 = SendToken(w, S, out)
    <3>1. \A e \in Daemons : s2[e].lastToken \in Token
      BY <1>d, <1>h, <1>k
    <3>2. DOMAIN w = Daemons
      BY <1>g DEF Good
    <3>3. out.arq = s2[S].lastToken.arq
      BY <1>h, <1>k
    <3>4. Copy(S, s2, out)
      <4>1. ASSUME NEW i \in out.rtr, NEW e \in Daemons PROVE s2[e].aru < i
        <5>1. s2[e].aru <= AruSeen(s2[S])
          BY <1>4 DEF Arus
        <5>2. s2[e].aru \in Nat /\ i \in Nat /\ i > q.myAru
          BY <1>d, <1>k, <1>n, <1>o DEF Token
        <5> QED
          BY <1>k, <1>n, <1>s, <5>1, <5>2
      <4> QED
        BY <1>h, <1>k, <4>1 DEF Copy
    <3> QED
      BY <1>2, <1>o, <2>4, <2>6, <3>1, <3>2, <3>3, <3>4, LinksSent
  <2> QED
    BY <2>5, <2>6
<1> QED
  BY <1>1, <1>2, <1>3, <1>4, <1>5 DEF Ring

-----------------------------------------------------------------------------
(* The invariant of the ring.                                              *)

IInv == \E h \in Daemons : Ring(h, st, order, tokens, net)

\* At first it is as if the last member had handed the leader its token.
LEMMA RingInit ==
  ASSUME Init
  PROVE  IInv
<1> DEFINE T == [arq |-> 0, retrans |-> 0, seq |-> 0, aru |-> OldAru, aruLast |-> Leader,
                 fc |-> 0, rtrTo |-> Everyone, rtr |-> {}]
           h == NumDaemons
<1>c. /\ h \in Daemons /\ h \in Nat /\ 0 \in 0..(ArqMod - 1) /\ OldAru \in Nat
      /\ NumSlots \in Nat /\ Leader \in Daemons /\ Leader = 1 /\ Daemons = 1..h /\ h >= 2
  BY RingConstants
<1>1. T \in Token
  <2>1. Everyone \in 0..NumDaemons /\ IsFiniteSet({}) /\ {} \in SUBSET Nat
    BY <1>c, FS_EmptySet DEF Everyone
  <2>2. T \in [arq : 0..(ArqMod - 1), retrans : Nat, seq : Nat, aru : Nat, aruLast : Daemons,
               fc : Int, rtrTo : 0..NumDaemons, rtr : SUBSET Nat]
    BY <1>c, <2>1
  <2> QED
    BY <2>1, <2>2 DEF Token
<1>2. DOMAIN st = Daemons /\ order = <<>> /\ net = [d \in Daemons |-> {}]
      /\ tokens = [d \in Daemons |-> IF d = Leader THEN {T} ELSE {}]
  BY DEF Init
<1>3. \A d \in Daemons : st[d] =
       [highest |-> 0, myAru |-> 0, aru |-> 0, lastDiscarded |-> 0,
        lastDelivered |-> 0, packets |-> [x \in 0..(NumSlots - 1) |-> Empty],
        down |-> Waiting[d], late |-> Late[d], handed |-> <<>>, tokenCounter |-> 0,
        lastRetrans |-> 0, lastSent |-> 0, justInstalled |-> TRUE, exits |-> {},
        lastToken |-> T]
  BY DEF Init
<1> HIDE DEF T
<1>4. ASSUME NEW d \in Daemons
      PROVE  /\ DOMAIN st[d] = Globals
             /\ st[d].highest = 0 /\ st[d].myAru = 0 /\ st[d].aru = 0
             /\ st[d].lastDiscarded = 0 /\ st[d].lastDelivered = 0
             /\ st[d].packets = [x \in Slots |-> Empty] /\ st[d].down = Waiting[d]
             /\ st[d].lastRetrans = 0 /\ st[d].lastSent = 0 /\ st[d].justInstalled = TRUE
             /\ st[d].exits = {} /\ st[d].lastToken = T
  <2>1. PICK P : P = [x \in Slots |-> Empty]
    OBVIOUS
  <2>2. PICK D, L : D = Waiting[d] /\ L = Late[d]
    OBVIOUS
  <2>3. st[d] =
         [highest |-> 0, myAru |-> 0, aru |-> 0, lastDiscarded |-> 0,
          lastDelivered |-> 0, packets |-> P, down |-> D, late |-> L, handed |-> <<>>,
          tokenCounter |-> 0, lastRetrans |-> 0, lastSent |-> 0, justInstalled |-> TRUE,
          exits |-> {}, lastToken |-> T]
    BY <1>3, <2>1, <2>2 DEF Slots
  <2>4. DOMAIN st[d] = Globals
    BY <2>3 DEF Globals
  <2>5. /\ st[d].highest = 0 /\ st[d].myAru = 0 /\ st[d].aru = 0
        /\ st[d].lastDiscarded = 0 /\ st[d].lastDelivered = 0
        /\ st[d].packets = P /\ st[d].down = D
        /\ st[d].lastRetrans = 0 /\ st[d].lastSent = 0 /\ st[d].justInstalled = TRUE
        /\ st[d].exits = {} /\ st[d].lastToken = T
    BY <2>3
  <2> QED
    BY <2>1, <2>2, <2>4, <2>5
<1>5. ASSUME NEW d \in Daemons PROVE Sound(st[d], order)
  <2>1. Empty \in Entries /\ Empty.exist = 0
    BY DEF Empty, Entries
  <2>2. Waiting[d] \in Seq(Services)
    BY SpreadRingAssumption
  <2>3. PICK r : r = st[d]
    OBVIOUS
  <2>4. /\ DOMAIN r = Globals
        /\ r.highest = 0 /\ r.myAru = 0 /\ r.aru = 0
        /\ r.lastDiscarded = 0 /\ r.lastDelivered = 0
        /\ r.packets = [x \in Slots |-> Empty] /\ r.down = Waiting[d]
        /\ r.lastRetrans = 0 /\ r.lastSent = 0 /\ r.justInstalled = TRUE
        /\ r.lastToken = T
    BY <1>4, <2>3
  <2>5. r.packets \in [Slots -> Entries] /\ \A x \in Slots : r.packets[x].exist = 0
    BY <2>1, <2>4
  <2>6. Typed(r)
    <3>1. r.lastToken \in Token /\ r.down \in Seq(Services)
      BY <1>1, <2>2, <2>4
    <3>2. r.justInstalled \in BOOLEAN
      BY <2>4
    <3>3. /\ r.highest \in Nat /\ r.myAru \in Nat /\ r.aru \in Nat
          /\ r.lastDiscarded \in Nat /\ r.lastDelivered \in Nat
          /\ r.lastRetrans \in Nat /\ r.lastSent \in Nat
      BY <2>4
    <3> QED
      BY <2>4, <2>5, <3>1, <3>2, <3>3 DEF Typed
  <2>7. Len(order) = 0
    BY <1>2
  <2>8. InWindow(r, order)
    BY <1>c, <2>4, <2>7 DEF InWindow
  <2>9. Holding(r, order)
    BY <2>5 DEF Holding
  <2>10. NoHole(r)
    BY <2>4 DEF NoHole
  <2>11. Sound(r, order)
    <3>1. Early(r)
      BY <2>5 DEF Early
    <3> QED
      BY <3>1, <2>6, <2>8, <2>9, <2>10 DEF Sound
  <2> QED
    BY <2>3, <2>11
<1>6. T.rtr = {} /\ T.arq = 0 /\ T.seq = 0 /\ T.aru = OldAru /\ T.aruLast = Leader
  BY DEF T
<1>7. Good(st, order, tokens, net)
  <2>1. order \in Seq(Packet)
    BY <1>2
  <2> QED
    BY <1>1, <1>2, <1>4, <1>5, <1>6, <2>1 DEF Good
<1>8. Arqs(h, st)
  <2>1. \A d \in Daemons : st[d].lastToken.arq = 0 /\ d <= h
    <3> TAKE d \in Daemons
    <3>1. st[d].lastToken = T
      BY <1>4
    <3>2. d <= h
      BY <1>c
    <3> QED
      BY <1>6, <3>1, <3>2
  <2> QED
    BY <2>1, <1>c DEF Arqs
<1>9. Seqs(h, st, order)
  <2>1. Len(order) = 0
    BY <1>2
  <2> QED
    <3>1. ASSUME NEW d \in Daemons
          PROVE  AruSeen(st[d]) = 0 /\ st[d].myAru = 0 /\ st[d].lastDiscarded = 0 /\ st[d].aru = 0
      BY <1>4 DEF AruSeen
    <3>2. st[h].lastToken.seq = 0
      BY <1>4, <1>c, <1>6
    <3> QED
      BY <2>1, <3>1, <3>2 DEF Seqs
<1>10. Arus(h, st)
  <2>1. \A d \in Daemons : AruSeen(st[d]) = 0 /\ st[d].aru = 0
    BY <1>4 DEF AruSeen
  <2>2. st[h].lastToken.aru = OldAru
    BY <1>4, <1>c, <1>6
  <2> QED
    BY <1>c, <2>1, <2>2 DEF Arus, Smaller
<1>11. Links(h, st, tokens)
  <2>1. ASSUME NEW d \in Daemons PROVE Link(h, st, d, tokens[d])
    <3>1. CASE d = Leader
      <4>1. tokens[d] = {T}
        BY <1>2, <3>1
      <4>2. d = Succ(h)
        BY <1>c, <3>1, SuccIs
      <4>3. T.arq = Up(Seen(st, d))
        <5>1. Seen(st, d) = Dn(0) /\ Up(Dn(0)) = 0
          BY <1>4, <1>6, <1>c, <3>1, UpDown DEF Seen
        <5> QED
          BY <1>6, <5>1
      <4>4. Copy(h, st, T)
        BY <1>4, <1>6, <1>c DEF Copy
      <4> QED
        BY <4>1, <4>2, <4>3, <4>4 DEF Link
    <3>2. CASE d # Leader
      <4>1. tokens[d] = {}
        BY <1>2, <3>2
      <4> QED
        BY <4>1 DEF Link
    <3> QED
      BY <3>1, <3>2
  <2> QED
    BY <2>1 DEF Links
<1>12. Ring(h, st, order, tokens, net)
  BY <1>7, <1>8, <1>9, <1>10, <1>11 DEF Ring
<1> QED
  BY <1>12, <1>c DEF IInv

\* Prot_handle_token: only the daemon after h finds its token new.
LEMMA RingTakeToken ==
  ASSUME SlotsSuffice, NEW h \in Daemons, Ring(h, st, order, tokens, net),
         NEW d \in Daemons, NEW t \in tokens[d], TakeToken(d, t)
  PROVE  Ring(d, st', order', tokens', net') /\ Served(st, order, st', order')
<1>g. Good(st, order, tokens, net) /\ Arqs(h, st) /\ Links(h, st, tokens)
      /\ Seqs(h, st, order) /\ Arus(h, st)
  BY DEF Ring
<1>d. \A e \in Daemons : /\ st[e].lastToken \in Token /\ st[e].aru \in Nat
                         /\ Sound(st[e], order) /\ AruSeen(st[e]) \in Nat
  BY Zenon, <1>g DEF Good, Sound, Typed, AruSeen, Token
<1>1. PICK a : a = Seen(st, d)
  OBVIOUS
<1>2. t.arq = Up(a) /\ Up(a) # a /\ Up(a) # Dn(a)
  <2>1. st[d].lastToken.arq \in 0..(ArqMod - 1)
    BY <1>d DEF Token
  <2>2. CASE d = Leader
    <3>1. t.arq = st[d].lastToken.arq /\ a = Dn(st[d].lastToken.arq)
      BY <1>1, <2>2 DEF TakeToken, IsNew, Seen
    <3>2. a \in 0..(ArqMod - 1) /\ Up(a) = st[d].lastToken.arq
      BY <2>1, <3>1, UpDown
    <3> QED
      BY <3>1, <3>2, UpDown
  <2>3. CASE d # Leader
    <3>1. t.arq = Up(st[d].lastToken.arq) /\ a = st[d].lastToken.arq
      BY <1>1, <2>3 DEF TakeToken, IsNew, Seen, Up
    <3> QED
      BY <2>1, <3>1, UpDown
  <2> QED
    BY <2>2, <2>3
<1>3. d = Succ(h) /\ Copy(h, st, t)
  <2>1. Link(h, st, d, tokens[d])
    BY <1>g DEF Links
  <2> QED
    BY <1>1, <1>2, <2>1 DEF Link
<1>4. t \in Token /\ order \in Seq(Packet)
  BY <1>g DEF Good
<1>5. t.seq = Len(order) /\ \A s \in t.rtr : st[d].aru < s
  BY <1>3, <1>g DEF Copy, Seqs
<1>6. /\ st[d].lastDiscarded = st[d].aru /\ AruSeen(st[d]) <= st[d].myAru
      /\ st[d].aru <= AruSeen(st[d])
  BY <1>g DEF Seqs, Arus
<1>7. st[d].aru <= t.aru
  <2>1. st[d].aru <= AruSeen(st[h])
    BY <1>g DEF Arus
  <2>2. t.aru = st[h].lastToken.aru /\ t.aru \in Nat
    BY <1>3, <1>4 DEF Copy, Token
  <2>3. AruSeen(st[h]) <= t.aru
    BY <2>2 DEF AruSeen
  <2> QED
    BY <1>d, <2>1, <2>2, <2>3
<1>8. PICK new, q, out, answer :
           /\ Taken(d, st[d], t, order, new, q, out, answer)
           /\ st' = [st EXCEPT ![d] = q] /\ order' = order \o new
           /\ net' = Sent(d, t.rtrTo, answer, new)
           /\ tokens' \in {Without(d, t), SendToken(Without(d, t), d, out)}
  BY <1>4, <1>5, <1>6, <1>7, <1>d, TakeTokenDoes
<1>9. PICK w : w = Without(d, t)
  OBVIOUS
<1>10. w = [tokens EXCEPT ![d] = @ \ {t}] /\ tokens' \in {w, SendToken(w, d, out)}
  BY <1>8, <1>9 DEF Without
<1>11. DOMAIN net' = Daemons
       /\ \A e \in Daemons : net'[e] \subseteq net[e] \cup answer \cup Range(new)
  BY <1>8 DEF Sent
<1>12. t.arq = Up(Seen(st, d))
  BY <1>1, <1>2
<1> QED
  <2>1. Turn(h, d, t, new, q, out, answer, w, st, order, tokens, net, st', order', tokens', net')
    BY <1>3, <1>8, <1>10, <1>11, <1>12, Zenon DEF Turn
  <2>2. ServesOne(d, q, new, st, order, st', order')
    BY <1>8 DEF Taken, ServesOne
  <2>3. Served(st, order, st', order')
    BY <2>2 DEF Served
  <2> QED
    BY <2>1, <2>3, RingTaken

-----------------------------------------------------------------------------
(* The other steps.                                                        *)

\* Prot_token_hurry.
LEMMA RingHurry ==
  ASSUME NEW h \in Daemons, Ring(h, st, order, tokens, net),
         NEW d \in Daemons, NEW r, Kept(r, st[d], order),
         NEW tok, DOMAIN tok = Daemons, \A e \in Daemons : tok[e] \subseteq tokens[e],
         Hurry(tok, d, r), UNCHANGED <<order, net>>
  PROVE  Ring(h, st', order', tokens', net') /\ Served(st, order, st', order')
<1>g. Good(st, order, tokens, net)
  BY DEF Ring
<1>1. Sound(st[d], order) /\ DOMAIN st = Daemons /\ DOMAIN net = Daemons
  BY <1>g DEF Good
<1>2. PICK q : /\ Kept(q, st[d], order) /\ st' = [st EXCEPT ![d] = q]
               /\ tokens' = SendToken(tok, d, q.lastToken)
  BY <1>1, HurryDoes
<1>3. PICK s2 : s2 = st'
  OBVIOUS
<1>4. Ring(h, s2, order, tokens, net)
  BY <1>2, <1>3, PlacesKept
<1>5. Ring(h, s2, order, tok, net)
  BY <1>1, <1>4, FewerOnTheWay
<1>6. s2[d].lastToken = q.lastToken
  BY <1>1, <1>2, <1>3
<1>7. PICK k2 : k2 = SendToken(tok, d, s2[d].lastToken)
  OBVIOUS
<1>8. Ring(h, s2, order, k2, net)
  BY <1>5, <1>7, TokenSentAgain
<1>9. Served(st, order, s2, order)
  BY <1>g, <1>2, <1>3, KeptServes DEF Good
<1> QED
  BY <1>2, <1>3, <1>6, <1>7, <1>8, <1>9

LEMMA RingHandleToken ==
  ASSUME SlotsSuffice, NEW h \in Daemons, Ring(h, st, order, tokens, net),
         NEW d \in Daemons, HandleToken(d)
  PROVE  IInv' /\ Served(st, order, st', order')
<1>g. Good(st, order, tokens, net)
  BY DEF Ring
<1>1. PICK t \in tokens[d] : TakeToken(d, t) \/ RepeatToken(d, t) \/ Swallow(d, t)
  BY DEF HandleToken
<1>2. PICK w : w = Without(d, t)
  OBVIOUS
<1>3. DOMAIN w = Daemons /\ \A e \in Daemons : w[e] \subseteq tokens[e]
  BY <1>2, <1>g DEF Good, Without
<1>4. CASE TakeToken(d, t)
  <2>1. Ring(d, st', order', tokens', net') /\ Served(st, order, st', order')
    BY <1>4, RingTakeToken
  <2> QED
    BY <2>1 DEF IInv
<1>5. CASE RepeatToken(d, t)
  <2>1. PICK r : r = [st[d] EXCEPT !.lastToken.retrans = t.retrans]
    OBVIOUS
  <2>2. Hurry(w, d, r) /\ UNCHANGED <<order, net>>
    BY <1>2, <1>5, <2>1 DEF RepeatToken
  <2>3. Sound(st[d], order) /\ Typed(st[d]) /\ st[d].lastToken \in Token /\ t.retrans \in Nat
    BY <1>g DEF Good, Sound, Typed, Token
  <2>4. PICK u : u = [st[d].lastToken EXCEPT !.retrans = t.retrans]
    OBVIOUS
  <2>5. u \in Token /\ SameToken(u, st[d].lastToken)
    BY <2>3, <2>4, TokenRetrans
  <2>6. DOMAIN r = Globals /\ SameBut(r, st[d], {"lastToken"}) /\ r.lastToken = u
    BY <2>1, <2>3, <2>4 DEF Typed, SameBut, Globals
  <2>7. Typed(r)
    BY <2>3, <2>5, <2>6 DEF Typed, SameBut, Globals
  <2>8. Kept(r, st[d], order)
    <3>1. SameBut(r, st[d], {"down", "late", "tokenCounter", "lastToken"})
      BY <2>6 DEF SameBut
    <3> QED
      BY <2>3, <2>5, <2>6, <2>7, <3>1, KeptSame
  <2>9. Ring(h, st', order', tokens', net') /\ Served(st, order, st', order')
    BY <1>3, <2>2, <2>8, RingHurry
  <2> QED
    BY <2>9 DEF IInv
<1>6. CASE Swallow(d, t)
  <2>1. tokens' = w /\ UNCHANGED <<st, order, net>>
    BY <1>2, <1>6 DEF Swallow
  <2>2. DOMAIN net = Daemons
    BY <1>g DEF Good
  <2>3. Ring(h, st, order, w, net)
    BY <1>3, <2>2, FewerOnTheWay
  <2> QED
    BY <2>1, <2>3 DEF IInv, Served
<1> QED
  BY <1>1, <1>4, <1>5, <1>6

LEMMA RingHandleBcast ==
  ASSUME NEW h \in Daemons, Ring(h, st, order, tokens, net), NEW d \in Daemons, HandleBcast(d)
  PROVE  IInv' /\ Served(st, order, st', order')
<1>g. Good(st, order, tokens, net)
  BY DEF Ring
<1>1. /\ Sound(st[d], order) /\ \A p \in net[d] : Numbered(p, order)
      /\ DOMAIN net = Daemons /\ DOMAIN tokens = Daemons
  BY <1>g DEF Good
<1>2. /\ st' = st \/ \E q : Kept(q, st[d], order) /\ st' = [st EXCEPT ![d] = q]
      /\ \E p \in net[d] : net' = [net EXCEPT ![d] = @ \ {p}]
      /\ UNCHANGED <<order, tokens>>
  BY <1>1, BcastDoes
<1>3. PICK s2 : s2 = st'
  OBVIOUS
<1>4. Ring(h, s2, order, tokens, net) /\ Served(st, order, s2, order)
  <2>1. CASE st' = st
    BY <1>3, <2>1 DEF Served
  <2>2. CASE \E q : Kept(q, st[d], order) /\ st' = [st EXCEPT ![d] = q]
    <3>1. PICK q : Kept(q, st[d], order) /\ s2 = [st EXCEPT ![d] = q]
      BY <1>3, <2>2
    <3>2. Served(st, order, s2, order)
      BY <1>g, <3>1, KeptServes DEF Good
    <3> QED
      BY <3>1, <3>2, PlacesKept
  <2> QED
    BY <1>2, <2>1, <2>2
<1>5. PICK n2 : n2 = net'
  OBVIOUS
<1>6. DOMAIN n2 = Daemons /\ \A e \in Daemons : n2[e] \subseteq net[e]
  BY <1>1, <1>2, <1>5
<1>7. Ring(h, s2, order, tokens, n2)
  BY <1>1, <1>4, <1>6, FewerOnTheWay
<1> QED
  BY <1>2, <1>3, <1>4, <1>5, <1>7 DEF IInv

\* What a client's message, or the holding of the token, changes of a daemon.
LEMMA QueueKept ==
  ASSUME NEW r, NEW o, Sound(r, o), NEW q, DOMAIN q = Globals,
         SameBut(q, r, {"down", "late", "tokenCounter"}), q.down \in Seq(Services)
  PROVE  Kept(q, r, o)
<1>t. Typed(r)
  BY DEF Sound
<1>1. Typed(q) /\ q.lastToken = r.lastToken
  BY <1>t DEF Typed, SameBut, Globals
<1>2. SameToken(q.lastToken, r.lastToken)
  BY <1>1 DEF SameToken
<1>3. SameBut(q, r, {"down", "late", "tokenCounter", "lastToken"})
  BY DEF SameBut
<1> QED
  BY <1>1, <1>2, <1>3, KeptSame

LEMMA RingNewMessage ==
  ASSUME NEW h \in Daemons, Ring(h, st, order, tokens, net), NEW d \in Daemons, NewMessage(d)
  PROVE  IInv' /\ Served(st, order, st', order')
<1>g. Good(st, order, tokens, net)
  BY DEF Ring
<1>1. Sound(st[d], order) /\ Typed(st[d]) /\ DOMAIN st[d] = Globals /\ DOMAIN tokens = Daemons
      /\ st[d].down \in Seq(Services)
  BY <1>g DEF Good, Sound, Typed
<1>2. PICK svc \in LateServices : \E r : 
        /\ r = [st[d] EXCEPT !.down = Append(@, svc), !.late = @ - 1]
        /\ \/ Hurry(tokens, d, [r EXCEPT !.tokenCounter = 0])
           \/ st' = [st EXCEPT ![d] = r] /\ UNCHANGED tokens
        /\ UNCHANGED <<order, net>>
  BY Zenon DEF NewMessage
<1>3. PICK r :
        /\ r = [st[d] EXCEPT !.down = Append(@, svc), !.late = @ - 1]
        /\ \/ Hurry(tokens, d, [r EXCEPT !.tokenCounter = 0])
           \/ st' = [st EXCEPT ![d] = r] /\ UNCHANGED tokens
        /\ UNCHANGED <<order, net>>
  BY <1>2
<1>4. svc \in Services
  BY SpreadRingAssumption
<1>5. DOMAIN r = Globals /\ SameBut(r, st[d], {"down", "late"}) /\ r.down = Append(st[d].down, svc)
  BY <1>1, <1>3 DEF SameBut, Globals
<1>6. r.down \in Seq(Services)
  BY <1>1, <1>4, <1>5
<1>7. CASE Hurry(tokens, d, [r EXCEPT !.tokenCounter = 0])
  <2>1. PICK q : q = [r EXCEPT !.tokenCounter = 0]
    OBVIOUS
  <2>2. DOMAIN q = Globals /\ SameBut(q, r, {"tokenCounter"})
    BY <1>5, <2>1 DEF SameBut, Globals
  <2>3. SameBut(q, st[d], {"down", "late", "tokenCounter"}) /\ q.down = r.down
    BY <1>5, <2>2 DEF SameBut, Globals
  <2>4. Kept(q, st[d], order)
    BY <1>1, <1>6, <2>2, <2>3, QueueKept
  <2>5. Ring(h, st', order', tokens', net') /\ Served(st, order, st', order')
    BY <1>1, <1>3, <1>7, <2>1, <2>4, RingHurry
  <2> QED
    BY <2>5 DEF IInv
<1>8. CASE st' = [st EXCEPT ![d] = r] /\ UNCHANGED tokens
  <2>1. SameBut(r, st[d], {"down", "late", "tokenCounter"})
    BY <1>5 DEF SameBut
  <2>2. Kept(r, st[d], order)
    BY <1>1, <1>5, <1>6, <2>1, QueueKept
  <2>3. PICK s2 : s2 = st'
    OBVIOUS
  <2>4. Ring(h, s2, order, tokens, net)
    BY <1>8, <2>2, <2>3, PlacesKept
  <2>5. Served(st, order, s2, order)
    BY <1>g, <1>8, <2>2, <2>3, KeptServes DEF Good
  <2> QED
    BY <1>3, <1>8, <2>3, <2>4, <2>5 DEF IInv
<1> QED
  BY <1>3, <1>7, <1>8

LEMMA RingLeader ==
  ASSUME NEW h \in Daemons, Ring(h, st, order, tokens, net), HandleHurry \/ HurryTimeout
  PROVE  IInv' /\ Served(st, order, st', order')
<1>g. Good(st, order, tokens, net) /\ Leader \in Daemons
  BY RingConstants DEF Ring
<1>1. /\ Sound(st[Leader], order) /\ Typed(st[Leader]) /\ DOMAIN tokens = Daemons
  BY <1>g DEF Good, Sound
<1>2. PICK q : q = [st[Leader] EXCEPT !.tokenCounter = 0]
  OBVIOUS
<1>3. Kept(q, st[Leader], order)
  <2>1. DOMAIN q = Globals /\ SameBut(q, st[Leader], {"tokenCounter"})
    BY <1>1, <1>2 DEF Typed, SameBut, Globals
  <2>2. SameBut(q, st[Leader], {"down", "late", "tokenCounter"})
    BY <2>1 DEF SameBut
  <2>3. q.down \in Seq(Services)
    BY <1>1, <2>1 DEF Typed, SameBut, Globals
  <2> QED
    BY <1>1, <2>1, <2>2, <2>3, QueueKept
<1>4. Kept(st[Leader], st[Leader], order)
  BY <1>1, KeptItself
<1>5. \/ Hurry(tokens, Leader, q) \/ Hurry(tokens, Leader, st[Leader])
      \/ UNCHANGED <<st, tokens>>
  BY <1>2 DEF HandleHurry, HurryTimeout
<1>6. UNCHANGED <<order, net>>
  BY DEF HandleHurry, HurryTimeout
<1>7. CASE Hurry(tokens, Leader, q)
  <2>1. Ring(h, st', order', tokens', net') /\ Served(st, order, st', order')
    BY <1>g, <1>1, <1>3, <1>6, <1>7, RingHurry
  <2> QED
    BY <2>1 DEF IInv
<1>8. CASE Hurry(tokens, Leader, st[Leader])
  <2>1. Ring(h, st', order', tokens', net') /\ Served(st, order, st', order')
    BY <1>g, <1>1, <1>4, <1>6, <1>8, RingHurry
  <2> QED
    BY <2>1 DEF IInv
<1>9. CASE UNCHANGED <<st, tokens>>
  BY <1>6, <1>9 DEF IInv, Served
<1> QED
  BY <1>5, <1>7, <1>8, <1>9

LEMMA RingLose ==
  ASSUME NEW h \in Daemons, Ring(h, st, order, tokens, net), Lose
  PROVE  IInv' /\ Served(st, order, st', order')
<1>g. DOMAIN net = Daemons /\ DOMAIN tokens = Daemons
  BY DEF Ring, Good
<1>1. UNCHANGED <<st, order>>
  BY DEF Lose
<1>2. PICK k2 : k2 = tokens'
  OBVIOUS
<1>3. PICK n2 : n2 = net'
  OBVIOUS
<1>4. /\ DOMAIN k2 = Daemons /\ \A e \in Daemons : k2[e] \subseteq tokens[e]
      /\ DOMAIN n2 = Daemons /\ \A e \in Daemons : n2[e] \subseteq net[e]
  BY <1>g, <1>2, <1>3 DEF Lose, Without
<1>5. Ring(h, st, order, k2, n2)
  BY <1>4, FewerOnTheWay
<1> QED
  BY <1>1, <1>2, <1>3, <1>5 DEF IInv, Served

\* Every step preserves the invariant, and serves the clients of one daemon at most.
LEMMA RingNext ==
  ASSUME SlotsSuffice, IInv, [Next]_vars
  PROVE  IInv' /\ Served(st, order, st', order')
<1>1. PICK h \in Daemons : Ring(h, st, order, tokens, net)
  BY DEF IInv
<1>2. CASE UNCHANGED vars
  BY <1>1, <1>2 DEF IInv, vars, Served
<1>3. ASSUME NEW d \in Daemons, HandleToken(d) PROVE IInv' /\ Served(st, order, st', order')
  BY <1>1, <1>3, RingHandleToken
<1>4. ASSUME NEW d \in Daemons, HandleBcast(d) PROVE IInv' /\ Served(st, order, st', order')
  BY <1>1, <1>4, RingHandleBcast
<1>5. ASSUME NEW d \in Daemons, NewMessage(d) PROVE IInv' /\ Served(st, order, st', order')
  BY <1>1, <1>5, RingNewMessage
<1>6. CASE HandleHurry \/ HurryTimeout
  BY <1>1, <1>6, RingLeader
<1>7. CASE Lose
  BY <1>1, <1>7, RingLose
<1> QED
  BY <1>2, <1>3, <1>4, <1>5, <1>6, <1>7 DEF Next

\* The invariant says NoAlarm itself.
LEMMA RingNoAlarm ==
  ASSUME IInv
  PROVE  NoAlarm
BY DEF IInv, Ring, Good, NoAlarm

\* The numbers up to n that have reached the daemon.
Got(r, n) ==
  (1..r.lastDiscarded) \cup {s \in (r.lastDiscarded + 1)..n : At(r, s).seq = s}

\* What c has discarded is below its Aru, that below the aru which e has seen, and
\* that below the My_aru of e.
LEMMA DiscardedGot ==
  ASSUME NEW h \in Daemons, NEW s, NEW o, NEW k, NEW n, Ring(h, s, o, k, n),
         NEW c \in Daemons, NEW e \in Daemons, NEW i \in 1..s[c].lastDiscarded
  PROVE  i \in Got(s[e], Len(o))
<1>g. Good(s, o, k, n) /\ Seqs(h, s, o) /\ Arus(h, s)
  BY DEF Ring
<1>1. PICK r : r = s[e]
  OBVIOUS
<1>2. PICK m : m = s[c].lastDiscarded
  OBVIOUS
<1>3. Sound(r, o) /\ Typed(r) /\ InWindow(r, o) /\ NoHole(r)
  BY <1>g, <1>1 DEF Good, Sound
<1>4. /\ r.lastDiscarded \in Nat /\ r.myAru \in Nat /\ r.highest \in Nat
      /\ r.myAru <= r.highest /\ r.highest <= Len(o) /\ Len(o) \in Nat
  BY <1>3 DEF Typed, InWindow
<1>5. m \in Nat /\ m <= r.myAru
  <2>1. /\ s[c].lastDiscarded = s[c].aru /\ s[c].aru <= AruSeen(s[e])
        /\ AruSeen(s[e]) <= s[e].myAru
    BY <1>g DEF Seqs, Arus
  <2>2. m \in Nat /\ AruSeen(s[e]) \in Nat
    BY <1>g, <1>2 DEF Good, Sound, Typed, AruSeen, Token
  <2> QED
    BY <1>1, <1>2, <1>4, <2>1, <2>2
<1>6. i \in Nat /\ i >= 1 /\ i <= r.myAru
  BY <1>2, <1>4, <1>5
<1>7. CASE i <= r.lastDiscarded
  <2>1. i \in 1..r.lastDiscarded
    BY <1>4, <1>6, <1>7
  <2> QED
    BY <1>1, <2>1 DEF Got
<1>8. CASE i > r.lastDiscarded
  <2>1. i \in (r.lastDiscarded + 1)..r.myAru /\ i \in (r.lastDiscarded + 1)..Len(o)
        /\ r.lastDiscarded < i /\ i <= r.highest
    BY <1>4, <1>6, <1>8
  <2>2. Has(r, i)
    BY <1>3, <2>1 DEF NoHole
  <2>3. At(r, i).seq = i
    BY <1>3, <1>6, <2>1, <2>2, Held
  <2> QED
    BY <1>1, <2>1, <2>3 DEF Got
<1> QED
  BY <1>4, <1>6, <1>7, <1>8

LEMMA RingDiscarded ==
  ASSUME IInv
  PROVE  DiscardedByAll
<1>1. PICK h \in Daemons : Ring(h, st, order, tokens, net)
  BY DEF IInv
<1>g. Good(st, order, tokens, net) /\ Seqs(h, st, order) /\ Arus(h, st)
  BY <1>1 DEF Ring
<1>2. PICK T : T = {st[d].lastDiscarded : d \in Daemons}
  OBVIOUS
<1>3. PICK m : m = Max(T)
  OBVIOUS
<1>4. PICK c \in Daemons : m = st[c].lastDiscarded
  <2>1. \A d \in Daemons : st[d].lastDiscarded \in Nat /\ st[d].lastDiscarded <= Len(order)
                           /\ Len(order) \in Nat
    <3> TAKE d \in Daemons
    <3>1. Sound(st[d], order)
      BY <1>g DEF Good
    <3>2. Typed(st[d]) /\ InWindow(st[d], order)
      BY <3>1 DEF Sound
    <3>3. st[d].lastDiscarded \in Nat /\ st[d].myAru \in Nat /\ st[d].highest \in Nat
          /\ Len(order) \in Nat
      BY <3>2, <1>g DEF Typed, Good
    <3>4. st[d].lastDiscarded <= st[d].myAru /\ st[d].myAru <= st[d].highest
          /\ st[d].highest <= Len(order)
      BY <3>2, <1>g DEF InWindow, Seqs, Arus
    <3> QED
      BY <3>3, <3>4
  <2>2. T \in SUBSET Nat /\ T # {} /\ \A x \in T : x <= Len(order)
    BY <1>1, <1>2, <2>1
  <2>3. Len(order) \in Nat
    BY <1>1, <2>1
  <2>4. m \in T
    BY <1>3, <2>2, <2>3, MaxOf
  <2> QED
    BY <1>2, <2>4
<1>5. ASSUME NEW e \in Daemons, NEW i \in 1..m PROVE i \in Received(e)
  <2>1. i \in Got(st[e], Len(order))
    BY <1>1, <1>4, DiscardedGot
  <2> QED
    BY <2>1 DEF Got, Received
<1> QED
  BY <1>2, <1>3, <1>5 DEF DiscardedByAll

-----------------------------------------------------------------------------
\* In every reachable state the globals of each daemon are sound (no hole up to
\* My_aru, no slot used twice), the tokens on their way are old but for the one
\* after h, and no daemon's Aru is above what another has seen
\* (Prot_handle_token, lines 503-848).
THEOREM RingInvariance ==
  ASSUME SlotsSuffice
  PROVE  Spec => []IInv
<1>1. Init => IInv
  BY RingInit
<1>2. IInv /\ [Next]_vars => IInv'
  BY RingNext
<1> QED
  BY <1>1, <1>2, PTL DEF Spec

\* No daemon comes to one of its own assertions: no stale request in
\* Answer_retrans (line 1025), no slot in use in Send_new_packets, no hole in
\* Deliver_agreed_packets or Discard_packets, no Aru that goes back (lines
\* 811-833); whatever is lost, delayed, repeated or overtaken.
THEOREM NoAlarmAlways ==
  ASSUME SlotsSuffice
  PROVE  Spec => []NoAlarm
BY RingInvariance, RingNoAlarm, PTL

\* What one daemon has given up (Discard_packets, lines 1756-1776), every daemon
\* has: nobody can come to ask for it.
THEOREM DiscardedByAllAlways ==
  ASSUME SlotsSuffice
  PROVE  Spec => []DiscardedByAll
BY RingInvariance, RingDiscarded, PTL

-----------------------------------------------------------------------------
(* The ring implements OrderedDelivery.                                    *)

\* A sequence that goes on from another.
LEMMA PrefixOf ==
  ASSUME NEW S, NEW s \in Seq(S), NEW t \in Seq(S), Len(s) <= Len(t),
         \A k \in 1..Len(s) : t[k] = s[k]
  PROVE  IsPrefix(s, t)
<1>1. PICK m : m = Len(s)
  OBVIOUS
<1>2. m \in Nat /\ Len(t) \in Nat /\ m <= Len(t)
  BY <1>1
<1>3. SubSeq(s, 1, m) = s
  BY <1>1, SubSeqFull
<1>4. \A k \in 1..m : t[k] \in S /\ t[k] = s[k]
  BY <1>1
<1>5. PICK u : u = SubSeq(t, 1, m)
  OBVIOUS
<1>6. /\ u \in Seq(S) /\ Len(u) = (IF 1 <= m THEN m - 1 + 1 ELSE 0)
      /\ \A i \in 1..(m - 1 + 1) : u[i] = t[1 + i - 1]
  BY <1>2, <1>4, <1>5, SubSeqProperties
<1>7. Len(u) = m
  BY <1>2, <1>6
<1>8. \A k \in 1..m : u[k] = s[k]
  <2> TAKE k \in 1..m
  <2>1. k \in 1..(m - 1 + 1) /\ 1 + k - 1 = k
    BY <1>2
  <2> QED
    BY <1>4, <1>6, <2>1
<1>9. s = u
  <2>1. DOMAIN s = 1..m /\ DOMAIN u = 1..m
    BY <1>1, <1>6, <1>7, LenProperties
  <2>2. s = [k \in 1..m |-> s[k]] /\ u = [k \in 1..m |-> u[k]]
    BY <1>1, <1>2, <1>6, <1>7, LenProperties
  <2> QED
    BY <1>8, <2>2
<1> QED
  BY <1>1, <1>2, <1>3, <1>5, <1>9 DEF IsPrefix

\* A daemon that does nothing receives nothing, whatever another one numbers: an empty
\* slot says 0 and a full one has a number that was given out before.
LEMMA GotStays ==
  ASSUME NEW r, NEW o, Sound(r, o), Clients(r), NEW n \in Nat, Len(o) <= n
  PROVE  Got(r, n) = Got(r, Len(o))
<1>1. /\ Typed(r) /\ Holding(r, o) /\ r.lastDiscarded \in Nat /\ r.highest \in Nat
      /\ r.highest <= Len(o) /\ Len(o) \in Nat
  BY DEF Sound, Typed, InWindow
<1>2. ASSUME NEW i \in (r.lastDiscarded + 1)..n, At(r, i).seq = i PROVE i <= Len(o)
  <2>1. i \in Nat /\ i # 0
    BY <1>1
  <2>2. Slot(i) \in Slots
    BY SMTT(30), <2>1, SlotRange DEF Slots
  <2>3. r.packets[Slot(i)].exist # 0
    BY <1>2, <2>1, <2>2 DEF Clients, At
  <2>4. r.packets[Slot(i)].seq \in (r.lastDiscarded + 1)..r.highest
    BY <1>1, <2>2, <2>3 DEF Holding
  <2> QED
    BY <1>1, <1>2, <2>1, <2>4 DEF At
<1>3. \A i \in (r.lastDiscarded + 1)..n :
        At(r, i).seq = i => i \in (r.lastDiscarded + 1)..Len(o)
  BY <1>1, <1>2
<1>4. \A i \in (r.lastDiscarded + 1)..Len(o) : i \in (r.lastDiscarded + 1)..n
  BY <1>1
<1> QED
  BY <1>3, <1>4 DEF Got

LEMMA GotRange ==
  ASSUME NEW r, NEW o, Sound(r, o)
  PROVE  Got(r, Len(o)) \subseteq 1..Len(o) /\ 1..Len(o) \subseteq Nat
<1>1. r.lastDiscarded \in Nat /\ Len(o) \in Nat /\ r.lastDiscarded <= Len(o)
  BY DEF Sound, Typed, InWindow
<1> QED
  BY <1>1 DEF Got

\* What has reached the daemon has still reached it when it has gone from r to q.
LEMMA GotKept ==
  ASSUME NEW r, NEW q, NEW m \in Nat, NEW n \in Nat, m <= n, Typed(r), Typed(q), Keeps(q, r)
  PROVE  Got(r, m) \subseteq Got(q, n)
<1>1. r.lastDiscarded \in Nat /\ q.lastDiscarded \in Nat /\ r.lastDiscarded <= q.lastDiscarded
  BY DEF Typed, Keeps
<1>2. ASSUME NEW i \in Got(r, m) PROVE i \in Got(q, n)
  <2>1. i \in Nat /\ i >= 1 /\ (i <= r.lastDiscarded \/ (i <= m /\ At(r, i).seq = i))
    BY <1>1 DEF Got
  <2>2. CASE i <= q.lastDiscarded
    BY <1>1, <2>1, <2>2 DEF Got
  <2>3. CASE q.lastDiscarded < i
    <3>1. i <= m /\ At(r, i).seq = i
      BY <1>1, <2>1, <2>3
    <3>2. At(q, i).seq = i
      BY <2>1, <2>3, <3>1 DEF Keeps
    <3>3. i \in (q.lastDiscarded + 1)..n
      BY <1>1, <2>1, <2>3, <3>1
    <3> QED
      BY <3>2, <3>3 DEF Got
  <2> QED
    BY <1>1, <2>1, <2>2, <2>3
<1> QED
  BY <1>2

\* A step as OrderedDelivery sees it: from the order o, the sets H of numbers that
\* have reached the daemons and the sequences D handed to their clients to o2, H2, D2.
Hands(d, o, H, D, o2, H2, D2) ==
  /\ \A e \in Daemons \ {d} : H2[e] = H[e] /\ D2[e] = D[e]
  /\ o2 \in Seq(Packet) /\ IsPrefix(o, o2)
  /\ \A s \in (Len(o) + 1)..Len(o2) : o2[s].seq = s /\ o2[s].from = d
  /\ H2 \in [Daemons -> SUBSET Nat] /\ D2 \in [Daemons -> Seq(Nat)]
  /\ H[d] \subseteq H2[d] /\ H2[d] \subseteq 1..Len(o2)
  /\ IsPrefix(D[d], D2[d])
  /\ \A k \in (Len(D[d]) + 1)..Len(D2[d]) :
       /\ D2[d][k] \in H2[d]
       /\ D2[d][k] \notin {D2[d][j] : j \in 1..(k - 1)}
       /\ o2[D2[d][k]].svc = "reliable"
            \/ 1..(D2[d][k] - 1) \subseteq {D2[d][j] : j \in 1..(k - 1)}
       /\ o2[D2[d][k]].svc = "safe" => \A e \in Daemons : D2[d][k] \in H2[e]

Gots(s, o) == [e \in Daemons |-> Got(s[e], Len(o))]
Handeds(s) == [e \in Daemons |-> s[e].handed]

LEMMA ServesHands ==
  ASSUME NEW s, NEW o, NEW k, NEW n, NEW h \in Daemons, Ring(h, s, o, k, n),
         NEW s2, NEW o2, NEW k2, NEW n2, NEW h2 \in Daemons, Ring(h2, s2, o2, k2, n2),
         \A e \in Daemons : Clients(s[e]),
         NEW d \in Daemons, NEW q, NEW new, ServesOne(d, q, new, s, o, s2, o2)
  PROVE  /\ Hands(d, o, Gots(s, o), Handeds(s), o2, Gots(s2, o2), Handeds(s2))
         /\ \A e \in Daemons : Clients(s2[e])
<1>1. /\ DOMAIN s = Daemons /\ o \in Seq(Packet) /\ \A e \in Daemons : Sound(s[e], o)
      /\ DOMAIN s2 = Daemons /\ o2 \in Seq(Packet) /\ \A e \in Daemons : Sound(s2[e], o2)
  BY DEF Ring, Good
<1>2. /\ s2 = [s EXCEPT ![d] = q] /\ o2 = o \o new /\ new \in Seq(Packet)
      /\ \A j \in DOMAIN new : new[j].seq = Len(o) + j /\ new[j].from = d
      /\ Serves(q, s[d], o2, q.lastDiscarded)
  BY DEF ServesOne
<1>3. s2[d] = q /\ \A e \in Daemons \ {d} : s2[e] = s[e]
  BY <1>1, <1>2
<1>4. PICK m : m = Len(o)
  OBVIOUS
<1>5. PICK m2 : m2 = Len(o2)
  OBVIOUS
<1>6. PICK l : l = Len(new)
  OBVIOUS
<1>7. m \in Nat /\ l \in Nat /\ m2 = m + l /\ DOMAIN new = 1..l
  BY <1>1, <1>2, <1>4, <1>5, <1>6, ConcatProperties, LenProperties
<1>8. \A i \in 1..(m + l) : o2[i] = IF i <= m THEN o[i] ELSE new[i - m]
  BY <1>1, <1>2, <1>4, <1>6, ConcatProperties
<1>9. IsPrefix(o, o2)
  <2>1. \A i \in 1..m : o2[i] = o[i]
    <3> TAKE i \in 1..m
    <3>1. i \in 1..(m + l) /\ i <= m
      BY <1>7
    <3> QED
      BY <1>8, <3>1
  <2>2. m <= m2
    BY <1>7
  <2> QED
    BY <1>1, <1>4, <1>5, <2>1, <2>2, PrefixOf
<1>10. \A i \in (m + 1)..m2 : o2[i].seq = i /\ o2[i].from = d
  <2> TAKE i \in (m + 1)..m2
  <2>1. i \in 1..(m + l) /\ ~(i <= m) /\ i - m \in 1..l /\ m + (i - m) = i
    BY <1>7
  <2>2. o2[i] = new[i - m]
    BY <1>8, <2>1
  <2>3. new[i - m].seq = m + (i - m) /\ new[i - m].from = d
    BY <1>2, <1>4, <1>7, <2>1
  <2> QED
    BY <2>1, <2>2, <2>3
<1>11. \A e \in Daemons : Clients(s2[e])
  BY <1>2, <1>3 DEF Serves
<1>12. Gots(s2, o2) \in [Daemons -> SUBSET Nat] /\ Handeds(s2) \in [Daemons -> Seq(Nat)]
  <2>1. \A e \in Daemons : Got(s2[e], Len(o2)) \in SUBSET Nat
    BY <1>1, GotRange
  <2>2. \A e \in Daemons : s2[e].handed \in Seq(Nat)
    BY <1>11 DEF Clients
  <2> QED
    BY <2>1, <2>2 DEF Gots, Handeds
<1>13. \A e \in Daemons \ {d} : Gots(s2, o2)[e] = Gots(s, o)[e] /\ Handeds(s2)[e] = Handeds(s)[e]
  <2> TAKE e \in Daemons \ {d}
  <2>1. Got(s[e], m2) = Got(s[e], m)
    BY <1>1, <1>4, <1>7, GotStays
  <2> QED
    BY <1>3, <1>4, <1>5, <2>1 DEF Gots, Handeds
<1>14. PICK g : g = q.handed
  OBVIOUS
<1>15. PICK f : f = s[d].handed
  OBVIOUS
<1>16. /\ Gots(s2, o2)[d] = Got(q, m2) /\ Gots(s, o)[d] = Got(s[d], m)
       /\ Handeds(s2)[d] = g /\ Handeds(s)[d] = f
  BY <1>3, <1>4, <1>5, <1>14, <1>15 DEF Gots, Handeds
<1>17. Got(s[d], m) \subseteq Got(q, m2) /\ Got(q, m2) \subseteq 1..m2
  <2>1. Typed(s[d]) /\ Typed(q) /\ Sound(q, o2)
    BY <1>1, <1>3 DEF Sound
  <2>2. Got(q, m2) \subseteq 1..m2
    BY <1>5, <2>1, GotRange
  <2>3. m2 \in Nat /\ m <= m2 /\ Keeps(q, s[d])
    BY <1>2, <1>7 DEF Serves
  <2> QED
    BY <1>7, <2>1, <2>2, <2>3, GotKept
<1>18. /\ f \in Seq(Nat) /\ g \in Seq(Nat)
       /\ Len(f) <= Len(g) /\ \A i \in 1..Len(f) : g[i] = f[i]
       /\ \A i \in (Len(f) + 1)..Len(g) :
            InTurn(g[i], {g[j] : j \in 1..(i - 1)}, o2, q.lastDiscarded)
  <2>1. Continues(g, f, o2, q.lastDiscarded) /\ Clients(q) /\ Clients(s[d])
    BY <1>2, <1>14, <1>15 DEF Serves
  <2>2. f \in Seq(Nat) /\ g \in Seq(Nat)
    BY <1>14, <1>15, <2>1 DEF Clients
  <2> QED
    BY <2>1, <2>2 DEF Continues
<1>19. IsPrefix(f, g)
  BY <1>18, PrefixOf
<1>20. ASSUME NEW i \in (Len(f) + 1)..Len(g)
       PROVE  /\ g[i] \in Got(q, m2)
              /\ g[i] \notin {g[j] : j \in 1..(i - 1)}
              /\ o2[g[i]].svc = "reliable" \/ 1..(g[i] - 1) \subseteq {g[j] : j \in 1..(i - 1)}
              /\ o2[g[i]].svc = "safe" => \A e \in Daemons : g[i] \in Gots(s2, o2)[e]
  <2>1. PICK a, B : a = g[i] /\ B = {g[j] : j \in 1..(i - 1)}
    OBVIOUS
  <2>2. InTurn(a, B, o2, q.lastDiscarded)
    BY <1>18, <2>1
  <2>3. /\ a \in 1..m2 /\ a \notin B /\ (o2[a].svc = "reliable" \/ 1..(a - 1) \subseteq B)
        /\ o2[a].svc = "safe" => a <= q.lastDiscarded
    BY <1>5, <2>2 DEF InTurn
  <2>4. a \in Range(g)
    <3>1. i \in 1..Len(g)
      BY <1>18
    <3> QED
      BY <1>18, <2>1, <3>1 DEF Range
  <2>5. q.lastDiscarded \in Nat
    BY <1>1, <1>3 DEF Sound, Typed
  <2>6. a \in Got(q, m2)
    <3>1. a <= q.lastDiscarded \/ At(q, a).seq = a
      BY <1>2, <1>14, <2>4 DEF Serves, Clients
    <3>2. a \in Nat /\ a >= 1 /\ a <= m2 /\ m2 \in Nat
      BY <1>7, <2>3
    <3>3. CASE a <= q.lastDiscarded
      <4>1. a \in 1..q.lastDiscarded
        BY <2>5, <3>2, <3>3
      <4> QED
        BY <4>1 DEF Got
    <3>4. CASE q.lastDiscarded < a
      <4>1. a \in (q.lastDiscarded + 1)..m2 /\ At(q, a).seq = a
        BY <2>5, <3>1, <3>2, <3>4
      <4> QED
        BY <4>1 DEF Got
    <3> QED
      BY <2>5, <3>2, <3>3, <3>4
  <2>7. ASSUME o2[a].svc = "safe", NEW e \in Daemons PROVE a \in Gots(s2, o2)[e]
    <3>1. a \in 1..s2[d].lastDiscarded
      BY <1>3, <1>7, <2>3, <2>5, <2>7
    <3>2. a \in Got(s2[e], Len(o2))
      BY <3>1, DiscardedGot
    <3> QED
      BY <3>2 DEF Gots
  <2> QED
    BY <2>1, <2>3, <2>6, <2>7
<1>21. Hands(d, o, Gots(s, o), Handeds(s), o2, Gots(s2, o2), Handeds(s2))
  <2>1. \A i \in (Len(o) + 1)..Len(o2) : o2[i].seq = i /\ o2[i].from = d
    BY <1>4, <1>5, <1>10
  <2>2. Gots(s, o)[d] \subseteq Gots(s2, o2)[d] /\ Gots(s2, o2)[d] \subseteq 1..Len(o2)
    BY <1>5, <1>16, <1>17
  <2>3. PICK H, D, H2, D2 : H = Gots(s, o) /\ D = Handeds(s) /\ H2 = Gots(s2, o2)
                            /\ D2 = Handeds(s2)
    OBVIOUS
  <2>4. D[d] = f /\ D2[d] = g /\ H2[d] = Got(q, m2) /\ IsPrefix(D[d], D2[d])
    BY <1>16, <1>19, <2>3
  <2>5. \A i \in (Len(D[d]) + 1)..Len(D2[d]) :
          /\ D2[d][i] \in H2[d]
          /\ D2[d][i] \notin {D2[d][j] : j \in 1..(i - 1)}
          /\ o2[D2[d][i]].svc = "reliable"
               \/ 1..(D2[d][i] - 1) \subseteq {D2[d][j] : j \in 1..(i - 1)}
          /\ o2[D2[d][i]].svc = "safe" => \A e \in Daemons : D2[d][i] \in H2[e]
    BY <1>20, <2>3, <2>4
  <2>6. Hands(d, o, H, D, o2, H2, D2)
    BY <1>1, <1>9, <1>12, <1>13, <2>1, <2>2, <2>3, <2>4, <2>5 DEF Hands
  <2> QED
    BY <2>3, <2>6
<1> QED
  BY <1>11, <1>21

\* The state in the terms of OrderedDelivery.
RInv == IInv /\ \A d \in Daemons : Clients(st[d])

LEMMA ClientsInit ==
  ASSUME Init
  PROVE  \A d \in Daemons : Clients(st[d])
<1>1. \A x \in Slots : Empty.exist = 0 /\ Empty.seq = 0
  BY DEF Empty
<1>2. ASSUME NEW d \in Daemons PROVE Clients(st[d])
  <2>1. /\ st[d].handed = <<>> /\ st[d].lastDelivered = 0
        /\ \A x \in Slots : st[d].packets[x].exist = 0 /\ st[d].packets[x].seq = 0
    BY DEF Init, Slots, Empty
  <2>2. <<>> \in Seq(Nat) /\ Range(<<>>) = {}
    BY DEF Range
  <2>3. 1..0 = {}
    OBVIOUS
  <2> QED
    BY <2>1, <2>2, <2>3 DEF Clients
<1> QED
  BY <1>2

\* The initial state is one of OrderedDelivery.
LEMMA DeliveryInit ==
  ASSUME Init
  PROVE  Delivery!Init
<1>1. \A d \in Daemons : st[d].handed = <<>> /\ st[d].lastDiscarded = 0 /\ order = <<>>
  BY DEF Init
<1>2. ASSUME NEW d \in Daemons PROVE Received(d) = {}
  <2>1. st[d].lastDiscarded = 0 /\ Len(order) = 0
    BY <1>1
  <2> QED
    BY <2>1 DEF Received
<1>3. order = <<>>
  BY DEF Init
<1>4. [d \in Daemons |-> Received(d)] = [d \in Daemons |-> {}]
  BY <1>2
<1>5. [d \in Daemons |-> st[d].handed] = [d \in Daemons |-> <<>>]
  BY <1>1
<1> QED
  BY <1>3, <1>4, <1>5 DEF Delivery!Init

\* A step is one of OrderedDelivery, or none.
LEMMA DeliveryNext ==
  ASSUME SlotsSuffice, RInv, [Next]_vars
  PROVE  RInv' /\ [Delivery!Next]_(Delivery!vars)
<1>1. IInv' /\ Served(st, order, st', order') /\ IInv
  BY RingNext DEF RInv
<1>2. PICK s2, o2, k2, n2 : s2 = st' /\ o2 = order' /\ k2 = tokens' /\ n2 = net'
  OBVIOUS
<1>3. PICK h \in Daemons : Ring(h, st, order, tokens, net)
  BY <1>1 DEF IInv
<1>4. PICK h2 \in Daemons : Ring(h2, s2, o2, k2, n2)
  BY <1>1, <1>2 DEF IInv
<1>5. /\ [d \in Daemons |-> Received(d)] = Gots(st, order)
      /\ [d \in Daemons |-> Received(d)]' = Gots(s2, o2)
      /\ [d \in Daemons |-> st[d].handed] = Handeds(st)
      /\ [d \in Daemons |-> st[d].handed]' = Handeds(s2)
  <2>1. \A d \in Daemons : Received(d) = Got(st[d], Len(order))
    BY DEF Received, Got
  <2>2. \A d \in Daemons : Received(d)' = Got(s2[d], Len(o2))
    BY <1>2 DEF Received, Got, At
  <2> QED
    BY <1>2, <2>1, <2>2 DEF Gots, Handeds
<1>6. CASE s2 = st /\ o2 = order
  <2>1. RInv'
    BY <1>1, <1>2, <1>6 DEF RInv
  <2>2. UNCHANGED Delivery!vars
    BY <1>2, <1>5, <1>6 DEF Delivery!vars
  <2> QED
    BY <2>1, <2>2
<1>7. ASSUME NEW d \in Daemons, NEW q, NEW new, ServesOne(d, q, new, st, order, s2, o2)
      PROVE  RInv' /\ Delivery!Next
  <2>1. /\ Hands(d, order, Gots(st, order), Handeds(st), o2, Gots(s2, o2), Handeds(s2))
        /\ \A e \in Daemons : Clients(s2[e])
    BY <1>3, <1>4, <1>7, ServesHands DEF RInv
  <2>2. RInv'
    BY <1>1, <1>2, <2>1 DEF RInv
  <2>3. Hands(d, order, [e \in Daemons |-> Received(e)], [e \in Daemons |-> st[e].handed],
              order', [e \in Daemons |-> Received(e)]', [e \in Daemons |-> st[e].handed]')
    BY <1>2, <1>5, <2>1
  <2>5. \A a, b : Delivery!IsPrefix(a, b) <=> IsPrefix(a, b)
    BY DEF IsPrefix, Delivery!IsPrefix
  <2>6. Delivery!Packet = Packet
    BY DEF Packet, Delivery!Packet
  <2>10. Delivery!Step(d)
    BY <2>3, <2>5, <2>6, Zenon DEF Delivery!Step, Delivery!MayHand, Hands
  <2>4. Delivery!Next
    BY <2>10 DEF Delivery!Next
  <2> QED
    BY <2>2, <2>4
<1> QED
  BY <1>1, <1>2, <1>6, <1>7 DEF Served

\* What the daemons hand to their clients comes in one order, each packet once, a
\* reliable one perhaps early, a safe one only when every daemon has it: every step of
\* the ring is a step of OrderedDelivery or none (Deliver_agreed_packets,
\* Deliver_reliable_packets and Discard_packets, lines 1515-1583 and 1755-1776).
THEOREM DeliveryHolds ==
  ASSUME SlotsSuffice
  PROVE  Spec => DeliverySpec
<1>1. Init => RInv /\ Delivery!Init
  BY RingInit, ClientsInit, DeliveryInit DEF RInv
<1>2. RInv /\ [Next]_vars => RInv' /\ [Delivery!Next]_(Delivery!vars)
  BY DeliveryNext
<1> QED
  BY <1>1, <1>2, PTL DEF Spec, DeliverySpec, Delivery!Spec

-----------------------------------------------------------------------------
(* What clients may conclude. In the order o, with the numbers in H[d]     *)
(* come to d and the sequence D[d] handed to its clients:                  *)

Before(h, k) == {h[j] : j \in 1..(k - 1)}

\* The types, and that what is handed over has come and has a number.
HandTypes(o, H, D) ==
  /\ o \in Seq(Packet)
  /\ H \in [Daemons -> SUBSET Nat]
  /\ D \in [Daemons -> Seq(Nat)]
  /\ \A d \in Daemons : H[d] \subseteq 1..Len(o)
  /\ \A d \in Daemons : \A k \in 1..Len(D[d]) : D[d][k] \in H[d]

\* InOrder, Once, SafeEverywhere and SameOrder of OrderedDelivery.
InOrderOf(o, D) ==
  \A d \in Daemons : \A k \in 1..Len(D[d]) :
    o[D[d][k]].svc = "reliable" \/ 1..(D[d][k] - 1) \subseteq Before(D[d], k)
OnceOf(D) ==
  \A d \in Daemons : \A j, k \in 1..Len(D[d]) : D[d][j] = D[d][k] => j = k
SafeOf(o, H, D) ==
  \A d \in Daemons : \A k \in 1..Len(D[d]) :
    o[D[d][k]].svc = "safe" => \A e \in Daemons : D[d][k] \in H[e]
SameOrderOf(o, D) ==
  \A d \in Daemons : \A j, k \in 1..Len(D[d]) :
    j < k /\ ~(o[D[d][j]].svc = "reliable") /\ ~(o[D[d][k]].svc = "reliable")
    => D[d][j] < D[d][k]

\* With what is in before already handed over, n may be next.
MayCome(n, before, o, H) ==
  /\ n \notin before
  /\ o[n].svc = "reliable" \/ 1..(n - 1) \subseteq before
  /\ o[n].svc = "safe" => \A e \in Daemons : n \in H[e]

LEMMA PrefixElements ==
  ASSUME NEW S, NEW s \in Seq(S), NEW t \in Seq(S), IsPrefix(s, t)
  PROVE  /\ Len(s) \in Nat /\ Len(t) \in Nat /\ Len(s) <= Len(t)
         /\ \A i \in 1..Len(s) : t[i] = s[i]
<1>1. Len(s) \in Nat /\ Len(t) \in Nat /\ Len(s) <= Len(t)
  BY DEF IsPrefix
<1>2. ASSUME NEW i \in 1..Len(s) PROVE t[i] = s[i]
  <2>1. SubSeq(s, 1, Len(s))[i] = s[i] /\ SubSeq(t, 1, Len(s))[i] = t[i]
    BY <1>1, <1>2
  <2> QED
    BY <2>1 DEF IsPrefix
<1> QED
  BY <1>1, <1>2

Handing(d, o, H, D, o2, H2, D2) ==
  d \in Daemons /\ HandTypes(o, H, D) /\ Hands(d, o, H, D, o2, H2, D2)

\* A step of d puts packets behind the others, and behind what d has handed over
\* those it may hand over next; nothing else changes.
StepEffect(d, o, H, D, o2, H2, D2) ==
  /\ \A s \in 1..Len(o) : s \in 1..Len(o2) /\ o2[s] = o[s]
  /\ \A e \in Daemons : H[e] \subseteq H2[e]
  /\ \A e \in Daemons \ {d} : D2[e] = D[e]
  /\ \A k \in 1..Len(D[d]) :
       k \in 1..Len(D2[d]) /\ D2[d][k] = D[d][k]
  /\ \A k \in 1..Len(D2[d]) : k \notin 1..Len(D[d]) =>
       /\ D2[d][k] \in H2[d]
       /\ MayCome(D2[d][k], Before(D2[d], k), o2, H2)

LEMMA StepHas ==
  ASSUME NEW o, NEW H, NEW D, NEW o2, NEW H2, NEW D2, NEW d,
         Handing(d, o, H, D, o2, H2, D2)
  PROVE  StepEffect(d, o, H, D, o2, H2, D2)
<1>h. d \in Daemons /\ Hands(d, o, H, D, o2, H2, D2)
  BY DEF Handing
<1>t. o \in Seq(Packet) /\ H \in [Daemons -> SUBSET Nat] /\ D \in [Daemons -> Seq(Nat)]
  BY DEF Handing, HandTypes
<1>1. /\ Len(o) \in Nat /\ Len(o2) \in Nat /\ Len(o) <= Len(o2)
      /\ \A s \in 1..Len(o) : o2[s] = o[s]
  <2>1. o \in Seq(Packet) /\ o2 \in Seq(Packet) /\ IsPrefix(o, o2)
    BY <1>h, <1>t DEF Hands
  <2> QED
    BY <2>1, PrefixElements
<1>2. \A e \in Daemons : H[e] \subseteq H2[e]
  BY <1>h DEF Hands
<1>3. \A e \in Daemons \ {d} : D2[e] = D[e]
  BY <1>h DEF Hands
<1>4. /\ Len(D[d]) \in Nat /\ Len(D2[d]) \in Nat
      /\ Len(D[d]) <= Len(D2[d])
      /\ \A k \in 1..Len(D[d]) : D2[d][k] = D[d][k]
  <2>1. PICK p, q : p = D[d] /\ q = D2[d]
    OBVIOUS
  <2>2. p \in Seq(Nat) /\ q \in Seq(Nat) /\ IsPrefix(p, q)
    BY <1>h, <1>t, <2>1 DEF Hands
  <2>3. Len(p) \in Nat /\ Len(q) \in Nat /\ Len(p) <= Len(q) /\ \A k \in 1..Len(p) : q[k] = p[k]
    BY <2>2, PrefixElements
  <2> QED
    BY <2>1, <2>3
<1>5. ASSUME NEW k \in 1..Len(D2[d]), k \notin 1..Len(D[d])
      PROVE  /\ D2[d][k] \in H2[d]
             /\ MayCome(D2[d][k], Before(D2[d], k), o2, H2)
  <2>1. k \in (Len(D[d]) + 1)..Len(D2[d])
    BY <1>4, <1>5
  <2> QED
    BY <1>h, <2>1, Zenon DEF Hands, Before, MayCome
<1>6. \A k \in 1..Len(D[d]) : k \in 1..Len(D2[d]) /\ D2[d][k] = D[d][k]
  BY <1>4
<1>7. \A s \in 1..Len(o) : s \in 1..Len(o2) /\ o2[s] = o[s]
  BY <1>1
<1> QED
  BY <1>2, <1>3, <1>5, <1>6, <1>7 DEF StepEffect

-----------------------------------------------------------------------------
LEMMA TypesStep ==
  ASSUME NEW o, NEW H, NEW D, NEW o2, NEW H2, NEW D2, NEW d,
         Handing(d, o, H, D, o2, H2, D2)
  PROVE  HandTypes(o2, H2, D2)
<1>h. d \in Daemons /\ HandTypes(o, H, D) /\ Hands(d, o, H, D, o2, H2, D2)
  BY DEF Handing
<1>e. StepEffect(d, o, H, D, o2, H2, D2)
  BY StepHas
<1>t. /\ \A e \in Daemons : H[e] \subseteq 1..Len(o)
      /\ \A e \in Daemons : \A k \in 1..Len(D[e]) : D[e][k] \in H[e]
  BY <1>h DEF HandTypes
<1>1. /\ o2 \in Seq(Packet)
      /\ H2 \in [Daemons -> SUBSET Nat]
      /\ D2 \in [Daemons -> Seq(Nat)]
  BY <1>h DEF Hands
<1>2. ASSUME NEW e \in Daemons PROVE H2[e] \subseteq 1..Len(o2)
  <2>1. CASE e = d
    BY <1>h, <2>1 DEF Hands
  <2>2. CASE e # d
    <3>1. H2[e] = H[e]
      BY <1>h, <2>2 DEF Hands
    <3>2. \A s \in 1..Len(o) : s \in 1..Len(o2)
      BY <1>e DEF StepEffect
    <3> QED
      BY <1>t, <3>1, <3>2
  <2> QED
    BY <2>1, <2>2
<1>3. ASSUME NEW e \in Daemons, NEW k \in 1..Len(D2[e])
      PROVE  D2[e][k] \in H2[e]
  <2>1. CASE e = d /\ k \notin 1..Len(D[d])
    BY <2>1, <1>3, <1>e DEF StepEffect
  <2>2. CASE e # d \/ k \in 1..Len(D[d])
    <3>1. k \in 1..Len(D[e]) /\ D2[e][k] = D[e][k]
      BY <2>2, <1>3, <1>e DEF StepEffect
    <3>2. H[e] \subseteq H2[e]
      BY <1>e DEF StepEffect
    <3> QED
      BY <1>t, <3>1, <3>2
  <2> QED
    BY <2>1, <2>2
<1> QED
  BY <1>1, <1>2, <1>3 DEF HandTypes

\* Of any daemon e and place k in what it has handed over after a step of d:
\* either it was there before, or it is new and may be handed over.
PlaceOf(e, k, o, D, o2, H2, D2) ==
  \/ /\ k \in 1..Len(D[e])
     /\ \A j \in 1..k : j \in 1..Len(D[e]) /\ D2[e][j] = D[e][j]
     /\ D[e][k] \in 1..Len(o)
     /\ o2[D[e][k]] = o[D[e][k]]
  \/ MayCome(D2[e][k], Before(D2[e], k), o2, H2)

LEMMA PlacesAre ==
  ASSUME NEW o, NEW H, NEW D, NEW o2, NEW H2, NEW D2, NEW d,
         Handing(d, o, H, D, o2, H2, D2),
         NEW e \in Daemons, NEW k \in 1..Len(D2[e])
  PROVE  PlaceOf(e, k, o, D, o2, H2, D2)
<1>h. d \in Daemons /\ HandTypes(o, H, D)
  BY DEF Handing
<1>e. StepEffect(d, o, H, D, o2, H2, D2)
  BY StepHas
<1>1. CASE e = d /\ k \notin 1..Len(D[d])
  BY <1>1, <1>e DEF StepEffect, PlaceOf
<1>2. CASE e # d \/ k \in 1..Len(D[d])
  <2>1. k \in 1..Len(D[e])
    BY <1>2, <1>e DEF StepEffect
  <2>2. ASSUME NEW j \in 1..k
        PROVE  j \in 1..Len(D[e]) /\ D2[e][j] = D[e][j]
    <3>1. Len(D[e]) \in Nat
      BY <1>h DEF HandTypes
    <3>2. j \in 1..Len(D[e])
      BY <2>1, <3>1
    <3> QED
      BY <1>2, <3>2, <1>e DEF StepEffect
  <2>3. D[e][k] \in 1..Len(o)
    BY <1>h, <2>1 DEF HandTypes
  <2>4. o2[D[e][k]] = o[D[e][k]]
    BY <2>3, <1>e DEF StepEffect
  <2> QED
    BY <2>1, <2>2, <2>3, <2>4 DEF PlaceOf
<1> QED
  BY <1>1, <1>2

LEMMA InOrderStep ==
  ASSUME NEW o, NEW H, NEW D, NEW o2, NEW H2, NEW D2, NEW d,
         Handing(d, o, H, D, o2, H2, D2), InOrderOf(o, D)
  PROVE  InOrderOf(o2, D2)
<1>h. HandTypes(o, H, D) /\ HandTypes(o2, H2, D2) /\ StepEffect(d, o, H, D, o2, H2, D2)
  BY TypesStep, StepHas DEF Handing
<1>l. \A e \in Daemons : Len(D[e]) \in Nat /\ Len(D2[e]) \in Nat
  BY <1>h DEF HandTypes
<1>p. \A e \in Daemons : \A k \in 1..Len(D2[e]) : PlaceOf(e, k, o, D, o2, H2, D2)
  BY PlacesAre
<1>1. ASSUME NEW e \in Daemons, NEW k \in 1..Len(D2[e]),
             ~(o2[D2[e][k]].svc = "reliable"),
             NEW s \in 1..(D2[e][k] - 1)
      PROVE  \E j \in 1..(k - 1) : s = D2[e][j]
  <2>1. CASE MayCome(D2[e][k], Before(D2[e], k), o2, H2)
    BY <2>1, <1>1 DEF MayCome, Before
  <2>2. CASE /\ k \in 1..Len(D[e])
             /\ \A j \in 1..k : j \in 1..Len(D[e]) /\ D2[e][j] = D[e][j]
             /\ o2[D[e][k]] = o[D[e][k]]
    <3>1. k \in Nat /\ k \in 1..k /\ D2[e][k] = D[e][k]
      <4>1. Len(D[e]) \in Nat
        BY <1>l
      <4>2. k \in 1..k
        BY <2>2, <4>1
      <4> QED
        BY <2>2, <4>1, <4>2
    <3>2. \E j \in 1..(k - 1) : s = D[e][j]
      BY <2>2, <3>1, <1>1 DEF InOrderOf, Before
    <3>3. \A j \in 1..(k - 1) : j \in 1..k
      BY <3>1
    <3> QED
      BY <2>2, <3>2, <3>3
  <2> QED
    BY <1>1, <1>p, <2>1, <2>2 DEF PlaceOf
<1> QED
  BY <1>1 DEF InOrderOf, Before

LEMMA OnceStep ==
  ASSUME NEW o, NEW H, NEW D, NEW o2, NEW H2, NEW D2, NEW d,
         Handing(d, o, H, D, o2, H2, D2), OnceOf(D)
  PROVE  OnceOf(D2)
<1>h. HandTypes(o, H, D) /\ HandTypes(o2, H2, D2) /\ StepEffect(d, o, H, D, o2, H2, D2)
  BY TypesStep, StepHas DEF Handing
<1>l. \A e \in Daemons : Len(D[e]) \in Nat /\ Len(D2[e]) \in Nat
  BY <1>h DEF HandTypes
<1>p. \A e \in Daemons : \A k \in 1..Len(D2[e]) : PlaceOf(e, k, o, D, o2, H2, D2)
  BY PlacesAre
<1>1. ASSUME NEW e \in Daemons, NEW j \in 1..Len(D2[e]),
             NEW k \in 1..Len(D2[e]), j < k
      PROVE  D2[e][j] # D2[e][k]
  <2>0. j \in Nat /\ k \in Nat /\ j \in 1..(k - 1) /\ j \in 1..k /\ k \in 1..k
    <3>1. Len(D2[e]) \in Nat
      BY <1>l
    <3> QED
      BY <1>1, <3>1
  <2>1. CASE MayCome(D2[e][k], Before(D2[e], k), o2, H2)
    BY <2>0, <2>1 DEF MayCome, Before
  <2>2. CASE \A i \in 1..k : i \in 1..Len(D[e]) /\ D2[e][i] = D[e][i]
    <3>1. /\ j \in 1..Len(D[e]) /\ D2[e][j] = D[e][j]
          /\ k \in 1..Len(D[e]) /\ D2[e][k] = D[e][k]
      BY <2>0, <2>2
    <3> QED
      BY <3>1, <2>0, <1>1 DEF OnceOf
  <2> QED
    BY <1>1, <1>p, <2>1, <2>2 DEF PlaceOf
<1>2. ASSUME NEW e \in Daemons, NEW j \in 1..Len(D2[e]),
             NEW k \in 1..Len(D2[e]), D2[e][j] = D2[e][k]
      PROVE  j = k
  <2>1. j < k \/ k < j \/ j = k
    <3>1. Len(D2[e]) \in Nat
      BY <1>l
    <3> QED
      BY <3>1
  <2> QED
    BY <2>1, <1>1, <1>2
<1> QED
  BY <1>2 DEF OnceOf

LEMMA SafeStep ==
  ASSUME NEW o, NEW H, NEW D, NEW o2, NEW H2, NEW D2, NEW d,
         Handing(d, o, H, D, o2, H2, D2), SafeOf(o, H, D)
  PROVE  SafeOf(o2, H2, D2)
<1>h. HandTypes(o, H, D) /\ HandTypes(o2, H2, D2) /\ StepEffect(d, o, H, D, o2, H2, D2)
  BY TypesStep, StepHas DEF Handing
<1>l. \A e \in Daemons : Len(D[e]) \in Nat /\ Len(D2[e]) \in Nat
  BY <1>h DEF HandTypes
<1>p. \A e \in Daemons : \A k \in 1..Len(D2[e]) : PlaceOf(e, k, o, D, o2, H2, D2)
  BY PlacesAre
<1>1. ASSUME NEW e \in Daemons, NEW k \in 1..Len(D2[e]),
             o2[D2[e][k]].svc = "safe", NEW f \in Daemons
      PROVE  D2[e][k] \in H2[f]
  <2>1. CASE MayCome(D2[e][k], Before(D2[e], k), o2, H2)
    BY <2>1, <1>1 DEF MayCome
  <2>2. CASE /\ k \in 1..Len(D[e])
             /\ \A j \in 1..k : j \in 1..Len(D[e]) /\ D2[e][j] = D[e][j]
             /\ o2[D[e][k]] = o[D[e][k]]
    <3>1. Len(D[e]) \in Nat
      BY <1>l
    <3>2. k \in 1..k
      BY <2>2, <3>1
    <3>3. D2[e][k] = D[e][k] /\ H[f] \subseteq H2[f]
      BY <1>h, <2>2, <3>2 DEF StepEffect
    <3> QED
      BY <2>2, <3>3, <1>1 DEF SafeOf
  <2> QED
    BY <1>1, <1>p, <2>1, <2>2 DEF PlaceOf
<1> QED
  BY <1>1 DEF SafeOf


\* If a packet with a higher number came first, the lower one was among those
\* before it and would come twice.
LEMMA Sorted ==
  ASSUME NEW o, NEW H, NEW D, HandTypes(o, H, D), InOrderOf(o, D), OnceOf(D)
  PROVE  SameOrderOf(o, D)
<1> SUFFICES ASSUME NEW d \in Daemons, NEW j \in 1..Len(D[d]),
                    NEW k \in 1..Len(D[d]), j < k,
                    ~(o[D[d][j]].svc = "reliable"), ~(o[D[d][k]].svc = "reliable")
             PROVE  D[d][j] < D[d][k]
  BY DEF SameOrderOf
<1>1. Len(D[d]) \in Nat /\ j \in Nat /\ k \in Nat
  BY DEF HandTypes
<1>2. D[d][j] \in 1..Len(o) /\ D[d][k] \in 1..Len(o)
  BY DEF HandTypes
<1>3. Len(o) \in Nat /\ D[d][j] \in Nat /\ D[d][k] \in Nat
      /\ D[d][k] >= 1
  <2>1. Len(o) \in Nat
    BY DEF HandTypes
  <2> QED
    BY <2>1, <1>2
<1>4. D[d][j] # D[d][k]
  BY <1>1 DEF OnceOf
<1>n. PICK m \in Nat, n \in Nat : m = D[d][j] /\ n = D[d][k] /\ n >= 1
  BY <1>3
<1>5. CASE n < m
  <2>1. D[d][k] \in 1..(D[d][j] - 1)
    <3>1. n \in 1..(m - 1)
      BY <1>5, <1>n
    <3> QED
      BY <1>n, <3>1
  <2>2. PICK i \in 1..(j - 1) : D[d][k] = D[d][i]
    BY <2>1 DEF InOrderOf, Before
  <2>3. i \in 1..Len(D[d]) /\ i # k
    BY <1>1, <2>2
  <2> QED
    BY <2>2, <2>3 DEF OnceOf
<1> QED
  BY <1>4, <1>5, <1>n

Promises(o, H, D) ==
  HandTypes(o, H, D) /\ InOrderOf(o, D) /\ OnceOf(D) /\ SafeOf(o, H, D)

HandedTo == [d \in Daemons |-> st[d].handed]
HasCome == [d \in Daemons |-> Received(d)]
PInv == Promises(order, HasCome, HandedTo)

LEMMA PromisesInit == Delivery!Init => PInv
<1> SUFFICES ASSUME Delivery!Init PROVE PInv
  OBVIOUS
<1>1. PICK o, H, D : o = order /\ H = HasCome /\ D = HandedTo
  OBVIOUS
<1>2. o = <<>> /\ H = [d \in Daemons |-> {}] /\ D = [d \in Daemons |-> <<>>]
  BY <1>1 DEF Delivery!Init, HasCome, HandedTo
<1>3. o \in Seq(Packet) /\ Len(o) = 0 /\ <<>> \in Seq(Nat)
  BY <1>2
<1>4. \A d \in Daemons : H[d] = {} /\ D[d] = <<>> /\ Len(D[d]) = 0 /\ 1..Len(D[d]) = {}
  BY <1>2
<1>5. HandTypes(o, H, D)
  BY <1>2, <1>3, <1>4 DEF HandTypes
<1>6. InOrderOf(o, D) /\ OnceOf(D) /\ SafeOf(o, H, D)
  BY <1>4 DEF InOrderOf, OnceOf, SafeOf
<1> QED
  BY <1>1, <1>5, <1>6 DEF PInv, Promises

LEMMA PromisesNext == PInv /\ [Delivery!Next]_(Delivery!vars) => PInv'
<1> SUFFICES ASSUME PInv, [Delivery!Next]_(Delivery!vars) PROVE PInv'
  OBVIOUS
<1>1. PICK o, H, D, o2, H2, D2 : /\ o = order /\ H = HasCome /\ D = HandedTo
                                 /\ o2 = order' /\ H2 = HasCome' /\ D2 = HandedTo'
  OBVIOUS
<1>2. Promises(o, H, D)
  BY <1>1 DEF PInv
<1>3. ASSUME NEW d \in Daemons, Delivery!Step(d) PROVE PInv'
  <2>1. \A a, b : Delivery!IsPrefix(a, b) <=> IsPrefix(a, b)
    BY DEF IsPrefix, Delivery!IsPrefix
  <2>2. Delivery!Packet = Packet
    BY DEF Packet, Delivery!Packet
  <2>3. Hands(d, order, HasCome, HandedTo, order', HasCome', HandedTo')
    BY <1>3, <2>1, <2>2, Zenon
       DEF Delivery!Step, Delivery!MayHand, Hands, HasCome, HandedTo
  <2>4. Hands(d, o, H, D, o2, H2, D2)
    BY <1>1, <2>3
  <2>5. HandTypes(o, H, D) /\ InOrderOf(o, D) /\ OnceOf(D) /\ SafeOf(o, H, D)
    BY <1>2 DEF Promises
  <2>6. Handing(d, o, H, D, o2, H2, D2)
    BY <2>4, <2>5 DEF Handing
  <2>7. HandTypes(o2, H2, D2) /\ InOrderOf(o2, D2)
    BY <2>5, <2>6, TypesStep, InOrderStep
  <2>8. OnceOf(D2)
    BY <2>5, <2>6, OnceStep
  <2>9. SafeOf(o2, H2, D2)
    BY <2>5, <2>6, SafeStep
  <2> QED
    BY <1>1, <2>7, <2>8, <2>9 DEF PInv, Promises
<1>4. CASE UNCHANGED Delivery!vars
  <2>1. o2 = o /\ H2 = H /\ D2 = D
    BY <1>1, <1>4 DEF Delivery!vars, HasCome, HandedTo
  <2> QED
    BY <1>1, <1>2, <2>1 DEF PInv
<1> QED
  BY <1>3, <1>4 DEF Delivery!Next

LEMMA PromisesMean ==
  ASSUME PInv
  PROVE  Delivery!InOrder /\ Delivery!Once /\ Delivery!SafeEverywhere /\ Delivery!SameOrder
<1>1. HandTypes(order, HasCome, HandedTo) /\ InOrderOf(order, HandedTo) /\ OnceOf(HandedTo)
      /\ SafeOf(order, HasCome, HandedTo)
  BY DEF PInv, Promises
<1>2. SameOrderOf(order, HandedTo)
  BY <1>1, Sorted
<1>3. Delivery!InOrder
  BY <1>1, Zenon DEF Delivery!InOrder, InOrderOf, Delivery!Reliable, Delivery!BeforeIn, Before,
                     HandedTo
<1>4. Delivery!Once
  BY <1>1, Zenon DEF Delivery!Once, OnceOf, HandedTo
<1>5. Delivery!SafeEverywhere
  BY <1>1, Zenon DEF Delivery!SafeEverywhere, SafeOf, HandedTo, HasCome
<1>6. Delivery!SameOrder
  BY <1>2, Zenon DEF Delivery!SameOrder, SameOrderOf, Delivery!Reliable, HandedTo
<1> QED
  BY <1>3, <1>4, <1>5, <1>6

\* What OrderedDelivery promises its clients whoever implements it.
LEMMA PromisesAlways == DeliverySpec => []PInv
<1>1. Delivery!Init => PInv
  BY PromisesInit
<1>2. PInv /\ [Delivery!Next]_(Delivery!vars) => PInv'
  BY PromisesNext
<1> QED
  BY <1>1, <1>2, PTL DEF DeliverySpec, Delivery!Spec

\* At every daemon a packet that is not reliable is handed over after all those with
\* lower numbers (Deliver_agreed_packets, lines 1548-1585).
THEOREM InOrderAlways ==
  ASSUME SlotsSuffice
  PROVE  Spec => []Delivery!InOrder
<1>1. PInv => Delivery!InOrder
  BY PromisesMean
<1> QED
  BY <1>1, DeliveryHolds, PromisesAlways, PTL

\* No daemon hands over a packet twice (Deliver_reliable_packets,
\* Deliver_agreed_packets, Discard_packets: exist = 2).
THEOREM OnceAlways ==
  ASSUME SlotsSuffice
  PROVE  Spec => []Delivery!Once
<1>1. PInv => Delivery!Once
  BY PromisesMean
<1> QED
  BY <1>1, DeliveryHolds, PromisesAlways, PTL

\* A safe packet that was handed over anywhere is with every daemon
\* (Discard_packets, lines 1756-1776).
THEOREM SafeAlways ==
  ASSUME SlotsSuffice
  PROVE  Spec => []Delivery!SafeEverywhere
<1>1. PInv => Delivery!SafeEverywhere
  BY PromisesMean
<1> QED
  BY <1>1, DeliveryHolds, PromisesAlways, PTL

\* All daemons hand over the packets that are not reliable in the same order:
\* that of their numbers.
THEOREM SameOrderAlways ==
  ASSUME SlotsSuffice
  PROVE  Spec => []Delivery!SameOrder
<1>1. PInv => Delivery!SameOrder
  BY PromisesMean
<1> QED
  BY <1>1, DeliveryHolds, PromisesAlways, PTL
===============================================================================
