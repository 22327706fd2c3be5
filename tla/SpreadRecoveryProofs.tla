------------------------- MODULE SpreadRecoveryProofs -------------------------
(***************************************************************************)
(* That the recovery never comes to what its assertions call impossible,   *)
(* and that those who come to a new ring together have the same of the     *)
(* old one, for any number of daemons, packets and attempts: as long as no *)
(* packet comes above every highest_seq of the form1 token. When one has   *)
(* come (counted is FALSE) both may fail.                                  *)
(***************************************************************************)
EXTENDS SpreadRecovery, NaturalsInduction, FiniteSetTheorems, SequenceTheorems, TLAPS

\* Last_seq stays below the first aru of the new ring.
NumbersFit == Len(Packets) + Far < Int32Max

-----------------------------------------------------------------------------
(* Types.                                                                  *)

Globals ==
  {"mode", "ring", "highest", "myAru", "aru", "lastDiscarded", "exist", "handed", "signal",
   "trans", "commit", "fcommit", "lastSeq", "lastTokenAru", "exits"}

Commits == [trans : SUBSET Daemons, all : SUBSET Daemons]
Infos == [aru : Nat, highest : Nat, holes : SUBSET Seqs,
          trans : SUBSET Daemons, commit : SUBSET Daemons]

Typed(r) ==
  /\ DOMAIN r = Globals
  /\ r.mode \in {"idle", "form", "evs", "op"} /\ r.ring \in Nat
  /\ r.highest \in Nat /\ r.myAru \in Nat /\ r.aru \in Nat /\ r.lastDiscarded \in Nat
  /\ r.exist \in [Seqs -> 0..3] /\ r.handed \in Seq(Seqs)
  /\ r.signal \in 0..Len(r.handed)
  /\ r.trans \in SUBSET Daemons /\ r.commit \in Commits /\ r.fcommit \in Commits
  /\ r.lastSeq \in Nat /\ r.lastTokenAru \in Nat

TokenTyped(t) ==
  /\ t.members \in SUBSET Daemons
  /\ \/ /\ t.kind \in {"form1", "form2"} /\ t.rest \in SUBSET t.members /\ t.rest # {}
        /\ t.rg \in Infos /\ t.seq = t.rg.highest + Far
        /\ DOMAIN t = {"kind", "members", "rest", "seq", "rg"}
     \/ /\ t.kind = "regular" /\ \E h \in t.members : t.rest = {h}
        /\ t.rg \in Infos /\ t.aru \in Nat /\ t.aruLast \in t.members \cup {None}
        /\ t.rtr \in SUBSET Seqs
        /\ DOMAIN t = {"kind", "members", "rest", "aru", "aruLast", "rtr", "rtrTo", "rg"}
     \/ t.kind = "gone" /\ t.rest = {} /\ t.rg.highest \in Nat

-----------------------------------------------------------------------------
(* What a daemon has of the old ring. s[d] is its state, k[a] the token of *)
(* attempt a, g[d] the packets it had.                                     *)

HandedIn(r) == ToSet(r.handed)
FirstIn(r) == ToSet(SubSeq(r.handed, 1, r.signal))

\* d keeps n.
KeepsIn(r, n) ==
  IF r.mode = "op" THEN n \in HandedIn(r)
  ELSE n <= r.lastDiscarded \/ r.exist[n] \in {1, 2}

\* A form token that counts n in, and as no hole.
Counts(t, n) == t.kind \in {"form1", "form2"} => n <= t.rg.highest /\ n \notin t.rg.holes

\* It does so, and the form token that it has filled lets it.
Kept(r, k, n) == KeepsIn(r, n) /\ (r.mode = "form" => Counts(k[r.ring], n))

\* All packets up to c are among those f had at first.
Had(g, f, c) == 1..c \subseteq g[f]

\* What may have caused n.
CausedIn(g, n) == {c \in 1..(n - 1) : Had(g, Packets[n].from, c)}

\* d keeps what f may have handed over at first.
Knows(g, r, k, f) == \A c \in Seqs : Had(g, f, c) => Kept(r, k, c)

\* Whatever happens, n is handed over if the daemon comes to a new ring.
Firm(r, k, n) ==
  /\ Kept(r, k, n)
  /\ r.mode = "op" \/ Packets[n].from \in r.commit.all \/ \A u \in 1..n : Kept(r, k, u)

\* Each once, in the order of the ring but for the reliable ones.
Ordered(h) ==
  \A i, j \in DOMAIN h : i < j =>
    h[i] # h[j] /\ (Reliable(h[i]) \/ Reliable(h[j]) \/ h[i] < h[j])

\* The numbers and the buffer.
Buffer(g, r) ==
  /\ r.lastDiscarded <= r.highest /\ r.highest <= Len(Packets)
  /\ r.lastDiscarded <= r.myAru
  /\ \A n \in Seqs : r.exist[n] # 0 => r.lastDiscarded < n /\ n <= r.highest
  /\ \A n \in Seqs : r.lastDiscarded < n /\ n <= r.myAru /\ n <= r.highest => r.exist[n] # 0
  /\ r.myAru <= r.highest \/ r.mode = "evs"
  /\ r.mode # "evs" => r.aru = r.lastDiscarded /\ \A n \in Seqs : r.exist[n] # 3
  /\ \A n \in 1..r.lastDiscarded, e \in Daemons : n \in g[e]

\* What the clients have.
Clients(g, r, d) ==
  /\ \A n \in Seqs : n \in HandedIn(r) <=> n <= r.lastDiscarded \/ r.exist[n] = 2
  /\ HandedIn(r) \subseteq g[d]
  /\ \A n \in HandedIn(r) : ~Reliable(n) =>
       /\ \A u \in 1..n : u \in HandedIn(r)
       /\ \A u \in 1..n : u <= r.lastDiscarded \/ ~IsSafe(u)

\* What the daemon had it keeps, and what those had with whom it has committed.
Commitment(g, r, k, d) ==
  /\ \A n \in g[d] : Kept(r, k, n)
  /\ \A c \in Seqs : Had(g, d, c) => c <= r.myAru
  /\ d \in r.commit.all /\ \A f \in r.commit.all : Knows(g, r, k, f)

Waits(g, r, k, d) == Buffer(g, r) /\ Clients(g, r, d) /\ Commitment(g, r, k, d)

\* Of a daemon that has come to a new ring.
Arrived(g, s, k, d) ==
  LET r == s[d]
  IN  /\ \A c \in Seqs : Had(g, d, c) => c \in HandedIn(r)
      /\ \A n \in Seqs : Packets[n].from = d => n \in HandedIn(r)
      /\ \A n \in FirstIn(r), e \in Daemons : IsSafe(n) => Had(g, e, n)
      /\ \A n \in HandedIn(r) : ~Reliable(n) => CausedIn(g, n) \subseteq HandedIn(r)
      /\ \A n \in HandedIn(r), e \in r.trans : ~Reliable(n) => Firm(s[e], k, n)

-----------------------------------------------------------------------------
(* What a form token says of the old ring, and what follows from it.       *)

\* The daemons a form1 token has been to.
Given(t) == IF t.kind = "form1" THEN t.members \ t.rest ELSE t.members

Info(g, t) ==
  /\ t.rg.trans = Given(t) /\ Given(t) # {} /\ Given(t) \subseteq t.rg.commit
  /\ t.rg.aru <= t.rg.highest /\ t.rg.highest <= Len(Packets)
  /\ \A n \in t.rg.holes : n <= t.rg.highest
  /\ \A n \in 1..t.rg.aru, e \in Daemons : n \in g[e]
  /\ \A e \in Given(t) : \A n \in g[e] : n <= t.rg.highest /\ n \notin t.rg.holes
  /\ \A f \in t.rg.commit : \A c \in Seqs :
       Had(g, f, c) => c <= t.rg.highest /\ c \notin t.rg.holes

\* The packets that will be handed over, and those before the signal.
First(rg, n) ==
  n <= rg.highest /\ \A u \in 1..n : u <= rg.aru \/ (u \notin rg.holes /\ ~IsSafe(u))
Settled(rg, n) ==
  /\ n <= rg.highest /\ n \notin rg.holes
  /\ Packets[n].from \in rg.commit \/ \A u \in 1..n : u \notin rg.holes

InForm(s, a, d) == s[d].ring = a /\ s[d].mode = "form"
InEvs(s, a, d) == s[d].ring = a /\ s[d].mode = "evs"
Came(s, a, d) == s[d].ring = a /\ s[d].mode = "op"

\* A daemon that has read the form2 token with rg.
Reads(r, rg) ==
  /\ r.lastDiscarded = rg.aru
  /\ \A n \in Seqs : r.exist[n] = 3 <=> n \in rg.holes
  /\ r.lastSeq = rg.highest + Far
  /\ r.fcommit = [trans |-> rg.trans, all |-> rg.commit]
  /\ r.commit.all \subseteq rg.commit
  /\ r.myAru <= r.highest \/ (r.myAru = r.lastSeq /\ r.commit = r.fcommit)

\* A daemon that has filled a form1 token.
Fills(s, t, d) ==
  LET r == s[d]
  IN  /\ r.commit.all \subseteq t.rg.commit /\ r.lastDiscarded <= t.rg.aru
      /\ \/ r.highest <= t.rg.highest
         \/ t.kind = "form1" /\ \E e \in t.rest :
              s[e].mode = "op" \/ r.highest <= s[e].highest
      /\ IF t.kind = "form1" THEN d \in Given(t) ELSE d \in t.rest

\* A form1 or form2 token.
FormInv(g, s, t, a) ==
  /\ Info(g, t)
  /\ \A d \in Daemons : InForm(s, a, d) => Fills(s, t, d)
  /\ \A d \in Daemons : InEvs(s, a, d) =>
       /\ t.kind = "form2" /\ d \in t.members \ t.rest /\ Reads(s[d], t.rg)
       /\ s[d].myAru <= s[d].highest /\ s[d].aru = 0 /\ s[d].lastTokenAru = 0
  /\ \A d \in Daemons : ~Came(s, a, d)

-----------------------------------------------------------------------------
(* The regular token of the new ring, when it comes to h.                  *)

\* When h has it, d has not had it for longer than e.
Sooner(h, d, e) == (h <= d /\ e < h) \/ ((h <= d <=> h <= e) /\ d < e)

\* The aru that a daemon sent on, its own, and that of the token.
Arus(s, t, a, h) ==
  /\ \A d \in Daemons : InEvs(s, a, d) =>
       s[d].lastTokenAru <= s[d].myAru /\ s[d].aru <= t.aru
  /\ \A d, e \in Daemons : InEvs(s, a, d) /\ InEvs(s, a, e) => s[d].aru <= s[e].lastTokenAru
  /\ \A d, e \in Daemons : InEvs(s, a, d) /\ InEvs(s, a, e) /\ Sooner(h, d, e) =>
       s[d].lastTokenAru <= s[e].lastTokenAru \/ t.aru <= s[e].lastTokenAru
  /\ t.aruLast = None =>
       /\ t.aru = Int32Max /\ t.rtr = {}
       /\ \A d \in Daemons : InEvs(s, a, d) => s[d].lastTokenAru = 0
  /\ t.aruLast # None =>
       /\ t.aru <= t.rg.highest \/ t.aru = t.rg.highest + Far
       /\ \A n \in t.rtr : t.aru < n
       /\ \A d \in Daemons : InEvs(s, a, d) /\ (d = t.aruLast \/ Sooner(h, t.aruLast, d)) =>
            s[d].lastTokenAru = t.aru

\* All packets to be handed over are there.
Ready(r, k, rg) == \A n \in Seqs : Settled(rg, n) => Firm(r, k, n)

\* What a daemon of the new ring has handed over.
Result(r, rg) ==
  \A n \in Seqs : Reliable(n) \/ /\ n \in HandedIn(r) <=> Settled(rg, n)
                                 /\ n \in FirstIn(r) <=> First(rg, n)

\* Those who sent on the highest aru twice know that all are ready.
AllReady(s, k, t, a, h) ==
  /\ \A d \in Daemons, e \in t.members :
       /\ InEvs(s, a, d) /\ s[d].lastTokenAru = t.rg.highest + Far
       /\ t.aru = t.rg.highest + Far /\ (d = e \/ Sooner(h, d, e))
       => Ready(s[e], k, t.rg)
  /\ \A d \in Daemons : Came(s, a, d) =>
       /\ t.aruLast # None /\ t.aru = t.rg.highest + Far
       /\ d \in t.members /\ Result(s[d], t.rg)
       /\ \A e \in t.members : Sooner(h, d, e) => Came(s, a, e)
       /\ \A e \in t.members : Ready(s[e], k, t.rg)
       /\ \A e \in Daemons : InEvs(s, a, e) =>
            s[e].lastTokenAru = t.aru /\ s[e].myAru = t.aru

RegularInv(g, s, k, t, a) ==
  /\ Info(g, t)
  /\ \A d \in Daemons : ~InForm(s, a, d)
  /\ \A d \in Daemons : InEvs(s, a, d) => d \in t.members /\ Reads(s[d], t.rg)
  /\ \A h \in t.rest : Arus(s, t, a, h) /\ AllReady(s, k, t, a, h)

-----------------------------------------------------------------------------
TokenInv(g, s, k, a) ==
  /\ TokenTyped(k[a])
  /\ \A d \in Daemons : InEvs(s, a, d) => s[d].highest = k[a].rg.highest
  /\ k[a].kind \in {"form1", "form2"} => FormInv(g, s, k[a], a)
  /\ k[a].kind = "regular" => RegularInv(g, s, k, k[a], a)

\* Those that come to a ring together have handed over the same.
Same(q, r) ==
  \A n \in Seqs : Reliable(n) \/ /\ n \in HandedIn(q) <=> n \in HandedIn(r)
                                 /\ n \in FirstIn(q) <=> n \in FirstIn(r)

DaemonInv(g, s, k, d) ==
  /\ Typed(s[d]) /\ s[d].exits = {} /\ Ordered(s[d].handed)
  /\ IF s[d].mode = "idle" THEN s[d].ring = None ELSE s[d].ring \in DOMAIN k
  /\ IF s[d].mode = "op" THEN Arrived(g, s, k, d) ELSE Waits(g, s[d], k, d)

Inv(g, s, k) ==
  /\ g \in [Daemons -> SUBSET Seqs] /\ \A n \in Seqs : n \in g[Packets[n].from]
  /\ DOMAIN s = Daemons /\ \E m \in Nat : DOMAIN k = 1..m
  /\ \A d \in Daemons : DaemonInv(g, s, k, d)
  /\ \A a \in DOMAIN k : TokenInv(g, s, k, a)
  /\ \A d, e \in Daemons :
       s[d].mode = "op" /\ s[e].mode = "op" /\ s[d].ring = s[e].ring => Same(s[d], s[e])

IInv == Inv(had, st, tokens) /\ tokens = [a \in DOMAIN tokens |-> tokens[a]]

-----------------------------------------------------------------------------
(* Least and greatest numbers, and the list of a set.                      *)

LEMMA LeastNumber ==
  ASSUME NEW T \in SUBSET Nat, T # {}
  PROVE  \E x \in T : \A y \in T : x <= y
<1> DEFINE R == OpToRel(<, Nat)
<1>1. IsWellFoundedOn(R, Nat)
  BY NatLessThanWellFounded
<1>2. \A x, y \in Nat : x < y => <<x, y>> \in R
  BY DEF OpToRel
<1> HIDE DEF R
<1>3. PICK x \in T : \A y \in T : ~(<<y, x>> \in R)
  BY <1>1, WFMin
<1>4. ASSUME NEW y \in T PROVE x <= y
  <2>1. x \in Nat /\ y \in Nat /\ ~(<<y, x>> \in R)
    BY <1>3
  <2>2. ~(y < x)
    BY <1>2, <2>1
  <2> QED
    BY <2>1, <2>2
<1> QED
  BY <1>4

LEMMA MinOf ==
  ASSUME NEW T \in SUBSET Nat, T # {}
  PROVE  Min(T) \in T /\ \A y \in T : Min(T) <= y
<1>1. \E x \in T : \A y \in T : x <= y
  BY LeastNumber
<1> QED
  BY <1>1 DEF Min

LEMMA MaxOf ==
  ASSUME NEW T \in SUBSET Nat, T # {}, NEW b \in Nat, \A x \in T : x <= b
  PROVE  Max(T) \in T /\ \A y \in T : Max(T) >= y
<1>1. PICK D : D = {b - x : x \in T}
  OBVIOUS
<1>2. D \in SUBSET Nat /\ D # {}
  <2>1. \A x \in T : x \in Nat /\ b - x \in Nat
    OBVIOUS
  <2> QED
    BY <1>1, <2>1
<1>3. PICK m \in D : \A y \in D : m <= y
  BY <1>2, LeastNumber
<1>4. PICK x \in T : m = b - x
  BY <1>1, <1>3
<1>5. ASSUME NEW y \in T PROVE x >= y
  <2>1. b - y \in D
    BY <1>1
  <2>2. b - x <= b - y
    BY <1>3, <1>4, <2>1
  <2> QED
    BY <2>2
<1>6. \E z \in T : \A y \in T : z >= y
  BY <1>5
<1> QED
  BY <1>6 DEF Max

LEMMA MaxOfTwo ==
  ASSUME NEW a \in Int, NEW b \in Int
  PROVE  Max({a, b}) = IF a >= b THEN a ELSE b
<1>1. CASE a >= b
  <2>1. \A x \in {a, b} : (\A y \in {a, b} : x >= y) <=> x = a
    BY <1>1
  <2> QED
    BY <1>1, <2>1 DEF Max
<1>2. CASE b > a
  <2>1. \A x \in {a, b} : (\A y \in {a, b} : x >= y) <=> x = b
    BY <1>2
  <2> QED
    BY <1>2, <2>1 DEF Max
<1> QED
  BY <1>1, <1>2

\* A bounded set of numbers can be listed from the lowest up: the place of x is
\* how many elements are not above it.
LEMMA AscendingIs ==
  ASSUME NEW S \in SUBSET Nat, NEW b \in Nat, \A x \in S : x <= b
  PROVE  /\ Cardinality(S) \in Nat
         /\ Ascending(S) \in [1..Cardinality(S) -> S]
         /\ \A i, j \in 1..Cardinality(S) : i < j => Ascending(S)[i] < Ascending(S)[j]
         /\ \A x \in S : \E i \in 1..Cardinality(S) : Ascending(S)[i] = x
<1>1. IsFiniteSet(S) /\ Cardinality(S) \in Nat
  BY FS_BoundedSetOfNaturals, FS_CardinalityType
<1>2. PICK n : n = Cardinality(S)
  OBVIOUS
<1> DEFINE upto(x) == {y \in S : y <= x}
           rank == [x \in S |-> Cardinality(upto(x))]
<1>3. ASSUME NEW x \in S
      PROVE  IsFiniteSet(upto(x)) /\ Cardinality(upto(x)) \in 1..n
  <2>1. upto(x) \in SUBSET S /\ upto(x) # {}
    OBVIOUS
  <2>2. IsFiniteSet(upto(x)) /\ Cardinality(upto(x)) <= n
    BY <1>1, <1>2, <2>1, FS_Subset
  <2>3. Cardinality(upto(x)) \in Nat /\ Cardinality(upto(x)) # 0
    BY <2>1, <2>2, FS_EmptySet, FS_CardinalityType
  <2> HIDE DEF upto
  <2> QED
    BY <1>1, <1>2, <2>2, <2>3
<1>4. ASSUME NEW x \in S, NEW y \in S, x < y PROVE rank[x] < rank[y]
  <2>1. upto(x) \in SUBSET upto(y) /\ upto(x) # upto(y)
    <3>1. y \in upto(y) /\ y \notin upto(x)
      BY <1>4
    <3>2. \A z \in upto(x) : z \in upto(y)
      BY <1>4
    <3> QED
      BY <3>1, <3>2
  <2>2. IsFiniteSet(upto(y)) /\ Cardinality(upto(x)) \in Nat /\ Cardinality(upto(y)) \in Nat
    BY <1>1, <1>2, <1>3
  <2> HIDE DEF upto
  <2>3. /\ Cardinality(upto(x)) <= Cardinality(upto(y))
        /\ Cardinality(upto(y)) # Cardinality(upto(x))
    BY <2>1, <2>2, FS_Subset
  <2> QED
    BY <2>2, <2>3
<1>5. rank \in [S -> 1..n] /\ \A x \in S : rank[x] = Cardinality(upto(x))
  BY <1>3
<1> HIDE DEF rank, upto
<1>6. \A x, y \in S : rank[x] = rank[y] => x = y
  <2>1. ASSUME NEW x \in S, NEW y \in S, rank[x] = rank[y] PROVE x = y
    <3>1. rank[x] \in 1..n
      BY <1>5
    <3>2. ~(x < y) /\ ~(y < x)
      BY <1>1, <1>2, <1>4, <2>1, <3>1
    <3> QED
      BY <3>2
  <2> QED
    BY <2>1
<1>7. \A k \in 1..n : \E x \in S : rank[x] = k
  <2>1. IsFiniteSet(1..n) /\ Cardinality(1..n) = Cardinality(S)
    BY <1>1, <1>2, FS_Interval
  <2>2. rank \in Injection(S, 1..n)
    BY <1>5, <1>6 DEF Injection, IsInjective
  <2>3. rank \in Surjection(S, 1..n)
    BY <2>1, <2>2, FS_Injection
  <2> QED
    BY <2>3 DEF Surjection
<1> DEFINE a == [k \in 1..n |-> CHOOSE x \in S : rank[x] = k]
<1>8. a \in [1..n -> S] /\ \A k \in 1..n : rank[a[k]] = k
  BY <1>7
<1> HIDE DEF a
<1>9. \A i, j \in 1..n : i < j => a[i] < a[j]
  <2>1. ASSUME NEW i \in 1..n, NEW j \in 1..n, i < j PROVE a[i] < a[j]
    <3>1. a[i] \in S /\ a[j] \in S /\ rank[a[i]] = i /\ rank[a[j]] = j
      BY <1>8
    <3>2. PICK x \in S, y \in S : x = a[i] /\ y = a[j]
      BY <3>1
    <3>3. rank[x] = i /\ rank[y] = j /\ x \in Nat /\ y \in Nat /\ i \in Nat /\ j \in Nat
      BY <1>1, <1>2, <3>1, <3>2
    <3>4. ~(y < x)
      BY <1>4, <2>1, <3>3
    <3>5. x # y
      BY <2>1, <3>3
    <3> QED
      BY <3>2, <3>3, <3>4, <3>5
  <2> QED
    BY <2>1
<1>10. \E c \in [1..n -> S] : \A i, j \in DOMAIN c : i < j => c[i] < c[j]
  BY <1>8, <1>9
<1>11. PICK s : s = Ascending(S)
  OBVIOUS
<1>12. s \in [1..n -> S] /\ \A i, j \in 1..n : i < j => s[i] < s[j]
  <2>1. s \in [1..n -> S] /\ \A i, j \in DOMAIN s : i < j => s[i] < s[j]
    BY <1>2, <1>10, <1>11 DEF Ascending
  <2> QED
    BY <2>1
<1>13. \A x \in S : \E i \in 1..n : s[i] = x
  <2>1. IsFiniteSet(1..n) /\ Cardinality(1..n) = Cardinality(S)
    BY <1>1, <1>2, FS_Interval
  <2>2. \A i, j \in 1..n : s[i] = s[j] => i = j
    <3>1. ASSUME NEW i \in 1..n, NEW j \in 1..n, s[i] = s[j] PROVE i = j
      <4>1. s[i] \in Nat /\ s[j] \in Nat
        BY <1>12
      <4> QED
        BY <1>1, <1>2, <1>12, <3>1, <4>1
    <3> QED
      BY <3>1
  <2>3. s \in Injection(1..n, S)
    BY <1>12, <2>2 DEF Injection, IsInjective
  <2>4. s \in Surjection(1..n, S)
    BY <1>1, <2>1, <2>3, FS_Injection
  <2> QED
    BY <2>4 DEF Surjection
<1> QED
  BY <1>1, <1>2, <1>11, <1>12, <1>13
-----------------------------------------------------------------------------
(* Constants.                                                              *)

LEMMA Constants ==
  /\ NumDaemons \in Nat \ {0} /\ Daemons = 1..NumDaemons /\ Daemons \subseteq Nat
  /\ Len(Packets) \in Nat /\ Seqs = 1..Len(Packets) /\ Seqs \subseteq Nat
  /\ \A n \in Seqs : Packets[n].from \in Daemons
  /\ \A n \in Seqs : IsSafe(n) => ~Reliable(n)
  /\ None = 0 /\ None \notin Daemons
<1>1. /\ NumDaemons \in Nat \ {0}
      /\ Packets \in Seq([from : Daemons, svc : {"reliable", "fifo", "safe"}])
  BY SpreadRecoveryAssumption
<1>2. Len(Packets) \in Nat /\ Daemons = 1..NumDaemons /\ Seqs = 1..Len(Packets)
  BY <1>1 DEF Daemons, Seqs
<1>3. Daemons \subseteq Nat /\ Seqs \subseteq Nat /\ 0 \notin Daemons
  BY <1>1, <1>2
<1>4. ASSUME NEW n \in Seqs
      PROVE  Packets[n] \in [from : Daemons, svc : {"reliable", "fifo", "safe"}]
  <2>1. PICK T : T = [from : Daemons, svc : {"reliable", "fifo", "safe"}]
    OBVIOUS
  <2>3. Packets \in Seq(T) /\ n \in 1..Len(Packets)
    BY <1>1, <1>2, <2>1
  <2>2. Packets[n] \in T
    BY <2>3
  <2> QED
    BY <2>1, <2>2
<1>5. ASSUME NEW n \in Seqs, IsSafe(n) PROVE ~Reliable(n)
  BY <1>5 DEF IsSafe, Reliable
<1> QED
  BY <1>1, <1>2, <1>3, <1>4, <1>5 DEF None

\* q has the globals of r, but for those in F.
SameBut(q, r, F) == \A f \in Globals \ F : q[f] = r[f]

LEMMA TypedNumbers ==
  ASSUME NEW r, Typed(r)
  PROVE  /\ r.highest \in Int /\ r.myAru \in Int /\ r.aru \in Int
         /\ r.lastDiscarded \in Int /\ r.lastSeq \in Int /\ r.lastTokenAru \in Int
         /\ \A n \in Seqs : r.exist[n] \in 0..3
         /\ r.handed \in Seq(Seqs) /\ Len(r.handed) \in Nat
BY DEF Typed

\* What has been handed over is packets.
LEMMA HandedSeqs ==
  ASSUME NEW r, Typed(r)
  PROVE  /\ HandedIn(r) \subseteq Seqs /\ FirstIn(r) \subseteq HandedIn(r)
         /\ HandedIn(r) = {r.handed[i] : i \in 1..Len(r.handed)}
<1>1. PICK h : h = r.handed
  OBVIOUS
<1>2. h \in Seq(Seqs) /\ Len(h) \in Nat /\ r.signal \in 0..Len(h)
  BY <1>1 DEF Typed
<1>3. ToSet(h) = {h[i] : i \in 1..Len(h)} /\ ToSet(h) \subseteq Seqs
  BY <1>2 DEF ToSet
<1>4. ASSUME NEW n \in ToSet(SubSeq(h, 1, r.signal)) PROVE n \in ToSet(h)
  <2>1. PICK i \in DOMAIN SubSeq(h, 1, r.signal) : n = SubSeq(h, 1, r.signal)[i]
    BY <1>4 DEF ToSet
  <2>2. DOMAIN SubSeq(h, 1, r.signal) = 1..r.signal /\ i \in 1..Len(h)
        /\ SubSeq(h, 1, r.signal)[i] = h[i]
    BY <1>2, <2>1
  <2> QED
    BY <2>1, <2>2, <1>3
<1> QED
  BY <1>1, <1>3, <1>4 DEF HandedIn, FirstIn

-----------------------------------------------------------------------------
(* What is handed over at once, in the order of the ring.                  *)

LEMMA SettleIs ==
  ASSUME NEW r, Typed(r), NEW S \in SUBSET Seqs, Ordered(r.handed),
         \A n \in HandedIn(r), u \in S : r.exist[u] = 1 =>
           n # u /\ (Reliable(n) \/ n < u)
  PROVE  LET q == Settle(r, S)
         IN  /\ Typed(q) /\ SameBut(q, r, {"handed", "exist"}) /\ Ordered(q.handed)
             /\ \A n \in Seqs : q.exist[n] = IF n \in S THEN 0 ELSE r.exist[n]
             /\ HandedIn(q) = HandedIn(r) \cup {n \in S : r.exist[n] = 1}
             /\ Len(q.handed) >= Len(r.handed)
             /\ \A i \in 1..Len(r.handed) : q.handed[i] = r.handed[i]
<1> DEFINE q == Settle(r, S)
<1>1. PICK h, T : h = r.handed /\ T = {n \in S : r.exist[n] = 1}
  OBVIOUS
<1>2. PICK a : a = Ascending(T)
  OBVIOUS
<1>3. T \in SUBSET Nat /\ T \subseteq Seqs /\ \A n \in T : n <= Len(Packets)
  <2>1. \A n \in Seqs : n \in Nat /\ n <= Len(Packets)
    BY Constants
  <2> QED
    BY <1>1, <2>1
<1>4. PICK m \in Nat : m = Cardinality(T) /\ a \in [1..m -> T]
        /\ (\A i, j \in 1..m : i < j => a[i] < a[j])
        /\ \A x \in T : \E i \in 1..m : a[i] = x
  <2>1. PICK b \in Nat : b = Len(Packets)
    BY Constants
  <2>2. /\ Cardinality(T) \in Nat /\ Ascending(T) \in [1..Cardinality(T) -> T]
        /\ \A i, j \in 1..Cardinality(T) : i < j => Ascending(T)[i] < Ascending(T)[j]
        /\ \A x \in T : \E i \in 1..Cardinality(T) : Ascending(T)[i] = x
    BY <1>3, <2>1, AscendingIs
  <2> QED
    BY <1>2, <2>2
<1>5. a \in Seq(Seqs) /\ Len(a) = m /\ h \in Seq(Seqs) /\ Len(h) \in Nat
  <2>1. a \in [1..m -> Seqs]
    BY <1>3, <1>4
  <2>2. a \in Seq(Seqs) /\ Len(a) = m
    BY <2>1
  <2> QED
    BY <1>1, <2>2, TypedNumbers
<1>6. PICK g : g = h \o a
  OBVIOUS
<1>7. /\ g \in Seq(Seqs) /\ Len(g) = Len(h) + m
      /\ \A i \in 1..Len(h) : g[i] = h[i]
      /\ \A i \in (Len(h) + 1)..(Len(h) + m) : g[i] = a[i - Len(h)]
  <2>1. /\ h \o a \in Seq(Seqs) /\ Len(h \o a) = Len(h) + Len(a)
        /\ \A i \in 1..(Len(h) + Len(a)) :
             (h \o a)[i] = IF i <= Len(h) THEN h[i] ELSE a[i - Len(h)]
    BY <1>5, ConcatProperties
  <2>2. PICK l \in Nat : l = Len(h)
    BY <1>5
  <2>3. \A i \in 1..(l + m) : g[i] = IF i <= l THEN h[i] ELSE a[i - l]
    BY <1>5, <1>6, <2>1, <2>2
  <2>4. \A i \in 1..l : g[i] = h[i]
    BY <2>3
  <2>5. \A i \in (l + 1)..(l + m) : g[i] = a[i - l]
    BY <2>3
  <2> QED
    BY <1>5, <1>6, <2>1, <2>2, <2>4, <2>5
<1>8. ToSet(g) = ToSet(h) \cup T
  <2>1. /\ ToSet(g) = {g[i] : i \in 1..(Len(h) + m)} /\ ToSet(h) = {h[i] : i \in 1..Len(h)}
    BY <1>5, <1>7 DEF ToSet
  <2>2. ASSUME NEW i \in 1..(Len(h) + m) PROVE g[i] \in ToSet(h) \cup T
    <3>1. CASE i \in 1..Len(h)
      BY <3>1, <1>7, <2>1
    <3>2. CASE i \notin 1..Len(h)
      <4>1. i \in (Len(h) + 1)..(Len(h) + m) /\ i - Len(h) \in 1..m
        BY <3>2, <1>5
      <4>2. PICK p \in 1..m : p = i - Len(h)
        BY <4>1
      <4>3. a[p] \in T
        BY <1>4
      <4> QED
        BY <4>1, <4>2, <4>3, <1>7
    <3> QED
      BY <3>1, <3>2
  <2>3. ASSUME NEW x \in ToSet(h) PROVE x \in ToSet(g)
    <3>1. PICK i \in 1..Len(h) : x = h[i]
      BY <2>1, <2>3
    <3>2. i \in 1..(Len(h) + m) /\ g[i] = x
      BY <3>1, <1>5, <1>7
    <3> QED
      BY <2>1, <3>2
  <2>4. ASSUME NEW x \in T PROVE x \in ToSet(g)
    <3>1. PICK i \in 1..m : a[i] = x
      BY <1>4, <2>4
    <3>2. Len(h) + i \in (Len(h) + 1)..(Len(h) + m) /\ (Len(h) + i) - Len(h) = i
          /\ Len(h) + i \in 1..(Len(h) + m)
      BY <3>1, <1>5
    <3>3. g[Len(h) + i] = x
      BY <3>1, <3>2, <1>7
    <3> QED
      BY <2>1, <3>2, <3>3
  <2> QED
    BY <2>1, <2>2, <2>3, <2>4
<1>9. Ordered(g)
  <2>1. ASSUME NEW i \in 1..(Len(h) + m), NEW j \in 1..(Len(h) + m), i < j
        PROVE  g[i] # g[j] /\ (Reliable(g[i]) \/ Reliable(g[j]) \/ g[i] < g[j])
    <3>1. CASE j \in 1..Len(h)
      <4>1. i \in 1..Len(h) /\ g[i] = h[i] /\ g[j] = h[j] /\ DOMAIN h = 1..Len(h)
        BY <2>1, <3>1, <1>5, <1>7
      <4> QED
        BY <4>1, <2>1, <3>1, <1>1 DEF Ordered
    <3>2. CASE i \in 1..Len(h) /\ j \notin 1..Len(h)
      <4>1. j \in (Len(h) + 1)..(Len(h) + m) /\ j - Len(h) \in 1..m
        BY <3>2, <1>5
      <4>2. g[j] \in T
        <5>1. PICK p \in 1..m : p = j - Len(h)
          BY <4>1
        <5>2. a[p] \in T
          BY <1>4
        <5> QED
          BY <4>1, <5>1, <5>2, <1>7
      <4>3. g[i] = h[i] /\ h[i] \in HandedIn(r)
        BY <3>2, <1>1, <1>7, HandedSeqs
      <4> QED
        BY <4>2, <4>3, <1>1
    <3>3. CASE i \notin 1..Len(h)
      <4>1. /\ i \in (Len(h) + 1)..(Len(h) + m) /\ i - Len(h) \in 1..m
            /\ j \in (Len(h) + 1)..(Len(h) + m) /\ j - Len(h) \in 1..m
            /\ i - Len(h) < j - Len(h)
        BY <2>1, <3>3, <1>5
      <4>2. g[i] = a[i - Len(h)] /\ g[j] = a[j - Len(h)] /\ a[i - Len(h)] < a[j - Len(h)]
        BY <4>1, <1>4, <1>7
      <4>3. a[i - Len(h)] \in Nat /\ a[j - Len(h)] \in Nat
        BY <4>1, <1>3, <1>4
      <4> QED
        BY <4>2, <4>3
    <3> QED
      BY <3>1, <3>2, <3>3
  <2> QED
    BY <2>1, <1>5, <1>7 DEF Ordered
<1>10. PICK x : x = [n \in Seqs |-> IF n \in S THEN 0 ELSE r.exist[n]]
  OBVIOUS
<1>11. q = [r EXCEPT !.handed = g, !.exist = x]
  BY <1>1, <1>2, <1>6, <1>10 DEF Settle, Typed, Globals
<1>12. x \in [Seqs -> 0..3] /\ \A n \in Seqs : x[n] = IF n \in S THEN 0 ELSE r.exist[n]
  BY <1>10, TypedNumbers
<1> HIDE DEF q
<1>13. SameBut(q, r, {"handed", "exist"}) /\ q.handed = g /\ q.exist = x /\ DOMAIN q = Globals
  BY <1>11 DEF Typed, Globals, SameBut
<1>14. Typed(q)
  <2>1. /\ q.mode = r.mode /\ q.ring = r.ring /\ q.highest = r.highest /\ q.myAru = r.myAru
        /\ q.aru = r.aru /\ q.lastDiscarded = r.lastDiscarded /\ q.signal = r.signal
        /\ q.trans = r.trans /\ q.commit = r.commit /\ q.fcommit = r.fcommit
        /\ q.lastSeq = r.lastSeq /\ q.lastTokenAru = r.lastTokenAru
    BY <1>13 DEF SameBut, Globals
  <2>2. r.signal \in 0..Len(q.handed)
    <3>1. r.signal \in 0..Len(h)
      BY <1>1 DEF Typed
    <3> QED
      BY <3>1, <1>5, <1>7, <1>13
  <2> QED
    BY <2>1, <2>2, <1>7, <1>12, <1>13 DEF Typed
<1>15. HandedIn(q) = ToSet(g) /\ HandedIn(r) = ToSet(h)
  BY <1>1, <1>13 DEF HandedIn
<1> QED
  BY <1>1, <1>5, <1>7, <1>8, <1>9, <1>12, <1>13, <1>14, <1>15 DEF q

-----------------------------------------------------------------------------
(* RaiseMyAru and Backoff_membership.                                      *)

\* My_aru is raised to the number before the next hole.
LEMMA RaiseMyAruIs ==
  ASSUME NEW r, Typed(r)
  PROVE  LET q == RaiseMyAru(r)
         IN  /\ Typed(q) /\ SameBut(q, r, {"myAru"}) /\ q.myAru >= r.myAru
             /\ q.myAru = r.myAru \/ (q.myAru <= r.highest /\ q.myAru <= Len(Packets))
             /\ \A n \in Seqs : r.myAru < n /\ n <= q.myAru => r.exist[n] # 0
             /\ \A m \in Seqs :
                  /\ m <= r.highest
                  /\ \A n \in Seqs : r.myAru < n /\ n <= m => r.exist[n] # 0
                  => m <= q.myAru
<1> DEFINE q == RaiseMyAru(r)
           T == {r.myAru} \cup {m \in r.myAru..Min({r.highest, Len(Packets)}) :
                                  Holes(r, r.myAru + 1, m) = {}}
<1>1. r.myAru \in Nat /\ r.highest \in Nat /\ Len(Packets) \in Nat
  BY Constants DEF Typed
<1>2. PICK l \in Nat : /\ l = Min({r.highest, Len(Packets)})
                       /\ l <= r.highest /\ l <= Len(Packets)
                       /\ l = r.highest \/ l = Len(Packets)
  <2>1. PICK U : U = {r.highest, Len(Packets)}
    OBVIOUS
  <2>2. U \in SUBSET Nat /\ U # {}
    BY <1>1, <2>1
  <2>3. Min(U) \in U /\ \A y \in U : Min(U) <= y
    BY <2>2, MinOf
  <2> QED
    BY <1>1, <2>1, <2>2, <2>3
<1>3. ASSUME NEW m \in Nat
      PROVE  Holes(r, r.myAru + 1, m) = {} <=>
               \A n \in (r.myAru + 1)..m : n \in Seqs /\ r.exist[n] # 0
  BY DEF Holes, Has
<1>4. T \in SUBSET Nat /\ r.myAru \in T /\ \A x \in T : x <= r.myAru + l
  <2>1. \A x \in T : x = r.myAru \/ x \in r.myAru..l
    BY <1>2
  <2>2. \A x \in T : x \in Nat /\ x <= r.myAru + l
    BY <1>1, <1>2, <2>1
  <2> QED
    BY <2>2
<1>5. PICK m : m = Max(T)
  OBVIOUS
<1>6. m \in T /\ \A y \in T : m >= y
  <2>1. r.myAru + l \in Nat
    BY <1>1, <1>2
  <2> HIDE DEF T
  <2> QED
    BY <1>4, <1>5, <2>1, MaxOf
<1>7. q = [r EXCEPT !.myAru = m]
  BY <1>5 DEF RaiseMyAru, Typed, Globals
<1> HIDE DEF q
<1>8. SameBut(q, r, {"myAru"}) /\ q.myAru = m /\ DOMAIN q = Globals
  BY <1>7 DEF Typed, Globals, SameBut
<1>9. m \in Nat /\ m >= r.myAru
  BY <1>1, <1>2, <1>6
<1>10. Typed(q)
  BY <1>8, <1>9 DEF Typed, SameBut, Globals
<1>11. m = r.myAru \/ (m <= r.highest /\ m <= Len(Packets))
  BY <1>1, <1>2, <1>6
<1>12. ASSUME NEW n \in Seqs, r.myAru < n, n <= m PROVE r.exist[n] # 0
  <2>1. n \in Nat /\ m # r.myAru
    BY <1>1, <1>9, <1>12, Constants
  <2>2. Holes(r, r.myAru + 1, m) = {}
    BY <1>6, <2>1
  <2>3. n \in (r.myAru + 1)..m
    BY <1>1, <1>9, <1>12, <2>1
  <2> QED
    BY <1>3, <1>9, <2>2, <2>3
<1>13. ASSUME NEW i \in Seqs, i <= r.highest,
              \A n \in Seqs : r.myAru < n /\ n <= i => r.exist[n] # 0
       PROVE  i <= m
  <2>1. i \in Nat /\ i <= Len(Packets)
    BY Constants
  <2>2. CASE i < r.myAru
    BY <1>1, <1>9, <2>1, <2>2
  <2>3. CASE i >= r.myAru
    <3>1. \A n \in (r.myAru + 1)..i : n \in Seqs /\ r.myAru < n /\ n <= i
      BY <1>1, <2>1, Constants
    <3>2. Holes(r, r.myAru + 1, i) = {}
      BY <1>3, <1>13, <2>1, <3>1
    <3>3. i \in r.myAru..l
      BY <1>1, <1>2, <1>13, <2>1, <2>3
    <3> QED
      BY <1>2, <1>6, <3>2, <3>3
  <2> QED
    BY <1>1, <2>1, <2>2, <2>3
<1> QED
  BY <1>8, <1>9, <1>10, <1>11, <1>12, <1>13 DEF q

\* The dummies are gone, and My_aru is as before them.
LEMMA BackoffIs ==
  ASSUME NEW r, Typed(r)
  PROVE  LET q == Backoff(r)
         IN  /\ Typed(q) /\ SameBut(q, r, {"exist", "aru", "myAru"})
             /\ q.aru = r.lastDiscarded /\ q.myAru >= r.lastDiscarded
             /\ q.myAru = r.lastDiscarded \/ (q.myAru <= r.highest /\ q.myAru <= Len(Packets))
             /\ \A n \in Seqs :
                  q.exist[n] = IF r.exist[n] = 3 /\ n \in (r.lastDiscarded + 1)..r.highest
                               THEN 0 ELSE r.exist[n]
             /\ \A n \in Seqs : r.lastDiscarded < n /\ n <= q.myAru => q.exist[n] # 0
             /\ \A m \in Seqs :
                  /\ m <= r.highest
                  /\ \A n \in Seqs : r.lastDiscarded < n /\ n <= m => q.exist[n] # 0
                  => m <= q.myAru
<1> DEFINE q == Backoff(r)
<1>1. PICK x : x = [n \in Seqs |-> IF r.exist[n] = 3 /\ n \in (r.lastDiscarded + 1)..r.highest
                                   THEN 0 ELSE r.exist[n]]
  OBVIOUS
<1>2. PICK u : u = [r EXCEPT !.exist = x, !.aru = r.lastDiscarded, !.myAru = r.lastDiscarded]
  OBVIOUS
<1>3. q = RaiseMyAru(u)
  BY <1>1, <1>2 DEF Backoff
<1>4. x \in [Seqs -> 0..3] /\ \A n \in Seqs :
        x[n] = IF r.exist[n] = 3 /\ n \in (r.lastDiscarded + 1)..r.highest THEN 0 ELSE r.exist[n]
  BY <1>1, TypedNumbers
<1>5. /\ DOMAIN u = Globals /\ SameBut(u, r, {"exist", "aru", "myAru"})
      /\ u.exist = x /\ u.aru = r.lastDiscarded /\ u.myAru = r.lastDiscarded
  BY <1>2 DEF Typed, Globals, SameBut
<1>6. Typed(u)
  BY <1>4, <1>5 DEF Typed, SameBut, Globals
<1>7. u.highest = r.highest
  BY <1>5 DEF SameBut, Globals
<1> HIDE DEF q
<1>8. /\ Typed(q) /\ SameBut(q, u, {"myAru"}) /\ q.myAru >= u.myAru
      /\ q.myAru = u.myAru \/ (q.myAru <= u.highest /\ q.myAru <= Len(Packets))
      /\ \A n \in Seqs : u.myAru < n /\ n <= q.myAru => u.exist[n] # 0
      /\ \A m \in Seqs :
           /\ m <= u.highest
           /\ \A n \in Seqs : u.myAru < n /\ n <= m => u.exist[n] # 0
           => m <= q.myAru
  BY <1>3, <1>6, RaiseMyAruIs
<1>9. /\ q.exist = u.exist /\ q.aru = u.aru
      /\ SameBut(q, r, {"exist", "aru", "myAru"})
  BY <1>5, <1>8 DEF SameBut, Globals
<1>10. q.exist = x /\ q.aru = r.lastDiscarded /\ u.exist = x
  BY <1>5, <1>9
<1> QED
  BY <1>4, <1>5, <1>7, <1>8, <1>9, <1>10 DEF q

-----------------------------------------------------------------------------
(* A step of d, and what it leaves as it is.                               *)

Moves(s, k, s2, k2, d) ==
  /\ DOMAIN s2 = Daemons /\ DOMAIN k \subseteq DOMAIN k2 /\ \E m \in Nat : DOMAIN k2 = 1..m
  /\ \A e \in Daemons : e # d => s2[e] = s[e]
  /\ Typed(s2[d]) /\ s[d].mode # "op" /\ (s2[d].mode # "op" => s[d].highest <= s2[d].highest)
  /\ \A n \in Seqs : Firm(s[d], k, n) => Firm(s2[d], k2, n)
  /\ \A b \in DOMAIN k, n \in Seqs : Counts(k[b], n) => Counts(k2[b], n)

\* What others keep they keep: form tokens only come to say more.
LEMMA KeptStays ==
  ASSUME NEW g, NEW s, NEW k, NEW s2, NEW k2, NEW d \in Daemons,
         Inv(g, s, k), Moves(s, k, s2, k2, d), NEW e \in Daemons, e # d
  PROVE  /\ s2[e] = s[e]
         /\ \A n \in Seqs : Kept(s[e], k, n) => Kept(s2[e], k2, n)
         /\ \A n \in Seqs : Firm(s[e], k, n) => Firm(s2[e], k2, n)
<1>1. s2[e] = s[e]
  BY DEF Moves
<1>2. s[e].mode = "form" => s[e].ring \in DOMAIN k
  BY DEF Inv, DaemonInv
<1>3. \A b \in DOMAIN k, n \in Seqs : Counts(k[b], n) => Counts(k2[b], n)
  BY DEF Moves
<1>4. \A n \in Seqs : Kept(s[e], k, n) => Kept(s2[e], k2, n)
  BY <1>1, <1>2, <1>3 DEF Kept
<1>5. ASSUME NEW n \in Seqs, Firm(s[e], k, n) PROVE Firm(s2[e], k2, n)
  <2>1. \A u \in 1..n : u \in Seqs
    BY Constants
  <2> QED
    BY <1>1, <1>4, <1>5, <2>1 DEF Firm
<1> QED
  BY <1>1, <1>4, <1>5

LEMMA FirmStays ==
  ASSUME NEW g, NEW s, NEW k, NEW s2, NEW k2, NEW d \in Daemons,
         Inv(g, s, k), Moves(s, k, s2, k2, d)
  PROVE  \A e \in Daemons, n \in Seqs : Firm(s[e], k, n) => Firm(s2[e], k2, n)
<1>1. \A n \in Seqs : Firm(s[d], k, n) => Firm(s2[d], k2, n)
  BY DEF Moves
<1>2. ASSUME NEW e \in Daemons, e # d
      PROVE  \A n \in Seqs : Firm(s[e], k, n) => Firm(s2[e], k2, n)
  BY <1>2, KeptStays
<1> QED
  BY <1>1, <1>2

LEMMA OthersStay ==
  ASSUME NEW g, NEW s, NEW k, NEW s2, NEW k2, NEW d \in Daemons,
         Inv(g, s, k), Moves(s, k, s2, k2, d), NEW e \in Daemons, e # d
  PROVE  DaemonInv(g, s2, k2, e)
<1>1. s2[e] = s[e] /\ \A n \in Seqs : Kept(s[e], k, n) => Kept(s2[e], k2, n)
  BY KeptStays
<1>2. DaemonInv(g, s, k, e) /\ DOMAIN k \subseteq DOMAIN k2
  BY DEF Inv, Moves
<1>3. ASSUME s[e].mode = "op" PROVE Arrived(g, s2, k2, e)
  <2>1. Arrived(g, s, k, e) /\ Typed(s[e])
    BY <1>2, <1>3 DEF DaemonInv
  <2>2. \A n \in HandedIn(s[e]), f \in s[e].trans : n \in Seqs /\ f \in Daemons
    BY <2>1, HandedSeqs DEF Typed
  <2>3. \A f \in Daemons, n \in Seqs : Firm(s[f], k, n) => Firm(s2[f], k2, n)
    BY FirmStays
  <2>4. \A n \in HandedIn(s2[e]), f \in s2[e].trans : ~Reliable(n) => Firm(s2[f], k2, n)
    BY <1>1, <2>1, <2>2, <2>3 DEF Arrived
  <2> QED
    BY <1>1, <2>1, <2>4 DEF Arrived
<1>4. ASSUME s[e].mode # "op" PROVE Waits(g, s2[e], k2, e)
  <2>1. Waits(g, s[e], k, e) /\ Typed(s[e])
    BY <1>2, <1>4 DEF DaemonInv
  <2>2. /\ \A f \in s[e].commit.all : Knows(g, s[e], k, f)
        /\ \A n \in g[e] : Kept(s[e], k, n)
    BY <2>1 DEF Waits, Commitment
  <2>3. \A f \in s[e].commit.all : Knows(g, s2[e], k2, f)
    BY <1>1, <2>2 DEF Knows
  <2>4. \A n \in g[e] : Kept(s2[e], k2, n)
    <3>1. g[e] \subseteq Seqs
      BY DEF Inv
    <3> QED
      BY <1>1, <2>2, <3>1
  <2> QED
    BY <1>1, <2>1, <2>3, <2>4 DEF Waits, Commitment
<1> QED
  BY <1>1, <1>2, <1>3, <1>4 DEF DaemonInv

\* A token that stays as it is, with d not in its attempt any more, or not yet.
LEMMA OtherToken ==
  ASSUME NEW g, NEW s, NEW k, NEW s2, NEW k2, NEW d \in Daemons,
         Inv(g, s, k), Moves(s, k, s2, k2, d),
         NEW b \in DOMAIN k, k2[b] = k[b], s2[d].ring # b
  PROVE  TokenInv(g, s2, k2, b)
<1>1. PICK t : t = k[b]
  OBVIOUS
<1>2. TokenInv(g, s, k, b) /\ k2[b] = t
  BY <1>1 DEF Inv
<1>3. \A e \in Daemons : e # d => s2[e] = s[e]
  BY DEF Moves
<1>4. \A e \in Daemons : /\ InForm(s2, b, e) => s2[e] = s[e] /\ InForm(s, b, e)
                         /\ InEvs(s2, b, e) => s2[e] = s[e] /\ InEvs(s, b, e)
                         /\ Came(s2, b, e) => s2[e] = s[e] /\ Came(s, b, e)
  BY <1>3 DEF InForm, InEvs, Came
<1>5. \A e \in Daemons : Came(s, b, e) => Came(s2, b, e)
  BY <1>3 DEF Came, Moves
<1>6. ASSUME t.kind \in {"form1", "form2"} PROVE FormInv(g, s2, t, b)
  <2>1. FormInv(g, s, t, b) /\ t.rest \subseteq Daemons
    BY <1>1, <1>2, <1>6 DEF TokenInv, TokenTyped
  <2>2. ASSUME NEW e \in Daemons, InForm(s2, b, e) PROVE Fills(s2, t, e)
    <3>1. s2[e] = s[e] /\ Fills(s, t, e)
      BY <1>4, <2>1, <2>2 DEF FormInv
    <3>2. \A f \in t.rest : (s[f].mode = "op" \/ s[e].highest <= s[f].highest)
                            => (s2[f].mode = "op" \/ s[e].highest <= s2[f].highest)
      <4>1. ASSUME NEW f \in t.rest, s[f].mode = "op" \/ s[e].highest <= s[f].highest
            PROVE  s2[f].mode = "op" \/ s[e].highest <= s2[f].highest
        <5>1. CASE f # d
          BY <1>3, <2>1, <4>1, <5>1
        <5>2. CASE f = d /\ s2[d].mode # "op"
          <6>1. s[d].mode # "op" /\ s[d].highest <= s2[d].highest
            BY <5>2 DEF Moves
          <6>2. s[d].highest \in Int /\ s[e].highest \in Int /\ s2[d].highest \in Int
            BY TypedNumbers DEF Inv, DaemonInv, Moves
          <6> QED
            BY <4>1, <5>2, <6>1, <6>2
        <5> QED
          BY <5>1, <5>2
      <4> QED
        BY <4>1
    <3> QED
      BY <3>1, <3>2 DEF Fills
  <2> QED
    BY <1>4, <2>1, <2>2 DEF FormInv
<1>7. ASSUME t.kind = "regular" PROVE RegularInv(g, s2, k2, t, b)
  <2>1. RegularInv(g, s, k, t, b) /\ t.members \subseteq Daemons
    BY <1>1, <1>2, <1>7 DEF TokenInv, TokenTyped
  <2>2. \A e \in t.members : Ready(s[e], k, t.rg) => Ready(s2[e], k2, t.rg)
    BY <2>1, FirmStays DEF Ready
  <2>3. ASSUME NEW h \in t.rest PROVE Arus(s2, t, b, h)
    BY <1>4, <2>1, <2>3 DEF RegularInv, Arus
  <2>4. ASSUME NEW h \in t.rest PROVE AllReady(s2, k2, t, b, h)
    <3>1. AllReady(s, k, t, b, h)
      BY <2>1, <2>4 DEF RegularInv
    <3> QED
      BY <1>4, <1>5, <2>1, <2>2, <3>1 DEF AllReady
  <2> QED
    BY <1>4, <2>1, <2>3, <2>4 DEF RegularInv
<1> QED
  BY <1>1, <1>2, <1>4, <1>6, <1>7 DEF TokenInv

\* A step keeps the invariant if it does so for its daemon and its tokens.
LEMMA StepKeeps ==
  ASSUME NEW g, NEW s, NEW k, NEW s2, NEW k2, NEW d \in Daemons,
         Inv(g, s, k), Moves(s, k, s2, k2, d), DaemonInv(g, s2, k2, d),
         \A b \in DOMAIN k2 : TokenInv(g, s2, k2, b),
         \A e \in Daemons :
           s2[d].mode = "op" /\ s[e].mode = "op" /\ s[e].ring = s2[d].ring =>
             Same(s2[d], s[e])
  PROVE  Inv(g, s2, k2)
<1>1. \A e \in Daemons : DaemonInv(g, s2, k2, e)
  BY OthersStay
<1>2. \A e \in Daemons : e # d => s2[e] = s[e]
  BY DEF Moves
<1>3. ASSUME NEW e \in Daemons, NEW f \in Daemons,
             s2[e].mode = "op", s2[f].mode = "op", s2[e].ring = s2[f].ring
      PROVE  Same(s2[e], s2[f])
  <2>1. CASE e = d /\ f = d
    BY <2>1 DEF Same
  <2>2. CASE e = d /\ f # d
    BY <1>2, <1>3, <2>2
  <2>3. CASE e # d /\ f = d
    <3>1. Same(s2[d], s[e])
      BY <1>2, <1>3, <2>3
    <3> QED
      BY <1>2, <2>3, <3>1 DEF Same
  <2>4. CASE e # d /\ f # d
    BY <1>2, <1>3, <2>4 DEF Inv
  <2> QED
    BY <2>1, <2>2, <2>3, <2>4
<1> QED
  BY <1>1, <1>3 DEF Inv, Moves

-----------------------------------------------------------------------------
(* Create_form1 and Fill_form1: a daemon commits to an attempt.            *)

\* A daemon with r that has filled the form1 token of a.
InFormOf(r, a) == [r EXCEPT !.mode = "form", !.ring = a]

LEMMA FormOf ==
  ASSUME NEW r, Typed(r), NEW a, a \in Nat
  PROVE  LET q == InFormOf(r, a)
         IN  /\ Typed(q) /\ q.mode = "form" /\ q.ring = a
             /\ q.highest = r.highest /\ q.commit = r.commit /\ q.exist = r.exist
             /\ q.lastDiscarded = r.lastDiscarded /\ q.handed = r.handed
             /\ q.myAru = r.myAru /\ q.aru = r.aru /\ q.exits = r.exits
<1>1. PICK q : q = InFormOf(r, a)
  OBVIOUS
<1>2. SameBut(q, r, {"mode", "ring"}) /\ q.mode = "form" /\ q.ring = a /\ DOMAIN q = Globals
  BY <1>1 DEF InFormOf, Typed, Globals, SameBut
<1>3. Typed(q)
  BY <1>2 DEF Typed, SameBut, Globals
<1>4. /\ q.highest = r.highest /\ q.commit = r.commit /\ q.exist = r.exist
      /\ q.lastDiscarded = r.lastDiscarded /\ q.handed = r.handed /\ q.myAru = r.myAru
      /\ q.aru = r.aru /\ q.exits = r.exits
  BY <1>2 DEF SameBut, Globals
<1> QED
  BY <1>1, <1>2, <1>3, <1>4

\* Whoever fills a form1 token that counts in what it keeps, keeps it.
LEMMA JoinsForm ==
  ASSUME NEW g, NEW s, NEW k, NEW s2, NEW k2, NEW d \in Daemons, NEW a \in DOMAIN k2,
         Inv(g, s, k), s[d].mode = "idle",
         s2[d] = InFormOf(s[d], a), DOMAIN s2 = Daemons,
         \A e \in Daemons : e # d => s2[e] = s[e],
         DOMAIN k \subseteq DOMAIN k2, \E m \in Nat : DOMAIN k2 = 1..m,
         \A b \in DOMAIN k2 : b # a => b \in DOMAIN k /\ k2[b] = k[b],
         a \in DOMAIN k => \A n \in Seqs : Counts(k[a], n) => Counts(k2[a], n),
         \A n \in Seqs : KeepsIn(s[d], n) => Counts(k2[a], n),
         TokenInv(g, s2, k2, a)
  PROVE  Inv(g, s2, k2)
<1>1. PICK r, q : r = s[d] /\ q = InFormOf(r, a)
  OBVIOUS
<1>2. DOMAIN s = Daemons /\ Typed(r) /\ r.exits = {} /\ Ordered(r.handed) /\ Waits(g, r, k, d)
  BY <1>1 DEF Inv, DaemonInv
<1>3. s2[d] = q /\ DOMAIN s2 = Daemons /\ \A e \in Daemons : e # d => s2[e] = s[e]
  BY <1>1, <1>2
<1>4. a \in Nat
  OBVIOUS
<1>5. /\ Typed(q) /\ q.mode = "form" /\ q.ring = a
      /\ q.highest = r.highest /\ q.commit = r.commit /\ q.exist = r.exist
      /\ q.lastDiscarded = r.lastDiscarded /\ q.handed = r.handed /\ q.myAru = r.myAru
      /\ q.aru = r.aru /\ q.exits = r.exits
  BY <1>1, <1>2, <1>4, FormOf
<1>6. \A n \in Seqs : Kept(r, k, n) => Kept(q, k2, n)
  BY <1>1, <1>5 DEF Kept, KeepsIn
<1>7. \A n \in Seqs : Firm(r, k, n) => Firm(q, k2, n)
  <2>1. \A n \in Seqs : \A u \in 1..n : u \in Seqs
    BY Constants
  <2> QED
    BY <1>1, <1>5, <1>6, <2>1 DEF Firm
<1>8. Moves(s, k, s2, k2, d)
  <2>1. \A b \in DOMAIN k, n \in Seqs : Counts(k[b], n) => Counts(k2[b], n)
    OBVIOUS
  <2>2. q.highest <= q.highest
    BY <1>5, TypedNumbers
  <2> QED
    BY <1>1, <1>3, <1>5, <1>7, <2>1, <2>2 DEF Moves
<1>9. DaemonInv(g, s2, k2, d)
  <2>1. Buffer(g, q)
    BY <1>1, <1>2, <1>5 DEF Waits, Buffer
  <2>2. Clients(g, q, d)
    BY <1>2, <1>5 DEF Waits, Clients, HandedIn
  <2>3. g[d] \subseteq Seqs
    BY DEF Inv
  <2>4. Commitment(g, q, k2, d)
    <3>1. Commitment(g, r, k, d)
      BY <1>2 DEF Waits
    <3>2. \A f \in r.commit.all : Knows(g, q, k2, f)
      BY <1>6, <3>1 DEF Commitment, Knows
    <3> QED
      BY <1>5, <1>6, <2>3, <3>1, <3>2 DEF Commitment
  <2> QED
    BY <1>2, <1>3, <1>5, <2>1, <2>2, <2>4 DEF DaemonInv, Waits
<1>10. \A b \in DOMAIN k2 : TokenInv(g, s2, k2, b)
  BY <1>3, <1>5, <1>8, OtherToken
<1>11. \A e \in Daemons :
         s2[d].mode = "op" /\ s[e].mode = "op" /\ s[e].ring = s2[d].ring =>
           Same(s2[d], s[e])
  BY <1>3, <1>5
<1> QED
  BY <1>8, <1>9, <1>10, <1>11, StepKeeps

\* What an idle daemon has, as the form token tells it.
IdleHas(g, r, d) ==
  /\ Typed(r) /\ g[d] \subseteq Seqs /\ r.ring = None
  /\ r.aru = r.lastDiscarded /\ r.aru \in Nat /\ r.highest \in Nat /\ r.myAru \in Nat
  /\ r.aru <= r.highest /\ r.highest <= Len(Packets) /\ r.aru <= r.myAru
  /\ d \in r.commit.all /\ r.commit.all \subseteq Daemons
  /\ \A n \in 1..r.aru, e \in Daemons : n \in g[e]
  /\ \A n \in g[d] : KeepsIn(r, n)
  /\ \A f \in r.commit.all, c \in Seqs : Had(g, f, c) => KeepsIn(r, c)
  /\ \A n \in Seqs : KeepsIn(r, n) => n <= r.highest /\ (n <= r.aru \/ r.exist[n] # 0)

LEMMA IdleKnows ==
  ASSUME NEW g, NEW s, NEW k, NEW d \in Daemons, Inv(g, s, k), s[d].mode = "idle"
  PROVE  IdleHas(g, s[d], d)
<1>1. PICK r : r = s[d]
  OBVIOUS
<1>2. /\ Typed(r) /\ Waits(g, r, k, d) /\ g[d] \subseteq Seqs /\ r.ring = None
      /\ r.mode # "op" /\ r.mode # "evs" /\ r.mode # "form"
  BY <1>1 DEF Inv, DaemonInv
<1>3. /\ r.aru \in Nat /\ r.highest \in Nat /\ r.myAru \in Nat /\ r.commit.all \subseteq Daemons
  BY <1>2 DEF Typed, Commits
<1>4. /\ r.aru = r.lastDiscarded /\ r.aru <= r.highest /\ r.highest <= Len(Packets)
      /\ r.aru <= r.myAru /\ \A n \in 1..r.aru, e \in Daemons : n \in g[e]
  BY <1>2 DEF Waits, Buffer
<1>5. /\ d \in r.commit.all /\ \A n \in g[d] : KeepsIn(r, n)
      /\ \A f \in r.commit.all, c \in Seqs : Had(g, f, c) => KeepsIn(r, c)
  BY <1>2 DEF Waits, Commitment, Knows, Kept
<1>6. ASSUME NEW n \in Seqs, KeepsIn(r, n)
      PROVE  n <= r.highest /\ (n <= r.aru \/ r.exist[n] # 0)
  <2>1. n \in Nat /\ Buffer(g, r)
    BY <1>2, Constants DEF Waits
  <2> QED
    BY <1>2, <1>3, <1>4, <1>6, <2>1 DEF KeepsIn, Buffer
<1> QED
  BY <1>1, <1>2, <1>3, <1>4, <1>5, <1>6 DEF IdleHas

LEMMA HolesAre ==
  ASSUME NEW r, NEW lo, NEW hi, lo \in Nat, lo # 0, hi \in Nat, hi <= Len(Packets)
  PROVE  /\ Holes(r, lo, hi) \subseteq Seqs /\ \A n \in Holes(r, lo, hi) : lo <= n /\ n <= hi
         /\ \A n \in Seqs : n \in Holes(r, lo, hi) <=> lo <= n /\ n <= hi /\ r.exist[n] = 0
<1>1. Len(Packets) \in Nat /\ Seqs = 1..Len(Packets)
  BY Constants
<1> QED
  BY <1>1 DEF Holes, Has

\* The token that Create_form1 sends.
NewForm(d, others, r) ==
  [kind |-> "form1", members |-> others \cup {d}, rest |-> others,
   seq |-> r.highest + Far, rg |-> RingInfo(d, r)]

\* A form token that says what d has, among others perhaps.
Tells(g, t, d, r) ==
  /\ TokenTyped(t) /\ Info(g, t) /\ t.kind \in {"form1", "form2"} /\ t.rest # {}
  /\ (t.kind = "form1" => d \in Given(t)) /\ (t.kind = "form2" => d \in t.rest)
  /\ r.commit.all \subseteq t.rg.commit /\ r.lastDiscarded <= t.rg.aru
  /\ r.highest <= t.rg.highest
  /\ \A n \in Seqs : KeepsIn(r, n) => Counts(t, n)

LEMMA NewTokenIs ==
  ASSUME NEW g, NEW s, NEW k, NEW d \in Daemons, Inv(g, s, k), s[d].mode = "idle",
         NEW others \in SUBSET (Daemons \ {d})
  PROVE  Tells(g, Passed(NewForm(d, others, s[d])), d, s[d])
<1>1. PICK r, t, rg : r = s[d] /\ t = Passed(NewForm(d, others, s[d])) /\ rg = RingInfo(d, r)
  OBVIOUS
<1>2. /\ Typed(r) /\ g[d] \subseteq Seqs
      /\ r.aru = r.lastDiscarded /\ r.aru \in Nat /\ r.highest \in Nat /\ r.myAru \in Nat
      /\ r.aru <= r.highest /\ r.highest <= Len(Packets) /\ r.aru <= r.myAru
      /\ d \in r.commit.all /\ r.commit.all \subseteq Daemons
      /\ \A n \in 1..r.aru, e \in Daemons : n \in g[e]
      /\ \A n \in g[d] : KeepsIn(r, n)
      /\ \A f \in r.commit.all, c \in Seqs : Had(g, f, c) => KeepsIn(r, c)
      /\ \A n \in Seqs : KeepsIn(r, n) => n <= r.highest /\ (n <= r.aru \/ r.exist[n] # 0)
  <2>1. IdleHas(g, r, d)
    BY <1>1, IdleKnows
  <2> QED
    BY <2>1 DEF IdleHas
<1>3. PICK H : H = Holes(r, r.myAru + 1, r.highest)
  OBVIOUS
<1>4. H \subseteq Seqs /\ (\A n \in H : n <= r.highest)
      /\ \A n \in Seqs : KeepsIn(r, n) => n <= r.highest /\ n \notin H
  <2>1. r.myAru + 1 \in Nat /\ r.myAru + 1 # 0
    BY <1>2
  <2>2. H \subseteq Seqs /\ (\A n \in H : r.myAru + 1 <= n /\ n <= r.highest /\ r.exist[n] = 0)
    BY <1>2, <1>3, <2>1, HolesAre
  <2>3. \A n \in H : n \in Nat /\ ~(n <= r.aru)
    BY <1>2, <2>2, Constants
  <2> QED
    BY <1>2, <2>2, <2>3
<1>5. /\ rg.aru = r.aru /\ rg.highest = r.highest /\ rg.holes = H /\ rg.trans = {d}
      /\ rg.commit = r.commit.all
  BY <1>1, <1>2, <1>3 DEF RingInfo
<1>6. rg \in Infos
  BY <1>1, <1>2, <1>3, <1>4 DEF RingInfo, Infos
<1>7. /\ t.members = others \cup {d} /\ t.rg = rg /\ t.seq = r.highest + Far
      /\ DOMAIN t = {"kind", "members", "rest", "seq", "rg"}
      /\ \/ t.kind = "form1" /\ t.rest = others /\ others # {}
         \/ t.kind = "form2" /\ t.rest = {d} /\ others = {}
  <2>1. PICK u : u = NewForm(d, others, r)
    OBVIOUS
  <2>2. /\ u.members = others \cup {d} /\ u.rg = rg /\ u.seq = r.highest + Far
        /\ DOMAIN u = {"kind", "members", "rest", "seq", "rg"}
        /\ u.kind = "form1" /\ u.rest = others
    BY <1>1, <2>1 DEF NewForm
  <2>3. t = IF u.rest = {} THEN [u EXCEPT !.kind = "form2", !.rest = u.members] ELSE u
    BY <1>1, <2>1 DEF Passed
  <2> QED
    BY <2>2, <2>3
<1>8. t.kind \in {"form1", "form2"} /\ t.rest \subseteq t.members /\ t.rest # {}
      /\ t.members \subseteq Daemons /\ Given(t) = {d}
  BY <1>7 DEF Given
<1>9. Info(g, t)
  <2>1. \A n \in g[d] : n <= r.highest /\ n \notin H
    BY <1>2, <1>4
  <2>2. \A f \in rg.commit : \A c \in Seqs : Had(g, f, c) => c <= rg.highest /\ c \notin rg.holes
    BY <1>2, <1>4, <1>5
  <2> QED
    BY <1>2, <1>4, <1>5, <1>7, <1>8, <2>1, <2>2 DEF Info
<1>10. TokenTyped(t)
  BY <1>5, <1>6, <1>7, <1>8 DEF TokenTyped
<1>11. \A n \in Seqs : KeepsIn(r, n) => Counts(t, n)
  BY <1>4, <1>5, <1>7 DEF Counts
<1>12. r.lastDiscarded <= rg.aru /\ r.highest <= rg.highest
  BY <1>2, <1>5
<1> QED
  BY <1>1, <1>5, <1>7, <1>8, <1>9, <1>10, <1>11, <1>12 DEF Tells

\* d has made a token for itself and the others, the one after m others.
Created(s, k, s2, k2, d, others, m) ==
  /\ d \in Daemons /\ others \in SUBSET (Daemons \ {d}) /\ s[d].mode = "idle"
  /\ m \in Nat /\ DOMAIN k = 1..m /\ DOMAIN k2 = 1..(m + 1) /\ DOMAIN s2 = Daemons
  /\ s2[d] = InFormOf(s[d], m + 1) /\ k2[m + 1] = Passed(NewForm(d, others, s[d]))
  /\ \A e \in Daemons : e # d => s2[e] = s[e]
  /\ \A b \in 1..m : k2[b] = k[b]

LEMMA CreateKeeps ==
  ASSUME NEW g, NEW s, NEW k, NEW s2, NEW k2, NEW d, NEW others, NEW m, Inv(g, s, k),
         Created(s, k, s2, k2, d, others, m)
  PROVE  Inv(g, s2, k2)
<1>0. PICK a : a = m + 1
  OBVIOUS
<1> d \in Daemons /\ others \in SUBSET (Daemons \ {d}) /\ s[d].mode = "idle"
    /\ m \in Nat /\ a = m + 1 /\ DOMAIN k = 1..m /\ DOMAIN k2 = 1..a /\ DOMAIN s2 = Daemons
    /\ s2[d] = InFormOf(s[d], a) /\ k2[a] = Passed(NewForm(d, others, s[d]))
    /\ (\A e \in Daemons : e # d => s2[e] = s[e])
    /\ \A b \in 1..m : k2[b] = k[b]
  BY <1>0 DEF Created
<1>1. PICK t : t = k2[a]
  OBVIOUS
<1>2. Tells(g, t, d, s[d])
  <2>1. Tells(g, Passed(NewForm(d, others, s[d])), d, s[d])
    BY NewTokenIs
  <2> QED
    BY <1>1, <2>1
<1>3. Typed(s[d]) /\ a \in Nat
  BY DEF Inv, DaemonInv
<1>4. /\ Typed(s2[d]) /\ s2[d].mode = "form" /\ s2[d].ring = a
      /\ s2[d].highest = s[d].highest /\ s2[d].commit = s[d].commit
      /\ s2[d].lastDiscarded = s[d].lastDiscarded
  BY <1>3, FormOf
<1>5. a \notin DOMAIN k /\ a # None /\ a \in DOMAIN k2
  BY DEF None
<1>6. \A e \in Daemons : e # d => s2[e].ring # a
  BY <1>5 DEF Inv, DaemonInv
<1>7. TokenInv(g, s2, k2, a)
  <2>1. Fills(s2, t, d)
    BY <1>2, <1>4 DEF Fills, Tells
  <2>2. FormInv(g, s2, t, a)
    BY <1>2, <1>4, <1>6, <2>1 DEF FormInv, InForm, InEvs, Came, Tells
  <2> QED
    BY <1>1, <1>2, <1>4, <1>6, <2>2 DEF TokenInv, InEvs, Tells
<1>8. \A n \in Seqs : KeepsIn(s[d], n) => Counts(k2[a], n)
  BY <1>1, <1>2 DEF Tells
<1>9. /\ DOMAIN k \subseteq DOMAIN k2 /\ \E i \in Nat : DOMAIN k2 = 1..i
      /\ \A b \in DOMAIN k2 : b # a => b \in DOMAIN k /\ k2[b] = k[b]
  BY <1>3
<1>10. a \in DOMAIN k => \A n \in Seqs : Counts(k[a], n) => Counts(k2[a], n)
  BY <1>5
<1> QED
  BY <1>5, <1>7, <1>8, <1>9, <1>10, JoinsForm

\* The form1 token of t when d with r has filled it.
FilledForm(t, d, r) ==
  Passed([t EXCEPT !.rest = @ \ {d}, !.seq = Max({@, r.highest + Far}),
                   !.rg = Filled(d, r, t.rg)])

\* It says no less than before.
SaysMore(t, q, d) ==
  /\ t.rg.commit \subseteq q.rg.commit /\ t.rg.aru <= q.rg.aru /\ t.rg.highest <= q.rg.highest
  /\ q.members = t.members
  /\ q.kind = "form1" => q.rest = t.rest \ {d}
  /\ q.kind = "form2" => q.rest = t.members /\ t.rest = {d}
  /\ \A n \in Seqs : Counts(t, n) => Counts(q, n)

LEMMA FilledTokenIs ==
  ASSUME NEW g, NEW s, NEW k, NEW d \in Daemons, Inv(g, s, k), s[d].mode = "idle",
         NEW a, a \in DOMAIN k, k[a].kind = "form1", d \in k[a].rest
  PROVE  /\ Tells(g, FilledForm(k[a], d, s[d]), d, s[d])
         /\ SaysMore(k[a], FilledForm(k[a], d, s[d]), d)
<1>1. PICK r, t, q, rg : /\ r = s[d] /\ t = k[a] /\ q = FilledForm(t, d, r)
                         /\ rg = Filled(d, r, t.rg)
  OBVIOUS
<1>2. /\ Typed(r) /\ g[d] \subseteq Seqs
      /\ r.aru = r.lastDiscarded /\ r.aru \in Nat /\ r.highest \in Nat /\ r.myAru \in Nat
      /\ r.aru <= r.highest /\ r.highest <= Len(Packets) /\ r.aru <= r.myAru
      /\ d \in r.commit.all /\ r.commit.all \subseteq Daemons
      /\ \A n \in 1..r.aru, e \in Daemons : n \in g[e]
      /\ \A n \in g[d] : KeepsIn(r, n)
      /\ \A f \in r.commit.all, c \in Seqs : Had(g, f, c) => KeepsIn(r, c)
      /\ \A n \in Seqs : KeepsIn(r, n) => n <= r.highest /\ (n <= r.aru \/ r.exist[n] # 0)
  <2>1. IdleHas(g, r, d)
    BY <1>1, IdleKnows
  <2> QED
    BY <2>1 DEF IdleHas
<1>3. /\ TokenTyped(t) /\ FormInv(g, s, t, a) /\ t.kind = "form1" /\ d \in t.rest
      /\ g \in [Daemons -> SUBSET Seqs]
  BY <1>1 DEF Inv, TokenInv
<1>4. /\ t.members \subseteq Daemons /\ t.rest \subseteq t.members
      /\ t.rg \in Infos /\ t.seq = t.rg.highest + Far
      /\ DOMAIN t = {"kind", "members", "rest", "seq", "rg"}
  BY <1>3 DEF TokenTyped
<1>5. PICK G : G = Given(t) /\ G = t.members \ t.rest
  BY <1>3 DEF Given
<1>6. /\ t.rg.trans = G /\ G # {} /\ G \subseteq t.rg.commit
      /\ t.rg.aru <= t.rg.highest /\ t.rg.highest <= Len(Packets)
      /\ \A n \in t.rg.holes : n <= t.rg.highest
      /\ \A n \in 1..t.rg.aru, e \in Daemons : n \in g[e]
      /\ \A e \in G : \A n \in g[e] : n <= t.rg.highest /\ n \notin t.rg.holes
      /\ \A f \in t.rg.commit : \A c \in Seqs :
           Had(g, f, c) => c <= t.rg.highest /\ c \notin t.rg.holes
  BY <1>3, <1>5 DEF FormInv, Info
<1>7. /\ t.rg.aru \in Nat /\ t.rg.highest \in Nat /\ t.rg.holes \subseteq Seqs
      /\ t.rg.commit \subseteq Daemons /\ Len(Packets) \in Nat /\ Far \in Nat
  BY <1>4, Constants DEF Infos, Far
<1>8. PICK H : H = Holes(r, t.rg.highest + 1, r.highest)
  OBVIOUS
<1>9. /\ H \subseteq Seqs
      /\ \A n \in Seqs : n \in H <=> t.rg.highest < n /\ n <= r.highest /\ r.exist[n] = 0
  <2>1. t.rg.highest + 1 \in Nat /\ t.rg.highest + 1 # 0
    BY <1>7
  <2>2. H \subseteq Seqs /\ \A n \in Seqs : n \in H <=> t.rg.highest + 1 <= n /\ n <= r.highest /\ r.exist[n] = 0
    BY <1>2, <1>8, <2>1, HolesAre
  <2>3. \A n \in Seqs : n \in Nat
    BY Constants
  <2> QED
    BY <1>7, <2>2, <2>3
<1>10. PICK A, M : A = Max({t.rg.aru, r.aru}) /\ M = Max({t.rg.highest, r.highest})
  OBVIOUS
<1>11. /\ A \in Nat /\ M \in Nat /\ t.rg.aru <= A /\ r.aru <= A /\ (A = t.rg.aru \/ A = r.aru)
       /\ t.rg.highest <= M /\ r.highest <= M /\ (M = t.rg.highest \/ M = r.highest)
  <2>1. PICK x \in Nat, y \in Nat, H1 \in Nat, H2 \in Nat :
          x = t.rg.aru /\ y = r.aru /\ H1 = t.rg.highest /\ H2 = r.highest
    BY <1>2, <1>7
  <2>2. A = IF x >= y THEN x ELSE y
    BY <1>10, <2>1, MaxOfTwo
  <2>3. M = IF H1 >= H2 THEN H1 ELSE H2
    BY <1>10, <2>1, MaxOfTwo
  <2> QED
    BY <2>1, <2>2, <2>3
<1>12. PICK L : L = {n \in t.rg.holes : ~Has(r, n)} \cup H
  OBVIOUS
<1>13. /\ rg.aru = A /\ rg.highest = M /\ rg.holes = L /\ rg.trans = G \cup {d}
       /\ rg.commit = t.rg.commit \cup r.commit.all
       /\ rg = [aru |-> A, highest |-> M, holes |-> L, trans |-> G \cup {d},
                commit |-> t.rg.commit \cup r.commit.all]
  BY <1>1, <1>2, <1>6, <1>8, <1>10, <1>12 DEF Filled, HolesAfter
<1>14. L \subseteq Seqs /\ (\A n \in L : n <= M)
       /\ \A n \in Seqs : n \in L => (n \in t.rg.holes \/ t.rg.highest < n) /\ r.exist[n] = 0
  <2>1. \A n \in Seqs : n \in Nat /\ (Has(r, n) <=> r.exist[n] # 0)
    BY Constants DEF Has
  <2>2. \A n \in L : n \in Seqs /\ (n \in t.rg.holes \/ n \in H) /\ r.exist[n] = 0
    BY <1>7, <1>9, <1>12, <2>1
  <2>3. \A n \in t.rg.holes : n \in Nat /\ n <= M
    BY <1>6, <1>7, <1>11, <2>1
  <2>4. \A n \in H : n \in Nat /\ n <= M /\ t.rg.highest < n
    BY <1>2, <1>7, <1>9, <1>11, <2>1
  <2> QED
    BY <2>2, <2>3, <2>4
<1>15. rg \in Infos
  <2>1. G \cup {d} \subseteq Daemons
    BY <1>4, <1>5
  <2> QED
    BY <1>2, <1>7, <1>11, <1>13, <1>14, <2>1 DEF Infos
<1>16. ASSUME NEW n \in Seqs, n <= t.rg.highest, n \notin t.rg.holes
       PROVE  n <= M /\ n \notin L
  BY <1>7, <1>11, <1>14, <1>16, Constants
<1>17. ASSUME NEW n \in Seqs, KeepsIn(r, n) PROVE n <= M /\ n \notin L
  <2>1. n \in Nat /\ n # 0 /\ n <= r.highest
    BY <1>2, <1>17, Constants
  <2>2. CASE n <= r.aru
    <3>1. PICK e \in G : e \in Daemons
      BY <1>4, <1>5, <1>6
    <3>2. n \in g[e]
      BY <1>2, <2>1, <2>2, <3>1
    <3>3. n <= t.rg.highest /\ n \notin t.rg.holes
      BY <1>6, <3>1, <3>2
    <3> QED
      BY <1>16, <3>3
  <2>3. CASE r.exist[n] # 0
    BY <1>2, <1>11, <1>14, <2>1, <2>3
  <2> QED
    BY <1>2, <1>17, <2>2, <2>3
<1>18. /\ q.members = t.members /\ q.rg = rg /\ q.seq = M + Far
       /\ DOMAIN q = {"kind", "members", "rest", "seq", "rg"}
       /\ \/ q.kind = "form1" /\ q.rest = t.rest \ {d} /\ t.rest \ {d} # {}
          \/ q.kind = "form2" /\ q.rest = t.members /\ t.rest = {d}
  <2>1. PICK u : u = [t EXCEPT !.rest = @ \ {d}, !.seq = Max({@, r.highest + Far}), !.rg = rg]
    OBVIOUS
  <2>2. Max({t.seq, r.highest + Far}) = M + Far
    <3>0. PICK H1 \in Int, H2 \in Int, f \in Int : H1 = t.rg.highest /\ H2 = r.highest /\ f = Far
      BY <1>2, <1>7 DEF Far
    <3>1. PICK x \in Int, y \in Int : x = H1 + f /\ y = H2 + f
      OBVIOUS
    <3>2. Max({x, y}) = IF x >= y THEN x ELSE y
      BY MaxOfTwo
    <3>3. M = IF H1 >= H2 THEN H1 ELSE H2
      BY <1>10, <3>0, MaxOfTwo
    <3>4. Max({x, y}) = M + f
      BY <3>1, <3>2, <3>3
    <3> QED
      BY <1>4, <3>0, <3>1, <3>4
  <2>3. /\ u.members = t.members /\ u.rg = rg /\ u.seq = M + Far
        /\ DOMAIN u = {"kind", "members", "rest", "seq", "rg"}
        /\ u.kind = "form1" /\ u.rest = t.rest \ {d}
    BY <1>3, <1>4, <2>1, <2>2
  <2>4. q = IF u.rest = {} THEN [u EXCEPT !.kind = "form2", !.rest = u.members] ELSE u
    BY <1>1, <2>1 DEF FilledForm, Passed
  <2> QED
    BY <1>3, <2>3, <2>4
<1>19. /\ q.kind \in {"form1", "form2"} /\ q.rest \subseteq q.members /\ q.rest # {}
       /\ Given(q) = G \cup {d} /\ (q.kind = "form2" => d \in q.rest)
  BY <1>3, <1>4, <1>5, <1>18 DEF Given
<1>20. Info(g, q)
  <2>1. \A e \in G \cup {d} : \A n \in g[e] : n <= M /\ n \notin L
    <3>1. \A e \in G : g[e] \subseteq Seqs
      BY <1>3, <1>4, <1>5
    <3>2. \A e \in G : \A n \in g[e] : n <= M /\ n \notin L
      BY <1>6, <1>16, <3>1
    <3>3. \A n \in g[d] : n <= M /\ n \notin L
      BY <1>2, <1>17
    <3> QED
      BY <3>2, <3>3
  <2>2. \A f \in t.rg.commit \cup r.commit.all : \A c \in Seqs : Had(g, f, c) => c <= M /\ c \notin L
    BY <1>2, <1>6, <1>16, <1>17
  <2>3. \A n \in 1..A, e \in Daemons : n \in g[e]
    BY <1>2, <1>6, <1>11
  <2>4. A <= M /\ M <= Len(Packets)
    BY <1>2, <1>6, <1>7, <1>11
  <2>5. G \cup {d} \subseteq t.rg.commit \cup r.commit.all
    BY <1>2, <1>6
  <2> QED
    BY <1>13, <1>14, <1>18, <1>19, <2>1, <2>2, <2>3, <2>4, <2>5 DEF Info
<1>21. TokenTyped(q)
  BY <1>4, <1>13, <1>15, <1>18, <1>19 DEF TokenTyped
<1>22. Tells(g, q, d, r)
  <2>1. \A n \in Seqs : KeepsIn(r, n) => Counts(q, n)
    BY <1>13, <1>17, <1>18 DEF Counts
  <2>2. r.lastDiscarded <= rg.aru /\ r.highest <= rg.highest /\ r.commit.all \subseteq rg.commit
    BY <1>2, <1>11, <1>13
  <2> QED
    BY <1>18, <1>19, <1>20, <1>21, <2>1, <2>2 DEF Tells
<1>23. SaysMore(t, q, d)
  <2>1. \A n \in Seqs : Counts(t, n) => Counts(q, n)
    BY <1>3, <1>13, <1>16, <1>18 DEF Counts
  <2>2. t.rg.commit \subseteq rg.commit /\ t.rg.aru <= rg.aru /\ t.rg.highest <= rg.highest
    BY <1>11, <1>13
  <2> QED
    BY <1>18, <2>1, <2>2 DEF SaysMore
<1> QED
  BY <1>1, <1>22, <1>23

LEMMA FillKeeps ==
  ASSUME NEW g, NEW s, NEW k, NEW s2, NEW k2, NEW d \in Daemons, Inv(g, s, k),
         s[d].mode = "idle", NEW a, a \in DOMAIN k, k[a].kind = "form1", d \in k[a].rest,
         DOMAIN k2 = DOMAIN k, \A b \in DOMAIN k : b # a => k2[b] = k[b],
         s2[d] = InFormOf(s[d], a), DOMAIN s2 = Daemons,
         \A e \in Daemons : e # d => s2[e] = s[e],
         k2[a] = FilledForm(k[a], d, s[d])
  PROVE  Inv(g, s2, k2)
<1>1. PICK t, q : t = k[a] /\ q = k2[a]
  OBVIOUS
<1>2. Tells(g, q, d, s[d]) /\ SaysMore(t, q, d)
  <2>1. /\ Tells(g, FilledForm(k[a], d, s[d]), d, s[d])
        /\ SaysMore(k[a], FilledForm(k[a], d, s[d]), d)
    BY FilledTokenIs
  <2> QED
    BY <1>1, <2>1
<1>3. Typed(s[d]) /\ a \in Nat /\ \E i \in Nat : DOMAIN k2 = 1..i
  <2>1. PICK i \in Nat : DOMAIN k = 1..i
    BY DEF Inv
  <2>2. Typed(s[d])
    BY DEF Inv, DaemonInv
  <2> QED
    BY <2>1, <2>2
<1>4. /\ Typed(s2[d]) /\ s2[d].mode = "form" /\ s2[d].ring = a
      /\ s2[d].highest = s[d].highest /\ s2[d].commit = s[d].commit
      /\ s2[d].lastDiscarded = s[d].lastDiscarded
  BY <1>3, FormOf
<1>5. TokenTyped(t) /\ FormInv(g, s, t, a) /\ t.kind = "form1"
  BY <1>1 DEF Inv, TokenInv
<1>6. ASSUME NEW e \in Daemons, InForm(s2, a, e) PROVE Fills(s2, q, e)
  <2>1. CASE e = d
    BY <1>2, <1>4, <2>1 DEF Fills, Tells
  <2>2. CASE e # d
    <3>1. s2[e] = s[e] /\ Fills(s, t, e) /\ Typed(s[e])
      BY <1>5, <1>6, <2>2 DEF InForm, FormInv, Inv, DaemonInv
    <3>2. /\ s[e].highest \in Int /\ s[e].lastDiscarded \in Int
          /\ s[d].highest \in Int /\ s[d].lastDiscarded \in Int
      BY <1>3, <3>1, TypedNumbers
    <3>3. /\ t.rg.highest \in Int /\ t.rg.aru \in Int /\ q.rg.highest \in Int /\ q.rg.aru \in Int
          /\ t.rest \subseteq Daemons
      BY <1>2, <1>5 DEF TokenTyped, Tells, Infos
    <3>4. s[e].commit.all \subseteq q.rg.commit /\ s[e].lastDiscarded <= q.rg.aru
      BY <1>2, <3>1, <3>2, <3>3 DEF Fills, SaysMore
    <3>5. IF q.kind = "form1" THEN e \in Given(q) ELSE e \in q.rest
      BY <1>2, <1>5, <2>2, <3>1 DEF Fills, SaysMore, Given, Tells
    <3>6. \/ s[e].highest <= q.rg.highest
          \/ q.kind = "form1" /\ \E f \in q.rest : s2[f].mode = "op" \/ s[e].highest <= s2[f].highest
      <4>1. CASE s[e].highest <= t.rg.highest
        BY <1>2, <3>2, <3>3, <4>1 DEF SaysMore
      <4>2. CASE \E f \in t.rest : s[f].mode = "op" \/ s[e].highest <= s[f].highest
        <5>1. PICK f \in t.rest : s[f].mode = "op" \/ s[e].highest <= s[f].highest
          BY <4>2
        <5>2. CASE f = d
          <6>1. s[e].highest <= s[d].highest /\ s[d].highest <= q.rg.highest
            BY <1>2, <5>1, <5>2 DEF Tells
          <6> QED
            BY <3>2, <3>3, <6>1
        <5>3. CASE f # d
          <6>1. s2[f] = s[f] /\ f \in t.rest \ {d}
            BY <3>3, <5>3
          <6>2. q.kind = "form1" /\ q.rest = t.rest \ {d}
            BY <1>2, <6>1 DEF SaysMore, Tells
          <6> QED
            BY <5>1, <6>1, <6>2
        <5> QED
          BY <5>2, <5>3
      <4> QED
        BY <3>1, <4>1, <4>2 DEF Fills
    <3> QED
      BY <3>1, <3>4, <3>5, <3>6 DEF Fills
  <2> QED
    BY <2>1, <2>2
<1>7. ASSUME NEW e \in Daemons PROVE ~InEvs(s2, a, e) /\ ~Came(s2, a, e)
  <2>1. CASE e = d
    BY <1>4, <2>1 DEF InEvs, Came
  <2>2. CASE e # d
    <3>1. s2[e] = s[e]
      BY <2>2
    <3> QED
      BY <1>5, <3>1 DEF InEvs, Came, FormInv
  <2> QED
    BY <2>1, <2>2
<1>8. TokenInv(g, s2, k2, a)
  <2>1. FormInv(g, s2, q, a)
    BY <1>2, <1>6, <1>7 DEF FormInv, Tells
  <2> QED
    BY <1>1, <1>2, <1>7, <2>1 DEF TokenInv, Tells
<1>9. \A n \in Seqs : KeepsIn(s[d], n) => Counts(k2[a], n)
  BY <1>1, <1>2 DEF Tells
<1>10. /\ DOMAIN k \subseteq DOMAIN k2 /\ a \in DOMAIN k2
       /\ \A b \in DOMAIN k2 : b # a => b \in DOMAIN k /\ k2[b] = k[b]
  OBVIOUS
<1>11. a \in DOMAIN k => \A n \in Seqs : Counts(k[a], n) => Counts(k2[a], n)
  BY <1>1, <1>2 DEF SaysMore
<1> QED
  BY ZenonT(30), <1>3, <1>8, <1>9, <1>10, <1>11, JoinsForm

-----------------------------------------------------------------------------
(* Prot_handle_bcast.                                                      *)

\* A daemon with r after the packet n has come to it.
WithPacket(r, n) ==
  LET r1 == [r EXCEPT !.exist[n] = 1, !.highest = Max({@, n})]
  IN  IF n = r.myAru + 1 THEN RaiseMyAru(r1) ELSE r1

Received(q, r, n) ==
  /\ Typed(q) /\ SameBut(q, r, {"exist", "highest", "myAru"})
  /\ \A u \in Seqs : q.exist[u] = IF u = n THEN 1 ELSE r.exist[u]
  /\ q.highest = IF r.highest >= n THEN r.highest ELSE n
  /\ q.myAru >= r.myAru
  /\ \/ q.myAru = r.myAru
     \/ n = r.myAru + 1 /\ q.myAru <= q.highest /\ q.myAru <= Len(Packets)
  /\ \A u \in Seqs : r.myAru < u /\ u <= q.myAru => q.exist[u] # 0

LEMMA WithPacketIs ==
  ASSUME NEW r, Typed(r), NEW n, n \in Seqs
  PROVE  Received(WithPacket(r, n), r, n)
<1>1. PICK x, h, q : /\ x = [r.exist EXCEPT ![n] = 1] /\ h = Max({r.highest, n})
                     /\ q = WithPacket(r, n)
  OBVIOUS
<1>2. r.exist \in [Seqs -> 0..3] /\ r.highest \in Nat /\ r.myAru \in Nat /\ n \in Nat
  BY Constants DEF Typed
<1>3. x \in [Seqs -> 0..3] /\ \A u \in Seqs : x[u] = IF u = n THEN 1 ELSE r.exist[u]
  BY <1>1, <1>2
<1>4. h \in Nat /\ h = IF r.highest >= n THEN r.highest ELSE n
  BY <1>1, <1>2, MaxOfTwo
<1>5. PICK u : u = [r EXCEPT !.exist = x, !.highest = h]
  OBVIOUS
<1>6. [r EXCEPT !.exist[n] = 1, !.highest = Max({@, n})] = u
  BY <1>1, <1>5 DEF Typed, Globals
<1>7. /\ DOMAIN u = Globals /\ SameBut(u, r, {"exist", "highest"}) /\ u.exist = x
      /\ u.highest = h
  BY <1>5 DEF Typed, Globals, SameBut
<1>8. Typed(u)
  BY <1>3, <1>4, <1>7 DEF Typed, SameBut, Globals
<1>9. u.myAru = r.myAru
  BY <1>7 DEF SameBut, Globals
<1>10. CASE n = r.myAru + 1
  <2>1. q = RaiseMyAru(u)
    BY <1>1, <1>6, <1>10 DEF WithPacket
  <2>2. /\ Typed(q) /\ SameBut(q, u, {"myAru"}) /\ q.myAru >= u.myAru
        /\ q.myAru = u.myAru \/ (q.myAru <= u.highest /\ q.myAru <= Len(Packets))
        /\ \A i \in Seqs : u.myAru < i /\ i <= q.myAru => u.exist[i] # 0
    BY <1>8, <2>1, RaiseMyAruIs
  <2>3. q.exist = x /\ q.highest = h /\ SameBut(q, r, {"exist", "highest", "myAru"})
    BY <1>7, <2>2 DEF SameBut, Globals
  <2> QED
    BY <1>1, <1>3, <1>4, <1>7, <1>9, <1>10, <2>2, <2>3 DEF Received
<1>11. CASE n # r.myAru + 1
  <2>1. q = u
    BY <1>1, <1>6, <1>11 DEF WithPacket
  <2>2. SameBut(q, r, {"exist", "highest", "myAru"})
    BY <1>7, <2>1 DEF SameBut, Globals
  <2>3. \A i \in Seqs : ~(r.myAru < i /\ i <= r.myAru)
    BY <1>2, Constants
  <2>4. q.myAru >= r.myAru /\ q.myAru = r.myAru
    BY <1>2, <1>9, <2>1
  <2>5. q.exist = x /\ q.highest = h /\ Typed(q)
    BY <1>7, <1>8, <2>1
  <2> QED
    BY <1>1, <1>3, <1>4, <2>2, <2>3, <2>4, <2>5 DEF Received
<1> QED
  BY <1>10, <1>11

\* The form token of t counts n in, or will when it has been to all.
CountedIn(s, t, n) ==
  n <= t.rg.highest \/ (t.kind = "form1" /\ \E e \in t.rest : n <= s[e].highest)

\* d with q instead of r has what it had.
StillHas(g, k, q, r, d) ==
  /\ \A u \in Seqs : Kept(r, k, u) => Kept(q, k, u)
  /\ \A u \in Seqs : Firm(r, k, u) => Firm(q, k, u)
  /\ q.exits = {} /\ Ordered(q.handed) /\ q.mode = r.mode /\ q.ring = r.ring
  /\ Waits(g, q, k, d)

LEMMA ReceivedKeeps ==
  ASSUME NEW g, NEW s, NEW k, NEW d, d \in Daemons, Inv(g, s, k), NEW n, n \in Seqs,
         s[d].mode # "op", s[d].lastDiscarded < n, s[d].exist[n] = 0,
         s[d].mode = "evs" => n <= s[d].highest,
         NEW q, Received(q, s[d], n)
  PROVE  StillHas(g, k, q, s[d], d)
<1>1. PICK r : r = s[d]
  OBVIOUS
<1>2. /\ Typed(r) /\ r.exits = {} /\ Ordered(r.handed) /\ Waits(g, r, k, d)
      /\ g[d] \subseteq Seqs
  BY <1>1 DEF Inv, DaemonInv
<1>3. Received(q, r, n) /\ r.mode # "op" /\ r.lastDiscarded < n /\ r.exist[n] = 0
      /\ (r.mode = "evs" => n <= r.highest)
  BY <1>1
<1>4. /\ q.mode = r.mode /\ q.ring = r.ring /\ q.aru = r.aru /\ q.commit = r.commit
      /\ q.lastDiscarded = r.lastDiscarded /\ q.handed = r.handed /\ q.exits = r.exits
      /\ Typed(q)
  BY <1>3 DEF Received, SameBut, Globals
<1>5. \A u \in Seqs : q.exist[u] = IF u = n THEN 1 ELSE r.exist[u]
  BY <1>3 DEF Received
<1>6. \A u \in Seqs : Kept(r, k, u) => Kept(q, k, u)
  BY <1>3, <1>4, <1>5 DEF Kept, KeepsIn
<1>7. \A u \in Seqs : Firm(r, k, u) => Firm(q, k, u)
  <2>1. \A u \in Seqs : \A v \in 1..u : v \in Seqs
    BY Constants
  <2> QED
    BY <1>3, <1>4, <1>6, <2>1 DEF Firm
<1>8. Buffer(g, q)
  <2>1. Buffer(g, r)
    BY <1>2 DEF Waits
  <2>2. /\ r.highest \in Nat /\ r.myAru \in Nat /\ r.lastDiscarded \in Nat
        /\ q.highest \in Nat /\ q.myAru \in Nat
    BY <1>2, <1>4 DEF Typed
  <2>3. n \in Nat /\ n <= Len(Packets) /\ Len(Packets) \in Nat /\ \A u \in Seqs : u \in Nat
    BY <1>3, Constants
  <2>4. /\ q.highest = IF r.highest >= n THEN r.highest ELSE n
        /\ q.myAru >= r.myAru
        /\ \/ q.myAru = r.myAru
           \/ n = r.myAru + 1 /\ q.myAru <= q.highest /\ q.myAru <= Len(Packets)
        /\ \A u \in Seqs : r.myAru < u /\ u <= q.myAru => q.exist[u] # 0
    BY <1>3 DEF Received
  <2>5. /\ r.lastDiscarded <= r.highest /\ r.highest <= Len(Packets)
        /\ r.lastDiscarded <= r.myAru /\ (r.myAru <= r.highest \/ r.mode = "evs")
    BY <2>1 DEF Buffer
  <2>6. /\ q.lastDiscarded <= q.highest /\ q.highest <= Len(Packets)
        /\ q.lastDiscarded <= q.myAru /\ (q.myAru <= q.highest \/ q.mode = "evs")
        /\ r.highest <= q.highest /\ n <= q.highest
        /\ (r.mode = "evs" => q.highest = r.highest)
    BY <1>3, <1>4, <2>2, <2>3, <2>4, <2>5
  <2>7. ASSUME NEW u \in Seqs, q.exist[u] # 0 PROVE q.lastDiscarded < u /\ u <= q.highest
    <3>1. CASE u = n
      BY <1>3, <1>4, <2>6, <3>1
    <3>2. CASE u # n
      <4>1. r.lastDiscarded < u /\ u <= r.highest
        BY <1>5, <2>1, <2>7, <3>2 DEF Buffer
      <4> QED
        BY <1>4, <2>2, <2>3, <2>6, <4>1
    <3> QED
      BY <3>1, <3>2
  <2>8. ASSUME NEW u \in Seqs, q.lastDiscarded < u, u <= q.myAru, u <= q.highest
        PROVE  q.exist[u] # 0
    <3>1. CASE r.myAru < u
      BY <2>4, <2>8, <3>1
    <3>2. CASE u <= r.myAru
      <4>1. u <= r.highest
        BY <2>2, <2>3, <2>5, <2>6, <2>8, <3>2
      <4>2. r.exist[u] # 0
        BY <1>4, <2>1, <2>8, <3>2, <4>1 DEF Buffer
      <4> QED
        BY <1>5, <4>2
    <3>3. r.myAru < u \/ u <= r.myAru
      <4>1. u \in Nat /\ r.myAru \in Nat
        BY <2>2, <2>3, <2>8
      <4> QED
        BY <4>1
    <3> QED
      BY <3>1, <3>2, <3>3
  <2>9. q.mode # "evs" => q.aru = q.lastDiscarded /\ \A u \in Seqs : q.exist[u] # 3
    BY <1>4, <1>5, <2>1 DEF Buffer
  <2>10. \A u \in 1..q.lastDiscarded, e \in Daemons : u \in g[e]
    BY <1>4, <2>1 DEF Buffer
  <2> QED
    BY <2>6, <2>7, <2>8, <2>9, <2>10 DEF Buffer
<1>9. Clients(g, q, d)
  <2>1. Clients(g, r, d) /\ HandedIn(q) = HandedIn(r)
    BY <1>2, <1>4 DEF Waits, HandedIn
  <2>2. ~(n <= r.lastDiscarded)
    BY <1>2, <1>3, Constants DEF Typed
  <2>3. \A u \in Seqs : u \in HandedIn(q) <=> u <= q.lastDiscarded \/ q.exist[u] = 2
    BY <1>3, <1>4, <1>5, <2>1, <2>2 DEF Clients
  <2> QED
    BY <1>4, <2>1, <2>3 DEF Clients
<1>10. Commitment(g, q, k, d)
  <2>1. Commitment(g, r, k, d) /\ r.myAru <= q.myAru /\ r.myAru \in Int /\ q.myAru \in Int
    BY <1>2, <1>3, <1>4, TypedNumbers DEF Waits, Received
  <2>2. \A f \in r.commit.all : Knows(g, q, k, f)
    BY <1>6, <2>1 DEF Commitment, Knows
  <2>3. \A c \in Seqs : Had(g, d, c) => c <= q.myAru
    <3>1. \A c \in Seqs : Had(g, d, c) => c <= r.myAru
      BY <2>1 DEF Commitment
    <3> QED
      BY <2>1, <3>1, Constants
  <2> QED
    BY <1>2, <1>4, <1>6, <2>1, <2>2, <2>3 DEF Commitment
<1> QED
  BY <1>1, <1>2, <1>4, <1>6, <1>7, <1>8, <1>9, <1>10 DEF Waits, StillHas

\* In EVS a packet that the form token counts in is not above highest.
LEMMA EvsHighest ==
  ASSUME NEW g, NEW s, NEW k, NEW d, d \in Daemons, Inv(g, s, k), s[d].mode = "evs"
  PROVE  /\ s[d].ring \in DOMAIN k /\ InEvs(s, s[d].ring, d)
         /\ s[d].highest = k[s[d].ring].rg.highest
         /\ \A n : CountedIn(s, k[s[d].ring], n) => n <= s[d].highest
<1>1. PICK a : a = s[d].ring
  OBVIOUS
<1>2. a \in DOMAIN k /\ InEvs(s, a, d)
  BY <1>1 DEF Inv, DaemonInv, InEvs
<1>3. s[d].highest = k[a].rg.highest /\ k[a].kind # "form1"
  BY <1>2 DEF Inv, TokenInv, FormInv
<1> QED
  BY <1>1, <1>2, <1>3 DEF CountedIn

LEMMA BcastKeeps ==
  ASSUME NEW g, NEW s, NEW k, NEW s2, NEW d, d \in Daemons, Inv(g, s, k), NEW n, n \in Seqs,
         s[d].mode # "op", s[d].lastDiscarded < n, s[d].exist[n] = 0,
         s[d].mode # "idle" => CountedIn(s, k[s[d].ring], n),
         Received(s2[d], s[d], n), DOMAIN s2 = Daemons,
         \A e \in Daemons : e # d => s2[e] = s[e]
  PROVE  Inv(g, s2, k)
<1>1. PICK r, q : r = s[d] /\ q = s2[d]
  OBVIOUS
<1>2. s[d].mode = "evs" => n <= s[d].highest
  BY EvsHighest
<1>3. Received(q, r, n) /\ Typed(r) /\ Waits(g, r, k, d) /\ r.mode # "op"
  BY <1>1 DEF Inv, DaemonInv
<1>4. /\ \A u \in Seqs : Kept(r, k, u) => Kept(q, k, u)
      /\ \A u \in Seqs : Firm(r, k, u) => Firm(q, k, u)
      /\ q.exits = {} /\ Ordered(q.handed) /\ q.mode = r.mode /\ q.ring = r.ring
      /\ Waits(g, q, k, d)
  <2>1. StillHas(g, k, s2[d], s[d], d)
    BY <1>2, ReceivedKeeps
  <2> QED
    BY <1>1, <2>1 DEF StillHas
<1>5. /\ q.aru = r.aru /\ q.commit = r.commit /\ q.fcommit = r.fcommit
      /\ q.lastDiscarded = r.lastDiscarded /\ q.lastSeq = r.lastSeq
      /\ q.lastTokenAru = r.lastTokenAru /\ Typed(q)
      /\ \A u \in Seqs : q.exist[u] = IF u = n THEN 1 ELSE r.exist[u]
      /\ q.highest = IF r.highest >= n THEN r.highest ELSE n
      /\ q.myAru >= r.myAru
      /\ q.myAru = r.myAru \/ (n = r.myAru + 1 /\ q.myAru <= q.highest)
  BY <1>3 DEF Received, SameBut, Globals
<1>6. /\ r.highest \in Nat /\ q.highest \in Nat /\ r.myAru \in Nat /\ q.myAru \in Nat /\ n \in Nat
      /\ r.lastTokenAru \in Nat
  BY <1>3, <1>5, Constants DEF Typed
<1>7. r.highest <= q.highest /\ (r.mode = "evs" => q.highest = r.highest)
  BY <1>1, <1>2, <1>5, <1>6
<1>8. Moves(s, k, s2, k, d)
  BY <1>1, <1>3, <1>4, <1>5, <1>7 DEF Moves, Inv
<1>9. DaemonInv(g, s2, k, d)
  <2>1. IF r.mode = "idle" THEN r.ring = None ELSE r.ring \in DOMAIN k
    BY <1>1 DEF Inv, DaemonInv
  <2> QED
    BY <1>1, <1>3, <1>4, <1>5, <2>1 DEF DaemonInv
<1>10. ASSUME NEW b, b \in DOMAIN k, b = r.ring PROVE TokenInv(g, s2, k, b)
  <2>1. PICK t : t = k[b]
    OBVIOUS
  <2>2. /\ TokenInv(g, s, k, b) /\ b # None /\ (r.mode # "idle" => CountedIn(s, t, n))
        /\ r.mode \in {"form", "evs"}
    BY <1>1, <1>3, <1>10, <2>1 DEF Inv, DaemonInv, None, Typed
  <2>3. \A e \in Daemons : /\ InForm(s2, b, e) <=> InForm(s, b, e)
                           /\ InEvs(s2, b, e) <=> InEvs(s, b, e)
                           /\ Came(s2, b, e) <=> Came(s, b, e)
    BY <1>1, <1>4 DEF InForm, InEvs, Came
  <2>4. \A e \in Daemons : InEvs(s2, b, e) => s2[e].highest = k[b].rg.highest
    BY <1>1, <1>7, <2>2, <2>3 DEF TokenInv, InEvs
  <2>5. ASSUME NEW e \in Daemons, InEvs(s, b, e), Reads(s[e], t.rg)
        PROVE  Reads(s2[e], t.rg)
    <3>1. CASE e = d
      <4>1. \A u \in Seqs : q.exist[u] = 3 <=> u \in t.rg.holes
        <5>1. Reads(r, t.rg)
          BY <1>1, <2>5, <3>1
        <5>2. r.exist[n] = 0
          BY <1>1
        <5> QED
          BY <1>5, <5>1, <5>2 DEF Reads
      <4>2. q.myAru <= q.highest \/ (q.myAru = q.lastSeq /\ q.commit = q.fcommit)
        BY <1>1, <1>5, <1>6, <1>7, <2>5, <3>1 DEF Reads
      <4> QED
        BY <1>1, <1>5, <2>5, <3>1, <4>1, <4>2 DEF Reads
    <3>2. CASE e # d
      BY <2>5, <3>2
    <3> QED
      BY <3>1, <3>2
  <2>6. ASSUME t.kind \in {"form1", "form2"} PROVE FormInv(g, s2, t, b)
    <3>1. FormInv(g, s, t, b) /\ t.rest \subseteq Daemons /\ t.rg.highest \in Nat
      BY <2>1, <2>2, <2>6 DEF TokenInv, TokenTyped, Infos
    <3>2. \A e \in t.rest : /\ s[e].mode = "op" => s2[e].mode = "op"
                            /\ s[e].highest <= s2[e].highest
                            /\ s[e].highest \in Nat /\ s2[e].highest \in Nat
      <4>1. \A e \in Daemons : s[e].highest \in Nat /\ s[e].highest <= s[e].highest
        BY TypedNumbers DEF Inv, DaemonInv, Typed
      <4> QED
        BY <1>1, <1>4, <1>6, <1>7, <3>1, <4>1
    <3>3. ASSUME NEW e \in Daemons, InForm(s2, b, e) PROVE Fills(s2, t, e)
      <4>1. InForm(s, b, e) /\ Fills(s, t, e) /\ s[e].highest \in Nat
        BY <2>3, <3>1, <3>3, TypedNumbers DEF FormInv, Inv, DaemonInv, Typed
      <4>2. CASE e # d
        <5>1. \A f \in t.rest : (s[f].mode = "op" \/ s[e].highest <= s[f].highest)
                                => (s2[f].mode = "op" \/ s[e].highest <= s2[f].highest)
          BY <3>2, <4>1
        <5>2. s2[e] = s[e]
          BY <4>2
        <5> QED
          BY <4>1, <5>1, <5>2 DEF Fills
      <4>3. CASE e = d
        <5>1. \A i \in {r.highest, n} :
                \/ i <= t.rg.highest
                \/ t.kind = "form1" /\ \E f \in t.rest : s2[f].mode = "op" \/ i <= s2[f].highest
          <6>1. \A i \in {r.highest, n} : i \in Nat
            BY <1>6
          <6>2. \A i \in {r.highest, n} :
                  \/ i <= t.rg.highest
                  \/ t.kind = "form1" /\ \E f \in t.rest : s[f].mode = "op" \/ i <= s[f].highest
            <7>1. CountedIn(s, t, n)
              BY <2>2
            <7> QED
              BY <1>1, <4>1, <4>3, <7>1 DEF Fills, CountedIn
          <6> QED
            BY <3>2, <6>1, <6>2
        <5>2. q.highest \in {r.highest, n}
          BY <1>5
        <5>3. q.commit.all \subseteq t.rg.commit /\ q.lastDiscarded <= t.rg.aru
              /\ (IF t.kind = "form1" THEN d \in Given(t) ELSE d \in t.rest)
          BY <1>1, <1>5, <4>1, <4>3 DEF Fills
        <5> QED
          BY <1>1, <4>3, <5>1, <5>2, <5>3 DEF Fills
      <4> QED
        BY <4>2, <4>3
    <3>4. ASSUME NEW e \in Daemons, InEvs(s2, b, e)
          PROVE  /\ t.kind = "form2" /\ e \in t.members \ t.rest /\ Reads(s2[e], t.rg)
                 /\ s2[e].myAru <= s2[e].highest /\ s2[e].aru = 0 /\ s2[e].lastTokenAru = 0
      <4>1. /\ t.kind = "form2" /\ e \in t.members \ t.rest /\ Reads(s[e], t.rg) /\ InEvs(s, b, e)
            /\ s[e].myAru <= s[e].highest /\ s[e].aru = 0 /\ s[e].lastTokenAru = 0
        BY <2>3, <3>1, <3>4 DEF FormInv
      <4>2. Reads(s2[e], t.rg)
        BY <2>5, <4>1
      <4>3. CASE e = d
        BY <1>1, <1>5, <1>6, <1>7, <4>1, <4>2, <4>3
      <4>4. CASE e # d
        BY <4>1, <4>2, <4>4
      <4> QED
        BY <4>3, <4>4
    <3> QED
      BY <2>3, <3>1, <3>3, <3>4 DEF FormInv
  <2>7. ASSUME t.kind = "regular" PROVE RegularInv(g, s2, k, t, b)
    <3>1. RegularInv(g, s, k, t, b) /\ t.members \subseteq Daemons
      BY <2>1, <2>2, <2>7 DEF TokenInv, TokenTyped
    <3>2. \A e \in t.members : Ready(s[e], k, t.rg) => Ready(s2[e], k, t.rg)
      BY <1>8, <3>1, FirmStays DEF Ready
    <3>3. \A e \in Daemons : /\ s2[e].lastTokenAru = s[e].lastTokenAru /\ s2[e].aru = s[e].aru
                             /\ s[e].myAru <= s2[e].myAru
                             /\ s[e].myAru \in Nat /\ s2[e].myAru \in Nat
                             /\ s[e].lastTokenAru \in Nat
      <4>1. \A e \in Daemons : s[e].myAru \in Nat /\ s[e].lastTokenAru \in Nat
        BY DEF Inv, DaemonInv, Typed
      <4>2. \A e \in Daemons : s[e].myAru <= s[e].myAru
        BY <4>1
      <4> QED
        BY <1>1, <1>5, <1>6, <4>1, <4>2
    <3>4. ASSUME NEW h \in t.rest PROVE Arus(s2, t, b, h)
      <4>1. Arus(s, t, b, h)
        BY <3>1, <3>4 DEF RegularInv
      <4>2. \A e \in Daemons : InEvs(s2, b, e) =>
              s2[e].lastTokenAru <= s2[e].myAru /\ s2[e].aru <= t.aru
        BY <2>3, <3>3, <4>1 DEF Arus
      <4> QED
        BY <2>3, <3>3, <4>1, <4>2 DEF Arus
    <3>5. ASSUME NEW h \in t.rest PROVE AllReady(s2, k, t, b, h)
      <4>1. AllReady(s, k, t, b, h)
        BY <3>1, <3>5 DEF RegularInv
      <4>2. \A e \in Daemons : Came(s, b, e) => s2[e] = s[e]
        BY <1>1, <1>3 DEF Came
      <4>3. ASSUME NEW c \in Daemons, Came(s, b, c), NEW e \in Daemons, InEvs(s, b, e)
            PROVE  s2[e].myAru = t.aru
        <5>1. s[e].myAru = t.aru /\ t.aru = t.rg.highest + Far
          BY <4>1, <4>3 DEF AllReady
        <5>2. CASE e = d
          <6>1. r.mode = "evs" /\ r.highest = t.rg.highest
            BY <1>1, <2>1, <2>2, <4>3, <5>2 DEF InEvs, TokenInv
          <6>2. n <= r.highest /\ n # r.myAru + 1
            BY <1>1, <1>2, <1>6, <5>1, <5>2, <6>1 DEF Far
          <6> QED
            BY <1>1, <1>5, <5>1, <5>2, <6>2
        <5>3. CASE e # d
          BY <5>1, <5>3
        <5> QED
          BY <5>2, <5>3
      <4>4. ASSUME NEW c \in Daemons, NEW e \in t.members, InEvs(s2, b, c),
                   s2[c].lastTokenAru = t.rg.highest + Far, t.aru = t.rg.highest + Far,
                   c = e \/ Sooner(h, c, e)
            PROVE  Ready(s2[e], k, t.rg)
        <5>1. InEvs(s, b, c) /\ s[c].lastTokenAru = t.rg.highest + Far
          BY <2>3, <3>3, <4>4
        <5>2. Ready(s[e], k, t.rg)
          BY <4>1, <4>4, <5>1 DEF AllReady
        <5> QED
          BY <3>2, <5>2
      <4>5. ASSUME NEW c \in Daemons, Came(s2, b, c)
            PROVE  /\ t.aruLast # None /\ t.aru = t.rg.highest + Far
                   /\ c \in t.members /\ Result(s2[c], t.rg)
                   /\ \A e \in t.members : Sooner(h, c, e) => Came(s2, b, e)
                   /\ \A e \in t.members : Ready(s2[e], k, t.rg)
                   /\ \A e \in Daemons : InEvs(s2, b, e) =>
                        s2[e].lastTokenAru = t.aru /\ s2[e].myAru = t.aru
        <5>1. Came(s, b, c) /\ s2[c] = s[c]
          BY <2>3, <4>2, <4>5
        <5>2. /\ t.aruLast # None /\ t.aru = t.rg.highest + Far
              /\ c \in t.members /\ Result(s[c], t.rg)
              /\ \A e \in t.members : Sooner(h, c, e) => Came(s, b, e)
              /\ \A e \in t.members : Ready(s[e], k, t.rg)
              /\ \A e \in Daemons : InEvs(s, b, e) => s[e].lastTokenAru = t.aru
          BY <4>1, <5>1 DEF AllReady
        <5>3. \A e \in t.members : Ready(s2[e], k, t.rg)
          BY <3>2, <5>2
        <5>4. \A e \in t.members : Sooner(h, c, e) => Came(s2, b, e)
          BY <2>3, <3>1, <5>2
        <5>5. \A e \in Daemons : InEvs(s2, b, e) =>
                s2[e].lastTokenAru = t.aru /\ s2[e].myAru = t.aru
          BY <2>3, <3>3, <4>3, <5>1, <5>2
        <5> QED
          BY <5>1, <5>2, <5>3, <5>4, <5>5
      <4> QED
        BY <4>4, <4>5 DEF AllReady
    <3>6. \A e \in Daemons : InEvs(s2, b, e) => e \in t.members /\ Reads(s2[e], t.rg)
      BY <2>3, <2>5, <3>1 DEF RegularInv
    <3> QED
      BY <2>3, <3>1, <3>4, <3>5, <3>6 DEF RegularInv
  <2> QED
    BY <2>1, <2>2, <2>4, <2>6, <2>7 DEF TokenInv
<1>11. ASSUME NEW b, b \in DOMAIN k, b # r.ring PROVE TokenInv(g, s2, k, b)
  <2>1. s2[d].ring # b /\ k[b] = k[b]
    BY <1>1, <1>4, <1>11
  <2> QED
    BY <1>8, <1>11, <2>1, OtherToken
<1>12. \A b \in DOMAIN k : TokenInv(g, s2, k, b)
  BY <1>10, <1>11
<1>13. \A e \in Daemons :
         s2[d].mode = "op" /\ s[e].mode = "op" /\ s[e].ring = s2[d].ring =>
           Same(s2[d], s[e])
  BY <1>1, <1>3, <1>4
<1> QED
  BY <1>8, <1>9, <1>12, <1>13, StepKeeps

-----------------------------------------------------------------------------
(* Memb_token_loss.                                                        *)

\* A daemon with r after it has lost the token.
WithoutToken(r) ==
  [(IF r.mode = "evs" THEN Backoff(r) ELSE r) EXCEPT
     !.mode = "idle", !.ring = None, !.lastTokenAru = 0, !.lastSeq = 0,
     !.fcommit = [trans |-> {}, all |-> {}]]

Lost(q, r) ==
  /\ Typed(q) /\ q.mode = "idle" /\ q.ring = None
  /\ q.handed = r.handed /\ q.signal = r.signal /\ q.highest = r.highest
  /\ q.lastDiscarded = r.lastDiscarded /\ q.commit = r.commit /\ q.exits = r.exits
  /\ r.mode # "evs" => q.exist = r.exist /\ q.aru = r.aru /\ q.myAru = r.myAru
  /\ r.mode = "evs" =>
       /\ q.aru = r.lastDiscarded /\ q.myAru >= r.lastDiscarded
       /\ q.myAru = r.lastDiscarded \/ q.myAru <= r.highest
       /\ \A n \in Seqs :
            q.exist[n] = IF r.exist[n] = 3 /\ n \in (r.lastDiscarded + 1)..r.highest
                         THEN 0 ELSE r.exist[n]
       /\ \A n \in Seqs : r.lastDiscarded < n /\ n <= q.myAru => q.exist[n] # 0
       /\ \A m \in Seqs :
            /\ m <= r.highest
            /\ \A n \in Seqs : r.lastDiscarded < n /\ n <= m => q.exist[n] # 0
            => m <= q.myAru

LEMMA WithoutTokenIs ==
  ASSUME NEW r, Typed(r)
  PROVE  Lost(WithoutToken(r), r)
<1>1. PICK u, q : u = (IF r.mode = "evs" THEN Backoff(r) ELSE r) /\ q = WithoutToken(r)
  OBVIOUS
<1>2. Typed(u) /\ SameBut(u, r, {"exist", "aru", "myAru"})
  BY <1>1, BackoffIs DEF SameBut
<1>3. PICK c : c = [trans |-> {}, all |-> {}]
  OBVIOUS
<1>4. c \in Commits
  BY <1>3 DEF Commits
<1>5. q = [u EXCEPT !.mode = "idle", !.ring = None, !.lastTokenAru = 0, !.lastSeq = 0,
                    !.fcommit = c]
  BY <1>1, <1>3 DEF WithoutToken
<1>6. /\ DOMAIN q = Globals /\ q.mode = "idle" /\ q.ring = None /\ q.lastTokenAru = 0
      /\ q.lastSeq = 0 /\ q.fcommit = c
      /\ SameBut(q, u, {"mode", "ring", "lastTokenAru", "lastSeq", "fcommit"})
  BY <1>2, <1>5 DEF Typed, Globals, SameBut
<1>7. Typed(q)
  BY <1>2, <1>4, <1>6 DEF Typed, SameBut, Globals, None
<1>8. /\ q.handed = r.handed /\ q.signal = r.signal /\ q.highest = r.highest
      /\ q.lastDiscarded = r.lastDiscarded /\ q.commit = r.commit /\ q.exits = r.exits
      /\ q.exist = u.exist /\ q.aru = u.aru /\ q.myAru = u.myAru
  BY <1>2, <1>6 DEF SameBut, Globals
<1>9. CASE r.mode # "evs"
  <2>1. u = r
    BY <1>1, <1>9
  <2> QED
    BY <1>1, <1>6, <1>7, <1>8, <1>9, <2>1 DEF Lost
<1>10. CASE r.mode = "evs"
  <2>1. u = Backoff(r)
    BY <1>1, <1>10
  <2>2. /\ u.aru = r.lastDiscarded /\ u.myAru >= r.lastDiscarded
        /\ u.myAru = r.lastDiscarded \/ (u.myAru <= r.highest /\ u.myAru <= Len(Packets))
        /\ \A n \in Seqs :
             u.exist[n] = IF r.exist[n] = 3 /\ n \in (r.lastDiscarded + 1)..r.highest
                          THEN 0 ELSE r.exist[n]
        /\ \A n \in Seqs : r.lastDiscarded < n /\ n <= u.myAru => u.exist[n] # 0
        /\ \A m \in Seqs :
             /\ m <= r.highest
             /\ \A n \in Seqs : r.lastDiscarded < n /\ n <= m => u.exist[n] # 0
             => m <= u.myAru
    BY <2>1, BackoffIs
  <2> QED
    BY <1>1, <1>6, <1>7, <1>8, <1>10, <2>2 DEF Lost
<1> QED
  BY <1>9, <1>10

\* What r keeps q keeps.
Stays(r, k, q, k2) ==
  /\ \A u \in Seqs : Kept(r, k, u) => Kept(q, k2, u)
  /\ \A u \in Seqs : Firm(r, k, u) => Firm(q, k2, u)

\* A daemon that has lost the token has what it had.
LEMMA LostKeeps ==
  ASSUME NEW g, NEW k, NEW k2, NEW d, NEW r, NEW q, Lost(q, r), Typed(r), Waits(g, r, k, d),
         r.mode \in {"form", "evs"}, g[d] \subseteq Seqs
  PROVE  Waits(g, q, k2, d) /\ Stays(r, k, q, k2)
<1>1. /\ Typed(q) /\ q.mode = "idle" /\ q.handed = r.handed /\ q.highest = r.highest
      /\ q.lastDiscarded = r.lastDiscarded /\ q.commit = r.commit
      /\ r.mode # "evs" => q.exist = r.exist /\ q.aru = r.aru /\ q.myAru = r.myAru
  BY DEF Lost
<1>2. /\ r.highest \in Nat /\ r.myAru \in Nat /\ r.lastDiscarded \in Nat /\ q.myAru \in Nat
      /\ \A n \in Seqs : n \in Nat
  BY <1>1, Constants DEF Typed
<1>3. Buffer(g, r) /\ Clients(g, r, d) /\ Commitment(g, r, k, d)
  BY DEF Waits
<1>4. ASSUME r.mode = "evs"
      PROVE  /\ q.aru = r.lastDiscarded /\ q.myAru >= r.lastDiscarded
             /\ q.myAru = r.lastDiscarded \/ q.myAru <= r.highest
             /\ \A n \in Seqs : q.exist[n] = IF r.exist[n] = 3 THEN 0 ELSE r.exist[n]
             /\ \A n \in Seqs : r.lastDiscarded < n /\ n <= q.myAru => q.exist[n] # 0
             /\ \A m \in Seqs :
                  /\ m <= r.highest
                  /\ \A n \in Seqs : r.lastDiscarded < n /\ n <= m => q.exist[n] # 0
                  => m <= q.myAru
  <2>1. \A n \in Seqs : r.exist[n] = 3 => n \in (r.lastDiscarded + 1)..r.highest
    BY <1>2, <1>3 DEF Buffer
  <2> QED
    BY <1>4, <2>1 DEF Lost
<1>5. \A n \in Seqs : q.exist[n] = IF r.exist[n] = 3 THEN 0 ELSE r.exist[n]
  BY <1>1, <1>3, <1>4 DEF Buffer
<1>6. \A u \in Seqs : KeepsIn(r, u) => KeepsIn(q, u)
  BY <1>1, <1>5 DEF KeepsIn
<1>7. \A u \in Seqs : Kept(r, k, u) => Kept(q, k2, u)
  BY <1>1, <1>6 DEF Kept
<1>8. \A u \in Seqs : Firm(r, k, u) => Firm(q, k2, u)
  <2>1. \A u \in Seqs : \A v \in 1..u : v \in Seqs
    BY Constants
  <2> QED
    BY <1>1, <1>7, <2>1 DEF Firm
<1>9. Buffer(g, q)
  <2>1. CASE r.mode = "evs"
    <3>1. /\ q.lastDiscarded <= q.highest /\ q.highest <= Len(Packets)
          /\ q.lastDiscarded <= q.myAru /\ q.myAru <= q.highest
      BY <1>1, <1>2, <1>3, <1>4, <2>1 DEF Buffer
    <3>2. \A n \in Seqs : q.exist[n] # 0 => q.lastDiscarded < n /\ n <= q.highest
      BY <1>1, <1>3, <1>5 DEF Buffer
    <3>3. \A n \in Seqs : q.lastDiscarded < n /\ n <= q.myAru => q.exist[n] # 0
      BY <1>1, <1>4, <2>1
    <3>4. q.aru = q.lastDiscarded /\ \A n \in Seqs : q.exist[n] # 3
      BY <1>1, <1>4, <1>5, <2>1
    <3> QED
      BY <1>1, <1>3, <3>1, <3>2, <3>3, <3>4 DEF Buffer
  <2>2. CASE r.mode # "evs"
    BY <1>1, <1>3, <2>2 DEF Buffer
  <2> QED
    BY <2>1, <2>2
<1>10. Clients(g, q, d)
  <2>1. HandedIn(q) = HandedIn(r) /\ \A n \in Seqs : q.exist[n] = 2 <=> r.exist[n] = 2
    BY <1>1, <1>5 DEF HandedIn
  <2> QED
    BY <1>1, <1>3, <2>1 DEF Clients
<1>11. \A c \in Seqs : Had(g, d, c) => c <= q.myAru
  <2>1. ASSUME NEW c \in Seqs, Had(g, d, c), r.mode = "evs" PROVE c <= q.myAru
    <3>1. \A n \in Seqs : n <= c => KeepsIn(r, n)
      <4>1. ASSUME NEW n \in Seqs, n <= c PROVE KeepsIn(r, n)
        <5>1. n \in 1..c
          BY <4>1, Constants
        <5> QED
          BY <1>3, <2>1, <5>1 DEF Had, Commitment, Kept
      <4> QED
        BY <4>1
    <3>2. \A n \in Seqs : r.lastDiscarded < n /\ n <= c => q.exist[n] # 0
      BY <1>2, <1>5, <2>1, <3>1 DEF KeepsIn
    <3>3. c <= r.highest
      <4>1. KeepsIn(r, c)
        BY <1>2, <3>1
      <4> QED
        BY <1>2, <1>3, <2>1, <4>1 DEF KeepsIn, Buffer
    <3> QED
      BY <1>4, <2>1, <3>2, <3>3
  <2> QED
    BY <1>1, <1>3, <2>1 DEF Commitment
<1>12. Commitment(g, q, k2, d)
  <2>1. \A f \in r.commit.all : Knows(g, q, k2, f)
    BY <1>3, <1>7 DEF Commitment, Knows
  <2> QED
    BY <1>1, <1>3, <1>7, <1>11, <2>1 DEF Commitment
<1> QED
  BY <1>7, <1>8, <1>9, <1>10, <1>12 DEF Waits, Stays

\* A token that is gone.
LEMMA SwallowedIs ==
  ASSUME NEW t, TokenTyped(t)
  PROVE  /\ TokenTyped(Swallowed(t)) /\ Swallowed(t).kind = "gone"
         /\ Swallowed(t).rg.highest = t.rg.highest
<1>1. t.members \in SUBSET Daemons /\ t.rg.highest \in Nat
  BY DEF TokenTyped, Infos
<1> QED
  BY <1>1 DEF TokenTyped, Swallowed

LEMMA LossKeeps ==
  ASSUME NEW g, NEW s, NEW k, NEW s2, NEW k2, NEW d, d \in Daemons, Inv(g, s, k),
         s[d].mode \in {"form", "evs"}, Lost(s2[d], s[d]), DOMAIN s2 = Daemons,
         \A e \in Daemons : e # d => s2[e] = s[e],
         NEW a, a = s[d].ring, DOMAIN k2 = DOMAIN k,
         \A b \in DOMAIN k : b # a => k2[b] = k[b],
         k2[a] = k[a] \/ k2[a] = Swallowed(k[a])
  PROVE  Inv(g, s2, k2)
<1>1. PICK r, q : r = s[d] /\ q = s2[d]
  OBVIOUS
<1>2. /\ Typed(r) /\ r.exits = {} /\ Ordered(r.handed) /\ Waits(g, r, k, d)
      /\ g[d] \subseteq Seqs /\ a \in DOMAIN k /\ a # None
      /\ \E m \in Nat : DOMAIN k2 = 1..m
  BY <1>1 DEF Inv, DaemonInv, None
<1>3. /\ Typed(q) /\ q.mode = "idle" /\ q.ring = None /\ q.handed = r.handed
      /\ q.highest = r.highest /\ q.exits = r.exits
  BY <1>1 DEF Lost
<1>4. Waits(g, q, k2, d) /\ \A u \in Seqs : Firm(r, k, u) => Firm(q, k2, u)
  <2>1. Lost(q, r) /\ r.mode \in {"form", "evs"}
    BY <1>1
  <2>2. Waits(g, q, k2, d) /\ Stays(r, k, q, k2)
    BY <1>2, <2>1, LostKeeps
  <2> QED
    BY <2>2 DEF Stays
<1>5. Moves(s, k, s2, k2, d)
  <2>1. ASSUME NEW b \in DOMAIN k, NEW n \in Seqs, Counts(k[b], n) PROVE Counts(k2[b], n)
    <3>1. CASE k2[b] = k[b]
      BY <2>1, <3>1
    <3>2. CASE k2[b] = Swallowed(k[b])
      <4>1. k2[b].kind = "gone"
        BY <3>2, SwallowedIs DEF Inv, TokenInv
      <4> QED
        BY <4>1 DEF Counts
    <3> QED
      BY <3>1, <3>2
  <2>2. q.highest <= q.highest
    BY <1>3, TypedNumbers
  <2> QED
    BY <1>1, <1>2, <1>3, <1>4, <2>1, <2>2 DEF Moves
<1>6. DaemonInv(g, s2, k2, d)
  BY <1>1, <1>2, <1>3, <1>4 DEF DaemonInv
<1>7. ASSUME NEW b, b \in DOMAIN k2 PROVE TokenInv(g, s2, k2, b)
  <2>1. CASE k2[b] = k[b]
    <3>1. b # None /\ s2[d].ring # b /\ b \in DOMAIN k
      BY <1>1, <1>3, <1>7 DEF Inv, None
    <3> QED
      BY <1>5, <2>1, <3>1, OtherToken
  <2>2. CASE k2[b] = Swallowed(k[b])
    <3>1. TokenTyped(k2[b]) /\ k2[b].kind = "gone" /\ k2[b].rg.highest = k[b].rg.highest
      BY <1>7, <2>2, SwallowedIs DEF Inv, TokenInv
    <3>2. \A e \in Daemons : InEvs(s2, b, e) => s2[e].highest = k[b].rg.highest
      <4>1. \A e \in Daemons : InEvs(s, b, e) => s[e].highest = k[b].rg.highest
        BY <1>7 DEF Inv, TokenInv
      <4>2. \A e \in Daemons : InEvs(s2, b, e) => s2[e] = s[e] /\ InEvs(s, b, e)
        BY <1>1, <1>3 DEF InEvs
      <4> QED
        BY <4>1, <4>2
    <3> QED
      BY <3>1, <3>2 DEF TokenInv
  <2> QED
    BY <1>7, <2>1, <2>2
<1>8. \A e \in Daemons :
         s2[d].mode = "op" /\ s[e].mode = "op" /\ s[e].ring = s2[d].ring =>
           Same(s2[d], s[e])
  BY <1>1, <1>3
<1> QED
  BY <1>5, <1>6, <1>7, <1>8, StepKeeps

-----------------------------------------------------------------------------
(* Read_form2.                                                             *)

\* What a daemon with r knows when the form2 token of t is there for it.
Form2Facts(g, r, t, d) ==
  /\ Typed(r) /\ r.exits = {} /\ Ordered(r.handed) /\ g \in [Daemons -> SUBSET Seqs]
  /\ Buffer(g, r) /\ Clients(g, r, d) /\ r.mode = "form" /\ Info(g, t) /\ Given(t) = t.members
  /\ TokenTyped(t) /\ t.rg \in Infos /\ t.seq = t.rg.highest + Far /\ t.members \subseteq Daemons
  /\ r.commit.all \subseteq t.rg.commit /\ r.lastDiscarded <= t.rg.aru
  /\ r.highest <= t.rg.highest
  /\ \A n \in g[d] : KeepsIn(r, n)
  /\ \A n \in Seqs : n \in g[Packets[n].from]

LEMMA Form2Knows ==
  ASSUME NEW g, NEW s, NEW k, NEW d, d \in Daemons, Inv(g, s, k), NEW a, a \in DOMAIN k,
         k[a].kind = "form2", InForm(s, a, d)
  PROVE  Form2Facts(g, s[d], k[a], d) /\ Fills(s, k[a], d) /\ Waits(g, s[d], k, d)
<1>1. PICK r, t : r = s[d] /\ t = k[a]
  OBVIOUS
<1>2. /\ Typed(r) /\ r.exits = {} /\ Ordered(r.handed) /\ g \in [Daemons -> SUBSET Seqs]
      /\ Waits(g, r, k, d) /\ r.mode = "form" /\ DaemonInv(g, s, k, d)
  BY <1>1 DEF Inv, DaemonInv, InForm
<1>3. TokenTyped(t) /\ FormInv(g, s, t, a) /\ t.kind = "form2"
  BY <1>1 DEF Inv, TokenInv
<1>4. Info(g, t) /\ Fills(s, t, d) /\ Given(t) = t.members
  BY <1>3 DEF FormInv, Given
<1>5. /\ r.commit.all \subseteq t.rg.commit /\ r.lastDiscarded <= t.rg.aru
      /\ r.highest <= t.rg.highest
  BY <1>1, <1>3, <1>4 DEF Fills
<1>6. t.rg \in Infos /\ t.seq = t.rg.highest + Far /\ t.members \subseteq Daemons
  BY <1>3 DEF TokenTyped
<1>7. \A n \in g[d] : KeepsIn(r, n)
  BY <1>2 DEF Waits, Commitment, Kept
<1>8. \A n \in Seqs : n \in g[Packets[n].from]
  BY DEF Inv
<1> QED
  BY <1>1, <1>2, <1>3, <1>4, <1>5, <1>6, <1>7, <1>8 DEF Form2Facts, Waits

\* Discard_packets in Read_form2: everyone has what is up to the token's aru.
DiscardedTo(v, r, t) ==
  /\ Typed(v) /\ SameBut(v, r, {"highest", "aru", "lastDiscarded", "handed", "exist"})
  /\ v.highest = t.rg.highest /\ v.lastDiscarded = t.rg.aru /\ Ordered(v.handed)
  /\ \A n \in Seqs : v.exist[n] = IF n <= t.rg.aru THEN 0 ELSE r.exist[n]
  /\ HandedIn(v) = HandedIn(r) \cup {n \in Seqs : n <= t.rg.aru}

LEMMA Form2Discards ==
  ASSUME NEW g, NEW r, NEW t, NEW d, d \in Daemons, Form2Facts(g, r, t, d)
  PROVE  DiscardedTo(Discard([r EXCEPT !.highest = t.rg.highest, !.aru = t.rg.aru]), r, t)
<1>1. PICK H, A, u, v : /\ H = t.rg.highest /\ A = t.rg.aru
                        /\ u = [r EXCEPT !.highest = H, !.aru = A]
                        /\ v = Discard(u)
  OBVIOUS
<1>2. /\ Typed(r) /\ Buffer(g, r) /\ Clients(g, r, d) /\ H \in Nat /\ A \in Nat
      /\ r.exits = {} /\ Ordered(r.handed) /\ r.lastDiscarded <= A /\ r.mode = "form"
      /\ g[d] \subseteq Seqs
  BY <1>1 DEF Form2Facts, Infos
<1>3. /\ r.highest \in Nat /\ r.lastDiscarded \in Nat /\ Len(Packets) \in Nat
      /\ \A n \in Seqs : n \in Nat /\ n # 0 /\ n <= Len(Packets)
      /\ Seqs = 1..Len(Packets)
  BY <1>2, Constants DEF Typed
<1>4. A <= Len(Packets) /\ \A n \in 1..A : n \in g[d]
  <2>1. Info(g, t)
    BY DEF Form2Facts
  <2>2. t.rg.aru <= t.rg.highest /\ t.rg.highest <= Len(Packets) /\ \A n \in 1..t.rg.aru : n \in g[d]
    BY <2>1 DEF Info
  <2> QED
    BY <1>1, <1>2, <1>3, <2>2
<1>5. ASSUME NEW n \in Seqs, n <= A
      PROVE  n <= r.lastDiscarded \/ r.exist[n] \in {1, 2}
  <2>1. n \in g[d]
    BY <1>2, <1>3, <1>4, <1>5
  <2> QED
    BY <1>2, <2>1 DEF Form2Facts, KeepsIn
<1>6. /\ DOMAIN u = Globals /\ SameBut(u, r, {"highest", "aru"})
      /\ u.highest = H /\ u.aru = A
  BY <1>1, <1>2 DEF Typed, Globals, SameBut
<1>7. Typed(u)
  BY <1>2, <1>6 DEF Typed, SameBut, Globals
<1>8. u.exist = r.exist /\ u.handed = r.handed /\ u.lastDiscarded = r.lastDiscarded /\ u.exits = {}
  BY <1>2, <1>6 DEF SameBut, Globals
<1>9. CASE A <= r.lastDiscarded
  <2>1. A = r.lastDiscarded /\ v = u
    BY <1>1, <1>2, <1>3, <1>6, <1>8, <1>9 DEF Discard
  <2>2. \A n \in Seqs : n <= A => n \in HandedIn(r) /\ r.exist[n] = 0
    BY <1>2, <1>3, <2>1 DEF Clients, Buffer
  <2>3. HandedIn(v) = HandedIn(r) /\ v.exist = r.exist
    BY <1>8, <2>1 DEF HandedIn
  <2>4. SameBut(v, r, {"highest", "aru", "lastDiscarded", "handed", "exist"})
    BY <1>6, <2>1 DEF SameBut
  <2>5. HandedIn(v) = HandedIn(r) \cup {n \in Seqs : n <= A}
    BY <2>2, <2>3
  <2>6. Ordered(v.handed) /\ v.lastDiscarded = A /\ v.highest = H /\ Typed(v)
    BY <1>2, <1>6, <1>7, <1>8, <2>1
  <2>7. \A n \in Seqs : v.exist[n] = IF n <= A THEN 0 ELSE r.exist[n]
    BY <2>2, <2>3
  <2> QED
    BY <1>1, <2>4, <2>5, <2>6, <2>7 DEF DiscardedTo
<1>10. CASE ~(A <= r.lastDiscarded)
  <2>1. PICK S : S = (r.lastDiscarded + 1)..A
    OBVIOUS
  <2>2. S \in SUBSET Seqs /\ \A n \in Seqs : n \in S <=> r.lastDiscarded < n /\ n <= A
    BY <1>2, <1>3, <1>4, <2>1
  <2>3. PICK w : w = Settle(u, S)
    OBVIOUS
  <2>4. \A n \in HandedIn(u), x \in S : u.exist[x] = 1 => n # x /\ (Reliable(n) \/ n < x)
    <3>1. HandedIn(u) = HandedIn(r) /\ HandedIn(r) \subseteq Seqs
      BY <1>2, <1>8, HandedSeqs DEF HandedIn
    <3>2. ASSUME NEW n \in HandedIn(r), NEW x \in S, r.exist[x] = 1
          PROVE  n # x /\ (Reliable(n) \/ n < x)
      <4>1. n \in Nat /\ x \in Nat /\ x \in Seqs /\ x # 0 /\ r.lastDiscarded < x
        BY <1>3, <2>2, <3>1, <3>2
      <4>2. x \notin HandedIn(r)
        BY <1>2, <1>3, <3>2, <4>1 DEF Clients
      <4>3. ~Reliable(n) => ~(x \in 1..n)
        BY <1>2, <3>2, <4>2 DEF Clients
      <4> QED
        BY <3>2, <4>1, <4>2, <4>3
    <3> QED
      BY <1>8, <3>1, <3>2
  <2>5. /\ Typed(w) /\ SameBut(w, u, {"handed", "exist"}) /\ Ordered(w.handed)
        /\ \A n \in Seqs : w.exist[n] = IF n \in S THEN 0 ELSE u.exist[n]
        /\ HandedIn(w) = HandedIn(u) \cup {n \in S : u.exist[n] = 1}
    <3>1. Ordered(u.handed)
      BY <1>2, <1>8
    <3> QED
      BY <1>7, <2>2, <2>3, <2>4, <3>1, SettleIs
  <2>6. Holes(u, u.lastDiscarded + 1, u.aru) = {}
    <3>1. \A n \in S : n \in Seqs /\ r.exist[n] # 0
      BY <1>3, <1>5, <2>2
    <3> QED
      BY <1>6, <1>8, <2>1, <3>1 DEF Holes, Has
  <2>7. v = [w EXCEPT !.lastDiscarded = A]
    <3>1. (u.lastDiscarded + 1)..u.aru = S /\ ~(u.aru <= u.lastDiscarded)
      BY <1>6, <1>8, <1>10, <2>1
    <3> QED
      BY <1>1, <1>6, <2>3, <2>6, <3>1 DEF Discard, Alarm
  <2>8. /\ DOMAIN v = Globals /\ SameBut(v, w, {"lastDiscarded"}) /\ v.lastDiscarded = A
    BY <2>5, <2>7 DEF Typed, Globals, SameBut
  <2>9. Typed(v)
    BY <1>2, <2>5, <2>8 DEF Typed, SameBut, Globals
  <2>10. /\ SameBut(v, r, {"highest", "aru", "lastDiscarded", "handed", "exist"})
         /\ v.highest = H /\ v.handed = w.handed /\ v.exist = w.exist
    BY <1>6, <2>5, <2>8 DEF SameBut, Globals
  <2>11. \A n \in Seqs : v.exist[n] = IF n <= A THEN 0 ELSE r.exist[n]
    <3>1. \A n \in Seqs : n <= r.lastDiscarded => r.exist[n] = 0
      BY <1>2, <1>3 DEF Buffer
    <3> QED
      BY <1>3, <1>8, <2>2, <2>5, <2>10, <3>1
  <2>12. HandedIn(v) = HandedIn(r) \cup {n \in Seqs : n <= A}
    <3>1. HandedIn(v) = HandedIn(r) \cup {n \in S : r.exist[n] = 1}
      BY <1>8, <2>5, <2>10 DEF HandedIn
    <3>2. ASSUME NEW n \in Seqs, n <= A PROVE n \in HandedIn(r) \/ (n \in S /\ r.exist[n] = 1)
      BY <1>2, <1>3, <1>5, <2>2, <3>2 DEF Clients
    <3> QED
      BY <2>2, <3>1, <3>2
  <2> QED
    BY <1>1, <2>5, <2>8, <2>9, <2>10, <2>11, <2>12 DEF DiscardedTo
<1> QED
  BY <1>9, <1>10

\* The rest of Read_form2, by a daemon with v then.
Form2Read(v, t) ==
  Alarm([DummiesIn(v, t.rg.holes) EXCEPT
           !.mode = "evs", !.lastSeq = t.seq, !.aru = 0, !.lastTokenAru = 0,
           !.fcommit = [trans |-> t.rg.trans, all |-> t.rg.commit]],
        "Read_form2", {n \in t.rg.holes : Has(v, n) /\ Packets[n].from \in t.members} # {})

HasReadForm2(q, r, t) ==
  /\ Typed(q) /\ q.exits = {} /\ q.mode = "evs" /\ q.ring = r.ring
  /\ q.highest = t.rg.highest /\ q.lastDiscarded = t.rg.aru /\ q.myAru = r.myAru
  /\ q.aru = 0 /\ q.lastTokenAru = 0 /\ q.lastSeq = t.seq /\ q.commit = r.commit
  /\ q.fcommit = [trans |-> t.rg.trans, all |-> t.rg.commit]
  /\ Ordered(q.handed) /\ HandedIn(q) = HandedIn(r) \cup {n \in Seqs : n <= t.rg.aru}
  /\ \A n \in Seqs : q.exist[n] =
       IF n \in t.rg.holes THEN 3 ELSE IF n <= t.rg.aru THEN 0 ELSE r.exist[n]

LEMMA Form2ReadIs ==
  ASSUME NEW g, NEW r, NEW t, NEW d, d \in Daemons, Form2Facts(g, r, t, d),
         NEW v, DiscardedTo(v, r, t)
  PROVE  HasReadForm2(Form2Read(v, t), r, t)
<1>1. PICK q, c, H : /\ q = Form2Read(v, t) /\ H = t.rg.holes
                     /\ c = [trans |-> t.rg.trans, all |-> t.rg.commit]
  OBVIOUS
<1> PICK x : x = [n \in Seqs |-> IF n \in H THEN 3 ELSE v.exist[n]]
  OBVIOUS
<1>2. /\ Typed(v) /\ SameBut(v, r, {"highest", "aru", "lastDiscarded", "handed", "exist"})
      /\ v.highest = t.rg.highest /\ v.lastDiscarded = t.rg.aru /\ Ordered(v.handed)
      /\ \A n \in Seqs : v.exist[n] = IF n <= t.rg.aru THEN 0 ELSE r.exist[n]
      /\ HandedIn(v) = HandedIn(r) \cup {n \in Seqs : n <= t.rg.aru}
  BY DEF DiscardedTo
<1>3. v.exits = {} /\ v.ring = r.ring /\ v.myAru = r.myAru /\ v.commit = r.commit
  BY <1>2 DEF SameBut, Globals, Form2Facts
<1>4. t.rg \in Infos /\ H \subseteq Seqs /\ t.seq \in Nat /\ c \in Commits
  BY <1>1 DEF Form2Facts, Infos, Commits, Far
<1>5. {n \in H : Has(v, n) /\ Packets[n].from \in t.members} = {}
  <2>1. ASSUME NEW n \in H, Packets[n].from \in t.members PROVE FALSE
    <3>1. n \in g[Packets[n].from] /\ Packets[n].from \in Given(t) /\ Info(g, t)
      BY <1>4, <2>1 DEF Form2Facts
    <3> QED
      BY <1>1, <2>1, <3>1 DEF Info
  <2> QED
    BY <2>1
<1>6. PICK u : u = DummiesIn(v, H)
  OBVIOUS
<1>7. u = [v EXCEPT !.exist = x]
  BY <1>1, <1>2, <1>6 DEF DummiesIn, Typed, Globals
<1>8. q = [u EXCEPT !.mode = "evs", !.lastSeq = t.seq, !.aru = 0, !.lastTokenAru = 0,
                    !.fcommit = c]
  BY <1>1, <1>5, <1>6 DEF Form2Read, Alarm
<1>9. DOMAIN u = Globals /\ SameBut(u, v, {"exist"}) /\ u.exist = x
  BY <1>2, <1>7 DEF Typed, Globals, SameBut
<1>10. /\ DOMAIN q = Globals /\ q.mode = "evs" /\ q.lastSeq = t.seq /\ q.aru = 0
       /\ q.lastTokenAru = 0 /\ q.fcommit = c
       /\ SameBut(q, u, {"mode", "lastSeq", "aru", "lastTokenAru", "fcommit"})
  BY <1>8, <1>9 DEF Globals, SameBut
<1>11. /\ q.exist = x /\ q.exits = v.exits /\ q.ring = v.ring /\ q.highest = v.highest
       /\ q.lastDiscarded = v.lastDiscarded /\ q.myAru = v.myAru /\ q.commit = v.commit
       /\ q.handed = v.handed /\ q.signal = v.signal /\ q.trans = v.trans
  BY <1>9, <1>10 DEF SameBut, Globals
<1>12. /\ x \in [Seqs -> 0..3]
       /\ \A n \in Seqs : x[n] = IF n \in H THEN 3 ELSE v.exist[n]
  BY <1>1, <1>2, TypedNumbers
<1>13. Typed(q)
  BY <1>2, <1>4, <1>10, <1>11, <1>12 DEF Typed
<1>14. HandedIn(q) = HandedIn(v)
  BY <1>11 DEF HandedIn
<1> QED
  BY <1>1, <1>2, <1>3, <1>10, <1>11, <1>12, <1>13, <1>14 DEF HasReadForm2

LEMMA Form2ReadKeeps ==
  ASSUME NEW g, NEW r, NEW t, NEW d, d \in Daemons, Form2Facts(g, r, t, d),
         NEW q, HasReadForm2(q, r, t), NEW k, NEW k2, k[r.ring] = t,
         t.kind = "form2", Waits(g, r, k, d)
  PROVE  Waits(g, q, k2, d) /\ Stays(r, k, q, k2) /\ Reads(q, t.rg)
<1>1. PICK H, A, L : H = t.rg.highest /\ A = t.rg.aru /\ L = t.rg.holes
  OBVIOUS
<1>2. /\ Typed(r) /\ Buffer(g, r) /\ Clients(g, r, d) /\ r.mode = "form"
      /\ r.lastDiscarded <= A /\ r.highest <= H /\ r.commit.all \subseteq t.rg.commit
      /\ t.seq = H + Far /\ g[d] \subseteq Seqs /\ Given(t) = t.members
      /\ Commitment(g, r, k, d)
  BY <1>1 DEF Form2Facts, Waits
<1>3. /\ A \in Nat /\ H \in Nat /\ L \subseteq Seqs
      /\ A <= H /\ H <= Len(Packets)
      /\ \A n \in L : n <= H
      /\ \A n \in 1..A, e \in Daemons : n \in g[e]
      /\ Given(t) # {} /\ Given(t) \subseteq Daemons
      /\ \A e \in Given(t) : \A n \in g[e] : n <= H /\ n \notin L
  <2>1. t.rg \in Infos /\ Info(g, t) /\ Given(t) \subseteq Daemons
    BY DEF Form2Facts
  <2> QED
    BY <1>1, <2>1 DEF Info, Infos
<1>4. /\ Typed(q) /\ q.mode = "evs"
      /\ q.highest = H /\ q.lastDiscarded = A /\ q.myAru = r.myAru
      /\ q.lastSeq = H + Far /\ q.commit = r.commit
      /\ q.fcommit = [trans |-> t.rg.trans, all |-> t.rg.commit]
      /\ HandedIn(q) = HandedIn(r) \cup {n \in Seqs : n <= A}
      /\ \A n \in Seqs : q.exist[n] = IF n \in L THEN 3 ELSE IF n <= A THEN 0 ELSE r.exist[n]
  BY <1>1, <1>2 DEF HasReadForm2
<1>5. /\ r.highest \in Nat /\ r.lastDiscarded \in Nat /\ r.myAru \in Nat
      /\ \A n \in Seqs : n \in Nat /\ n # 0 /\ n <= Len(Packets)
      /\ Len(Packets) \in Nat /\ Seqs = 1..Len(Packets)
  BY <1>2, Constants DEF Typed
<1>6. \A n \in L : A < n
  <2>1. PICK e \in Given(t) : e \in Daemons
    BY <1>3
  <2>2. ASSUME NEW n \in L, n <= A PROVE FALSE
    BY <1>3, <1>5, <2>1, <2>2
  <2> QED
    BY <1>3, <1>5, <2>2
<1>7. ASSUME NEW n \in Seqs, Kept(r, k, n) PROVE KeepsIn(q, n)
  <2>1. KeepsIn(r, n) /\ n \notin L
    BY <1>1, <1>2, <1>7 DEF Kept, Counts
  <2>2. n <= r.lastDiscarded \/ r.exist[n] \in {1, 2}
    BY <1>2, <2>1 DEF KeepsIn
  <2>3. n <= A \/ q.exist[n] \in {1, 2}
    BY <1>2, <1>3, <1>4, <1>5, <2>1, <2>2
  <2> QED
    BY <1>4, <2>3 DEF KeepsIn
<1>8. \A n \in Seqs : Kept(r, k, n) => Kept(q, k2, n)
  BY <1>4, <1>7 DEF Kept
<1>9. Stays(r, k, q, k2)
  <2>1. \A u \in Seqs : \A v \in 1..u : v \in Seqs
    BY Constants
  <2>2. \A u \in Seqs : Firm(r, k, u) => Firm(q, k2, u)
    BY <1>2, <1>4, <1>8, <2>1 DEF Firm
  <2> QED
    BY <1>8, <2>2 DEF Stays
<1>10. \A c \in Seqs : Had(g, d, c) => c <= q.myAru
  BY <1>2, <1>4 DEF Commitment
<1>11. Buffer(g, q)
  <2>1. A <= r.myAru
    <3>1. CASE A = 0
      BY <1>5, <3>1
    <3>2. CASE A # 0
      <4>1. A \in Seqs /\ Had(g, d, A)
        BY <1>3, <1>5, <3>2 DEF Had
      <4> QED
        BY <1>2, <4>1 DEF Commitment
    <3> QED
      BY <3>1, <3>2
  <2>2. r.myAru <= H
    <3>1. r.myAru <= r.highest
      BY <1>2 DEF Buffer
    <3> QED
      BY <1>2, <1>3, <1>5, <3>1
  <2>3. ASSUME NEW n \in Seqs, q.exist[n] # 0 PROVE A < n /\ n <= H
    <3>1. CASE n \in L
      BY <1>3, <1>6, <3>1
    <3>2. CASE n \notin L
      <4>1. ~(n <= A) /\ r.exist[n] # 0
        BY <1>4, <2>3, <3>2
      <4>2. n <= r.highest
        BY <1>2, <4>1 DEF Buffer
      <4> QED
        BY <1>2, <1>3, <1>5, <4>1, <4>2
    <3> QED
      BY <3>1, <3>2
  <2>4. ASSUME NEW n \in Seqs, A < n, n <= r.myAru PROVE q.exist[n] # 0
    <3>1. r.myAru <= r.highest
      BY <1>2 DEF Buffer
    <3>2. r.lastDiscarded < n /\ n <= r.highest
      BY <1>2, <1>3, <1>5, <2>4, <3>1
    <3>3. r.exist[n] # 0
      BY <1>2, <2>4, <3>2 DEF Buffer
    <3>4. ~(n <= A)
      BY <1>3, <1>5, <2>4
    <3> QED
      BY <1>4, <3>3, <3>4
  <2> QED
    BY <1>3, <1>4, <2>1, <2>2, <2>3, <2>4 DEF Buffer
<1>12. Clients(g, q, d)
  <2>1. \A n \in HandedIn(r) : n \in g[d] /\ n \in Seqs /\ KeepsIn(r, n)
    BY <1>2 DEF Clients, Form2Facts
  <2>2. ASSUME NEW n \in HandedIn(r) PROVE n \notin L
    <3>1. Kept(r, k, n)
      BY <1>2, <2>1, <2>2 DEF Commitment
    <3> QED
      BY <1>1, <1>2, <3>1 DEF Kept, Counts
  <2>3. ASSUME NEW n \in Seqs PROVE n \in HandedIn(q) <=> n <= A \/ q.exist[n] = 2
    <3>1. n \in HandedIn(r) <=> n <= r.lastDiscarded \/ r.exist[n] = 2
      BY <1>2 DEF Clients
    <3>2. CASE n <= A
      BY <1>4, <3>2
    <3>3. CASE ~(n <= A) /\ n \in L
      BY <1>2, <1>3, <1>4, <1>5, <2>2, <3>1, <3>3
    <3>4. CASE ~(n <= A) /\ n \notin L
      BY <1>2, <1>3, <1>4, <1>5, <3>1, <3>4
    <3> QED
      BY <3>2, <3>3, <3>4
  <2>4. HandedIn(q) \subseteq g[d]
    BY <1>3, <1>4, <1>5, <2>1
  <2>5. ASSUME NEW n \in HandedIn(q), ~Reliable(n)
        PROVE  \A u \in 1..n : u \in HandedIn(q) /\ (u <= A \/ ~IsSafe(u))
    <3>1. CASE n \in HandedIn(r)
      <4>1. \A u \in 1..n : u \in HandedIn(r) /\ (u <= r.lastDiscarded \/ ~IsSafe(u))
        BY <1>2, <2>5, <3>1 DEF Clients
      <4> QED
        BY <1>2, <1>3, <1>4, <1>5, <4>1
    <3>2. CASE n \in Seqs /\ n <= A
      <4>1. \A u \in 1..n : u \in Seqs /\ u <= A
        BY <1>3, <1>5, <3>2
      <4> QED
        BY <1>4, <4>1
    <3> QED
      BY <1>4, <2>5, <3>1, <3>2
  <2> QED
    BY <1>4, <2>3, <2>4, <2>5 DEF Clients
<1>13. Commitment(g, q, k2, d)
  <2>1. \A f \in r.commit.all : Knows(g, q, k2, f)
    BY <1>2, <1>8 DEF Commitment, Knows
  <2> QED
    BY <1>2, <1>4, <1>8, <1>10, <2>1 DEF Commitment
<1>14. Reads(q, t.rg)
  <2>1. \A n \in Seqs : q.exist[n] = 3 <=> n \in L
    BY <1>2, <1>4 DEF Buffer
  <2>2. q.myAru <= q.highest
    <3>1. r.myAru <= r.highest
      BY <1>2 DEF Buffer
    <3> QED
      BY <1>2, <1>3, <1>4, <1>5, <3>1
  <2> QED
    BY <1>1, <1>2, <1>4, <2>1, <2>2 DEF Reads
<1> QED
  BY <1>9, <1>11, <1>12, <1>13, <1>14 DEF Waits

\* The form2 token of t when d has read it.
AfterForm2(t, d) ==
  IF t.rest \ {d} = {} THEN FirstRegular(t) ELSE [t EXCEPT !.rest = t.rest \ {d}]

LEMMA AfterForm2Is ==
  ASSUME NEW t, TokenTyped(t), t.kind = "form2", NEW d, d \in t.rest, NEW q, q = AfterForm2(t, d)
  PROVE  /\ TokenTyped(q) /\ q.rg = t.rg /\ q.members = t.members
         /\ \/ q.kind = "form2" /\ q.rest = t.rest \ {d}
            \/ /\ q.kind = "regular" /\ t.rest = {d} /\ q.aru = Int32Max
               /\ q.aruLast = None /\ q.rtr = {}
<1>1. /\ t.rest \subseteq t.members /\ t.members \subseteq Daemons
      /\ t.rg \in Infos /\ t.seq = t.rg.highest + Far
      /\ DOMAIN t = {"kind", "members", "rest", "seq", "rg"}
  BY DEF TokenTyped
<1>2. CASE t.rest \ {d} = {}
  <2>1. q = FirstRegular(t) /\ t.rest = {d}
    BY <1>2 DEF AfterForm2
  <2>2. Min(t.members) \in t.members
    <3>1. t.members \in SUBSET Nat /\ t.members # {}
      BY <1>1, Constants
    <3> QED
      BY <3>1, MinOf
  <2>3. /\ q.kind = "regular" /\ q.members = t.members /\ q.rest = {Min(t.members)}
        /\ q.aru = Int32Max /\ q.aruLast = None /\ q.rtr = {} /\ q.rg = t.rg
        /\ DOMAIN q = {"kind", "members", "rest", "aru", "aruLast", "rtr", "rtrTo", "rg"}
    BY <2>1 DEF FirstRegular
  <2>4. Int32Max \in Nat
    BY DEF Int32Max
  <2> QED
    BY <1>1, <2>1, <2>2, <2>3, <2>4 DEF TokenTyped
<1>3. CASE t.rest \ {d} # {}
  <2>1. PICK R : R = t.rest \ {d}
    OBVIOUS
  <2>2. q = [t EXCEPT !.rest = R]
    BY <1>3, <2>1 DEF AfterForm2
  <2>3. /\ q.kind = "form2" /\ q.members = t.members /\ q.rest = R /\ q.rg = t.rg
        /\ q.seq = t.seq /\ DOMAIN q = {"kind", "members", "rest", "seq", "rg"}
    BY <1>1, <2>2
  <2> QED
    BY <1>1, <1>3, <2>1, <2>3 DEF TokenTyped
<1> QED
  BY <1>2, <1>3

\* A token sent to a daemon that is not in the attempt any more is gone.
LEMMA SentIs ==
  ASSUME NEW q, NEW t, TokenTyped(q), t = q \/ t = Swallowed(q)
  PROVE  /\ TokenTyped(t) /\ t.rg.highest = q.rg.highest
         /\ t = q \/ t.kind = "gone"
BY SwallowedIs

LEMMA Form2Keeps ==
  ASSUME NEW g, NEW s, NEW k, NEW s2, NEW k2, NEW d, d \in Daemons, Inv(g, s, k),
         NEW a, a \in DOMAIN k, k[a].kind = "form2", d \in k[a].rest, InForm(s, a, d),
         HasReadForm2(s2[d], s[d], k[a]), DOMAIN s2 = Daemons,
         \A e \in Daemons : e # d => s2[e] = s[e],
         DOMAIN k2 = DOMAIN k, \A b \in DOMAIN k : b # a => k2[b] = k[b],
         k2[a] = AfterForm2(k[a], d) \/ k2[a] = Swallowed(AfterForm2(k[a], d))
  PROVE  Inv(g, s2, k2)
<1>1. PICK r, q, t, u : r = s[d] /\ q = s2[d] /\ t = k[a] /\ u = AfterForm2(t, d)
  OBVIOUS
<1>2. /\ Form2Facts(g, r, t, d) /\ Waits(g, r, k, d) /\ HasReadForm2(q, r, t)
  <2>1. Form2Facts(g, s[d], k[a], d) /\ Waits(g, s[d], k, d)
    BY Form2Knows
  <2> QED
    BY <1>1, <2>1
<1>3. Waits(g, q, k2, d) /\ Stays(r, k, q, k2) /\ Reads(q, t.rg)
  <2>1. k[r.ring] = t /\ t.kind = "form2"
    BY <1>1 DEF InForm
  <2> QED
    BY <1>2, <2>1, Form2ReadKeeps
<1>4. /\ Typed(q) /\ q.exits = {} /\ q.mode = "evs" /\ q.ring = a
      /\ q.highest = t.rg.highest /\ q.myAru = r.myAru
      /\ q.aru = 0 /\ q.lastTokenAru = 0 /\ Ordered(q.handed)
  BY <1>1, <1>2 DEF HasReadForm2, InForm
<1>5. /\ TokenTyped(t) /\ FormInv(g, s, t, a) /\ t.kind = "form2" /\ t.rg.highest \in Nat
      /\ t.rest \subseteq t.members /\ t.members \subseteq Daemons
      /\ \A e \in Daemons : InEvs(s, a, e) => s[e].highest = t.rg.highest
      /\ d \in t.rest
  BY <1>1 DEF Inv, TokenInv, TokenTyped, Infos
<1>6. /\ TokenTyped(u) /\ u.rg = t.rg /\ u.members = t.members
      /\ \/ u.kind = "form2" /\ u.rest = t.rest \ {d}
         \/ /\ u.kind = "regular" /\ t.rest = {d} /\ u.aru = Int32Max
            /\ u.aruLast = None /\ u.rtr = {}
  BY <1>1, <1>5, AfterForm2Is
<1>7. /\ TokenTyped(k2[a]) /\ k2[a].rg.highest = t.rg.highest
      /\ k2[a] = u \/ k2[a].kind = "gone"
  <2>1. k2[a] = u \/ k2[a] = Swallowed(u)
    BY <1>1
  <2> QED
    BY <1>6, <2>1, SentIs
<1>8. r.highest <= q.highest /\ r.mode = "form" /\ r.myAru <= q.highest /\ r.myAru \in Nat
  <2>1. Buffer(g, r) /\ r.highest <= t.rg.highest /\ r.mode = "form" /\ Typed(r)
    BY <1>2 DEF Form2Facts
  <2>2. r.highest \in Nat /\ r.myAru \in Nat
    BY <2>1 DEF Typed
  <2>3. r.myAru <= r.highest
    BY <2>1 DEF Buffer
  <2>4. PICK x \in Nat, y \in Nat, z \in Nat : x = r.myAru /\ y = r.highest /\ z = t.rg.highest
    BY <1>5, <2>2
  <2>5. x <= y /\ y <= z
    BY <2>1, <2>3, <2>4
  <2>6. x <= z
    BY <2>5
  <2> QED
    BY <1>4, <2>1, <2>4, <2>5, <2>6
<1>9. Moves(s, k, s2, k2, d)
  <2>1. ASSUME NEW b \in DOMAIN k, NEW n \in Seqs, Counts(k[b], n) PROVE Counts(k2[b], n)
    <3>1. CASE b # a
      BY <2>1, <3>1
    <3>2. CASE b = a
      BY <1>1, <1>5, <1>6, <1>7, <2>1, <3>2 DEF Counts
    <3> QED
      BY <3>1, <3>2
  <2>2. \A n \in Seqs : Firm(r, k, n) => Firm(q, k2, n)
    BY <1>3 DEF Stays
  <2>3. DOMAIN k \subseteq DOMAIN k2 /\ \E m \in Nat : DOMAIN k2 = 1..m
    BY DEF Inv
  <2> QED
    BY <1>1, <1>4, <1>8, <2>1, <2>2, <2>3 DEF Moves
<1>10. DaemonInv(g, s2, k2, d)
  BY <1>1, <1>3, <1>4 DEF DaemonInv
<1>11. \A e \in Daemons : e # d =>
         /\ s2[e] = s[e]
         /\ InForm(s2, a, e) <=> InForm(s, a, e)
         /\ InEvs(s2, a, e) <=> InEvs(s, a, e)
         /\ Came(s2, a, e) <=> Came(s, a, e)
  BY DEF InForm, InEvs, Came
<1>12. ~InForm(s2, a, d) /\ ~Came(s2, a, d) /\ InEvs(s2, a, d)
  BY <1>1, <1>4 DEF InForm, Came, InEvs
<1>13. \A e \in Daemons : InEvs(s2, a, e) =>
         /\ e \in t.members /\ Reads(s2[e], t.rg)
         /\ s2[e].myAru <= s2[e].highest /\ s2[e].aru = 0 /\ s2[e].lastTokenAru = 0
         /\ s2[e].highest = t.rg.highest /\ s2[e].myAru \in Nat
         /\ e \notin t.rest \ {d}
  <2>1. ASSUME NEW e \in Daemons, e # d, InEvs(s2, a, e)
        PROVE  /\ e \in t.members /\ Reads(s2[e], t.rg)
               /\ s2[e].myAru <= s2[e].highest /\ s2[e].aru = 0 /\ s2[e].lastTokenAru = 0
               /\ s2[e].highest = t.rg.highest /\ s2[e].myAru \in Nat
               /\ e \notin t.rest \ {d}
    <3>1. s[e].myAru \in Nat
      BY DEF Inv, DaemonInv, Typed
    <3> QED
      BY <1>5, <1>11, <2>1, <3>1 DEF FormInv
  <2> QED
    BY <1>1, <1>3, <1>4, <1>5, <1>8, <2>1
<1>14. TokenInv(g, s2, k2, a)
  <2>1. \A e \in Daemons : InEvs(s2, a, e) => s2[e].highest = k2[a].rg.highest
    BY <1>7, <1>13
  <2>2. Info(g, t) /\ t.kind = "form2"
    BY <1>5 DEF FormInv
  <2>3. \A e \in Daemons : ~Came(s2, a, e)
    BY <1>5, <1>11, <1>12 DEF FormInv
  <2>4. ASSUME k2[a].kind \in {"form1", "form2"} PROVE FormInv(g, s2, k2[a], a)
    <3>1. k2[a] = u /\ u.kind = "form2" /\ u.rest = t.rest \ {d}
      BY <1>6, <1>7, <2>4
    <3>2. Info(g, u)
      BY <1>6, <2>2, <3>1 DEF Info, Given
    <3>3. ASSUME NEW e \in Daemons, InForm(s2, a, e) PROVE Fills(s2, u, e)
      <4>1. e # d /\ s2[e] = s[e] /\ Fills(s, t, e)
        BY <1>5, <1>11, <1>12, <3>3 DEF FormInv
      <4> QED
        BY <1>6, <2>2, <3>1, <4>1 DEF Fills
    <3>4. \A e \in Daemons : InEvs(s2, a, e) => e \in u.members \ u.rest /\ Reads(s2[e], u.rg)
      BY <1>6, <1>13, <3>1
    <3> QED
      BY <1>13, <2>3, <3>1, <3>2, <3>3, <3>4 DEF FormInv
  <2>5. ASSUME k2[a].kind = "regular" PROVE RegularInv(g, s2, k2, k2[a], a)
    <3>1. /\ k2[a] = u /\ u.kind = "regular" /\ t.rest = {d} /\ u.aru = Int32Max
          /\ u.aruLast = None /\ u.rtr = {} /\ u.rg = t.rg /\ u.members = t.members
      BY <1>6, <1>7, <2>5
    <3>2. Info(g, u)
      BY <2>2, <3>1 DEF Info, Given
    <3>3. \A e \in Daemons : ~InForm(s2, a, e)
      <4>1. ASSUME NEW e \in Daemons, InForm(s2, a, e) PROVE FALSE
        <5>1. e # d /\ Fills(s, t, e)
          BY <1>5, <1>11, <1>12, <4>1 DEF FormInv
        <5> QED
          BY <2>2, <3>1, <5>1 DEF Fills
      <4> QED
        BY <4>1
    <3>4. ASSUME NEW h \in u.rest PROVE Arus(s2, u, a, h)
      <4>1. 0 <= Int32Max
        BY DEF Int32Max
      <4> QED
        BY <1>13, <3>1, <4>1 DEF Arus
    <3>5. ASSUME NEW h \in u.rest PROVE AllReady(s2, k2, u, a, h)
      <4>1. t.rg.highest + Far # 0
        BY <1>5 DEF Far
      <4> QED
        BY <1>13, <2>3, <3>1, <4>1 DEF AllReady
    <3> QED
      BY <1>13, <3>1, <3>2, <3>3, <3>4, <3>5 DEF RegularInv
  <2> QED
    BY <1>7, <2>1, <2>4, <2>5 DEF TokenInv
<1>15. ASSUME NEW b, b \in DOMAIN k2 PROVE TokenInv(g, s2, k2, b)
  <2>1. CASE b = a
    BY <1>14, <2>1
  <2>2. CASE b # a
    <3>1. b \in DOMAIN k /\ k2[b] = k[b] /\ s2[d].ring # b
      BY <1>1, <1>4, <1>15, <2>2
    <3> QED
      BY <1>9, <3>1, OtherToken
  <2> QED
    BY <2>1, <2>2
<1>16. \A e \in Daemons :
         s2[d].mode = "op" /\ s[e].mode = "op" /\ s[e].ring = s2[d].ring =>
           Same(s2[d], s[e])
  BY <1>1, <1>4
<1> QED
  BY <1>9, <1>10, <1>15, <1>16, StepKeeps

-----------------------------------------------------------------------------
(* Prot_handle_token in EVS: what a daemon has, and says.                  *)

\* A daemon with r has raised its My_aru, and committed if it has all.
Up(u, r) ==
  /\ Typed(u) /\ SameBut(u, r, {"myAru", "commit"}) /\ r.myAru <= u.myAru
  /\ \/ u.commit = r.commit /\ u.myAru < r.highest
     \/ u.commit = r.fcommit /\ u.myAru = r.lastSeq
  /\ \A n \in Seqs : r.lastDiscarded < n /\ n <= u.myAru /\ n <= r.highest => r.exist[n] # 0

Wants(r) == Lowest(Holes(r, r.myAru + 1, r.highest))

LEMMA CommittedIs ==
  ASSUME NEW g, NEW r, Typed(r), r.mode = "evs", Buffer(g, r),
         NEW rg, rg \in Infos, Reads(r, rg), r.highest = rg.highest
  PROVE  /\ Up(Committed(RaiseMyAru(r)), r)
         /\ \A n \in Wants(RaiseMyAru(r)) : n \in Seqs /\ Committed(RaiseMyAru(r)).myAru < n
<1>1. PICK q, u, H, L : /\ q = RaiseMyAru(r) /\ u = Committed(q) /\ H = r.highest
                        /\ L = r.lastSeq
  OBVIOUS
<1>2. /\ Typed(q) /\ SameBut(q, r, {"myAru"}) /\ q.myAru >= r.myAru
      /\ q.myAru = r.myAru \/ (q.myAru <= H /\ q.myAru <= Len(Packets))
      /\ \A n \in Seqs : r.myAru < n /\ n <= q.myAru => r.exist[n] # 0
  BY <1>1, RaiseMyAruIs
<1>3. /\ q.highest = H /\ q.lastSeq = L /\ q.fcommit = r.fcommit /\ q.exist = r.exist
      /\ q.commit = r.commit
  BY <1>1, <1>2 DEF SameBut, Globals
<1>4. /\ H \in Nat /\ L \in Nat /\ r.myAru \in Nat /\ q.myAru \in Nat
      /\ r.lastDiscarded \in Nat /\ r.fcommit \in Commits
      /\ Len(Packets) \in Nat /\ Seqs = 1..Len(Packets)
  BY <1>1, <1>2, Constants DEF Typed
<1>5. /\ H <= Len(Packets) /\ r.lastDiscarded <= r.myAru /\ L = H + Far
      /\ r.myAru <= H \/ (r.myAru = L /\ r.commit = r.fcommit)
  BY <1>1 DEF Buffer, Reads
<1>6. \A n \in Seqs : r.lastDiscarded < n /\ n <= q.myAru /\ n <= H => r.exist[n] # 0
  <2>1. \A n \in Seqs : r.lastDiscarded < n /\ n <= r.myAru /\ n <= H => r.exist[n] # 0
    BY <1>1 DEF Buffer
  <2> QED
    BY <1>2, <1>4, <2>1
<1>7. CASE q.myAru = H
  <2>1. u = [q EXCEPT !.myAru = L, !.commit = r.fcommit]
    BY <1>1, <1>3, <1>7 DEF Committed
  <2>2. /\ DOMAIN u = Globals /\ u.myAru = L /\ u.commit = r.fcommit
        /\ SameBut(u, q, {"myAru", "commit"})
    BY <1>2, <2>1 DEF Typed, Globals, SameBut
  <2>3. Typed(u)
    BY <1>2, <1>4, <2>2 DEF Typed, SameBut, Globals
  <2>4. SameBut(u, r, {"myAru", "commit"})
    BY <1>2, <2>2 DEF SameBut, Globals
  <2>5. r.myAru <= L
    BY <1>2, <1>4, <1>5, <1>7 DEF Far
  <2>6. \A n \in Seqs : r.lastDiscarded < n /\ n <= H => r.exist[n] # 0
    BY <1>4, <1>6, <1>7
  <2>7. Up(u, r)
    BY <1>1, <2>2, <2>3, <2>4, <2>5, <2>6 DEF Up
  <2>8. Wants(q) = {}
    BY <1>3, <1>4, <1>7 DEF Wants, Lowest, Holes
  <2> QED
    BY <1>1, <2>7, <2>8
<1>8. CASE q.myAru # H
  <2>1. u = q
    BY <1>1, <1>3, <1>8 DEF Committed
  <2>2. SameBut(q, r, {"myAru", "commit"})
    BY <1>2 DEF SameBut
  <2>3. \/ q.myAru < H
        \/ q.myAru = L /\ r.commit = r.fcommit /\ H < q.myAru
    BY <1>2, <1>4, <1>5, <1>8 DEF Far
  <2>4. Up(u, r)
    BY <1>1, <1>2, <1>3, <1>4, <1>6, <2>1, <2>2, <2>3 DEF Up
  <2>5. \A n \in Wants(q) : n \in (q.myAru + 1)..H
    BY <1>3 DEF Wants, Lowest, Holes
  <2>6. \A n \in Wants(q) : n \in Seqs /\ q.myAru < n
    BY <1>4, <1>5, <2>5
  <2> QED
    BY <1>1, <2>1, <2>4, <2>6
<1> QED
  BY <1>7, <1>8

\* A daemon with r, after what t asks for was answered.
TurnedUp(r, t) ==
  Committed(RaiseMyAru(Alarm(r, "Answer_retrans", \E n \in t.rtr : n < r.aru)))
AskedBy(r, t) ==
  Wants(RaiseMyAru(Alarm(r, "Answer_retrans", \E n \in t.rtr : n < r.aru)))

\* It sends aru on.
TurnedOn(u, r, aru) ==
  Alarm([u EXCEPT !.aru = AruOf(aru, r.lastTokenAru), !.lastTokenAru = aru],
        "illegally lowering Aru", AruOf(aru, r.lastTokenAru) < u.aru)

Turned(v, r, aru) ==
  /\ Typed(v) /\ SameBut(v, r, {"myAru", "commit", "aru", "lastTokenAru"})
  /\ r.myAru <= v.myAru /\ v.lastTokenAru = aru /\ v.aru = AruOf(aru, r.lastTokenAru)
  /\ \/ v.commit = r.commit /\ v.myAru < r.highest
     \/ v.commit = r.fcommit /\ v.myAru = r.lastSeq
  /\ \A n \in Seqs : r.lastDiscarded < n /\ n <= v.myAru /\ n <= r.highest => r.exist[n] # 0

LEMMA TurnedOnIs ==
  ASSUME NEW r, Typed(r), NEW u, Up(u, r), NEW aru, aru \in Nat, r.aru <= aru,
         r.aru <= r.lastTokenAru
  PROVE  Turned(TurnedOn(u, r, aru), r, aru)
<1>1. PICK v, new : v = TurnedOn(u, r, aru) /\ new = AruOf(aru, r.lastTokenAru)
  OBVIOUS
<1>2. new \in Nat /\ r.aru <= new
  BY <1>1 DEF Typed, AruOf
<1>3. Typed(u) /\ SameBut(u, r, {"myAru", "commit"}) /\ u.aru = r.aru /\ r.aru \in Nat
  BY DEF Up, SameBut, Globals, Typed
<1>4. v = [u EXCEPT !.aru = new, !.lastTokenAru = aru]
  BY <1>1, <1>2, <1>3 DEF TurnedOn, Alarm
<1>5. /\ DOMAIN v = Globals /\ v.aru = new /\ v.lastTokenAru = aru
      /\ SameBut(v, u, {"aru", "lastTokenAru"})
  BY <1>3, <1>4 DEF Typed, Globals, SameBut
<1>6. Typed(v)
  BY <1>2, <1>3, <1>5 DEF Typed, SameBut, Globals
<1>7. v.myAru = u.myAru /\ v.commit = u.commit
      /\ SameBut(v, r, {"myAru", "commit", "aru", "lastTokenAru"})
  BY <1>3, <1>5 DEF SameBut, Globals
<1> QED
  BY <1>1, <1>5, <1>6, <1>7 DEF Up, Turned

\* What it has heard of stays; it waits with as much as before, or more.
LEMMA TurnedKeeps ==
  ASSUME NEW g, NEW k, NEW k2, NEW d, NEW r, Typed(r), r.mode = "evs", Waits(g, r, k, d),
         NEW t, Info(g, t), t.rg \in Infos, Reads(r, t.rg), r.highest = t.rg.highest,
         g[d] \subseteq Seqs, NEW aru, NEW v, Turned(v, r, aru)
  PROVE  Waits(g, v, k2, d) /\ Stays(r, k, v, k2) /\ Reads(v, t.rg)
<1>1. PICK rg : rg = t.rg
  OBVIOUS
<1>2. /\ v.mode = "evs" /\ v.highest = r.highest /\ v.lastDiscarded = r.lastDiscarded
      /\ v.exist = r.exist /\ v.handed = r.handed /\ v.lastSeq = r.lastSeq
      /\ v.fcommit = r.fcommit
  BY DEF Turned, SameBut, Globals
<1>3. /\ r.highest \in Nat /\ r.myAru \in Nat /\ r.lastDiscarded \in Nat /\ v.myAru \in Nat
      /\ r.lastSeq = r.highest + Far /\ \A n \in Seqs : n \in Nat
  BY <1>1, Constants DEF Typed, Turned, Reads
<1>4. /\ Buffer(g, r) /\ Clients(g, r, d) /\ Commitment(g, r, k, d)
      /\ r.myAru <= v.myAru
      /\ \/ v.commit = r.commit /\ v.myAru < r.highest
         \/ v.commit = r.fcommit /\ v.myAru = r.lastSeq
      /\ \A n \in Seqs : r.lastDiscarded < n /\ n <= v.myAru /\ n <= r.highest => r.exist[n] # 0
  BY DEF Waits, Turned
<1>5. \A n \in Seqs : KeepsIn(r, n) <=> KeepsIn(v, n)
  BY <1>2 DEF KeepsIn
<1>6. \A n \in Seqs : /\ Kept(v, k2, n) <=> KeepsIn(v, n)
                      /\ Kept(r, k, n) <=> KeepsIn(r, n)
  BY <1>2 DEF Kept
<1>7. /\ r.commit.all \subseteq rg.commit /\ r.fcommit.all = rg.commit
      /\ r.lastDiscarded = rg.aru /\ \A n \in Seqs : r.exist[n] = 3 <=> n \in rg.holes
  BY <1>1 DEF Reads
<1>8. r.commit.all \subseteq v.commit.all /\ v.commit.all \subseteq rg.commit
  BY <1>4, <1>7
<1>9. Stays(r, k, v, k2)
  <2>1. \A u \in Seqs : \A w \in 1..u : w \in Seqs
    BY Constants
  <2>2. \A n \in Seqs : Kept(r, k, n) => Kept(v, k2, n)
    BY <1>5, <1>6
  <2>3. \A n \in Seqs : Firm(r, k, n) => Firm(v, k2, n)
    BY <1>2, <1>8, <2>1, <2>2 DEF Firm
  <2> QED
    BY <2>2, <2>3 DEF Stays
<1>10. Buffer(g, v)
  BY <1>2, <1>3, <1>4 DEF Buffer
<1>11. Clients(g, v, d)
  <2>1. HandedIn(v) = HandedIn(r)
    BY <1>2 DEF HandedIn
  <2> QED
    BY <1>2, <1>4, <2>1 DEF Clients
<1>12. ASSUME NEW f \in v.commit.all PROVE Knows(g, v, k2, f)
  <2>1. CASE v.commit = r.commit
    BY <1>4, <1>5, <1>6, <1>12, <2>1 DEF Commitment, Knows
  <2>2. CASE v.commit = r.fcommit /\ v.myAru = r.lastSeq
    <3>1. ASSUME NEW c \in Seqs, Had(g, f, c) PROVE KeepsIn(v, c)
      <4>1. f \in rg.commit
        BY <1>7, <2>2
      <4>2. c <= r.highest /\ c \notin rg.holes
        BY <1>1, <3>1, <4>1 DEF Info
      <4>3. c <= r.lastDiscarded \/ r.exist[c] # 0
        <5>1. c <= r.lastSeq
          BY <1>3, <4>2 DEF Far
        <5> QED
          BY <1>3, <1>4, <2>2, <4>2, <5>1
      <4>4. c <= r.lastDiscarded \/ r.exist[c] \in {1, 2}
        BY <1>7, <4>2, <4>3, TypedNumbers
      <4> QED
        BY <1>2, <4>4 DEF KeepsIn
    <3> QED
      BY <1>6, <3>1 DEF Knows
  <2> QED
    BY <1>4, <2>1, <2>2
<1>13. Commitment(g, v, k2, d)
  <2>1. \A c \in Seqs : Had(g, d, c) => c <= v.myAru
    BY <1>3, <1>4 DEF Commitment
  <2>2. \A n \in g[d] : Kept(v, k2, n)
    BY <1>4, <1>5, <1>6 DEF Commitment
  <2> QED
    BY <1>4, <1>8, <1>12, <2>1, <2>2 DEF Commitment
<1>14. Reads(v, rg)
  <2>1. v.myAru <= v.highest \/ (v.myAru = v.lastSeq /\ v.commit = v.fcommit)
    BY <1>2, <1>3, <1>4
  <2>2. Reads(r, rg)
    BY <1>1
  <2> QED
    BY <1>2, <1>8, <2>1, <2>2 DEF Reads
<1> QED
  BY <1>1, <1>9, <1>10, <1>11, <1>13, <1>14 DEF Waits

-----------------------------------------------------------------------------
(* Who has had the token before whom, when it goes on to the successor.    *)

LEMMA SuccIs ==
  ASSUME NEW t, t.members \in SUBSET Daemons, NEW d, d \in t.members, NEW h, h = Succ(t, d)
  PROVE  /\ h \in t.members
         /\ \A e \in t.members : ~Sooner(h, d, e)
         /\ \A x, y \in t.members : x # d /\ y # d /\ Sooner(h, x, y) => Sooner(d, x, y)
         /\ \A e \in t.members : e # d => Sooner(d, d, e)
<1>1. PICK M : M = t.members
  OBVIOUS
<1>2. M \in SUBSET Nat /\ d \in M /\ d \in Nat
  BY <1>1, Constants
<1>3. PICK E : E = {e \in M : e > d}
  OBVIOUS
<1>4. h = IF E = {} THEN Min(M) ELSE Min(E)
  BY <1>1, <1>3 DEF Succ
<1>5. h \in M /\ h \in Nat /\ (\A e \in M : d < e => h <= e) /\ (d < h \/ \A e \in M : h <= e /\ e <= d)
  <2>1. CASE E = {}
    <3>1. Min(M) \in M /\ \A e \in M : Min(M) <= e
      BY <1>2, MinOf
    <3>2. h = Min(M) /\ \A e \in M : e \in Nat /\ ~(e > d)
      BY <1>2, <1>3, <1>4, <2>1
    <3>3. h \in M /\ h \in Nat
      BY <1>2, <3>1, <3>2
    <3>4. ASSUME NEW e \in M PROVE h <= e /\ e <= d /\ ~(d < e)
      <4>1. e \in Nat /\ ~(e > d) /\ h <= e
        BY <3>1, <3>2
      <4> QED
        BY <1>2, <3>3, <4>1
    <3> QED
      BY <3>3, <3>4
  <2>2. CASE E # {}
    <3>1. E \in SUBSET Nat
      BY <1>2, <1>3
    <3>2. Min(E) \in E /\ \A e \in E : Min(E) <= e
      BY <2>2, <3>1, MinOf
    <3> QED
      BY <1>2, <1>3, <1>4, <2>2, <3>2
  <2> QED
    BY <2>1, <2>2
<1>6. ASSUME NEW e \in M PROVE ~Sooner(h, d, e) /\ (e # d => Sooner(d, d, e))
  <2>1. e \in Nat
    BY <1>2
  <2> QED
    BY <1>2, <1>5, <1>6, <2>1 DEF Sooner
<1>7. ASSUME NEW x \in M, NEW y \in M, x # d, y # d, Sooner(h, x, y) PROVE Sooner(d, x, y)
  <2>1. x \in Nat /\ y \in Nat
    BY <1>2
  <2> QED
    BY <1>2, <1>5, <1>7, <2>1 DEF Sooner
<1> QED
  BY <1>1, <1>5, <1>6, <1>7

\* The token that d sends on: aru is its own where it takes the token's to set.
Onward(u, t, d, v, aru) ==
  /\ u.kind = "regular" /\ u.members = t.members /\ u.rest = {Succ(t, d)} /\ u.rg = t.rg
  /\ \/ /\ u.aruLast = d /\ u.aru = aru /\ aru = v.myAru
        /\ t.aru > v.myAru \/ t.aruLast = d
     \/ /\ u.aruLast = t.aruLast /\ u.aru = aru /\ aru = t.aru
        /\ t.aru <= v.myAru /\ t.aruLast # d
  /\ \A n \in u.rtr : u.aru < n

\* What d knows of the arus when it has the token.
ArusOfToken(s, t, a, d, H) ==
  /\ Arus(s, t, a, d) /\ d \in t.members /\ t.members \in SUBSET Daemons
  /\ InEvs(s, a, d) /\ H \in Nat /\ t.rg.highest = H /\ H + Far < Int32Max
  /\ t.aru \in Nat /\ t.aruLast \in t.members \cup {None}
  /\ \A e \in Daemons : InEvs(s, a, e) =>
       /\ e \in t.members /\ s[e].lastTokenAru \in Nat /\ s[e].aru \in Nat
       /\ s[e].myAru \in Nat /\ (s[e].myAru <= H \/ s[e].myAru = H + Far)

\* The new arus of d.
NewArus(v, r, aru, H) ==
  /\ v.myAru \in Nat /\ r.myAru <= v.myAru /\ v.lastTokenAru = aru
  /\ v.aru = AruOf(aru, r.lastTokenAru)
  /\ v.myAru < H \/ v.myAru = H + Far

LEMMA ArusKeep ==
  ASSUME NEW s, NEW s2, NEW t, NEW a, NEW d, NEW H, ArusOfToken(s, t, a, d, H),
         NEW v, NEW aru, NewArus(v, s[d], aru, H), NEW u, Onward(u, t, d, v, aru),
         \A e \in Daemons : e # d => s2[e] = s[e],
         InEvs(s2, a, d) => s2[d] = v
  PROVE  Arus(s2, u, a, Succ(t, d)) /\ u.aruLast # None /\ u.aru = aru /\ aru \in Nat
         /\ s[d].aru <= aru
<1>1. PICK r, h, T, m, l : /\ r = s[d] /\ h = Succ(t, d) /\ T = t.aru /\ m = v.myAru
                           /\ l = r.lastTokenAru
  OBVIOUS
<1>2. /\ h \in t.members
      /\ \A e \in t.members : ~Sooner(h, d, e)
      /\ \A x, y \in t.members : x # d /\ y # d /\ Sooner(h, x, y) => Sooner(d, x, y)
      /\ \A e \in t.members : e # d => Sooner(d, d, e)
  <2>1. t.members \in SUBSET Daemons /\ d \in t.members
    BY DEF ArusOfToken
  <2> QED
    BY <1>1, <2>1, SuccIs
<1>3. /\ T \in Nat /\ m \in Nat /\ l \in Nat /\ r.aru \in Nat /\ H \in Nat
      /\ r.myAru \in Nat /\ r.myAru <= m /\ (m < H \/ m = H + Far) /\ H + Far < Int32Max
      /\ d \in Daemons /\ d # None
  <2>1. d \in Daemons /\ InEvs(s, a, d)
    BY DEF ArusOfToken
  <2> QED
    BY <1>1, <2>1, Constants DEF ArusOfToken, NewArus
<1>4. /\ \A e \in Daemons : InEvs(s, a, e) =>
           s[e].lastTokenAru <= s[e].myAru /\ s[e].aru <= T
      /\ \A e, f \in Daemons : InEvs(s, a, e) /\ InEvs(s, a, f) => s[e].aru <= s[f].lastTokenAru
      /\ \A e, f \in Daemons : InEvs(s, a, e) /\ InEvs(s, a, f) /\ Sooner(d, e, f) =>
           s[e].lastTokenAru <= s[f].lastTokenAru \/ T <= s[f].lastTokenAru
      /\ t.aruLast = None => T = Int32Max
      /\ t.aruLast # None =>
           /\ T <= H \/ T = H + Far
           /\ \A e \in Daemons : InEvs(s, a, e) /\ (e = t.aruLast \/ Sooner(d, t.aruLast, e)) =>
                s[e].lastTokenAru = T
  BY <1>1 DEF ArusOfToken, Arus
<1>5. /\ InEvs(s, a, d) /\ t.members \subseteq Daemons /\ d \in t.members
      /\ \A e \in Daemons : InEvs(s, a, e) =>
           /\ e \in t.members /\ s[e].lastTokenAru \in Nat /\ s[e].aru \in Nat
           /\ s[e].myAru \in Nat
      /\ t.aruLast \in t.members \cup {None}
  BY DEF ArusOfToken
<1>6. l <= r.myAru /\ l <= m /\ r.aru <= T /\ r.aru <= l
  <2>1. r.lastTokenAru <= r.myAru /\ r.aru <= T /\ r.aru <= r.lastTokenAru
    BY <1>1, <1>3, <1>4, <1>5
  <2> QED
    BY <1>1, <1>3, <2>1
<1>7. /\ v.lastTokenAru = aru /\ v.aru = IF aru > l THEN l ELSE aru
  BY <1>1 DEF NewArus, AruOf
<1>8. /\ u.members = t.members /\ u.rest = {h} /\ u.rg = t.rg /\ u.aru = aru
      /\ \/ u.aruLast = d /\ aru = m /\ (T > m \/ t.aruLast = d)
         \/ u.aruLast = t.aruLast /\ aru = T /\ T <= m /\ t.aruLast # d
      /\ \A n \in u.rtr : u.aru < n
  BY <1>1 DEF Onward
<1>9. /\ u.aruLast # None
      /\ \/ u.aruLast = d /\ aru = m /\ T > m
         \/ u.aruLast = d /\ aru = m /\ t.aruLast = d
         \/ u.aruLast = t.aruLast /\ aru = T /\ T <= m /\ t.aruLast # d
  BY <1>3, <1>4, <1>8 DEF Int32Max, Far
<1>10. t.aruLast = d => \A e \in Daemons : InEvs(s, a, e) => s[e].lastTokenAru = T
  BY <1>2, <1>3, <1>4, <1>5
<1>11. aru \in Nat /\ r.aru <= aru /\ aru <= m /\ (l <= aru \/ aru = T)
  BY <1>3, <1>6, <1>9
<1>12. \A e \in Daemons : InEvs(s2, a, e) /\ e # d => s2[e] = s[e] /\ InEvs(s, a, e)
  BY DEF InEvs
<1>13. ASSUME NEW e \in Daemons, InEvs(s2, a, e)
       PROVE  s2[e].lastTokenAru <= s2[e].myAru /\ s2[e].aru <= u.aru
  <2>1. CASE e = d
    <3>1. s2[e] = v
      BY <1>13, <2>1
    <3> QED
      BY <1>1, <1>3, <1>7, <1>8, <1>11, <3>1
  <2>2. CASE e # d
    <3>1. s2[e] = s[e] /\ InEvs(s, a, e)
      BY <1>12, <1>13, <2>2
    <3>2. s[e].aru <= T /\ s[e].aru <= l /\ s[e].aru \in Nat
      BY <1>1, <1>3, <1>4, <1>5, <3>1
    <3>3. s[e].aru <= aru
      BY <1>3, <1>11, <3>2
    <3> QED
      BY <1>4, <1>8, <3>1, <3>3
  <2> QED
    BY <2>1, <2>2
<1>14. ASSUME NEW e \in Daemons, NEW f \in Daemons, InEvs(s2, a, e), InEvs(s2, a, f)
       PROVE  s2[e].aru <= s2[f].lastTokenAru
  <2>1. CASE f = d
    <3>1. s2[f].lastTokenAru = aru
      BY <1>7, <1>14, <2>1
    <3> QED
      BY <1>8, <1>13, <1>14, <3>1
  <2>2. CASE e = d /\ f # d
    <3>1. s2[f] = s[f] /\ InEvs(s, a, f) /\ s2[e] = v
      BY <1>12, <1>14, <2>2
    <3>2. PICK z \in Nat : z = s[f].lastTokenAru
      BY <1>5, <3>1
    <3>3. l <= z \/ T <= z
      <4>1. Sooner(d, d, f)
        BY <1>2, <1>5, <2>2, <3>1
      <4> QED
        BY <1>1, <1>3, <1>4, <1>5, <3>1, <3>2, <4>1
    <3>4. t.aruLast = d => l = T
      BY <1>1, <1>3, <1>5, <1>10
    <3> QED
      BY <1>3, <1>6, <1>7, <1>9, <1>11, <3>1, <3>2, <3>3, <3>4
  <2>3. CASE e # d /\ f # d
    <3>1. s2[e] = s[e] /\ InEvs(s, a, e) /\ s2[f] = s[f] /\ InEvs(s, a, f)
      BY <1>12, <1>14, <2>3
    <3> QED
      BY <1>4, <3>1
  <2> QED
    BY <2>1, <2>2, <2>3
<1>15. ASSUME NEW e \in Daemons, NEW f \in Daemons, InEvs(s2, a, e), InEvs(s2, a, f),
              Sooner(h, e, f)
       PROVE  s2[e].lastTokenAru <= s2[f].lastTokenAru \/ u.aru <= s2[f].lastTokenAru
  <2>1. CASE f = d
    BY <1>7, <1>8, <1>11, <1>15, <2>1
  <2>2. CASE e = d /\ f # d
    <3>1. f \in t.members
      BY <1>5, <1>12, <1>15, <2>2
    <3> QED
      BY <1>2, <1>15, <2>2, <3>1
  <2>3. CASE e # d /\ f # d
    <3>1. s2[e] = s[e] /\ InEvs(s, a, e) /\ s2[f] = s[f] /\ InEvs(s, a, f)
      BY <1>12, <1>15, <2>3
    <3>2. PICK y \in Nat, z \in Nat : y = s[e].lastTokenAru /\ z = s[f].lastTokenAru
      BY <1>5, <3>1
    <3>3. y <= z \/ T <= z
      BY <1>2, <1>4, <1>5, <1>15, <2>3, <3>1, <3>2
    <3>4. t.aruLast = d => y = T /\ z = T
      BY <1>10, <3>1, <3>2
    <3> QED
      BY <1>3, <1>8, <1>9, <3>1, <3>2, <3>3, <3>4
  <2> QED
    BY <2>1, <2>2, <2>3
<1>16. aru <= H \/ aru = H + Far
  BY <1>3, <1>4, <1>9 DEF Int32Max, Far
<1>17. ASSUME NEW e \in Daemons, InEvs(s2, a, e), e = u.aruLast \/ Sooner(h, u.aruLast, e)
       PROVE  s2[e].lastTokenAru = u.aru
  <2>1. CASE e = d
    BY <1>7, <1>8, <1>17, <2>1
  <2>2. CASE e # d
    <3>1. s2[e] = s[e] /\ InEvs(s, a, e) /\ e \in t.members
      BY <1>5, <1>12, <1>17, <2>2
    <3>2. u.aruLast = t.aruLast /\ aru = T /\ t.aruLast # d
      BY <1>2, <1>9, <1>17, <2>2, <3>1
    <3>3. e = t.aruLast \/ Sooner(d, t.aruLast, e)
      BY <1>2, <1>5, <1>9, <1>17, <2>2, <3>1, <3>2
    <3> QED
      BY <1>4, <1>8, <1>9, <3>1, <3>2, <3>3
  <2> QED
    BY <2>1, <2>2
<1>18. Arus(s2, u, a, h)
  <2>1. u.rg.highest = H
    BY <1>8 DEF ArusOfToken
  <2> QED
    BY <1>8, <1>9, <1>13, <1>14, <1>15, <1>16, <1>17, <2>1 DEF Arus
<1> QED
  BY <1>1, <1>8, <1>9, <1>11, <1>18

-----------------------------------------------------------------------------
(* The installation of the new ring.                                       *)

\* A daemon with v has all there is of the old ring, and dummies for the holes.
Whole(v, rg) ==
  /\ Typed(v) /\ v.exits = {} /\ Ordered(v.handed) /\ rg \in Infos
  /\ v.highest = rg.highest /\ v.lastDiscarded = rg.aru
  /\ rg.aru <= rg.highest /\ rg.highest <= Len(Packets)
  /\ v.commit.trans = rg.trans /\ v.commit.all = rg.commit
  /\ \A n \in Seqs : v.exist[n] # 0 <=> rg.aru < n /\ n <= rg.highest
  /\ \A n \in Seqs : v.exist[n] = 3 <=> n \in rg.holes
  /\ \A n \in Seqs : n \in HandedIn(v) <=> n <= rg.aru \/ v.exist[n] = 2
  /\ \A n \in HandedIn(v) : ~Reliable(n) =>
       \A u \in 1..n : u \in HandedIn(v) /\ (u <= rg.aru \/ ~IsSafe(u))

LEMMA WholeIs ==
  ASSUME NEW g, NEW k, NEW d, NEW v, Typed(v), v.exits = {}, Ordered(v.handed), v.mode = "evs",
         Waits(g, v, k, d), NEW rg, rg \in Infos, Reads(v, rg), v.highest = rg.highest,
         v.myAru = rg.highest + Far
  PROVE  Whole(v, rg)
<1>1. Buffer(g, v) /\ Clients(g, v, d)
  BY DEF Waits
<1>2. /\ v.lastDiscarded = rg.aru /\ v.lastSeq = rg.highest + Far
      /\ v.fcommit = [trans |-> rg.trans, all |-> rg.commit]
      /\ v.myAru <= v.highest \/ v.commit = v.fcommit
      /\ \A n \in Seqs : v.exist[n] = 3 <=> n \in rg.holes
  BY DEF Reads
<1>3. /\ v.highest \in Nat /\ v.lastDiscarded \in Nat /\ rg.highest \in Nat /\ rg.aru \in Nat
      /\ \A n \in Seqs : n \in Nat
  BY Constants DEF Typed, Infos
<1>4. v.commit = v.fcommit
  BY <1>2, <1>3 DEF Far
<1>5. ASSUME NEW n \in Seqs PROVE v.exist[n] # 0 <=> rg.aru < n /\ n <= rg.highest
  BY <1>1, <1>2, <1>3 DEF Buffer, Far
<1>6. rg.aru <= rg.highest /\ rg.highest <= Len(Packets)
  BY <1>1, <1>2 DEF Buffer
<1>7. /\ \A n \in Seqs : n \in HandedIn(v) <=> n <= rg.aru \/ v.exist[n] = 2
      /\ \A n \in HandedIn(v) : ~Reliable(n) =>
           \A u \in 1..n : u \in HandedIn(v) /\ (u <= rg.aru \/ ~IsSafe(u))
  BY <1>1, <1>2 DEF Clients
<1>8. v.commit.trans = rg.trans /\ v.commit.all = rg.commit
  BY <1>2, <1>4
<1> QED
  BY <1>2, <1>5, <1>6, <1>7, <1>8 DEF Whole

\* Where the packets end that still belong to the old ring.
LEMMA LastBeforeIs ==
  ASSUME NEW v, NEW rg, Whole(v, rg), NEW b, b = LastBefore(v)
  PROVE  /\ b \in Nat /\ rg.aru <= b /\ b <= rg.highest
         /\ \A n \in Seqs : rg.aru < n /\ n <= b => n \notin rg.holes /\ ~IsSafe(n)
         /\ \A n \in Seqs : n = b + 1 /\ n <= rg.highest => n \in rg.holes \/ IsSafe(n)
<1>1. PICK A, H : A = rg.aru /\ H = rg.highest
  OBVIOUS
<1>2. PICK S : S = {n \in (A + 1)..H : ~Has(v, n) \/ v.exist[n] = 3 \/ IsSafe(n)}
  OBVIOUS
<1>3. /\ A \in Nat /\ H \in Nat /\ A <= H /\ H <= Len(Packets) /\ Len(Packets) \in Nat
      /\ Seqs = 1..Len(Packets)
      /\ v.highest = H /\ v.lastDiscarded = A
  BY <1>1, Constants DEF Whole, Infos
<1>4. \A n \in (A + 1)..H : n \in Seqs /\ (n \in S <=> n \in rg.holes \/ IsSafe(n))
  <2>1. ASSUME NEW n \in (A + 1)..H PROVE n \in Seqs /\ Has(v, n)
    <3>1. n \in Seqs /\ A < n /\ n <= H
      BY <1>3
    <3> QED
      BY <1>1, <3>1 DEF Whole, Has
  <2> QED
    BY <1>2, <2>1 DEF Whole
<1>5. b = IF S = {} THEN H ELSE Min(S) - 1
  BY <1>2, <1>3 DEF LastBefore
<1>6. CASE S = {}
  <2>1. \A n \in Seqs : A < n /\ n <= H => n \in (A + 1)..H
    BY <1>3
  <2> QED
    BY <1>1, <1>3, <1>4, <1>5, <1>6, <2>1
<1>7. CASE S # {}
  <2>1. S \in SUBSET Nat /\ S \subseteq (A + 1)..H
    BY <1>2, <1>3
  <2>2. PICK l : l = Min(S)
    OBVIOUS
  <2>3. l \in S /\ \A y \in S : l <= y
    BY <1>7, <2>1, <2>2, MinOf
  <2>4. l \in Nat /\ A < l /\ l <= H /\ b = l - 1 /\ l \in (A + 1)..H
    BY <1>3, <1>5, <1>7, <2>1, <2>2, <2>3
  <2>5. ASSUME NEW n \in Seqs, A < n, n <= b PROVE n \notin rg.holes /\ ~IsSafe(n)
    <3>1. n \in (A + 1)..H /\ n < l /\ n \in Nat
      BY <1>3, <2>4, <2>5
    <3>2. n \notin S
      BY <2>3, <2>4, <3>1
    <3> QED
      BY <1>4, <3>1, <3>2
  <2>6. ASSUME NEW n \in Seqs, n = b + 1 PROVE n \in rg.holes \/ IsSafe(n)
    <3>1. n = l
      BY <2>4, <2>6
    <3> QED
      BY <1>4, <2>3, <2>4, <3>1
  <2> QED
    BY <1>1, <1>3, <2>4, <2>5, <2>6
<1> QED
  BY <1>6, <1>7

\* Up to the signal.
UpToSignal(v) ==
  [Settle(v, (v.lastDiscarded + 1)..LastBefore(v)) EXCEPT !.lastDiscarded = LastBefore(v)]

BeforeTheSignal(q, v, b, rg) ==
  /\ Typed(q) /\ SameBut(q, v, {"lastDiscarded", "handed", "exist"}) /\ Ordered(q.handed)
  /\ q.lastDiscarded = b
  /\ \A n \in Seqs : n \in HandedIn(q) <=> n \in HandedIn(v) \/ n <= b
  /\ \A n \in Seqs : q.exist[n] = IF n <= b THEN 0 ELSE v.exist[n]

LEMMA UpToSignalIs ==
  ASSUME NEW v, NEW rg, Whole(v, rg), NEW b, b = LastBefore(v)
  PROVE  BeforeTheSignal(UpToSignal(v), v, b, rg)
<1>1. PICK A, H : A = rg.aru /\ H = rg.highest
  OBVIOUS
<1>14. PICK S : S = (A + 1)..b
  OBVIOUS
<1>15. PICK w, q : w = Settle(v, S) /\ q = UpToSignal(v)
  OBVIOUS
<1>2. /\ b \in Nat /\ A <= b /\ b <= H
      /\ \A n \in Seqs : A < n /\ n <= b => n \notin rg.holes
  BY <1>1, LastBeforeIs
<1>3. /\ A \in Nat /\ H \in Nat /\ H <= Len(Packets) /\ Len(Packets) \in Nat
      /\ Seqs = 1..Len(Packets) /\ \A n \in Seqs : n \in Nat
      /\ v.lastDiscarded = A /\ Typed(v) /\ Ordered(v.handed)
  BY <1>1, Constants DEF Whole, Infos
<1>4. /\ \A n \in Seqs : v.exist[n] # 0 <=> A < n /\ n <= H
      /\ \A n \in Seqs : v.exist[n] = 3 <=> n \in rg.holes
      /\ \A n \in Seqs : n \in HandedIn(v) <=> n <= A \/ v.exist[n] = 2
      /\ \A n \in HandedIn(v) : ~Reliable(n) => \A u \in 1..n : u \in HandedIn(v)
      /\ \A n \in Seqs : v.exist[n] \in 0..3
      /\ HandedIn(v) \subseteq Seqs
  BY <1>1, <1>3, TypedNumbers, HandedSeqs DEF Whole
<1>5. S \in SUBSET Seqs /\ \A n \in Seqs : n \in S <=> A < n /\ n <= b
  BY <1>2, <1>3, <1>14
<1>6. \A n \in HandedIn(v), x \in S : v.exist[x] = 1 => n # x /\ (Reliable(n) \/ n < x)
  <2>1. ASSUME NEW n \in HandedIn(v), NEW x \in S, v.exist[x] = 1
        PROVE  n # x /\ (Reliable(n) \/ n < x)
    <3>1. n \in Nat /\ x \in Nat /\ x \in Seqs /\ A < x /\ x \in 1..Len(Packets)
      BY <1>3, <1>4, <1>5
    <3>2. x \notin HandedIn(v)
      BY <1>3, <1>4, <2>1, <3>1
    <3>3. ~Reliable(n) => ~(x \in 1..n)
      BY <1>4, <3>2
    <3> QED
      BY <3>1, <3>2, <3>3
  <2> QED
    BY <2>1
<1>7. /\ Typed(w) /\ SameBut(w, v, {"handed", "exist"}) /\ Ordered(w.handed)
      /\ \A n \in Seqs : w.exist[n] = IF n \in S THEN 0 ELSE v.exist[n]
      /\ HandedIn(w) = HandedIn(v) \cup {n \in S : v.exist[n] = 1}
  <2>1. /\ Typed(v) /\ Ordered(v.handed) /\ S \in SUBSET Seqs
        /\ \A n \in HandedIn(v), x \in S : v.exist[x] = 1 => n # x /\ (Reliable(n) \/ n < x)
    BY <1>3, <1>5, <1>6
  <2> QED
    BY <1>15, <2>1, SettleIs
<1>8. q = [w EXCEPT !.lastDiscarded = b]
  BY <1>3, <1>14, <1>15 DEF UpToSignal
<1>9. /\ DOMAIN q = Globals /\ SameBut(q, w, {"lastDiscarded"}) /\ q.lastDiscarded = b
  BY <1>7, <1>8 DEF Typed, Globals, SameBut
<1>10. Typed(q)
  BY <1>2, <1>7, <1>9 DEF Typed, SameBut, Globals
<1>11. /\ SameBut(q, v, {"lastDiscarded", "handed", "exist"})
       /\ q.handed = w.handed /\ q.exist = w.exist
  BY <1>7, <1>9 DEF SameBut, Globals
<1>12. ASSUME NEW n \in Seqs PROVE n \in HandedIn(q) <=> n \in HandedIn(v) \/ n <= b
  <2>1. n \in HandedIn(q) <=> n \in HandedIn(v) \/ (n \in S /\ v.exist[n] = 1)
    BY <1>7, <1>11 DEF HandedIn
  <2>2. n \in S => v.exist[n] \in {1, 2}
    BY <1>2, <1>3, <1>4, <1>5
  <2> QED
    BY <1>2, <1>3, <1>4, <1>5, <2>1, <2>2
<1>13. ASSUME NEW n \in Seqs PROVE q.exist[n] = IF n <= b THEN 0 ELSE v.exist[n]
  BY <1>2, <1>3, <1>4, <1>5, <1>7, <1>11
<1> QED
  BY <1>7, <1>9, <1>10, <1>11, <1>12, <1>13, <1>15 DEF BeforeTheSignal

\* What follows the signal.
LEMMA AfterSignalIs ==
  ASSUME NEW v, NEW rg, Whole(v, rg), NEW b, b = LastBefore(v),
         NEW q, BeforeTheSignal(q, v, b, rg)
  PROVE  /\ AfterSignal(q) \in SUBSET Seqs
         /\ \A n \in Seqs : n \in AfterSignal(q) <=> b < n /\ Settled(rg, n)
<1>1. PICK A, H : A = rg.aru /\ H = rg.highest
  OBVIOUS
<1>2. /\ b \in Nat /\ A <= b /\ b <= H
      /\ \A n \in Seqs : A < n /\ n <= b => n \notin rg.holes
  BY <1>1, LastBeforeIs
<1>3. /\ A \in Nat /\ H \in Nat /\ H <= Len(Packets) /\ Len(Packets) \in Nat
      /\ Seqs = 1..Len(Packets) /\ \A n \in Seqs : n \in Nat /\ \A u \in 1..n : u \in Seqs
      /\ \A n \in Seqs : v.exist[n] # 0 <=> A < n /\ n <= H
      /\ \A n \in Seqs : v.exist[n] = 3 <=> n \in rg.holes
  BY <1>1, Constants DEF Whole, Infos
<1>4. /\ q.lastDiscarded = b /\ \A n \in Seqs : q.exist[n] = IF n <= b THEN 0 ELSE v.exist[n]
      /\ q.highest = H /\ q.commit.all = rg.commit
  BY <1>1 DEF BeforeTheSignal, SameBut, Globals, Whole
<1>5. AfterSignal(q) = {n \in (b + 1)..H : Has(q, n) /\ MayFollow(q, n)}
  BY <1>4 DEF AfterSignal
<1>6. \A n \in Seqs : n \in (b + 1)..H <=> b < n /\ n <= H
  BY <1>2, <1>3
<1>7. ASSUME NEW n \in Seqs, b < n, n <= H
      PROVE  /\ Has(q, n)
             /\ MayFollow(q, n) <=> Settled(rg, n)
  <2>1. n \in Nat /\ ~(n <= b) /\ A < n
    BY <1>2, <1>3, <1>7
  <2>2. Has(q, n) /\ (q.exist[n] # 3 <=> n \notin rg.holes)
    BY <1>3, <1>4, <1>7, <2>1 DEF Has
  <2>3. (\A h \in (b + 1)..n : q.exist[h] # 3) <=> \A u \in 1..n : u \notin rg.holes
    <3>1. ASSUME \A h \in (b + 1)..n : q.exist[h] # 3, NEW u \in 1..n PROVE u \notin rg.holes
      <4>1. u \in Seqs /\ u \in Nat
        BY <1>3
      <4>2. CASE u <= b
        BY <1>2, <1>3, <4>1, <4>2
      <4>3. CASE ~(u <= b)
        <5>1. u \in (b + 1)..n
          BY <1>2, <2>1, <4>1, <4>3
        <5> QED
          BY <1>3, <1>4, <3>1, <4>1, <4>3, <5>1
      <4> QED
        BY <4>2, <4>3
    <3>2. ASSUME \A u \in 1..n : u \notin rg.holes, NEW h \in (b + 1)..n PROVE q.exist[h] # 3
      <4>1. h \in 1..n /\ h \in Seqs /\ ~(h <= b)
        BY <1>2, <1>3, <2>1
      <4> QED
        BY <1>3, <1>4, <3>2, <4>1
    <3> QED
      BY <3>1, <3>2
  <2> QED
    BY <1>1, <1>4, <1>7, <2>2, <2>3 DEF MayFollow, Settled
<1>8. \A n \in Seqs : Settled(rg, n) => n <= H
  BY <1>1 DEF Settled
<1>9. (b + 1)..H \subseteq Seqs
  BY <1>2, <1>3
<1> QED
  BY <1>5, <1>6, <1>7, <1>8, <1>9

HasSettled(w, v, b, rg) ==
  /\ Typed(w) /\ w.ring = v.ring /\ w.exits = {} /\ Ordered(w.handed)
  /\ \A n \in Seqs : n \in HandedIn(w) <=>
       n \in HandedIn(v) \/ n <= b \/ (b < n /\ Settled(rg, n))
  /\ Len(UpToSignal(v).handed) \in 0..Len(w.handed)
  /\ \A n \in Seqs : n \in ToSet(SubSeq(w.handed, 1, Len(UpToSignal(v).handed))) <=>
       n \in HandedIn(v) \/ n <= b

LEMMA HandsOver ==
  ASSUME NEW v, NEW rg, Whole(v, rg), NEW b, b = LastBefore(v)
  PROVE  HasSettled(Settle(UpToSignal(v), AfterSignal(UpToSignal(v))), v, b, rg)
<1>1. PICK A, H, q : A = rg.aru /\ H = rg.highest /\ q = UpToSignal(v)
  OBVIOUS
<1>2. PICK S : S = AfterSignal(q)
  OBVIOUS
<1>3. PICK w : w = Settle(q, S)
  OBVIOUS
<1>4. BeforeTheSignal(q, v, b, rg)
  BY <1>1, UpToSignalIs
<1>5. S \in SUBSET Seqs /\ \A n \in Seqs : n \in S <=> b < n /\ Settled(rg, n)
  BY <1>2, <1>4, AfterSignalIs
<1>6. /\ b \in Nat /\ A <= b /\ b <= H /\ A \in Nat /\ H \in Nat
      /\ Len(Packets) \in Nat /\ Seqs = 1..Len(Packets) /\ \A n \in Seqs : n \in Nat
  BY <1>1, LastBeforeIs, Constants DEF Whole, Infos
<1>7. /\ Typed(q) /\ SameBut(q, v, {"lastDiscarded", "handed", "exist"}) /\ Ordered(q.handed)
      /\ \A n \in Seqs : n \in HandedIn(q) <=> n \in HandedIn(v) \/ n <= b
      /\ \A n \in Seqs : q.exist[n] = IF n <= b THEN 0 ELSE v.exist[n]
  BY <1>4 DEF BeforeTheSignal
<1>8. /\ \A n \in Seqs : v.exist[n] # 0 <=> A < n /\ n <= H
      /\ \A n \in Seqs : v.exist[n] = 3 <=> n \in rg.holes
      /\ \A n \in Seqs : n \in HandedIn(v) <=> n <= A \/ v.exist[n] = 2
      /\ \A n \in HandedIn(v) : ~Reliable(n) => \A u \in 1..n : u \in HandedIn(v)
      /\ \A n \in Seqs : v.exist[n] \in 0..3
      /\ HandedIn(v) \subseteq Seqs /\ HandedIn(q) \subseteq Seqs
      /\ v.exits = {}
  BY <1>1, <1>7, TypedNumbers, HandedSeqs DEF Whole
<1>9. \A n \in HandedIn(q), x \in S : q.exist[x] = 1 => n # x /\ (Reliable(n) \/ n < x)
  <2>1. ASSUME NEW n \in HandedIn(q), NEW x \in S, q.exist[x] = 1
        PROVE  n # x /\ (Reliable(n) \/ n < x)
    <3>1. n \in Seqs /\ n \in Nat /\ x \in Nat /\ x \in Seqs /\ b < x /\ v.exist[x] = 1
          /\ x \in 1..Len(Packets)
      BY <1>5, <1>6, <1>7, <1>8, <2>1
    <3>2. x \notin HandedIn(v) /\ ~(x <= b)
      BY <1>6, <1>8, <3>1
    <3>3. n \in HandedIn(v) /\ ~Reliable(n) => ~(x \in 1..n)
      BY <1>8, <3>2
    <3>4. n \in HandedIn(v) \/ n <= b
      BY <1>7, <2>1, <3>1
    <3> QED
      BY <1>6, <3>1, <3>2, <3>3, <3>4
  <2> QED
    BY <2>1
<1>10. /\ Typed(w) /\ SameBut(w, q, {"handed", "exist"}) /\ Ordered(w.handed)
       /\ HandedIn(w) = HandedIn(q) \cup {n \in S : q.exist[n] = 1}
       /\ Len(w.handed) >= Len(q.handed)
       /\ \A i \in 1..Len(q.handed) : w.handed[i] = q.handed[i]
  BY <1>3, <1>5, <1>7, <1>9, SettleIs
<1>11. w.ring = v.ring /\ w.exits = {}
  BY <1>7, <1>8, <1>10 DEF SameBut, Globals
<1>12. ASSUME NEW n \in Seqs
       PROVE  n \in HandedIn(w) <=> n \in HandedIn(v) \/ n <= b \/ (b < n /\ Settled(rg, n))
  <2>1. ASSUME n \in S PROVE q.exist[n] = 1 \/ n \in HandedIn(v)
    <3>1. b < n /\ n <= H /\ n \notin rg.holes
      BY <1>1, <1>5, <2>1 DEF Settled
    <3>2. q.exist[n] = v.exist[n] /\ v.exist[n] \in {1, 2}
      BY <1>6, <1>7, <1>8, <3>1
    <3> QED
      BY <1>8, <3>2
  <2> QED
    BY <1>5, <1>7, <1>10, <1>12, <2>1
<1>13. PICK x, y, m : x = w.handed /\ y = q.handed /\ m = Len(q.handed)
  OBVIOUS
<1>14. /\ x \in Seq(Seqs) /\ y \in Seq(Seqs) /\ m \in Nat /\ m <= Len(x) /\ Len(x) \in Nat
       /\ m = Len(y) /\ \A i \in 1..m : x[i] = y[i]
  BY <1>7, <1>10, <1>13, TypedNumbers
<1>15. ToSet(SubSeq(x, 1, m)) = ToSet(y)
  <2>1. PICK z : z = SubSeq(x, 1, m)
    OBVIOUS
  <2>2. z \in Seq(Seqs) /\ Len(z) = m /\ \A i \in 1..m : z[i] = y[i]
    BY <1>14, <2>1
  <2>3. ToSet(z) = {z[i] : i \in 1..m} /\ ToSet(y) = {y[i] : i \in 1..m}
    BY <1>14, <2>2 DEF ToSet
  <2> QED
    BY <2>1, <2>2, <2>3
<1>16. ASSUME NEW n \in Seqs PROVE n \in ToSet(SubSeq(x, 1, m)) <=> n \in HandedIn(v) \/ n <= b
  BY <1>7, <1>13, <1>15, <1>16 DEF HandedIn
<1>17. m \in 0..Len(x)
  BY <1>14
<1> QED
  BY <1>1, <1>2, <1>3, <1>10, <1>11, <1>12, <1>13, <1>16, <1>17 DEF HasSettled

HasInstalled(q, v, b, rg) ==
  /\ Typed(q) /\ q.mode = "op" /\ q.ring = v.ring /\ q.exits = {} /\ q.trans = rg.trans
  /\ Ordered(q.handed)
  /\ \A n \in Seqs : n \in FirstIn(q) <=> n \in HandedIn(v) \/ n <= b
  /\ \A n \in Seqs : n \in HandedIn(q) <=>
       n \in HandedIn(v) \/ n <= b \/ (b < n /\ Settled(rg, n))

LEMMA InstallIs ==
  ASSUME NEW v, NEW rg, Whole(v, rg), NEW d, d \in Daemons
  PROVE  HasInstalled(Install(d, v), v, LastBefore(v), rg)
<1>1. PICK u, q, b, sig : /\ u = UpToSignal(v) /\ q = Install(d, v) /\ b = LastBefore(v)
                          /\ sig = Len(UpToSignal(v).handed)
  OBVIOUS
<1>2. PICK w : w = Settle(u, AfterSignal(u))
  OBVIOUS
<1>3. HasSettled(w, v, b, rg)
  BY <1>1, <1>2, HandsOver
<1>4. /\ Typed(w) /\ w.ring = v.ring /\ w.exits = {} /\ Ordered(w.handed)
      /\ \A n \in Seqs : n \in HandedIn(w) <=>
           n \in HandedIn(v) \/ n <= b \/ (b < n /\ Settled(rg, n))
      /\ sig \in 0..Len(w.handed)
      /\ \A n \in Seqs : n \in ToSet(SubSeq(w.handed, 1, sig)) <=> n \in HandedIn(v) \/ n <= b
  BY <1>1, <1>3 DEF HasSettled
<1>5. PICK c, f, x : /\ c = [trans |-> {d}, all |-> {d}] /\ f = [trans |-> {}, all |-> {}]
                     /\ x = [n \in Seqs |-> 0]
  OBVIOUS
<1>6. c \in Commits /\ f \in Commits /\ x \in [Seqs -> 0..3]
  BY <1>5 DEF Commits
<1>7. /\ \A n \in Seqs : v.exist[n] # 0 <=> rg.aru < n /\ n <= rg.highest
      /\ v.highest = rg.highest /\ v.lastDiscarded = rg.aru /\ rg.highest <= Len(Packets)
      /\ rg.highest \in Nat /\ rg.aru \in Nat
      /\ v.commit.trans = rg.trans /\ rg.trans \in SUBSET Daemons
  BY DEF Whole, Infos
<1>8. {n \in Seqs : n > v.highest /\ Has(v, n)} = {}
      /\ Holes(v, v.lastDiscarded + 1, v.highest) = {}
  <2>1. ASSUME NEW n \in Seqs, n > v.highest, Has(v, n) PROVE FALSE
    BY <1>7, <2>1, Constants DEF Has
  <2>2. ASSUME NEW n \in (v.lastDiscarded + 1)..v.highest PROVE Has(v, n)
    <3>1. n \in Seqs /\ rg.aru < n /\ n <= rg.highest
      BY <1>7, Constants
    <3> QED
      BY <1>7, <3>1 DEF Has
  <2> QED
    BY <2>1, <2>2 DEF Holes
<1>9. q = [w EXCEPT !.mode = "op", !.signal = sig, !.trans = v.commit.trans,
                    !.commit = c, !.fcommit = f, !.exist = x, !.highest = 0, !.myAru = 0,
                    !.aru = 0, !.lastDiscarded = 0, !.lastSeq = 0]
  <2>1. Install(d, v) =
          Alarm([w EXCEPT !.mode = "op", !.signal = sig, !.trans = v.commit.trans,
                    !.commit = c, !.fcommit = f, !.exist = x, !.highest = 0, !.myAru = 0,
                    !.aru = 0, !.lastDiscarded = 0, !.lastSeq = 0],
                "Discard_packets",
                {n \in Seqs : n > v.highest /\ Has(v, n)} # {}
                  \/ Holes(v, v.lastDiscarded + 1, v.highest) # {})
    BY <1>1, <1>2, <1>5 DEF Install, UpToSignal
  <2> QED
    BY <1>1, <1>8, <2>1 DEF Alarm
<1>10. /\ DOMAIN q = Globals /\ q.mode = "op" /\ q.signal = sig /\ q.trans = rg.trans
       /\ q.commit = c /\ q.fcommit = f /\ q.exist = x /\ q.highest = 0 /\ q.myAru = 0
       /\ q.aru = 0 /\ q.lastDiscarded = 0 /\ q.lastSeq = 0
       /\ SameBut(q, w, {"mode", "signal", "trans", "commit", "fcommit", "exist", "highest",
                         "myAru", "aru", "lastDiscarded", "lastSeq"})
  <2>1. DOMAIN w = Globals /\ v.commit.trans = rg.trans
    BY <1>4, <1>7 DEF Typed
  <2>2. /\ DOMAIN q = Globals /\ q.mode = "op" /\ q.signal = sig /\ q.trans = rg.trans
        /\ q.commit = c /\ q.fcommit = f /\ q.exist = x
    BY <1>9, <2>1 DEF Globals
  <2>3. /\ q.highest = 0 /\ q.myAru = 0
        /\ q.aru = 0 /\ q.lastDiscarded = 0 /\ q.lastSeq = 0
    BY <1>9, <2>1 DEF Globals
  <2>4. SameBut(q, w, {"mode", "signal", "trans", "commit", "fcommit", "exist", "highest",
                       "myAru", "aru", "lastDiscarded", "lastSeq"})
    BY <1>9, <2>1 DEF Globals, SameBut
  <2> QED
    BY <2>2, <2>3, <2>4
<1>11. /\ q.ring = w.ring /\ q.handed = w.handed /\ q.exits = w.exits
       /\ q.lastTokenAru = w.lastTokenAru
  BY <1>10 DEF SameBut, Globals
<1>12. Typed(q)
  BY <1>4, <1>6, <1>7, <1>10, <1>11 DEF Typed
<1>13. HandedIn(q) = HandedIn(w) /\ FirstIn(q) = ToSet(SubSeq(w.handed, 1, sig))
  BY <1>10, <1>11 DEF HandedIn, FirstIn
<1> QED
  BY <1>1, <1>4, <1>10, <1>11, <1>12, <1>13 DEF HasInstalled

\* So it hands over all that it has promised, and no more.
LEMMA InstallsResult ==
  ASSUME NEW v, NEW rg, Whole(v, rg), v.mode # "op", NEW q, HasInstalled(q, v, LastBefore(v), rg)
  PROVE  /\ Result(q, rg)
         /\ \A n \in Seqs : Settled(rg, n) => n \in HandedIn(q)
         /\ \A n \in Seqs : \A k : Firm(v, k, n) => n \in HandedIn(q)
<1>1. PICK b, A, H : b = LastBefore(v) /\ A = rg.aru /\ H = rg.highest
  OBVIOUS
<1>2. /\ b \in Nat /\ A <= b /\ b <= H
      /\ \A n \in Seqs : A < n /\ n <= b => n \notin rg.holes /\ ~IsSafe(n)
      /\ \A n \in Seqs : n = b + 1 /\ n <= H => n \in rg.holes \/ IsSafe(n)
  BY <1>1, LastBeforeIs
<1>3. /\ \A n \in Seqs : n \in FirstIn(q) <=> n \in HandedIn(v) \/ n <= b
      /\ \A n \in Seqs : n \in HandedIn(q) <=>
           n \in HandedIn(v) \/ n <= b \/ (b < n /\ Settled(rg, n))
  BY <1>1 DEF HasInstalled
<1>4. /\ \A n \in Seqs : v.exist[n] # 0 <=> A < n /\ n <= H
      /\ \A n \in Seqs : v.exist[n] = 3 <=> n \in rg.holes
      /\ \A n \in Seqs : n \in HandedIn(v) <=> n <= A \/ v.exist[n] = 2
      /\ \A n \in HandedIn(v) : ~Reliable(n) =>
           \A u \in 1..n : u \in HandedIn(v) /\ (u <= A \/ ~IsSafe(u))
      /\ A \in Nat /\ H \in Nat /\ A <= H /\ v.lastDiscarded = A /\ v.commit.all = rg.commit
  BY <1>1 DEF Whole, Infos
<1>5. /\ Len(Packets) \in Nat /\ Seqs = 1..Len(Packets)
      /\ \A n \in Seqs : n \in Nat /\ n # 0 /\ \A u \in 1..n : u \in Seqs /\ u \in Nat /\ u <= n
  BY Constants
<1>6. \A u \in Seqs : u \in HandedIn(v) \/ u <= b => u \notin rg.holes /\ u <= H
  BY <1>2, <1>4, <1>5
<1>7. \A n \in Seqs : n <= b => Settled(rg, n)
  <2>1. ASSUME NEW n \in Seqs, n <= b PROVE Settled(rg, n)
    <3>1. \A u \in 1..n : u \in Seqs /\ u <= b
      BY <1>2, <1>5, <2>1
    <3> QED
      BY <1>1, <1>6, <2>1, <3>1 DEF Settled
  <2> QED
    BY <2>1
<1>8. \A n \in Seqs : Settled(rg, n) => n \in HandedIn(q)
  BY <1>2, <1>3, <1>5
<1>9. ASSUME NEW n \in Seqs, ~Reliable(n), n \in HandedIn(q) PROVE Settled(rg, n)
  <2>1. CASE n \in HandedIn(v)
    <3>1. \A u \in 1..n : u \in HandedIn(v) /\ u \in Seqs
      BY <1>4, <1>5, <1>9, <2>1
    <3> QED
      BY <1>1, <1>6, <2>1, <3>1 DEF Settled
  <2> QED
    BY <1>3, <1>7, <1>9, <2>1
<1>10. ASSUME NEW n \in Seqs, ~Reliable(n), n \in FirstIn(q) PROVE First(rg, n)
  <2>1. CASE n \in HandedIn(v)
    <3>1. \A u \in 1..n : u \in HandedIn(v) /\ u \in Seqs /\ (u <= A \/ ~IsSafe(u))
      BY <1>4, <1>5, <1>10, <2>1
    <3> QED
      BY <1>1, <1>6, <2>1, <3>1 DEF First
  <2>2. CASE n <= b
    <3>1. \A u \in 1..n : u \in Seqs /\ (u <= A \/ (A < u /\ u <= b))
      BY <1>2, <1>4, <1>5, <2>2
    <3>2. n <= H
      BY <1>2, <1>4, <1>5, <2>2
    <3> QED
      BY <1>1, <1>2, <3>1, <3>2 DEF First
  <2> QED
    BY <1>3, <1>10, <2>1, <2>2
<1>11. ASSUME NEW n \in Seqs, First(rg, n) PROVE n \in FirstIn(q)
  <2>1. n <= b
    <3>1. SUFFICES ASSUME ~(n <= b) PROVE FALSE
      OBVIOUS
    <3>2. b + 1 \in 1..n /\ b + 1 \in Seqs /\ b + 1 <= H /\ ~(b + 1 <= A)
      BY <1>1, <1>2, <1>4, <1>5, <1>11, <3>1 DEF First
    <3>3. b + 1 \in rg.holes \/ IsSafe(b + 1)
      BY <1>2, <3>2
    <3> QED
      BY <1>1, <1>11, <3>2, <3>3 DEF First
  <2> QED
    BY <1>3, <2>1
<1>12. ASSUME NEW n \in Seqs, NEW k, Firm(v, k, n) PROVE n \in HandedIn(q)
  <2>1. \A u \in Seqs : Kept(v, k, u) => u \notin rg.holes /\ u <= H
    BY <1>4, <1>5 DEF Kept, KeepsIn
  <2>2. Settled(rg, n)
    BY <1>1, <1>4, <1>5, <1>12, <2>1 DEF Firm, Settled
  <2> QED
    BY <1>8, <2>2
<1> QED
  BY <1>8, <1>9, <1>10, <1>11, <1>12 DEF Result

-----------------------------------------------------------------------------
(* The regular token comes to d, with r, as t.                             *)

TurnFacts(g, s, k, a, d, r, t) ==
  /\ r = s[d] /\ t = k[a] /\ d \in Daemons /\ g \in [Daemons -> SUBSET Seqs]
  /\ Typed(r) /\ r.exits = {} /\ Ordered(r.handed) /\ r.mode = "evs" /\ r.ring = a
  /\ Waits(g, r, k, d) /\ Buffer(g, r)
  /\ TokenTyped(t) /\ t.kind = "regular" /\ t.rest = {d} /\ t.rg \in Infos
  /\ t.members \in SUBSET Daemons /\ t.aru \in Nat /\ t.aruLast \in t.members \cup {None}
  /\ Info(g, t) /\ Given(t) = t.members /\ d \in t.members
  /\ Reads(r, t.rg) /\ r.highest = t.rg.highest
  /\ Arus(s, t, a, d) /\ AllReady(s, k, t, a, d) /\ ArusOfToken(s, t, a, d, t.rg.highest)
  /\ \A e \in Daemons : ~InForm(s, a, e)
  /\ \A e \in Daemons : InEvs(s, a, e) =>
       e \in t.members /\ Reads(s[e], t.rg) /\ s[e].highest = t.rg.highest

LEMMA TurnKnows ==
  ASSUME NumbersFit, NEW g, NEW s, NEW k, NEW d, d \in Daemons, Inv(g, s, k),
         NEW a, a \in DOMAIN k, k[a].kind = "regular", k[a].rest = {d}, InEvs(s, a, d)
  PROVE  TurnFacts(g, s, k, a, d, s[d], k[a])
<1>1. PICK r, t : r = s[d] /\ t = k[a]
  OBVIOUS
<1>2. /\ Typed(r) /\ r.exits = {} /\ Ordered(r.handed) /\ r.mode = "evs" /\ r.ring = a
      /\ Waits(g, r, k, d) /\ Buffer(g, r) /\ g \in [Daemons -> SUBSET Seqs]
  BY <1>1 DEF Inv, DaemonInv, InEvs, Waits
<1>3. /\ TokenTyped(t) /\ t.kind = "regular" /\ t.rest = {d} /\ RegularInv(g, s, k, t, a)
      /\ \A e \in Daemons : InEvs(s, a, e) => s[e].highest = t.rg.highest
  BY <1>1 DEF Inv, TokenInv
<1>4. /\ t.rg \in Infos /\ t.members \in SUBSET Daemons /\ t.aru \in Nat
      /\ t.aruLast \in t.members \cup {None}
  BY <1>3 DEF TokenTyped
<1>5. /\ Info(g, t) /\ Given(t) = t.members /\ \A e \in Daemons : ~InForm(s, a, e)
      /\ \A e \in Daemons : InEvs(s, a, e) => e \in t.members /\ Reads(s[e], t.rg)
      /\ Arus(s, t, a, d) /\ AllReady(s, k, t, a, d)
  BY <1>3 DEF RegularInv, Given
<1>6. PICK H : H = t.rg.highest
  OBVIOUS
<1>7. H \in Nat /\ H + Far < Int32Max
  <2>1. H \in Nat /\ H <= Len(Packets) /\ Len(Packets) + Far < Int32Max
    BY <1>4, <1>5, <1>6 DEF Info, Infos, NumbersFit
  <2> QED
    BY <2>1, Constants DEF Far, Int32Max
<1>8. \A e \in Daemons : InEvs(s, a, e) =>
        /\ e \in t.members /\ s[e].lastTokenAru \in Nat /\ s[e].aru \in Nat
        /\ s[e].myAru \in Nat /\ (s[e].myAru <= H \/ s[e].myAru = H + Far)
  <2>1. ASSUME NEW e \in Daemons, InEvs(s, a, e)
        PROVE  /\ e \in t.members /\ s[e].lastTokenAru \in Nat /\ s[e].aru \in Nat
               /\ s[e].myAru \in Nat /\ (s[e].myAru <= H \/ s[e].myAru = H + Far)
    <3>1. Typed(s[e])
      BY DEF Inv, DaemonInv
    <3>2. s[e].myAru <= s[e].highest \/ s[e].myAru = s[e].lastSeq
      BY <1>5, <2>1 DEF Reads
    <3>3. s[e].highest = H /\ s[e].lastSeq = H + Far
      BY <1>3, <1>5, <1>6, <2>1 DEF Reads
    <3> QED
      BY <1>5, <2>1, <3>1, <3>2, <3>3 DEF Typed
  <2> QED
    BY <2>1
<1>9. ArusOfToken(s, t, a, d, H) /\ d \in t.members /\ Reads(r, t.rg) /\ r.highest = H
  BY <1>1, <1>3, <1>4, <1>5, <1>6, <1>7, <1>8 DEF ArusOfToken
<1> QED
  BY <1>1, <1>2, <1>3, <1>4, <1>5, <1>6, <1>9 DEF TurnFacts

\* The aru that d sends on.
AruSent(w, t, d) == IF TakesAru(d, w, t) THEN w.myAru ELSE t.aru

\* The token that d sends on, when wants is what it asks for.
SentOn(w, t, d, wants, to) ==
  [t EXCEPT !.rest = {Succ(t, d)}, !.aru = AruSent(w, t, d),
            !.aruLast = IF TakesAru(d, w, t) THEN d ELSE @, !.rtr = wants, !.rtrTo = to]

LEMMA Turns ==
  ASSUME NEW g, NEW s, NEW k, NEW a, NEW d, NEW r, NEW t, TurnFacts(g, s, k, a, d, r, t),
         NEW w, w = TurnedUp(r, t), NEW aru, aru = AruSent(w, t, d)
  PROVE  /\ Turned(TurnedOn(w, r, aru), r, aru) /\ aru \in Nat /\ w.myAru \in Nat
         /\ TurnedOn(w, r, aru).myAru = w.myAru
         /\ \A n \in AskedBy(r, t) : n \in Seqs /\ w.myAru < n
<1>1. /\ Typed(r) /\ r.exits = {} /\ r.mode = "evs" /\ Buffer(g, r) /\ t.rg \in Infos
      /\ Reads(r, t.rg) /\ r.highest = t.rg.highest /\ t.aru \in Nat
      /\ d \in Daemons /\ Arus(s, t, a, d) /\ InEvs(s, a, d) /\ r = s[d] /\ TokenTyped(t)
      /\ t.kind = "regular"
  BY DEF TurnFacts, InEvs
<1>2. /\ r.lastTokenAru <= r.myAru /\ r.aru <= t.aru /\ r.aru <= r.lastTokenAru
  BY <1>1 DEF Arus
<1>3. \A n \in t.rtr : t.aru < n /\ n \in Seqs
  <2>1. t.rtr \in SUBSET Seqs
    BY <1>1 DEF TokenTyped
  <2> QED
    BY <1>1, <2>1 DEF Arus
<1>4. r.aru \in Nat /\ r.lastTokenAru \in Nat /\ r.myAru \in Nat
  BY <1>1 DEF Typed
<1>5. ~ \E n \in t.rtr : n < r.aru
  <2>1. ASSUME NEW n \in t.rtr, n < r.aru PROVE FALSE
    <3>1. n \in Nat /\ t.aru < n
      BY <1>3, <2>1, Constants
    <3> QED
      BY <1>1, <1>2, <1>4, <2>1, <3>1
  <2> QED
    BY <2>1
<1>6. Alarm(r, "Answer_retrans", \E n \in t.rtr : n < r.aru) = r
  BY <1>5 DEF Alarm
<1>7. w = Committed(RaiseMyAru(r)) /\ AskedBy(r, t) = Wants(RaiseMyAru(r))
  BY <1>6 DEF TurnedUp, AskedBy
<1>8. Up(w, r) /\ \A n \in AskedBy(r, t) : n \in Seqs /\ w.myAru < n
  BY <1>1, <1>7, CommittedIs
<1>9. w.myAru \in Nat /\ r.myAru <= w.myAru
  BY <1>8 DEF Up, Typed
<1>10. aru \in Nat /\ r.aru <= aru
  BY <1>1, <1>2, <1>4, <1>9 DEF AruSent
<1>11. Turned(TurnedOn(w, r, aru), r, aru)
  BY <1>1, <1>2, <1>8, <1>10, TurnedOnIs
<1>12. TurnedOn(w, r, aru).myAru = w.myAru
  <2>1. PICK new : new = AruOf(aru, r.lastTokenAru)
    OBVIOUS
  <2>2. ~(new < w.aru)
    BY <1>2, <1>4, <1>8, <1>10, <2>1 DEF AruOf, Up, SameBut, Globals
  <2>3. TurnedOn(w, r, aru) = [w EXCEPT !.aru = new, !.lastTokenAru = aru]
    BY <2>1, <2>2 DEF TurnedOn, Alarm
  <2> QED
    BY <1>8, <2>3 DEF Up, Typed, Globals
<1> QED
  BY <1>8, <1>9, <1>10, <1>11, <1>12

LEMMA SentOnIs ==
  ASSUME NEW g, NEW s, NEW k, NEW a, NEW d, NEW r, NEW t, TurnFacts(g, s, k, a, d, r, t),
         NEW w, w = TurnedUp(r, t), NEW v, v.myAru = w.myAru, w.myAru \in Nat,
         NEW wants, \A n \in wants : n \in Seqs /\ w.myAru < n, NEW to
  PROVE  /\ TokenTyped(SentOn(w, t, d, wants, to))
         /\ Onward(SentOn(w, t, d, wants, to), t, d, v, AruSent(w, t, d))
<1>1. /\ TokenTyped(t) /\ t.kind = "regular" /\ d \in t.members /\ t.members \in SUBSET Daemons
      /\ t.aru \in Nat /\ t.aruLast \in t.members \cup {None} /\ t.rg \in Infos
  BY DEF TurnFacts
<1>2. DOMAIN t = {"kind", "members", "rest", "aru", "aruLast", "rtr", "rtrTo", "rg"}
  BY <1>1 DEF TokenTyped
<1>3. PICK u, aru, h, last : /\ u = SentOn(w, t, d, wants, to) /\ aru = AruSent(w, t, d)
                             /\ h = Succ(t, d)
                             /\ last = IF TakesAru(d, w, t) THEN d ELSE t.aruLast
  OBVIOUS
<1>4. u = [t EXCEPT !.rest = {h}, !.aru = aru, !.aruLast = last, !.rtr = wants, !.rtrTo = to]
  BY <1>2, <1>3 DEF SentOn
<1>5. /\ DOMAIN u = {"kind", "members", "rest", "aru", "aruLast", "rtr", "rtrTo", "rg"}
      /\ u.kind = "regular" /\ u.members = t.members /\ u.rg = t.rg /\ u.rest = {h}
      /\ u.aru = aru /\ u.aruLast = last /\ u.rtr = wants
  BY <1>1, <1>2, <1>4
<1>6. h \in t.members
  BY <1>1, <1>3, SuccIs
<1>7. aru \in Nat
  BY <1>1, <1>3 DEF AruSent
<1>8. TokenTyped(u)
  BY <1>1, <1>3, <1>5, <1>6, <1>7 DEF TokenTyped
<1>9. \/ last = d /\ aru = v.myAru /\ (t.aru > v.myAru \/ t.aruLast = d)
      \/ last = t.aruLast /\ aru = t.aru /\ t.aru <= v.myAru /\ t.aruLast # d
  <2>1. CASE TakesAru(d, w, t)
    BY <1>3, <2>1 DEF TakesAru, AruSent
  <2>2. CASE ~TakesAru(d, w, t)
    <3>1. ~(t.aru > w.myAru) /\ t.aruLast # d
      BY <2>2 DEF TakesAru
    <3>2. t.aru <= v.myAru
      BY <1>1, <3>1
    <3>3. aru = t.aru /\ last = t.aruLast
      BY <1>3, <2>2 DEF AruSent
    <3> QED
      BY <3>1, <3>2, <3>3
  <2> QED
    BY <2>1, <2>2
<1>10. aru <= v.myAru
  BY <1>1, <1>7, <1>9
<1>11. \A n \in wants : aru < n
  <2>1. ASSUME NEW n \in wants PROVE aru < n
    <3>1. n \in Nat /\ w.myAru < n
      BY Constants
    <3> QED
      BY <1>7, <1>10, <3>1
  <2> QED
    BY <2>1
<1>12. Onward(u, t, d, v, aru)
  BY <1>3, <1>5, <1>9, <1>11 DEF Onward
<1> QED
  BY <1>3, <1>8, <1>12

LEMMA WholeReady ==
  ASSUME NEW v, NEW rg, Whole(v, rg), v.mode = "evs", NEW k
  PROVE  Ready(v, k, rg)
<1>1. /\ \A n \in Seqs : v.exist[n] # 0 <=> rg.aru < n /\ n <= rg.highest
      /\ \A n \in Seqs : v.exist[n] = 3 <=> n \in rg.holes
      /\ \A n \in Seqs : v.exist[n] \in 0..3
      /\ v.lastDiscarded = rg.aru /\ v.commit.all = rg.commit /\ rg.aru \in Nat
      /\ rg.highest \in Nat
  BY TypedNumbers DEF Whole, Infos
<1>2. ASSUME NEW u \in Seqs, u <= rg.highest, u \notin rg.holes PROVE Kept(v, k, u)
  <2>1. u \in Nat
    BY Constants
  <2>2. u <= rg.aru \/ v.exist[u] \in {1, 2}
    BY <1>1, <1>2, <2>1
  <2> QED
    BY <1>1, <2>2 DEF Kept, KeepsIn
<1>3. ASSUME NEW n \in Seqs, Settled(rg, n) PROVE Firm(v, k, n)
  <2>1. n <= rg.highest /\ n \notin rg.holes
        /\ (Packets[n].from \in rg.commit \/ \A u \in 1..n : u \notin rg.holes)
    BY <1>3 DEF Settled
  <2>2. \A u \in 1..n : u \in Seqs /\ u <= rg.highest
    BY <1>1, <2>1, Constants
  <2>3. (\A u \in 1..n : u \notin rg.holes) => \A u \in 1..n : Kept(v, k, u)
    BY <1>2, <2>2
  <2> QED
    BY <1>1, <1>2, <2>1, <2>3 DEF Firm
<1> QED
  BY <1>3 DEF Ready

\* What d does at the end: it stays as v, or installs the new ring.
Settles(s2, v, a, d, rg) ==
  \/ s2[d] = v /\ (v.aru > v.lastDiscarded => v.aru # v.lastSeq)
  \/ v.aru = v.lastSeq /\ Came(s2, a, d) /\ Result(s2[d], rg)

LEMMA TurnArus ==
  ASSUME NEW g, NEW s, NEW k, NEW a, NEW d, NEW r, NEW t, TurnFacts(g, s, k, a, d, r, t),
         NEW v, NEW aru, aru \in Nat, Turned(v, r, aru)
  PROVE  NewArus(v, r, aru, t.rg.highest) /\ v.lastSeq = t.rg.highest + Far
         /\ v.lastDiscarded <= t.rg.highest /\ v.lastDiscarded \in Nat /\ v.mode = "evs"
         /\ v.highest = t.rg.highest /\ v.exits = {} /\ Ordered(v.handed) /\ Typed(v)
         /\ v.ring = a
<1>1. /\ Reads(r, t.rg) /\ r.highest = t.rg.highest /\ Typed(r) /\ t.rg \in Infos /\ Info(g, t)
      /\ r.mode = "evs" /\ r.exits = {} /\ Ordered(r.handed) /\ r.ring = a
  BY DEF TurnFacts
<1>2. /\ Typed(v) /\ SameBut(v, r, {"myAru", "commit", "aru", "lastTokenAru"})
      /\ r.myAru <= v.myAru /\ v.lastTokenAru = aru /\ v.aru = AruOf(aru, r.lastTokenAru)
      /\ \/ v.commit = r.commit /\ v.myAru < r.highest
         \/ v.commit = r.fcommit /\ v.myAru = r.lastSeq
  BY DEF Turned
<1>3. /\ v.highest = r.highest /\ v.lastSeq = r.lastSeq /\ v.lastDiscarded = r.lastDiscarded
      /\ v.mode = r.mode /\ v.exits = r.exits /\ v.handed = r.handed /\ v.ring = r.ring
  BY <1>2 DEF SameBut, Globals
<1>4. r.lastSeq = t.rg.highest + Far /\ r.lastDiscarded = t.rg.aru /\ t.rg.aru <= t.rg.highest
      /\ t.rg.aru \in Nat
  BY <1>1 DEF Reads, Info, Infos
<1>5. v.myAru \in Nat
  BY <1>2 DEF Typed
<1> QED
  BY <1>1, <1>2, <1>3, <1>4, <1>5 DEF NewArus

LEMMA AllReadyKeeps ==
  ASSUME NEW g, NEW s, NEW k, NEW a, NEW d, NEW r, NEW t, TurnFacts(g, s, k, a, d, r, t),
         NEW v, NEW aru, aru \in Nat, Turned(v, r, aru), NEW u, Onward(u, t, d, v, aru),
         NEW s2, NEW k2, \A e \in Daemons : e # d => s2[e] = s[e], Settles(s2, v, a, d, t.rg),
         Waits(g, v, k, d), Reads(v, t.rg), u.aruLast # None,
         \A e \in Daemons, n \in Seqs : Firm(s[e], k, n) => Firm(s2[e], k2, n),
         \A n \in Seqs : Firm(v, k, n) => Firm(s2[d], k2, n)
  PROVE  AllReady(s2, k2, u, a, Succ(t, d))
<1>1. PICK h, T, m, l, H, L : /\ h = Succ(t, d) /\ T = t.aru /\ m = v.myAru
                              /\ l = r.lastTokenAru /\ H = t.rg.highest
                              /\ L = t.rg.highest + Far
  OBVIOUS
<1>2. /\ h \in t.members
      /\ \A e \in t.members : ~Sooner(h, d, e)
      /\ \A x, y \in t.members : x # d /\ y # d /\ Sooner(h, x, y) => Sooner(d, x, y)
      /\ \A e \in t.members : e # d => Sooner(d, d, e)
  <2>1. t.members \in SUBSET Daemons /\ d \in t.members
    BY DEF TurnFacts
  <2> QED
    BY <1>1, <2>1, SuccIs
<1>3. /\ r = s[d] /\ d \in Daemons /\ d # None /\ Typed(r) /\ InEvs(s, a, d)
      /\ t.members \subseteq Daemons /\ d \in t.members /\ T \in Nat
      /\ t.aruLast \in t.members \cup {None}
      /\ H \in Nat /\ L = H + Far /\ L \in Nat /\ L # 0 /\ H < L
      /\ Arus(s, t, a, d) /\ AllReady(s, k, t, a, d) /\ H + Far < Int32Max
  <2>1. t.rg.highest \in Nat /\ H + Far < Int32Max
    BY <1>1 DEF TurnFacts, ArusOfToken
  <2>2. /\ r = s[d] /\ d \in Daemons /\ Typed(r) /\ InEvs(s, a, d)
        /\ t.members \subseteq Daemons /\ d \in t.members /\ t.aru \in Nat
        /\ t.aruLast \in t.members \cup {None}
        /\ Arus(s, t, a, d) /\ AllReady(s, k, t, a, d)
    BY DEF TurnFacts, InEvs
  <2>3. PICK x \in Nat : x = t.rg.highest
    BY <2>1
  <2>4. x + Far \in Nat /\ x + Far # 0 /\ x < x + Far
    BY DEF Far
  <2>5. d # None
    BY <2>2, Constants
  <2> QED
    BY <1>1, <2>1, <2>2, <2>3, <2>4, <2>5
<1>4. NewArus(v, r, aru, H) /\ v.lastSeq = L /\ v.lastDiscarded <= H /\ v.lastDiscarded \in Nat
      /\ v.mode = "evs" /\ v.highest = H /\ v.exits = {} /\ Ordered(v.handed) /\ Typed(v)
  BY <1>1, TurnArus
<1>5. /\ m \in Nat /\ r.myAru <= m /\ v.lastTokenAru = aru
      /\ v.aru = (IF aru > l THEN l ELSE aru) /\ (m < H \/ m = L)
      /\ l \in Nat /\ r.myAru \in Nat
  BY <1>1, <1>3, <1>4 DEF NewArus, AruOf, Typed
<1>6. /\ u.members = t.members /\ u.rg = t.rg /\ u.aru = aru
      /\ \/ u.aruLast = d /\ aru = m /\ (T > m \/ t.aruLast = d)
         \/ u.aruLast = t.aruLast /\ aru = T /\ T <= m /\ t.aruLast # d
  BY <1>1 DEF Onward
<1>7. /\ \A e \in Daemons : InEvs(s, a, e) => s[e].lastTokenAru <= s[e].myAru
      /\ \A e, f \in Daemons : InEvs(s, a, e) /\ InEvs(s, a, f) /\ Sooner(d, e, f) =>
           s[e].lastTokenAru <= s[f].lastTokenAru \/ T <= s[f].lastTokenAru
      /\ t.aruLast = None => \A e \in Daemons : InEvs(s, a, e) => s[e].lastTokenAru = 0
      /\ t.aruLast # None =>
           /\ T <= H \/ T = L
           /\ \A e \in Daemons : InEvs(s, a, e) /\ (e = t.aruLast \/ Sooner(d, t.aruLast, e)) =>
                s[e].lastTokenAru = T
  BY <1>1, <1>3 DEF Arus
<1>8. \A e \in Daemons : InEvs(s, a, e) =>
        /\ e \in t.members /\ s[e].lastTokenAru \in Nat
        /\ s[e].myAru \in Nat /\ (s[e].myAru <= H \/ s[e].myAru = L)
  BY <1>1 DEF TurnFacts, ArusOfToken
<1>9. l <= m /\ l <= r.myAru
  <2>1. r.lastTokenAru <= r.myAru
    BY <1>3, <1>7
  <2> QED
    BY <1>1, <1>5, <2>1
<1>10. \A e \in Daemons : Ready(s[e], k, t.rg) => Ready(s2[e], k2, t.rg)
  BY DEF Ready
<1>11. ASSUME aru = L PROVE m = L /\ Ready(s2[d], k2, t.rg)
  <2>1. m = L
    BY <1>3, <1>5, <1>6, <1>11
  <2>2. t.rg \in Infos
    BY DEF TurnFacts
  <2>3. v.myAru = t.rg.highest + Far /\ v.highest = t.rg.highest
    BY <1>1, <1>4, <2>1
  <2>4. Whole(v, t.rg)
    BY <1>4, <2>2, <2>3, WholeIs
  <2>5. Ready(v, k, t.rg)
    BY <1>4, <2>4, WholeReady
  <2> QED
    BY <2>1, <2>5 DEF Ready
<1>12. ASSUME aru = L, NEW x \in Daemons, InEvs(s, a, x), s[x].lastTokenAru = L PROVE T = L
  <2>1. t.aruLast # None
    BY <1>3, <1>7, <1>12
  <2>2. CASE T > m
    BY <1>3, <1>5, <1>7, <1>11, <1>12, <2>1, <2>2
  <2>3. CASE t.aruLast = d
    <3>1. x = d \/ Sooner(d, d, x)
      BY <1>2, <1>8, <1>12
    <3> QED
      BY <1>7, <1>12, <2>1, <2>3, <3>1
  <2> QED
    BY <1>6, <1>12, <2>2, <2>3
<1>13. \A e \in Daemons : e # d =>
         /\ InEvs(s2, a, e) <=> InEvs(s, a, e)
         /\ Came(s2, a, e) <=> Came(s, a, e)
  BY DEF InEvs, Came
<1>14. Came(s2, a, d) => v.aru = L /\ Result(s2[d], t.rg)
  BY <1>4 DEF Settles, Came
<1>15. s2[d] = v \/ Came(s2, a, d)
  BY DEF Settles
<1>16. v.aru = L => Came(s2, a, d)
  BY <1>3, <1>4 DEF Settles
<1>17. InEvs(s2, a, d) => s2[d] = v
  BY <1>15 DEF InEvs, Came
<1>18. ASSUME NEW x \in Daemons, NEW e \in t.members, InEvs(s2, a, x), s2[x].lastTokenAru = L,
              aru = L, x = e \/ Sooner(h, x, e)
       PROVE  Ready(s2[e], k2, t.rg)
  <2>1. CASE e = d
    BY <1>11, <1>18, <2>1
  <2>2. CASE e # d
    <3>1. x # d
      BY <1>2, <1>18, <2>2
    <3>2. InEvs(s, a, x) /\ s[x].lastTokenAru = L /\ x \in t.members
      BY <1>8, <1>13, <1>18, <3>1
    <3>3. T = L /\ (x = e \/ Sooner(d, x, e))
      BY <1>2, <1>12, <1>18, <2>2, <3>1, <3>2
    <3>4. Ready(s[e], k, t.rg)
      BY <1>1, <1>3, <3>2, <3>3 DEF AllReady
    <3> QED
      BY <1>3, <1>10, <3>4
  <2> QED
    BY <2>1, <2>2
<1>19. ASSUME NEW x \in Daemons, Came(s2, a, x), x # d
       PROVE  /\ aru = L /\ x \in t.members /\ Result(s2[x], t.rg)
              /\ \A e \in t.members : Sooner(h, x, e) => Came(s2, a, e)
              /\ \A e \in t.members : Ready(s2[e], k2, t.rg)
              /\ \A e \in Daemons : InEvs(s2, a, e) => s2[e].lastTokenAru = aru /\ s2[e].myAru = aru
  <2>1. Came(s, a, x) /\ s2[x] = s[x]
    BY <1>13, <1>19
  <2>2. /\ T = L /\ x \in t.members /\ Result(s[x], t.rg) /\ t.aruLast # None
        /\ \A e \in t.members : Sooner(d, x, e) => Came(s, a, e)
        /\ \A e \in t.members : Ready(s[e], k, t.rg)
        /\ \A e \in Daemons : InEvs(s, a, e) => s[e].lastTokenAru = T /\ s[e].myAru = T
    BY <1>1, <1>3, <2>1 DEF AllReady
  <2>3. l = L /\ r.myAru = L
    BY <1>1, <1>3, <2>2
  <2>4. m = L /\ aru = L
    BY <1>3, <1>5, <1>6, <2>2, <2>3
  <2>5. v.aru = L
    BY <1>5, <2>3, <2>4
  <2>6. Came(s2, a, d)
    BY <1>16, <2>5
  <2>7. ASSUME NEW e \in t.members, Sooner(h, x, e) PROVE Came(s2, a, e)
    <3>1. CASE e = d
      BY <2>6, <3>1
    <3>2. CASE e # d
      <4>1. Sooner(d, x, e)
        BY <1>2, <1>19, <2>2, <2>7, <3>2
      <4> QED
        BY <1>3, <1>13, <2>2, <3>2, <4>1
    <3> QED
      BY <3>1, <3>2
  <2>8. \A e \in Daemons : InEvs(s2, a, e) => s2[e].lastTokenAru = aru /\ s2[e].myAru = aru
    <3>1. ~InEvs(s2, a, d)
      BY <2>6 DEF InEvs, Came
    <3> QED
      BY <1>13, <2>2, <2>4, <3>1
  <2> QED
    BY <1>3, <1>10, <2>1, <2>2, <2>4, <2>7, <2>8
<1>20. ASSUME Came(s2, a, d)
       PROVE  /\ aru = L /\ Result(s2[d], t.rg)
              /\ \A e \in t.members : Ready(s2[e], k2, t.rg)
              /\ \A e \in Daemons : InEvs(s2, a, e) => s2[e].lastTokenAru = aru /\ s2[e].myAru = aru
  <2>1. v.aru = L /\ Result(s2[d], t.rg)
    BY <1>14, <1>20
  <2>2. l = L /\ m = L /\ aru = L
    <3>1. L <= l /\ L <= aru
      BY <1>3, <1>5, <2>1
    <3>2. m = L /\ l = L
      BY <1>3, <1>5, <1>9, <3>1
    <3>3. aru <= m
      BY <1>3, <1>5, <1>6
    <3> QED
      BY <1>3, <3>1, <3>2, <3>3
  <2>3. T = L
    BY <1>1, <1>3, <1>12, <2>2
  <2>4. ASSUME NEW e \in t.members PROVE Ready(s2[e], k2, t.rg)
    <3>1. d = e \/ Sooner(d, d, e)
      BY <1>2
    <3>2. Ready(s[e], k, t.rg)
      BY <1>1, <1>3, <2>2, <2>3, <3>1 DEF AllReady
    <3> QED
      BY <1>3, <1>10, <3>2
  <2>5. ASSUME NEW e \in Daemons, InEvs(s2, a, e)
        PROVE  s2[e].lastTokenAru = aru /\ s2[e].myAru = aru
    <3>1. e # d
      BY <1>20, <2>5 DEF InEvs, Came
    <3>2. InEvs(s, a, e) /\ s2[e] = s[e] /\ Sooner(d, d, e)
      BY <1>2, <1>8, <1>13, <2>5, <3>1
    <3>3. PICK y \in Nat, z \in Nat : y = s[e].lastTokenAru /\ z = s[e].myAru
      BY <1>8, <3>2
    <3>4. y <= z /\ L <= y /\ (z <= H \/ z = L)
      BY <1>1, <1>3, <1>7, <1>8, <2>2, <2>3, <3>2, <3>3
    <3> QED
      BY <1>3, <2>2, <3>2, <3>3, <3>4
  <2> QED
    BY <2>1, <2>2, <2>4, <2>5
<1>21. u.rg.highest + Far = L
  BY <1>1, <1>6
<1> QED
  BY <1>1, <1>2, <1>3, <1>6, <1>18, <1>19, <1>20, <1>21 DEF AllReady

\* What is due when d comes to the new ring.
LEMMA ArrivedIs ==
  ASSUME NEW g, \A n \in Seqs : n \in g[Packets[n].from],
         NEW k, NEW k2, NEW t, Info(g, t), Given(t) = t.members, NEW d,
         NEW v, Whole(v, t.rg), v.mode = "evs", Waits(g, v, k, d),
         NEW s2, HasInstalled(s2[d], v, LastBefore(v), t.rg),
         \A e \in t.members : Ready(s2[e], k2, t.rg)
  PROVE  Arrived(g, s2, k2, d)
<1>1. PICK q, rg : q = s2[d] /\ rg = t.rg
  OBVIOUS
<1>2. HasInstalled(q, v, LastBefore(v), rg) /\ Whole(v, rg) /\ Typed(q)
  BY <1>1 DEF HasInstalled
<1>3. /\ Result(q, rg)
      /\ \A n \in Seqs : Settled(rg, n) => n \in HandedIn(q)
      /\ \A n \in Seqs : Firm(v, k, n) => n \in HandedIn(q)
  BY <1>2, InstallsResult
<1>4. HandedIn(q) \subseteq Seqs /\ FirstIn(q) \subseteq HandedIn(q)
  BY <1>2, HandedSeqs
<1>5. /\ v.commit.all = rg.commit /\ Buffer(g, v) /\ Commitment(g, v, k, d)
      /\ q.trans = t.members
  BY <1>1, <1>2 DEF Whole, Waits, HasInstalled, Info
<1>6. /\ \A n \in g[d] : Kept(v, k, n)
      /\ d \in rg.commit /\ \A f \in rg.commit, c \in Seqs : Had(g, f, c) => Kept(v, k, c)
  BY <1>5 DEF Commitment, Knows
<1>7. /\ Len(Packets) \in Nat /\ Seqs = 1..Len(Packets)
      /\ \A n \in Seqs : n \in Nat /\ \A u \in 1..n : u \in Seqs /\ u \in Nat /\ u <= n
  BY Constants
<1>8. ASSUME NEW f \in rg.commit, NEW c \in Seqs, Had(g, f, c) PROVE c \in HandedIn(q)
  <2>1. \A u \in 1..c : Had(g, f, u)
    BY <1>7, <1>8 DEF Had
  <2>2. \A u \in 1..c : Kept(v, k, u)
    BY <1>6, <1>7, <2>1
  <2>3. Firm(v, k, c)
    BY <1>6, <1>8, <2>2 DEF Firm
  <2> QED
    BY <1>3, <2>3
<1>9. ASSUME NEW n \in Seqs, Packets[n].from = d PROVE n \in HandedIn(q)
  <2>1. n \in g[d]
    BY <1>9
  <2>2. Firm(v, k, n)
    BY <1>5, <1>6, <1>9, <2>1 DEF Firm
  <2> QED
    BY <1>3, <2>2
<1>10. ASSUME NEW n \in FirstIn(q), NEW e \in Daemons, IsSafe(n) PROVE Had(g, e, n)
  <2>1. n \in Seqs /\ n \in Nat /\ ~Reliable(n)
    BY <1>4, <1>7, <1>10, Constants
  <2>2. First(rg, n)
    BY <1>3, <1>10, <2>1 DEF Result
  <2>3. rg.aru \in Nat /\ n \in 1..n
    BY <1>2, <1>7, <2>1 DEF Whole, Infos
  <2>4. n <= rg.aru
    BY <1>10, <2>2, <2>3 DEF First
  <2>5. \A u \in 1..rg.aru : u \in g[e]
    BY <1>1 DEF Info
  <2> QED
    BY <2>1, <2>3, <2>4, <2>5 DEF Had
<1>11. ASSUME NEW n \in HandedIn(q), ~Reliable(n), NEW c \in CausedIn(g, n)
       PROVE  c \in HandedIn(q)
  <2>1. n \in Seqs /\ n \in Nat /\ Settled(rg, n)
    BY <1>3, <1>4, <1>7, <1>11 DEF Result
  <2>2. c \in 1..(n - 1) /\ Had(g, Packets[n].from, c)
    BY <1>11 DEF CausedIn
  <2>3. c \in Seqs /\ c \in Nat /\ c <= n
    BY <1>7, <2>1, <2>2
  <2>4. CASE Packets[n].from \in rg.commit
    BY <1>8, <2>2, <2>3, <2>4
  <2>5. CASE \A u \in 1..n : u \notin rg.holes
    <3>1. rg.highest \in Nat /\ n <= rg.highest
      BY <1>2, <2>1 DEF Whole, Infos, Settled
    <3>2. c \in 1..n /\ \A u \in 1..c : u \in 1..n
      BY <2>1, <2>2, <2>3
    <3>3. Settled(rg, c)
      BY <2>1, <2>3, <2>5, <3>1, <3>2 DEF Settled
    <3> QED
      BY <1>3, <2>3, <3>3
  <2> QED
    BY <2>1, <2>4, <2>5 DEF Settled
<1>12. ASSUME NEW n \in HandedIn(q), NEW e \in q.trans, ~Reliable(n) PROVE Firm(s2[e], k2, n)
  <2>1. n \in Seqs /\ Settled(rg, n)
    BY <1>3, <1>4, <1>12 DEF Result
  <2> QED
    BY <1>1, <1>5, <1>12, <2>1 DEF Ready
<1>13. \A c \in Seqs : Had(g, d, c) => c \in HandedIn(q)
  BY <1>6, <1>8
<1> QED
  BY <1>1, <1>9, <1>10, <1>11, <1>12, <1>13 DEF Arrived

-----------------------------------------------------------------------------
\* What d is then.
AfterTurn(d, v) == IF v.aru > v.lastDiscarded /\ v.aru = v.lastSeq THEN Install(d, v) ELSE v

\* It waits as before, or it has installed the new ring with all that is due.
TurnResult(q, v, a, rg) ==
  \/ q = v /\ (v.aru > v.lastDiscarded => v.aru # v.lastSeq)
  \/ /\ v.aru = v.lastSeq /\ Whole(v, rg) /\ HasInstalled(q, v, LastBefore(v), rg)

LEMMA AfterTurnIs ==
  ASSUME NEW g, NEW s, NEW k, NEW a, NEW d, NEW r, NEW t, TurnFacts(g, s, k, a, d, r, t),
         NEW v, NEW aru, aru \in Nat, Turned(v, r, aru), aru <= v.myAru,
         Waits(g, v, k, d), Reads(v, t.rg)
  PROVE  TurnResult(AfterTurn(d, v), v, a, t.rg)
<1>1. PICK H, l : H = t.rg.highest /\ l = r.lastTokenAru
  OBVIOUS
<1>2. NewArus(v, r, aru, H) /\ v.lastSeq = H + Far /\ v.lastDiscarded <= H
      /\ v.lastDiscarded \in Nat /\ v.mode = "evs" /\ v.highest = H /\ v.exits = {}
      /\ Ordered(v.handed) /\ Typed(v)
  BY <1>1, TurnArus
<1>3. H \in Nat /\ l \in Nat /\ d \in Daemons /\ t.rg \in Infos
  BY <1>1 DEF TurnFacts, Infos, Typed
<1>4. CASE v.aru > v.lastDiscarded /\ v.aru = v.lastSeq
  <2>1. v.myAru = H + Far
    <3>1. v.aru = (IF aru > l THEN l ELSE aru) /\ v.myAru \in Nat
          /\ (v.myAru < H \/ v.myAru = H + Far)
      BY <1>1, <1>2 DEF NewArus, AruOf
    <3>2. v.aru <= aru
      BY <1>3, <3>1
    <3> QED
      BY <1>2, <1>3, <1>4, <3>1, <3>2 DEF Far
  <2>2. Whole(v, t.rg)
    BY <1>1, <1>2, <1>3, <2>1, WholeIs
  <2>3. HasInstalled(Install(d, v), v, LastBefore(v), t.rg)
    BY <1>3, <2>2, InstallIs
  <2> QED
    BY <1>4, <2>2, <2>3 DEF AfterTurn, TurnResult
<1>5. CASE ~(v.aru > v.lastDiscarded /\ v.aru = v.lastSeq)
  BY <1>5 DEF AfterTurn, TurnResult
<1> QED
  BY <1>4, <1>5

LEMMA HandleKeeps ==
  ASSUME NumbersFit, NEW g, NEW s, NEW k, NEW s2, NEW k2, NEW d, d \in Daemons, Inv(g, s, k),
         NEW a, a \in DOMAIN k, k[a].kind = "regular", k[a].rest = {d}, InEvs(s, a, d),
         NEW w, w = TurnedUp(s[d], k[a]), NEW v, v = TurnedOn(w, s[d], AruSent(w, k[a], d)),
         s2[d] = AfterTurn(d, v), DOMAIN s2 = Daemons,
         \A e \in Daemons : e # d => s2[e] = s[e],
         DOMAIN k2 = DOMAIN k, \A b \in DOMAIN k : b # a => k2[b] = k[b],
         NEW to, NEW u, u = SentOn(w, k[a], d, AskedBy(s[d], k[a]), to),
         k2[a] = u \/ k2[a] = Swallowed(u)
  PROVE  Inv(g, s2, k2)
<1>1. PICK r, t, q : r = s[d] /\ t = k[a] /\ q = s2[d]
  OBVIOUS
<1>2. PICK aru : aru = AruSent(w, t, d)
  OBVIOUS
<1>3. TurnFacts(g, s, k, a, d, r, t)
  BY <1>1, TurnKnows
<1>4. /\ Turned(v, r, aru) /\ aru \in Nat /\ w.myAru \in Nat /\ v.myAru = w.myAru
      /\ \A n \in AskedBy(r, t) : n \in Seqs /\ w.myAru < n
  <2>1. w = TurnedUp(r, t) /\ v = TurnedOn(w, r, aru)
    BY <1>1, <1>2
  <2> QED
    BY <1>2, <1>3, <2>1, Turns
<1>5. TokenTyped(u) /\ Onward(u, t, d, v, aru)
  <2>1. u = SentOn(w, t, d, AskedBy(r, t), to) /\ w = TurnedUp(r, t)
    BY <1>1
  <2> QED
    BY <1>2, <1>3, <1>4, <2>1, SentOnIs
<1>6. /\ Typed(r) /\ r.exits = {} /\ r.mode = "evs" /\ r.ring = a /\ g \in [Daemons -> SUBSET Seqs]
      /\ t.rg \in Infos /\ Info(g, t) /\ Given(t) = t.members /\ t.aru \in Nat
      /\ Reads(r, t.rg) /\ r.highest = t.rg.highest /\ Waits(g, r, k, d)
      /\ t.kind = "regular" /\ \A e \in Daemons : ~InForm(s, a, e)
      /\ \A e \in Daemons : InEvs(s, a, e) =>
           e \in t.members /\ Reads(s[e], t.rg) /\ s[e].highest = t.rg.highest
      /\ ArusOfToken(s, t, a, d, t.rg.highest)
  BY <1>3 DEF TurnFacts
<1>7. /\ Waits(g, v, k, d) /\ Waits(g, v, k2, d) /\ Stays(r, k, v, k) /\ Stays(r, k, v, k2)
      /\ Reads(v, t.rg)
  <2>1. g[d] \subseteq Seqs /\ Typed(r)
    BY <1>6
  <2>2. Turned(v, r, aru)
    BY <1>4
  <2>3. ASSUME NEW i PROVE Waits(g, v, i, d) /\ Stays(r, k, v, i)
    BY <1>6, <2>1, <2>2, TurnedKeeps
  <2>4. Waits(g, v, k2, d) => Reads(v, t.rg)
    BY <1>6, <2>1, <2>2, TurnedKeeps
  <2> QED
    BY <2>3, <2>4
<1>8. /\ NewArus(v, r, aru, t.rg.highest) /\ v.lastSeq = t.rg.highest + Far
      /\ v.mode = "evs" /\ v.highest = t.rg.highest /\ v.exits = {} /\ Ordered(v.handed)
      /\ Typed(v) /\ v.ring = a
  BY <1>3, <1>4, TurnArus
<1>9. aru <= v.myAru
  BY <1>4, <1>5, <1>6 DEF Onward
<1>10. TurnResult(q, v, a, t.rg)
  <2>1. q = AfterTurn(d, v)
    BY <1>1
  <2> QED
    BY <1>3, <1>4, <1>7, <1>9, <2>1, AfterTurnIs
<1>11. /\ q = v \/ (Whole(v, t.rg) /\ HasInstalled(q, v, LastBefore(v), t.rg))
       /\ Typed(q) /\ q.exits = {} /\ Ordered(q.handed) /\ q.ring = a
       /\ q.mode = "evs" => q = v
       /\ q.mode \in {"evs", "op"}
       /\ q.mode = "op" => Whole(v, t.rg) /\ HasInstalled(q, v, LastBefore(v), t.rg)
  BY <1>8, <1>10 DEF TurnResult, HasInstalled
<1>12. \A n \in Seqs, i \in {k, k2} : Firm(v, i, n) => Firm(q, k2, n)
  <2>1. CASE q = v
    <3>1. \A n \in Seqs : \A x \in 1..n : x \in Seqs
      BY Constants
    <3>2. \A n \in Seqs, i \in {k, k2} : Kept(v, i, n) => Kept(v, k2, n)
      BY <1>8 DEF Kept
    <3> QED
      BY <2>1, <3>1, <3>2 DEF Firm
  <2>2. CASE Whole(v, t.rg) /\ HasInstalled(q, v, LastBefore(v), t.rg)
    <3>1. q.mode = "op" /\ v.mode # "op"
      BY <1>8, <2>2 DEF HasInstalled
    <3>2. \A n \in Seqs : \A i : Firm(v, i, n) => n \in HandedIn(q)
      BY <2>2, <3>1, InstallsResult
    <3> QED
      BY <3>1, <3>2 DEF Firm, Kept, KeepsIn
  <2> QED
    BY <1>11, <2>1, <2>2
<1>13. /\ TokenTyped(k2[a]) /\ k2[a].rg.highest = t.rg.highest
       /\ k2[a] = u \/ k2[a].kind = "gone"
       /\ u.kind = "regular" /\ u.rg = t.rg /\ u.members = t.members /\ u.rest = {Succ(t, d)}
  <2>1. TokenTyped(k2[a]) /\ k2[a].rg.highest = u.rg.highest /\ (k2[a] = u \/ k2[a].kind = "gone")
    BY <1>5, SentIs
  <2> QED
    BY <1>5, <2>1 DEF Onward
<1>14. Moves(s, k, s2, k2, d)
  <2>1. ASSUME NEW b \in DOMAIN k, NEW n \in Seqs, Counts(k[b], n) PROVE Counts(k2[b], n)
    <3>1. CASE b # a
      BY <2>1, <3>1
    <3>2. CASE b = a
      BY <1>13, <3>2 DEF Counts
    <3> QED
      BY <3>1, <3>2
  <2>2. \A n \in Seqs : Firm(s[d], k, n) => Firm(s2[d], k2, n)
    BY <1>1, <1>7, <1>12 DEF Stays
  <2>3. DOMAIN k \subseteq DOMAIN k2 /\ \E m \in Nat : DOMAIN k2 = 1..m
    BY DEF Inv
  <2>4. s2[d].mode # "op" => s[d].highest <= s2[d].highest
    BY <1>1, <1>6, <1>8, <1>11, TypedNumbers
  <2>5. s[d].mode # "op" /\ Typed(s2[d])
    BY <1>1, <1>6, <1>11
  <2> QED
    BY <2>1, <2>2, <2>3, <2>4, <2>5 DEF Moves
<1>15. \A e \in Daemons, n \in Seqs : Firm(s[e], k, n) => Firm(s2[e], k2, n)
  BY <1>14, FirmStays
<1>16. Settles(s2, v, a, d, t.rg)
  <2>1. CASE q = v /\ (v.aru > v.lastDiscarded => v.aru # v.lastSeq)
    BY <1>1, <2>1 DEF Settles
  <2>2. CASE v.aru = v.lastSeq /\ Whole(v, t.rg) /\ HasInstalled(q, v, LastBefore(v), t.rg)
    <3>1. Result(q, t.rg)
      BY <1>8, <2>2, InstallsResult
    <3>2. q.mode = "op"
      BY <2>2 DEF HasInstalled
    <3> QED
      BY <1>1, <1>11, <2>2, <3>1, <3>2 DEF Settles, Came
  <2> QED
    BY <1>10, <2>1, <2>2 DEF TurnResult
<1>17. Arus(s2, u, a, Succ(t, d)) /\ u.aruLast # None
  <2>1. NewArus(v, s[d], aru, t.rg.highest) /\ (InEvs(s2, a, d) => s2[d] = v)
    BY <1>1, <1>8, <1>11 DEF InEvs
  <2> QED
    BY <1>5, <1>6, <2>1, ArusKeep
<1>18. AllReady(s2, k2, u, a, Succ(t, d))
  <2>1. \A n \in Seqs : Firm(v, k, n) => Firm(s2[d], k2, n)
    BY <1>1, <1>12
  <2> QED
    BY <1>3, <1>4, <1>5, <1>7, <1>15, <1>16, <1>17, <2>1, AllReadyKeeps
<1>19. DaemonInv(g, s2, k2, d)
  <2>1. ASSUME q.mode = "op" PROVE Arrived(g, s2, k2, d)
    <3>1. Came(s2, a, d)
      BY <1>1, <1>11, <2>1 DEF Came
    <3>2. \A e \in t.members : Ready(s2[e], k2, t.rg)
      BY <1>13, <1>18, <3>1 DEF AllReady
    <3>3. \A n \in Seqs : n \in g[Packets[n].from]
      BY DEF Inv
    <3> QED
      BY <1>1, <1>6, <1>7, <1>8, <1>11, <2>1, <3>2, <3>3, ArrivedIs
  <2> QED
    BY <1>1, <1>7, <1>11, <2>1 DEF DaemonInv
<1>20. TokenInv(g, s2, k2, a)
  <2>1. \A e \in Daemons : InEvs(s2, a, e) => e \in t.members /\ Reads(s2[e], t.rg)
          /\ s2[e].highest = t.rg.highest
    <3>1. ASSUME NEW e \in Daemons, InEvs(s2, a, e), e # d
          PROVE  e \in t.members /\ Reads(s2[e], t.rg) /\ s2[e].highest = t.rg.highest
      BY <1>6, <3>1 DEF InEvs
    <3>2. ASSUME InEvs(s2, a, d)
          PROVE  d \in t.members /\ Reads(s2[d], t.rg) /\ s2[d].highest = t.rg.highest
      <4>1. s2[d] = v
        BY <1>1, <1>11, <3>2 DEF InEvs
      <4> QED
        BY <1>6, <1>7, <1>8, <4>1 DEF ArusOfToken
    <3> QED
      BY <3>1, <3>2
  <2>2. ASSUME k2[a].kind = "regular" PROVE RegularInv(g, s2, k2, k2[a], a)
    <3>1. k2[a] = u
      BY <1>13, <2>2
    <3>2. Info(g, u)
      BY <1>6, <1>13 DEF Info, Given
    <3>3. \A e \in Daemons : ~InForm(s2, a, e)
      BY <1>1, <1>6, <1>11 DEF InForm
    <3> QED
      BY <1>13, <1>17, <1>18, <2>1, <3>1, <3>2, <3>3 DEF RegularInv
  <2>3. k2[a].kind \notin {"form1", "form2"}
    BY <1>13
  <2> QED
    BY <1>13, <2>1, <2>2, <2>3 DEF TokenInv
<1>21. ASSUME NEW b, b \in DOMAIN k2 PROVE TokenInv(g, s2, k2, b)
  <2>1. CASE b = a
    BY <1>20, <2>1
  <2>2. CASE b # a
    <3>1. b \in DOMAIN k /\ k2[b] = k[b] /\ s2[d].ring # b
      BY <1>1, <1>11, <1>21, <2>2
    <3> QED
      BY <1>14, <3>1, OtherToken
  <2> QED
    BY <2>1, <2>2
<1>22. ASSUME NEW e \in Daemons, s2[d].mode = "op", s[e].mode = "op", s[e].ring = s2[d].ring
       PROVE  Same(s2[d], s[e])
  <2>1. Came(s, a, e) /\ Came(s2, a, d)
    BY <1>1, <1>11, <1>22 DEF Came
  <2>2. Result(s[e], t.rg)
    <3>1. AllReady(s, k, t, a, d)
      BY <1>3 DEF TurnFacts
    <3> QED
      BY <2>1, <3>1 DEF AllReady
  <2>3. Result(s2[d], t.rg)
    BY <1>13, <1>18, <2>1 DEF AllReady
  <2> QED
    BY <2>2, <2>3 DEF Result, Same
<1> QED
  BY <1>14, <1>19, <1>21, <1>22, StepKeeps

-----------------------------------------------------------------------------
(* When the old ring's token is gone.                                      *)

LEMMA ContiguousIs ==
  ASSUME NEW T \in SUBSET Seqs
  PROVE  /\ Contiguous(T) \in Nat /\ Contiguous(T) <= Len(Packets)
         /\ 1..Contiguous(T) \subseteq T
         /\ \A m \in Seqs : 1..m \subseteq T => m <= Contiguous(T)
<1>1. Len(Packets) \in Nat /\ Seqs = 1..Len(Packets)
  BY Constants
<1>2. PICK M : M = {m \in 0..Len(Packets) : 1..m \subseteq T}
  OBVIOUS
<1>3. M \in SUBSET Nat /\ 0 \in M /\ \A m \in M : m <= Len(Packets)
  <2>1. 1..0 = {}
    OBVIOUS
  <2> QED
    BY <1>1, <1>2, <2>1
<1>4. Contiguous(T) = Max(M)
  BY <1>2 DEF Contiguous
<1>5. Max(M) \in M /\ \A m \in M : Max(M) >= m
  BY <1>1, <1>3, MaxOf
<1>6. PICK c : c = Max(M)
  OBVIOUS
<1>7. c \in Nat /\ c <= Len(Packets) /\ 1..c \subseteq T /\ \A m \in M : m <= c
  <2>1. c \in M /\ \A m \in M : c >= m
    BY <1>5, <1>6
  <2> QED
    BY <1>2, <1>3, <2>1
<1>8. \A m \in Seqs : 1..m \subseteq T => m \in M
  BY <1>1, <1>2
<1> QED
  BY <1>4, <1>6, <1>7, <1>8

LEMMA HandedOverIs ==
  ASSUME NEW T \in SUBSET Seqs, NEW A, A \in Nat, A <= Len(Packets), 1..A \subseteq T
  PROVE  /\ HandedOver(T, A) \in SUBSET T
         /\ \A n \in Seqs : n <= A => n \in HandedOver(T, A)
         /\ \A n \in HandedOver(T, A) : ~Reliable(n) =>
              \A u \in 1..n : u \in HandedOver(T, A) /\ (u <= A \/ ~IsSafe(u))
<1>1. Len(Packets) \in Nat /\ Seqs = 1..Len(Packets)
  BY Constants
<1>2. PICK M : M = {m \in 0..Len(Packets) :
                      \A s \in 1..m : s \in T /\ (s <= A \/ ~IsSafe(s))}
  OBVIOUS
<1>3. M \in SUBSET Nat /\ \A m \in M : m <= Len(Packets)
  BY <1>1, <1>2
<1>4. A \in M
  <2>1. \A s \in 1..A : s \in T /\ s <= A
    OBVIOUS
  <2> QED
    BY <1>1, <1>2, <2>1
<1>5. PICK m : m = Max(M)
  OBVIOUS
<1>6. m \in M /\ \A y \in M : m >= y
  BY <1>1, <1>3, <1>4, <1>5, MaxOf
<1>7. /\ m \in Nat /\ A <= m /\ m <= Len(Packets)
      /\ \A s \in 1..m : s \in T /\ (s <= A \/ ~IsSafe(s))
  BY <1>2, <1>3, <1>4, <1>6
<1>8. HandedOver(T, A) = 1..m \cup {s \in T : Reliable(s)}
  BY <1>2, <1>5 DEF HandedOver
<1>9. \A n \in Seqs : n <= A => n \in 1..m
  BY <1>1, <1>7
<1>10. ASSUME NEW n \in 1..m PROVE \A u \in 1..n : u \in 1..m
  BY <1>7
<1> QED
  BY <1>7, <1>8, <1>9, <1>10

OldFacts(g, r, d) ==
  /\ Typed(r) /\ r.mode = "idle" /\ r.ring = None /\ r.exits = {} /\ Ordered(r.handed)
  /\ \A k : Waits(g, r, k, d)

LEMMA OldRingIs ==
  ASSUME had \in [Daemons -> SUBSET Seqs], NEW d, d \in Daemons,
         NEW A, A \in Nat, \A e \in Daemons : A <= Contiguous(had[e]),
         NEW H, H \in Nat, H <= Len(Packets), \A n \in had[d] : n <= H
  PROVE  OldFacts(had, OldRing(d, A, H), d)
<1>1. PICK T : T = had[d]
  OBVIOUS
<1>2. PICK C, S : C = Contiguous(T) /\ S = HandedOver(T, A)
  OBVIOUS
<1>3. PICK h, x : /\ h = Ascending(S)
                  /\ x = [s \in Seqs |-> IF s \notin T \/ s <= A THEN 0
                                         ELSE IF s \in S THEN 2 ELSE 1]
  OBVIOUS
<1>4. PICK c, f : c = [trans |-> {d}, all |-> {d}] /\ f = [trans |-> {}, all |-> {}]
  OBVIOUS
<1>5. /\ Len(Packets) \in Nat /\ Seqs = 1..Len(Packets)
      /\ \A n \in Seqs : n \in Nat /\ n # 0
  BY Constants
<1>6. T \in SUBSET Seqs
  BY <1>1
<1>7. /\ C \in Nat /\ C <= Len(Packets) /\ 1..C \subseteq T /\ A <= C
      /\ \A m \in Seqs : 1..m \subseteq T => m <= C
  BY <1>1, <1>2, <1>6, ContiguousIs
<1>8. A <= Len(Packets) /\ 1..A \subseteq T
  BY <1>5, <1>7
<1>9. /\ S \in SUBSET T
      /\ \A n \in Seqs : n <= A => n \in S
      /\ \A n \in S : ~Reliable(n) => \A u \in 1..n : u \in S /\ (u <= A \/ ~IsSafe(u))
  BY <1>2, <1>6, <1>8, HandedOverIs
<1>10. S \in SUBSET Nat /\ S \subseteq Seqs /\ \A n \in S : n <= Len(Packets)
  BY <1>5, <1>6, <1>9
<1>11. PICK m \in Nat : m = Cardinality(S) /\ h \in [1..m -> S]
        /\ (\A i, j \in 1..m : i < j => h[i] < h[j])
        /\ \A n \in S : \E i \in 1..m : h[i] = n
  BY ZenonT(30), <1>3, <1>5, <1>10, AscendingIs
<1>12. h \in Seq(Seqs) /\ Len(h) = m /\ DOMAIN h = 1..m
  <2>1. h \in [1..m -> Seqs]
    BY <1>10, <1>11
  <2> QED
    BY <2>1
<1>13. ToSet(h) = S
  BY <1>11, <1>12 DEF ToSet
<1>14. Ordered(h)
  <2>1. ASSUME NEW i \in 1..m, NEW j \in 1..m, i < j PROVE h[i] # h[j] /\ h[i] < h[j]
    <3>1. h[i] \in Nat /\ h[j] \in Nat /\ h[i] < h[j]
      BY <1>10, <1>11, <2>1
    <3> QED
      BY <3>1
  <2> QED
    BY <1>12, <2>1 DEF Ordered
<1>15. c \in Commits /\ f \in Commits /\ x \in [Seqs -> 0..3]
       /\ \A s \in Seqs : x[s] = IF s \notin T \/ s <= A THEN 0
                                 ELSE IF s \in S THEN 2 ELSE 1
  BY <1>3, <1>4 DEF Commits
<1>16. PICK r : r = OldRing(d, A, H)
  OBVIOUS
<1>17. r = [mode |-> "idle", ring |-> None, highest |-> H, myAru |-> C, aru |-> A,
            lastDiscarded |-> A, exist |-> x, handed |-> h, signal |-> 0, trans |-> {},
            commit |-> c, fcommit |-> f, lastSeq |-> 0, lastTokenAru |-> 0, exits |-> {}]
  BY <1>1, <1>2, <1>3, <1>4, <1>16 DEF OldRing
<1>18. /\ DOMAIN r = Globals /\ r.mode = "idle" /\ r.ring = None /\ r.highest = H
       /\ r.myAru = C /\ r.aru = A /\ r.lastDiscarded = A /\ r.exist = x /\ r.handed = h
       /\ r.signal = 0 /\ r.trans = {} /\ r.commit = c /\ r.fcommit = f /\ r.lastSeq = 0
       /\ r.lastTokenAru = 0 /\ r.exits = {}
  BY <1>17 DEF Globals
<1>19. Typed(r)
  BY <1>7, <1>12, <1>15, <1>18 DEF Typed, None
<1>20. C <= H
  <2>1. CASE C = 0
    BY <2>1
  <2>2. CASE C # 0
    <3>1. C \in T
      BY <1>7, <2>2
    <3> QED
      BY <1>1, <3>1
  <2> QED
    BY <2>1, <2>2
<1>21. \A n \in 1..A, e \in Daemons : n \in had[e]
  <2>1. ASSUME NEW n \in 1..A, NEW e \in Daemons PROVE n \in had[e]
    <3>1. had[e] \in SUBSET Seqs
      OBVIOUS
    <3>2. Contiguous(had[e]) \in Nat /\ 1..Contiguous(had[e]) \subseteq had[e]
          /\ A <= Contiguous(had[e])
      BY <3>1, ContiguousIs
    <3> QED
      BY <3>2
  <2> QED
    BY <2>1
<1>22. \A n \in Seqs : n <= C => n \in T
  BY <1>5, <1>7
<1>23. Buffer(had, r)
  <2>1. \A n \in Seqs : x[n] # 0 => A < n /\ n <= H
    BY <1>1, <1>5, <1>15
  <2>2. \A n \in Seqs : A < n /\ n <= C => x[n] # 0
    BY <1>5, <1>15, <1>22
  <2>3. A <= H /\ \A n \in Seqs : x[n] # 3
    BY <1>7, <1>15, <1>20
  <2> QED
    BY <1>7, <1>18, <1>20, <1>21, <2>1, <2>2, <2>3 DEF Buffer
<1>24. Clients(had, r, d)
  <2>1. HandedIn(r) = S
    BY <1>13, <1>18 DEF HandedIn
  <2>2. \A n \in Seqs : n \in S <=> n <= A \/ x[n] = 2
    BY <1>9, <1>15
  <2> QED
    BY <1>1, <1>9, <1>18, <2>1, <2>2 DEF Clients
<1>25. ASSUME NEW k PROVE Commitment(had, r, k, d)
  <2>1. \A n \in T : Kept(r, k, n)
    BY <1>6, <1>15, <1>18 DEF Kept, KeepsIn
  <2>2. \A n \in Seqs : Had(had, d, n) => n <= C /\ n \in T
    <3>1. \A n \in Seqs : Had(had, d, n) => n <= C
      BY <1>1, <1>7 DEF Had
    <3> QED
      BY <1>22, <3>1
  <2>3. Knows(had, r, k, d)
    BY <2>1, <2>2 DEF Knows
  <2> QED
    BY <1>1, <1>4, <1>18, <2>1, <2>2, <2>3 DEF Commitment
<1> QED
  BY <1>14, <1>16, <1>18, <1>19, <1>23, <1>24, <1>25 DEF OldFacts, Waits

LEMMA InitKeeps == Init => IInv
<1> SUFFICES ASSUME Init PROVE IInv
  OBVIOUS
<1>1. /\ had \in [Daemons -> SUBSET Seqs] /\ (\A s \in Seqs : s \in had[Packets[s].from])
      /\ tokens = <<>>
  BY DEF Init
<1>2. PICK C : C = {Contiguous(had[d]) : d \in Daemons}
  OBVIOUS
<1>3. PICK aru \in [Daemons -> 0..Min(C)] :
        st = [d \in Daemons |-> OldRing(d, aru[d],
                IF d \in Ahead THEN Len(Packets) ELSE Max({0} \cup had[d]))]
  BY <1>2 DEF Init
<1>4. /\ Len(Packets) \in Nat /\ Seqs = 1..Len(Packets)
  BY Constants
<1>5. \A d \in Daemons : Contiguous(had[d]) \in Nat
  <2>1. ASSUME NEW d \in Daemons PROVE Contiguous(had[d]) \in Nat
    <3>1. had[d] \in SUBSET Seqs
      BY <1>1
    <3> QED
      BY <3>1, ContiguousIs
  <2> QED
    BY <2>1
<1>6. Min(C) \in Nat /\ \A d \in Daemons : Min(C) <= Contiguous(had[d])
  <2>1. C \in SUBSET Nat /\ C # {} /\ \A d \in Daemons : Contiguous(had[d]) \in C
    <3>1. 1 \in Daemons
      BY Constants
    <3> QED
      BY <1>2, <1>5, <3>1
  <2>2. Min(C) \in C /\ \A y \in C : Min(C) <= y
    BY <2>1, MinOf
  <2> QED
    BY <2>1, <2>2
<1>7. ASSUME NEW d \in Daemons PROVE OldFacts(had, st[d], d)
  <2>1. PICK A, H : A = aru[d] /\ H = IF d \in Ahead THEN Len(Packets) ELSE Max({0} \cup had[d])
    OBVIOUS
  <2>2. A \in Nat /\ A <= Min(C) /\ \A e \in Daemons : A <= Contiguous(had[e])
    <3>1. A \in 0..Min(C)
      BY <1>3, <2>1
    <3> QED
      BY <1>5, <1>6, <3>1
  <2>3. H \in Nat /\ H <= Len(Packets) /\ \A n \in had[d] : n <= H
    <3>1. PICK T : T = {0} \cup had[d]
      OBVIOUS
    <3>2. T \in SUBSET Nat /\ T # {} /\ (\A n \in T : n <= Len(Packets)) /\ had[d] \subseteq T
      BY <1>1, <1>4, <3>1
    <3>3. Max(T) \in T /\ \A n \in T : Max(T) >= n
      BY <1>4, <3>2, MaxOf
    <3>4. \A n \in had[d] : n \in T /\ n \in Nat /\ n <= Len(Packets)
      BY <3>2
    <3>5. CASE d \in Ahead
      BY <1>4, <2>1, <3>4, <3>5
    <3>6. CASE d \notin Ahead
      <4>1. H = Max(T)
        BY <2>1, <3>1, <3>6
      <4>2. H \in T /\ \A n \in T : H >= n
        BY <3>3, <4>1
      <4>3. H \in Nat /\ H <= Len(Packets)
        BY <3>2, <4>2
      <4>4. \A n \in had[d] : n <= H
        BY <3>4, <4>2, <4>3
      <4> QED
        BY <4>3, <4>4
    <3> QED
      BY <3>5, <3>6
  <2>4. st[d] = OldRing(d, A, H)
    BY <1>3, <2>1
  <2> QED
    BY <1>1, <2>2, <2>3, <2>4, OldRingIs
<1>8. \A d \in Daemons : DaemonInv(had, st, tokens, d)
  BY <1>7 DEF OldFacts, DaemonInv
<1>9. /\ DOMAIN tokens = 1..0 /\ DOMAIN tokens = {}
      /\ tokens = [a \in DOMAIN tokens |-> tokens[a]]
  BY <1>1
<1>10. DOMAIN st = Daemons
  BY <1>3
<1>11. \A d \in Daemons : st[d].mode # "op"
  BY <1>7 DEF OldFacts
<1>12. Inv(had, st, tokens)
  <2>1. 0 \in Nat
    OBVIOUS
  <2> QED
    BY <1>1, <1>8, <1>9, <1>10, <1>11, <2>1 DEF Inv
<1> QED
  BY <1>9, <1>12 DEF IInv

-----------------------------------------------------------------------------
(* The actions.                                                            *)

LEMMA CreateForm1Keeps ==
  ASSUME IInv, NEW d \in Daemons, NEW others \in SUBSET (Daemons \ {d}), CreateForm1(d, others)
  PROVE  IInv'
<1>1. PICK s2, k2, x, t, a : /\ s2 = st' /\ k2 = tokens' /\ a = Len(tokens) + 1
                             /\ x = InFormOf(st[d], Len(tokens) + 1)
                             /\ t = Passed(NewForm(d, others, st[d]))
  OBVIOUS
<1>2. /\ Inv(had, st, tokens) /\ tokens = [b \in DOMAIN tokens |-> tokens[b]]
      /\ DOMAIN st = Daemons
  BY DEF IInv, Inv
<1>3. PICK m \in Nat : DOMAIN tokens = 1..m
  BY <1>2 DEF Inv
<1>4. PICK S : S = {tokens[b] : b \in 1..m} \cup {t}
  OBVIOUS
<1>5. tokens \in Seq(S) /\ Len(tokens) = m /\ t \in S
  <2>1. tokens \in [1..m -> S]
    BY <1>2, <1>3, <1>4
  <2> QED
    BY <1>4, <2>1
<1>6. /\ st[d].mode = "idle" /\ s2 = [st EXCEPT ![d] = x] /\ k2 = Append(tokens, t)
      /\ had' = had
  BY <1>1 DEF CreateForm1, InFormOf, NewForm
<1>7. /\ k2 \in Seq(S) /\ Len(k2) = m + 1 /\ k2[m + 1] = t
      /\ \A b \in 1..m : k2[b] = tokens[b]
  BY <1>5, <1>6, AppendProperties
<1>8. DOMAIN k2 = 1..a /\ a = m + 1 /\ k2 = [b \in DOMAIN k2 |-> k2[b]]
  BY <1>1, <1>5, <1>7
<1>9. s2[d] = x /\ DOMAIN s2 = Daemons /\ \A e \in Daemons : e # d => s2[e] = st[e]
  BY <1>2, <1>6
<1>10. s2[d] = InFormOf(st[d], a) /\ k2[a] = Passed(NewForm(d, others, st[d]))
  BY <1>1, <1>7, <1>8, <1>9
<1>11. Inv(had, s2, k2)
  <2>1. PICK g, s, k : g = had /\ s = st /\ k = tokens
    OBVIOUS
  <2>2. Inv(g, s, k)
    BY <1>2, <2>1
  <2>3. Created(s, k, s2, k2, d, others, m)
    <3>1. /\ s[d].mode = "idle" /\ m \in Nat
          /\ DOMAIN k = 1..m /\ DOMAIN k2 = 1..(m + 1) /\ DOMAIN s2 = Daemons
          /\ s2[d] = InFormOf(s[d], m + 1)
          /\ k2[m + 1] = Passed(NewForm(d, others, s[d]))
      BY <1>3, <1>6, <1>8, <1>9, <1>10, <2>1
    <3>2. \A e \in Daemons : e # d => s2[e] = s[e]
      BY <1>9, <2>1
    <3>3. \A b \in 1..m : k2[b] = k[b]
      BY <1>7, <2>1
    <3> QED
      BY <3>1, <3>2, <3>3 DEF Created
  <2>4. Inv(g, s2, k2)
    BY <2>2, <2>3, CreateKeeps
  <2> QED
    BY <2>1, <2>4
<1> QED
  BY <1>1, <1>6, <1>8, <1>11 DEF IInv

LEMMA FillForm1Keeps ==
  ASSUME IInv, NEW d \in Daemons, NEW a, a \in Attempts, FillForm1(a, d)
  PROVE  IInv'
<1>1. PICK s2, k2, x, t : /\ s2 = st' /\ k2 = tokens' /\ x = InFormOf(st[d], a)
                          /\ t = FilledForm(tokens[a], d, st[d])
  OBVIOUS
<1>2. /\ Inv(had, st, tokens) /\ DOMAIN st = Daemons /\ a \in DOMAIN tokens
  BY DEF IInv, Inv, Attempts
<1>3. /\ st[d].mode = "idle" /\ tokens[a].kind = "form1" /\ d \in tokens[a].rest
      /\ s2 = [st EXCEPT ![d] = x] /\ k2 = [tokens EXCEPT ![a] = t] /\ had' = had
  BY <1>1 DEF FillForm1, InFormOf, FilledForm
<1>4. s2[d] = x /\ DOMAIN s2 = Daemons /\ \A e \in Daemons : e # d => s2[e] = st[e]
  BY <1>2, <1>3
<1>5. /\ k2[a] = t /\ DOMAIN k2 = DOMAIN tokens /\ \A b \in DOMAIN tokens : b # a => k2[b] = tokens[b]
      /\ k2 = [b \in DOMAIN k2 |-> k2[b]]
  BY <1>2, <1>3
<1>6. Inv(had, s2, k2)
  <2>1. PICK g, s, k : g = had /\ s = st /\ k = tokens
    OBVIOUS
  <2>2. /\ Inv(g, s, k) /\ s[d].mode = "idle" /\ a \in DOMAIN k /\ k[a].kind = "form1"
        /\ d \in k[a].rest /\ DOMAIN k2 = DOMAIN k /\ DOMAIN s2 = Daemons
    BY <1>2, <1>3, <1>4, <1>5, <2>1
  <2>3. /\ s2[d] = InFormOf(s[d], a) /\ k2[a] = FilledForm(k[a], d, s[d])
        /\ \A e \in Daemons : e # d => s2[e] = s[e]
        /\ \A b \in DOMAIN k : b # a => k2[b] = k[b]
    BY <1>1, <1>4, <1>5, <2>1
  <2>4. Inv(g, s2, k2)
    BY <2>2, <2>3, FillKeeps
  <2> QED
    BY <2>1, <2>4
<1> QED
  BY <1>1, <1>3, <1>5, <1>6 DEF IInv

LEMMA ReadForm2Keeps ==
  ASSUME IInv, NEW d \in Daemons, NEW a, a \in Attempts, ReadForm2(a, d)
  PROVE  IInv'
<1>1. PICK s2, k2, t, u, r : /\ s2 = st' /\ k2 = tokens' /\ t = tokens[a] /\ r = st[d]
                             /\ u = AfterForm2(tokens[a], d)
  OBVIOUS
<1>2. PICK v : v = Discard([r EXCEPT !.highest = t.rg.highest, !.aru = t.rg.aru])
  OBVIOUS
<1>3. PICK x : x = Form2Read(v, t)
  OBVIOUS
<1>4. /\ Inv(had, st, tokens) /\ DOMAIN st = Daemons /\ a \in DOMAIN tokens
  BY DEF IInv, Inv, Attempts
<1>5. /\ t.kind = "form2" /\ d = Min(t.rest) /\ InForm(st, a, d) /\ had' = had
      /\ s2 = [st EXCEPT ![d] = x]
      /\ k2 = [tokens EXCEPT ![a] = Sent(a, u)]
  <2>1. /\ t.kind = "form2" /\ d = Min(t.rest) /\ InForm(st, a, d) /\ had' = had
    BY <1>1 DEF ReadForm2, InForm
  <2>2. s2 = [st EXCEPT ![d] = x]
    BY SMTT(30), <1>1, <1>2, <1>3 DEF ReadForm2, Form2Read
  <2>3. k2 = [tokens EXCEPT ![a] = Sent(a, u)]
    BY <1>1 DEF ReadForm2, AfterForm2
  <2> QED
    BY <2>1, <2>2, <2>3
<1>6. d \in t.rest
  <2>1. t.rest \in SUBSET Nat /\ t.rest # {}
    <3>1. TokenTyped(t)
      BY <1>1, <1>4 DEF Inv, TokenInv
    <3>2. t.rest \subseteq Daemons /\ t.rest # {}
      BY <1>5, <3>1 DEF TokenTyped
    <3> QED
      BY <3>2, Constants
  <2> QED
    BY <1>5, <2>1, MinOf
<1>7. HasReadForm2(x, r, t)
  <2>1. Form2Facts(had, st[d], tokens[a], d)
    BY <1>1, <1>4, <1>5, Form2Knows
  <2>2. Form2Facts(had, r, t, d)
    BY <1>1, <2>1
  <2>3. DiscardedTo(v, r, t)
    BY <1>2, <2>2, Form2Discards
  <2> QED
    BY <1>3, <2>2, <2>3, Form2ReadIs
<1>8. s2[d] = x /\ DOMAIN s2 = Daemons /\ \A e \in Daemons : e # d => s2[e] = st[e]
  BY <1>4, <1>5
<1>9. /\ k2[a] = u \/ k2[a] = Swallowed(u)
      /\ DOMAIN k2 = DOMAIN tokens /\ \A b \in DOMAIN tokens : b # a => k2[b] = tokens[b]
      /\ k2 = [b \in DOMAIN k2 |-> k2[b]]
  <2>1. PICK q : q = Sent(a, u)
    OBVIOUS
  <2>2. q = u \/ q = Swallowed(u)
    BY <2>1 DEF Sent
  <2>3. k2 = [tokens EXCEPT ![a] = q]
    BY <1>5, <2>1
  <2> QED
    BY <1>4, <2>2, <2>3
<1>10. Inv(had, s2, k2)
  <2>1. /\ tokens[a].kind = "form2" /\ d \in tokens[a].rest /\ InForm(st, a, d)
        /\ HasReadForm2(s2[d], st[d], tokens[a])
        /\ k2[a] = AfterForm2(tokens[a], d) \/ k2[a] = Swallowed(AfterForm2(tokens[a], d))
    BY <1>1, <1>5, <1>6, <1>7, <1>8, <1>9
  <2> QED
    BY <1>4, <1>8, <1>9, <2>1, Form2Keeps
<1> QED
  BY <1>1, <1>5, <1>9, <1>10 DEF IInv

LEMMA HandleTokenKeeps ==
  ASSUME NumbersFit, IInv, NEW d \in Daemons, NEW a, a \in Attempts, HandleToken(a, d)
  PROVE  IInv'
<1>1. PICK s2, k2, t, r : s2 = st' /\ k2 = tokens' /\ t = tokens[a] /\ r = st[d]
  OBVIOUS
<1>2. PICK w, wants : w = TurnedUp(r, t) /\ wants = AskedBy(r, t)
  OBVIOUS
<1>3. PICK aru : aru = AruSent(w, t, d)
  OBVIOUS
<1>4. PICK v, to : /\ v = TurnedOn(w, r, aru)
                   /\ to = IF wants # {} /\ Answered(r, t) = t.rtr THEN d ELSE Everyone
  OBVIOUS
<1>5. PICK u : u = SentOn(w, t, d, wants, to)
  OBVIOUS
<1>6. /\ Inv(had, st, tokens) /\ DOMAIN st = Daemons /\ a \in DOMAIN tokens
  BY DEF IInv, Inv, Attempts
<1>7. /\ t.kind = "regular" /\ t.rest = {d} /\ InEvs(st, a, d) /\ had' = had
  BY <1>1 DEF HandleToken, InEvs
<1>8. /\ s2 = [st EXCEPT ![d] =
           IF AruOf(aru, r.lastTokenAru) > v.lastDiscarded
              /\ AruOf(aru, r.lastTokenAru) = v.lastSeq
           THEN Install(d, v) ELSE v]
      /\ k2 = [tokens EXCEPT ![a] = Sent(a, u)]
  <2>1. PICK q : q = RaiseMyAru(Alarm(r, "Answer_retrans", \E n \in t.rtr : n < r.aru))
    OBVIOUS
  <2>2. wants = Lowest(Holes(q, q.myAru + 1, q.highest)) /\ w = Committed(q)
    BY <1>2, <2>1 DEF TurnedUp, AskedBy, Wants
  <2>3. PICK take : take = TakesAru(d, w, t)
    OBVIOUS
  <2>4. aru = IF take THEN w.myAru ELSE t.aru
    BY <1>3, <2>3 DEF AruSent
  <2>5. PICK new : new = AruOf(aru, r.lastTokenAru)
    OBVIOUS
  <2>6. v = Alarm([w EXCEPT !.aru = new, !.lastTokenAru = aru],
                  "illegally lowering Aru", new < w.aru)
    BY <1>4, <2>5 DEF TurnedOn
  <2>7. u = [t EXCEPT !.rest = {Succ(t, d)}, !.aru = aru,
                      !.aruLast = IF take THEN d ELSE @, !.rtr = wants, !.rtrTo = to]
    BY <1>3, <1>5, <2>3 DEF SentOn
  <2>8. /\ st' = [st EXCEPT ![d] =
             IF new > v.lastDiscarded /\ new = v.lastSeq THEN Install(d, v) ELSE v]
        /\ tokens' = [tokens EXCEPT ![a] = Sent(a,
             [t EXCEPT !.rest = {Succ(t, d)}, !.aru = aru,
                       !.aruLast = IF take THEN d ELSE @, !.rtr = wants,
                       !.rtrTo = IF wants # {} /\ Answered(r, t) = t.rtr
                                 THEN d ELSE Everyone])]
    <3> DEFINE Lowered(x, y, z) ==
                 Alarm([x EXCEPT !.aru = z, !.lastTokenAru = y],
                       "illegally lowering Aru", z < x.aru)
               Asked(x, y) ==
                 RaiseMyAru(Alarm(y, "Answer_retrans", \E n \in x.rtr : n < y.aru))
               Ends(x, y, b, c, e, f, z) ==
                 /\ st' = [st EXCEPT ![d] =
                      IF f > z.lastDiscarded /\ f = z.lastSeq THEN Install(d, z) ELSE z]
                 /\ tokens' = [tokens EXCEPT ![a] = Sent(a,
                      [x EXCEPT !.rest = {Succ(x, d)}, !.aru = e,
                                !.aruLast = IF c THEN d ELSE @, !.rtr = b,
                                !.rtrTo = IF b # {} /\ Answered(y, x) = x.rtr
                                          THEN d ELSE Everyone])]
    <3>1. \E x \in {tokens[a]}, y \in {st[d]} :
          \E r1 \in {Asked(x, y)} :
          \E b \in {Lowest(Holes(r1, r1.myAru + 1, r1.highest))} :
          \E r2 \in {Committed(r1)} :
          \E c \in {TakesAru(d, r2, x)} :
          \E e \in {IF c THEN r2.myAru ELSE x.aru} :
          \E f \in {AruOf(e, y.lastTokenAru)} :
          \E z \in {Lowered(r2, e, f)} : Ends(x, y, b, c, e, f, z)
      BY DEF HandleToken
    <3>2. q = Asked(t, r) /\ v = Lowered(w, aru, new)
      BY <2>1, <2>6
    <3> HIDE DEF Lowered, Asked, Ends
    <3>3. \E b \in {Lowest(Holes(q, q.myAru + 1, q.highest))} :
          \E r2 \in {Committed(q)} :
          \E c \in {TakesAru(d, r2, t)} :
          \E e \in {IF c THEN r2.myAru ELSE t.aru} :
          \E f \in {AruOf(e, r.lastTokenAru)} :
          \E z \in {Lowered(r2, e, f)} : Ends(t, r, b, c, e, f, z)
      BY <1>1, <3>1, <3>2
    <3>4. \E f \in {AruOf(aru, r.lastTokenAru)} :
          \E z \in {Lowered(w, aru, f)} : Ends(t, r, wants, take, aru, f, z)
      BY <2>2, <2>3, <2>4, <3>3
    <3>5. Ends(t, r, wants, take, aru, new, v)
      BY <2>5, <3>2, <3>4
    <3> QED
      BY <3>5 DEF Ends
  <2>9. st' = [st EXCEPT ![d] =
             IF AruOf(aru, r.lastTokenAru) > v.lastDiscarded
                /\ AruOf(aru, r.lastTokenAru) = v.lastSeq
             THEN Install(d, v) ELSE v]
    BY <2>5, <2>8
  <2>10. tokens' = [tokens EXCEPT ![a] = Sent(a, u)]
    BY <1>4, <2>7, <2>8
  <2> QED
    BY <1>1, <2>9, <2>10
<1>9. v.aru = AruOf(aru, r.lastTokenAru)
  <2>1. TurnFacts(had, st, tokens, a, d, r, t)
    BY <1>1, <1>6, <1>7, TurnKnows
  <2>2. Turned(TurnedOn(w, r, aru), r, aru)
    BY <1>2, <1>3, <2>1, Turns
  <2> QED
    BY <1>4, <2>2 DEF Turned
<1>10. s2[d] = AfterTurn(d, v) /\ DOMAIN s2 = Daemons /\ \A e \in Daemons : e # d => s2[e] = st[e]
  <2>1. PICK q : q = AfterTurn(d, v)
    OBVIOUS
  <2>2. s2 = [st EXCEPT ![d] = q]
    BY <1>8, <1>9, <2>1 DEF AfterTurn
  <2> QED
    BY <1>6, <2>1, <2>2
<1>11. /\ k2[a] = u \/ k2[a] = Swallowed(u)
       /\ DOMAIN k2 = DOMAIN tokens /\ \A b \in DOMAIN tokens : b # a => k2[b] = tokens[b]
       /\ k2 = [b \in DOMAIN k2 |-> k2[b]]
  <2>1. PICK q : q = Sent(a, u)
    OBVIOUS
  <2>2. q = u \/ q = Swallowed(u)
    BY <2>1 DEF Sent
  <2>3. k2 = [tokens EXCEPT ![a] = q]
    BY <1>8, <2>1
  <2> QED
    BY <1>6, <2>2, <2>3
<1>12. Inv(had, s2, k2)
  <2>1. /\ tokens[a].kind = "regular" /\ tokens[a].rest = {d}
        /\ w = TurnedUp(st[d], tokens[a]) /\ v = TurnedOn(w, st[d], AruSent(w, tokens[a], d))
        /\ u = SentOn(w, tokens[a], d, AskedBy(st[d], tokens[a]), to)
    BY <1>1, <1>2, <1>3, <1>4, <1>5, <1>7
  <2> QED
    BY <1>6, <1>7, <1>10, <1>11, <2>1, HandleKeeps
<1> QED
  BY <1>1, <1>7, <1>11, <1>12 DEF IInv

LEMMA HandleBcastKeeps ==
  ASSUME IInv, counted', NEW d \in Daemons, NEW n \in Seqs, HandleBcast(d, n)
  PROVE  IInv'
<1>1. PICK s2, x, r : s2 = st' /\ r = st[d] /\ x = WithPacket(st[d], n)
  OBVIOUS
<1>2. /\ Inv(had, st, tokens) /\ tokens = [b \in DOMAIN tokens |-> tokens[b]]
      /\ DOMAIN st = Daemons /\ Typed(r) /\ had \in [Daemons -> SUBSET Seqs]
  BY <1>1 DEF IInv, Inv, DaemonInv
<1>3. /\ r.mode # "op" /\ n > r.lastDiscarded /\ r.exist[n] = 0
      /\ r.mode # "idle" => CountedIn(st, tokens[r.ring], n)
      /\ s2 = [st EXCEPT ![d] = x] /\ tokens' = tokens /\ had' = had
  BY <1>1 DEF HandleBcast, Has, CountsIn, CountedIn, WithPacket
<1>4. s2[d] = x /\ DOMAIN s2 = Daemons /\ \A e \in Daemons : e # d => s2[e] = st[e]
  BY <1>2, <1>3
<1>5. Received(s2[d], st[d], n)
  <2>1. Received(WithPacket(r, n), r, n)
    BY <1>2, WithPacketIs
  <2> QED
    BY <1>1, <1>4, <2>1
<1>6. /\ st[d].mode # "op" /\ st[d].lastDiscarded < n /\ st[d].exist[n] = 0
      /\ st[d].mode # "idle" => CountedIn(st, tokens[st[d].ring], n)
  <2>1. r.lastDiscarded \in Nat /\ n \in Nat
    BY <1>2, Constants DEF Typed
  <2> QED
    BY <1>1, <1>3, <2>1
<1>7. Inv(had, s2, tokens)
  BY <1>2, <1>4, <1>5, <1>6, BcastKeeps
<1> QED
  BY <1>1, <1>2, <1>3, <1>7 DEF IInv

LEMMA TokenLossKeeps ==
  ASSUME IInv, NEW d \in Daemons, TokenLoss(d)
  PROVE  IInv'
<1>1. PICK s2, k2, r, a : s2 = st' /\ k2 = tokens' /\ r = st[d] /\ a = st[d].ring
  OBVIOUS
<1>2. PICK x, t : /\ x = WithoutToken(r)
                  /\ t = IF tokens[a].kind \in {"form2", "regular"} /\ d = Min(tokens[a].rest)
                         THEN Swallowed(tokens[a]) ELSE tokens[a]
  OBVIOUS
<1>3. /\ Inv(had, st, tokens) /\ DOMAIN st = Daemons /\ Typed(r)
      /\ r.mode # "idle" => a \in DOMAIN tokens
  BY <1>1 DEF IInv, Inv, DaemonInv
<1>4. /\ r.mode \in {"form", "evs"} /\ s2 = [st EXCEPT ![d] = x]
      /\ k2 = [tokens EXCEPT ![a] = t] /\ had' = had
  <2>1. r.mode \in {"form", "evs"} /\ had' = had
    BY <1>1 DEF TokenLoss
  <2>2. s2 = [st EXCEPT ![d] = x]
    BY <1>1, <1>2 DEF TokenLoss, WithoutToken
  <2>3. k2 = [tokens EXCEPT ![a] = t]
    BY <1>1, <1>2, <1>3, <2>1 DEF TokenLoss
  <2> QED
    BY <2>1, <2>2, <2>3
<1>5. s2[d] = x /\ DOMAIN s2 = Daemons /\ \A e \in Daemons : e # d => s2[e] = st[e]
  BY <1>3, <1>4
<1>6. /\ k2[a] = tokens[a] \/ k2[a] = Swallowed(tokens[a])
      /\ DOMAIN k2 = DOMAIN tokens /\ \A b \in DOMAIN tokens : b # a => k2[b] = tokens[b]
      /\ k2 = [b \in DOMAIN k2 |-> k2[b]]
  <2>1. t = tokens[a] \/ t = Swallowed(tokens[a])
    BY <1>2
  <2> QED
    BY <1>3, <1>4, <2>1
<1>7. Lost(s2[d], st[d]) /\ st[d].mode \in {"form", "evs"}
  <2>1. Lost(WithoutToken(r), r)
    BY <1>3, WithoutTokenIs
  <2> QED
    BY <1>1, <1>2, <1>4, <1>5, <2>1
<1>8. Inv(had, s2, k2)
  BY <1>1, <1>3, <1>5, <1>6, <1>7, LossKeeps
<1> QED
  BY <1>1, <1>4, <1>6, <1>8 DEF IInv

LEMMA NextKeeps == NumbersFit /\ IInv /\ [Next]_vars /\ counted' => IInv'
<1> SUFFICES ASSUME NumbersFit, IInv, [Next]_vars, counted' PROVE IInv'
  OBVIOUS
<1>1. CASE Next
  BY <1>1, CreateForm1Keeps, FillForm1Keeps, ReadForm2Keeps, HandleTokenKeeps,
     HandleBcastKeeps, TokenLossKeeps DEF Next
<1>2. CASE UNCHANGED vars
  <2>1. st' = st /\ tokens' = tokens /\ had' = had
    BY <1>2 DEF vars
  <2>2. PICK g, s, k : g = had /\ s = st /\ k = tokens
    OBVIOUS
  <2>3. Inv(g, s, k) /\ g = had' /\ s = st' /\ k = tokens' /\ k = [a \in DOMAIN k |-> k[a]]
    BY <2>1, <2>2 DEF IInv
  <2> QED
    BY <2>3 DEF IInv
<1> QED
  BY <1>1, <1>2

-----------------------------------------------------------------------------
(* What the daemons promise.                                               *)

LEMMA KeepsIs ==
  ASSUME NEW d \in Daemons, NEW n \in Seqs, KeepsIn(st[d], n)
  PROVE  Keeps(d, n)
BY DEF KeepsIn, Keeps, Installed, Handed, HandedIn

LEMMA KnownIsKept ==
  ASSUME IInv, NEW d \in Daemons, NEW n \in Seqs, Had(had, d, n)
  PROVE  Keeps(d, n)
<1>1. DaemonInv(had, st, tokens, d)
  BY DEF IInv, Inv
<1>2. n \in had[d]
  BY Constants DEF Had
<1>3. CASE st[d].mode = "op"
  <2>1. n \in HandedIn(st[d])
    BY <1>1, <1>3 DEF DaemonInv, Arrived
  <2> QED
    BY <1>3, <2>1, KeepsIs DEF KeepsIn
<1>4. CASE st[d].mode # "op"
  <2>1. Kept(st[d], tokens, n)
    BY <1>1, <1>2, <1>4 DEF DaemonInv, Waits, Commitment
  <2> QED
    BY <2>1, KeepsIs DEF Kept
<1> QED
  BY <1>3, <1>4

LEMMA VirtualSynchronyHolds == IInv => VirtualSynchrony
<1> SUFFICES ASSUME IInv PROVE VirtualSynchrony
  OBVIOUS
<1>1. \A d \in Daemons : OrderedOnce(d)
  BY DEF IInv, Inv, DaemonInv, Ordered, OrderedOnce
<1>2. ASSUME NEW d \in Daemons, NEW e \in Daemons, Installed(d), Installed(e),
             st[d].ring = st[e].ring, NEW n \in Seqs
      PROVE  \/ Reliable(n)
             \/ /\ n \in Handed(d) <=> n \in Handed(e)
                /\ n \in BeforeSignalOf(d) <=> n \in BeforeSignalOf(e)
  <2>1. Same(st[d], st[e])
    BY <1>2 DEF IInv, Inv, Installed
  <2>2. BeforeSignalOf(d) = FirstIn(st[d]) /\ BeforeSignalOf(e) = FirstIn(st[e])
    BY <1>2 DEF BeforeSignalOf, FirstIn
  <2>3. Handed(d) = HandedIn(st[d]) /\ Handed(e) = HandedIn(st[e])
    BY DEF Handed, HandedIn
  <2> QED
    BY <2>1, <2>2, <2>3 DEF Same
<1> QED
  BY <1>1, <1>2 DEF VirtualSynchrony

LEMMA SafeDeliveryHolds == IInv => SafeDelivery
<1> SUFFICES ASSUME IInv, NEW d \in Daemons, NEW n \in Handed(d)
             PROVE  /\ IsSafe(n) /\ n \in BeforeSignalOf(d) => \A e \in Daemons : Keeps(e, n)
                    /\ Installed(d) /\ ~Reliable(n) => \A e \in st[d].trans : Keeps(e, n)
  BY DEF SafeDelivery
<1>0. Handed(d) = HandedIn(st[d]) /\ Handed(d) \subseteq Seqs
  <2>1. Handed(d) = HandedIn(st[d])
    BY DEF Handed, HandedIn
  <2>2. Typed(st[d])
    BY DEF IInv, Inv, DaemonInv
  <2> QED
    BY <2>1, <2>2, HandedSeqs
<1>1. n \in Seqs /\ n \in Nat /\ n \in HandedIn(st[d])
  BY <1>0, Constants
<1>2. DaemonInv(had, st, tokens, d)
  BY DEF IInv, Inv
<1>3. CASE Installed(d)
  <2>1. Arrived(had, st, tokens, d)
    BY <1>2, <1>3 DEF DaemonInv, Installed
  <2>2. ASSUME IsSafe(n), n \in BeforeSignalOf(d), NEW e \in Daemons PROVE Keeps(e, n)
    <3>1. n \in FirstIn(st[d])
      BY <1>3, <2>2 DEF BeforeSignalOf, FirstIn
    <3>2. Had(had, e, n)
      BY <2>1, <2>2, <3>1 DEF Arrived
    <3> QED
      BY <1>1, <3>2, KnownIsKept
  <2>3. ASSUME ~Reliable(n), NEW e \in st[d].trans PROVE Keeps(e, n)
    <3>1. e \in Daemons
      BY <1>2 DEF DaemonInv, Typed
    <3>2. Firm(st[e], tokens, n)
      BY <1>1, <2>1, <2>3 DEF Arrived
    <3> QED
      BY <1>1, <3>1, <3>2, KeepsIs DEF Firm, Kept
  <2> QED
    BY <2>2, <2>3
<1>4. CASE ~Installed(d)
  <2>1. Buffer(had, st[d]) /\ Clients(had, st[d], d) /\ st[d].lastDiscarded \in Nat
    BY <1>2, <1>4 DEF DaemonInv, Waits, Installed, Typed
  <2>2. ASSUME IsSafe(n), NEW e \in Daemons PROVE Keeps(e, n)
    <3>1. ~Reliable(n)
      BY <2>2 DEF IsSafe, Reliable
    <3>2. n <= st[d].lastDiscarded
      BY <1>1, <2>1, <2>2, <3>1, Constants DEF Clients
    <3>3. Had(had, e, n)
      <4>1. PICK l \in Nat : l = st[d].lastDiscarded
        BY <2>1
      <4>2. \A u \in 1..l : u \in had[e]
        BY <2>1, <4>1 DEF Buffer
      <4>3. \A u \in 1..n : u \in 1..l
        BY <1>1, <3>2, <4>1
      <4> QED
        BY <4>2, <4>3 DEF Had
    <3> QED
      BY <1>1, <3>3, KnownIsKept
  <2> QED
    BY <1>4, <2>2
<1> QED
  BY <1>3, <1>4

LEMMA SelfDeliveryHolds == IInv => SelfDelivery
<1> SUFFICES ASSUME IInv, NEW d \in Daemons, Installed(d), NEW n \in Seqs, Packets[n].from = d
             PROVE  n \in Handed(d)
  BY DEF SelfDelivery
<1>1. Arrived(had, st, tokens, d)
  BY DEF IInv, Inv, DaemonInv, Installed
<1>2. Handed(d) = HandedIn(st[d])
  BY DEF Handed, HandedIn
<1> QED
  BY <1>1, <1>2 DEF Arrived

LEMMA CausalDeliveryHolds == IInv => CausalDelivery
<1> SUFFICES ASSUME IInv, NEW d \in Daemons, NEW n \in Handed(d), ~Reliable(n),
                    NEW c \in Caused(n)
             PROVE  c \in Handed(d)
  BY DEF CausalDelivery
<1>0. Handed(d) = HandedIn(st[d]) /\ Handed(d) \subseteq Seqs
  <2>1. Handed(d) = HandedIn(st[d])
    BY DEF Handed, HandedIn
  <2>2. Typed(st[d])
    BY DEF IInv, Inv, DaemonInv
  <2> QED
    BY <2>1, <2>2, HandedSeqs
<1>1. n \in Seqs /\ n \in Nat /\ n \in HandedIn(st[d])
  BY <1>0, Constants
<1>2. c \in CausedIn(had, n) /\ c \in 1..n
  BY <1>1 DEF Caused, CausedIn, Had
<1>3. DaemonInv(had, st, tokens, d)
  BY DEF IInv, Inv
<1>4. CASE Installed(d)
  <2>1. Arrived(had, st, tokens, d)
    BY <1>3, <1>4 DEF DaemonInv, Installed
  <2> QED
    BY <1>0, <1>1, <1>2, <2>1 DEF Arrived
<1>5. CASE ~Installed(d)
  <2>1. Clients(had, st[d], d)
    BY <1>3, <1>5 DEF DaemonInv, Waits, Installed
  <2> QED
    BY <1>0, <1>1, <1>2, <2>1 DEF Clients
<1> QED
  BY <1>4, <1>5

LEMMA InstalledTogetherHolds == IInv => InstalledTogether
<1> SUFFICES ASSUME IInv, NEW a \in Attempts, NEW d \in tokens[a].rest,
                    tokens[a].kind = "regular", Installed(d), st[d].ring = a,
                    NEW e \in tokens[a].members
             PROVE  Installed(e) /\ st[e].ring = a
  BY DEF InstalledTogether
<1>1. TokenInv(had, st, tokens, a)
  BY DEF IInv, Inv, Attempts
<1>2. d \in Daemons /\ e \in Daemons /\ d \in Nat /\ e \in Nat
  <2>1. d \in tokens[a].members /\ tokens[a].members \subseteq Daemons
    BY <1>1 DEF TokenInv, TokenTyped
  <2> QED
    BY <2>1, Constants
<1>3. AllReady(st, tokens, tokens[a], a, d)
  BY <1>1 DEF TokenInv, RegularInv
<1>4. CASE e = d
  BY <1>4
<1>5. CASE e # d
  <2>1. Sooner(d, d, e)
    BY <1>2, <1>5 DEF Sooner
  <2>2. Came(st, a, d)
    BY DEF Came, Installed
  <2>3. Came(st, a, e)
    BY <1>2, <1>3, <2>1, <2>2 DEF AllReady
  <2> QED
    BY <2>3 DEF Came, Installed
<1> QED
  BY <1>4, <1>5

\* No step takes back that a packet came which nobody counted in.
LEMMA CountedBefore == [Next]_vars /\ counted' => counted
<1> SUFFICES ASSUME [Next]_vars, counted' PROVE counted
  OBVIOUS
<1>1. ASSUME NEW d \in Daemons, NEW n \in Seqs, HandleBcast(d, n) PROVE counted
  BY <1>1 DEF HandleBcast
<1>2. CASE counted' = counted
  BY <1>2
<1> QED
  BY <1>1, <1>2 DEF Next, vars, CreateForm1, FillForm1, ReadForm2, HandleToken, TokenLoss

\* What is true of every state of the recovery until a packet comes that form1 does
\* not count in.
THEOREM RecoveryInvariant == ASSUME NumbersFit PROVE Spec => [](counted => IInv)
<1>1. Init => (counted => IInv)
  BY InitKeeps
<1>2. (counted => IInv) /\ [Next]_vars => (counted => IInv)'
  BY NextKeeps, CountedBefore
<1> QED
  BY <1>1, <1>2, PTL DEF Spec

\* However often the token is lost and the daemons gather anew, none of them comes to
\* a state that Discard_packets, Read_form2, Answer_retrans or Prot_handle_token
\* take for impossible, unless a packet has come above every highest_seq of a form1
\* token (when one has, Discard_packets does give up).
THEOREM NoAlarmEver == ASSUME NumbersFit PROVE Spec => []CountedNoAlarm
<1>1. IInv => NoRecoveryAlarm
  BY DEF IInv, Inv, DaemonInv, NoRecoveryAlarm
<1>2. (counted => IInv) => CountedNoAlarm
  BY <1>1 DEF CountedNoAlarm
<1> QED
  BY <1>2, RecoveryInvariant, PTL

\* Daemons that come to a ring together have handed over the same packets of the old
\* one, in the same order, each once, and the signal at the same place, unless a
\* packet has come above every highest_seq of a form1 token (when one has, they may
\* not have).
THEOREM SynchronyHolds == ASSUME NumbersFit PROVE Spec => []CountedSynchrony
<1>1. (counted => IInv) => CountedSynchrony
  BY VirtualSynchronyHolds DEF CountedSynchrony
<1> QED
  BY <1>1, RecoveryInvariant, PTL

\* A safe packet before the signal is with all daemons of the old ring, what comes
\* after it with all that the signal names, and those keep it, as long as form1
\* counts in what comes.
THEOREM SafeIsSafe == ASSUME NumbersFit PROVE Spec => []CountedSafe
<1>1. (counted => IInv) => CountedSafe
  BY SafeDeliveryHolds DEF CountedSafe
<1> QED
  BY <1>1, RecoveryInvariant, PTL

\* A packet is handed over only after what may have caused it, as long as form1
\* counts in what comes.
THEOREM CausesCome == ASSUME NumbersFit PROVE Spec => []CountedCausal
<1>1. (counted => IInv) => CountedCausal
  BY CausalDeliveryHolds DEF CountedCausal
<1> QED
  BY <1>1, RecoveryInvariant, PTL

\* What a daemon has sent its own clients get; proved as long as form1 counts in what
\* comes.
THEOREM OwnPacketsCome == ASSUME NumbersFit PROVE Spec => [](counted => SelfDelivery)
<1>1. (counted => IInv) => (counted => SelfDelivery)
  BY SelfDeliveryHolds
<1> QED
  BY <1>1, RecoveryInvariant, PTL

\* The token comes to a daemon that has installed the new ring only when all members
\* have; proved as long as form1 counts in what comes.
THEOREM AllAreInstalled == ASSUME NumbersFit PROVE Spec => [](counted => InstalledTogether)
<1>1. (counted => IInv) => (counted => InstalledTogether)
  BY InstalledTogetherHolds
<1> QED
  BY <1>1, RecoveryInvariant, PTL
===============================================================================
