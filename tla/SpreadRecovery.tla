---------------------------- MODULE SpreadRecovery ----------------------------
(***************************************************************************)
(* What the Spread daemons of a ring do when its token is lost, to come to *)
(* a new ring with the messages of the old one settled (daemon/            *)
(* membership.c from Create_form1 on, and the parts of daemon/protocol.c   *)
(* for the state EVS).                                                     *)
(*                                                                         *)
(* A leader sends a form1 token around those it gathered: each daemon adds *)
(* what it has of the old ring to it. The last one turns it into a form2   *)
(* token, which tells all of them in the order of the configuration what   *)
(* none of them has (the holes) and makes way for the first regular token  *)
(* of the new ring. With that token the daemons exchange what they miss,   *)
(* and when everyone has everything each hands over what is left of the    *)
(* old ring, a transitional signal in the midst of it, and installs the    *)
(* new ring. The token may be lost at any time, at some of the daemons     *)
(* only; those try again, with whom they gather then.                      *)
(*                                                                         *)
(* Packets is the order of the old ring; a copy of any packet may reach    *)
(* any daemon late, even one above every number the form1 token has        *)
(* counted in. The daemons do not provide for that one: counted records    *)
(* whether it came, and some properties hold only if it did not. How       *)
(* daemons find whom to gather is not in this module: any daemon may try   *)
(* with any others. What a daemon does in the new ring is SpreadRing's     *)
(* subject.                                                                *)
(***************************************************************************)
EXTENDS Integers, FiniteSetsExt, SequencesExt

CONSTANTS
  NumDaemons,    \* members of the old ring, in the order of the configuration
  Packets,       \* Packets[s] = [from, svc]: the packets of the old ring
  Ahead,         \* daemons that know of all packets then, from the token
  MaxAttempts,   \* bound: form1 tokens created
  MaxRequests    \* retransmission requests that fit in a token

Daemons == 1..NumDaemons
Seqs == 1..Len(Packets)

ASSUME SpreadRecoveryAssumption ==
  /\ NumDaemons \in Nat \ {0}
  /\ Packets \in Seq([from : Daemons, svc : {"reliable", "fifo", "safe"}])
  /\ Ahead \subseteq Daemons
  /\ MaxAttempts \in Nat /\ MaxRequests \in Nat \ {0}

VARIABLES
  st,        \* st[d]: the globals of daemon d
  tokens,    \* tokens[a]: the token of attempt a
  had,       \* history: had[d]: packets d had when it lost the old ring's token
  counted    \* history: no packet came to a daemon that form1 does not count in

vars == <<st, tokens, had, counted>>

Attempts == DOMAIN tokens
None == 0
Far == 3333              \* how far the form1 token puts Last_seq above Highest_seq
Int32Max == 2147483647
Everyone == 0            \* proc_id -1 of a ring_rtr: retransmit to all

-----------------------------------------------------------------------------
(* Packets[] of a daemon: exist[s] is 0, 1 (there), 2 (there, handed over  *)
(* before its turn), 3 (a dummy for a hole).                               *)

\* The numbers of S, from the lowest up.
Ascending(S) ==
  CHOOSE a \in [1..Cardinality(S) -> S] : \A i, j \in DOMAIN a : i < j => a[i] < a[j]

Has(r, s) == s \in Seqs /\ r.exist[s] # 0
Holes(r, lo, hi) == {s \in lo..hi : ~Has(r, s)}
IsSafe(s) == Packets[s].svc = "safe"
Reliable(s) == Packets[s].svc = "reliable"

\* A call of Alarm(EXIT) or Alarmp(SPLOG_FATAL): the daemon gives up.
Alarm(r, what, if) == IF if THEN [r EXCEPT !.exits = @ \cup {what}] ELSE r

\* Deliver those of the packets S that were not delivered yet, forget all.
Settle(r, S) ==
  [r EXCEPT !.handed = @ \o Ascending({s \in S : r.exist[s] = 1}),
            !.exist = [s \in Seqs |-> IF s \in S THEN 0 ELSE @[s]]]

\* My_aru: every packet up to it is there, or its dummy.
RaiseMyAru(r) ==
  [r EXCEPT !.myAru =
     Max({@} \cup {m \in @..Min({r.highest, Len(Packets)}) :
                     Holes(r, r.myAru + 1, m) = {}})]

\* Discard_packets outside EVS: everyone has what is up to Aru.
Discard(r) ==
  IF r.aru <= r.lastDiscarded THEN r
  ELSE Alarm([Settle(r, (r.lastDiscarded + 1)..r.aru) EXCEPT !.lastDiscarded = r.aru],
             "Discard_packets", Holes(r, r.lastDiscarded + 1, r.aru) # {})

-----------------------------------------------------------------------------
(* form1 and form2.                                                        *)

\* Mutant: holes of the creator stay, whoever has the packet.
HolesAfter_Kept(r, rg) == rg.holes \cup Holes(r, rg.highest + 1, r.highest)

\* What none of those the token has been to has.
HolesAfter(r, rg) ==
  {s \in rg.holes : ~Has(r, s)} \cup Holes(r, rg.highest + 1, r.highest)

\* Mutant: who committed with d in an earlier attempt is forgotten.
RingInfo_OwnAttempt(d, r) ==
  [aru |-> r.aru, highest |-> r.highest,
   holes |-> Holes(r, r.myAru + 1, r.highest),
   trans |-> {d}, commit |-> {d}]

\* Create_form1: what the creator knows of the old ring.
RingInfo(d, r) ==
  [aru |-> r.aru, highest |-> r.highest,
   holes |-> Holes(r, r.myAru + 1, r.highest),
   trans |-> {d}, commit |-> {d} \cup r.commit.all]

\* Fill_form1: what the next daemon adds to it.
Filled(d, r, rg) ==
  [aru |-> Max({rg.aru, r.aru}), highest |-> Max({rg.highest, r.highest}),
   holes |-> HolesAfter(r, rg),
   trans |-> rg.trans \cup {d}, commit |-> rg.commit \cup {d} \cup r.commit.all]

\* The token after form1 has been filled: to the members still to visit, or
\* form2 to the first of all.
Passed(t) ==
  IF t.rest = {} THEN [t EXCEPT !.kind = "form2", !.rest = t.members] ELSE t

\* The successor of d in the ring of token t.
Succ(t, d) ==
  LET later == {e \in t.members : e > d}
  IN  IF later = {} THEN Min(t.members) ELSE Min(later)

\* Mutant: a packet that came from a leaving member after form1 is kept.
DummiesIn_KeepsLate(r, holes) ==
  [r EXCEPT !.exist = [s \in Seqs |-> IF s \in holes /\ @[s] = 0 THEN 3 ELSE @[s]]]

\* The holes get dummies; what came of them since form1 is dropped.
DummiesIn(r, holes) ==
  [r EXCEPT !.exist = [s \in Seqs |-> IF s \in holes THEN 3 ELSE @[s]]]

\* Backoff_membership.
Backoff(r) ==
  LET exist == [s \in Seqs |->
                  IF r.exist[s] = 3 /\ s \in (r.lastDiscarded + 1)..r.highest
                  THEN 0 ELSE r.exist[s]]
  IN  RaiseMyAru([r EXCEPT !.exist = exist, !.aru = r.lastDiscarded,
                           !.myAru = r.lastDiscarded])

-----------------------------------------------------------------------------
(* The last round of the recovery.                                         *)

\* Up to the first hole or safe packet: what belongs to the old ring.
LastBefore(r) ==
  LET stop == {s \in (r.lastDiscarded + 1)..r.highest :
                 ~Has(r, s) \/ r.exist[s] = 3 \/ IsSafe(s)}
  IN  IF stop = {} THEN r.highest ELSE Min(stop) - 1

\* Mutant: a hole makes no difference for the packets behind it.
MayFollow_Any(r, s) == r.exist[s] # 3

\* Behind a hole only packets of committed members are handed over: the hole
\* cannot have caused theirs.
MayFollow(r, s) ==
  /\ r.exist[s] # 3
  /\ \/ \A h \in (r.lastDiscarded + 1)..s : r.exist[h] # 3
     \/ Packets[s].from \in r.commit.all

AfterSignal(r) ==
  {s \in (r.lastDiscarded + 1)..r.highest : Has(r, s) /\ MayFollow(r, s)}

\* Discard_packets in EVS, and Memb_transitional and Memb_regular in it.
Install(d, r) ==
  LET r1 == [Settle(r, (r.lastDiscarded + 1)..LastBefore(r)) EXCEPT
               !.lastDiscarded = LastBefore(r)]
      r2 == Settle(r1, AfterSignal(r1))
      left == {s \in Seqs : s > r.highest /\ Has(r, s)}
  IN  Alarm([r2 EXCEPT
               !.mode = "op", !.signal = Len(r1.handed), !.trans = r.commit.trans,
               !.commit = [trans |-> {d}, all |-> {d}],
               !.fcommit = [trans |-> {}, all |-> {}],
               !.exist = [s \in Seqs |-> 0], !.highest = 0, !.myAru = 0,
               !.aru = 0, !.lastDiscarded = 0, !.lastSeq = 0],
            "Discard_packets", left # {} \/ Holes(r, r.lastDiscarded + 1, r.highest) # {})

-----------------------------------------------------------------------------
\* What d has handed over when the token is lost: the packets up to the first hole
\* or safe packet above aru, and all reliable ones. (When those came is left out.)
HandedOver(exist, aru) ==
  1..Max({m \in 0..Len(Packets) :
            \A s \in 1..m : s \in exist /\ (s <= aru \/ ~IsSafe(s))})
    \cup {s \in exist : Reliable(s)}

Contiguous(set) == Max({m \in 0..Len(Packets) : 1..m \subseteq set})

OldRing(d, aru, highest) ==
  [mode |-> "idle", ring |-> None, highest |-> highest,
   myAru |-> Contiguous(had[d]), aru |-> aru, lastDiscarded |-> aru,
   exist |-> [s \in Seqs |->
                IF s \notin had[d] \/ s <= aru THEN 0
                ELSE IF s \in HandedOver(had[d], aru) THEN 2 ELSE 1],
   handed |-> Ascending(HandedOver(had[d], aru)), signal |-> 0, trans |-> {},
   commit |-> [trans |-> {d}, all |-> {d}],
   fcommit |-> [trans |-> {}, all |-> {}],
   lastSeq |-> 0, lastTokenAru |-> 0, exits |-> {}]

\* The old ring's token is gone, at any point of SpreadRing's runs: a daemon has
\* its own packets and some others, an aru that all have, and knows of the packets
\* up to the highest it has, or up to the token's.
Init ==
  /\ had \in [Daemons -> SUBSET Seqs]
  /\ \A s \in Seqs : s \in had[Packets[s].from]
  /\ \E aru \in [Daemons -> 0..Min({Contiguous(had[d]) : d \in Daemons})] :
       st = [d \in Daemons |-> OldRing(d, aru[d],
               IF d \in Ahead THEN Len(Packets) ELSE Max({0} \cup had[d]))]
  /\ tokens = <<>>
  /\ counted = TRUE

\* Create_form1 by d, which has gathered the others.
CreateForm1(d, others) ==
  LET r == st[d]
      a == Len(tokens) + 1
  IN  /\ r.mode = "idle" /\ Len(tokens) < MaxAttempts
      /\ st' = [st EXCEPT ![d] = [r EXCEPT !.mode = "form", !.ring = a]]
      /\ tokens' = Append(tokens,
           Passed([kind |-> "form1", members |-> others \cup {d}, rest |-> others,
                   seq |-> r.highest + Far, rg |-> RingInfo(d, r)]))
      /\ UNCHANGED <<had, counted>>

\* Fill_form1 by d.
FillForm1(a, d) ==
  LET t == tokens[a]
      r == st[d]
  IN  /\ t.kind = "form1" /\ d \in t.rest /\ r.mode = "idle"
      /\ st' = [st EXCEPT ![d] = [r EXCEPT !.mode = "form", !.ring = a]]
      /\ tokens' = [tokens EXCEPT ![a] =
           Passed([t EXCEPT !.rest = @ \ {d}, !.seq = Max({@, r.highest + Far}),
                            !.rg = Filled(d, r, t.rg)])]
      /\ UNCHANGED <<had, counted>>

\* The first regular token of the new ring. (It carries no rg: that is what form2 said.)
FirstRegular(t) ==
  [kind |-> "regular", members |-> t.members, rest |-> {Min(t.members)},
   aru |-> Int32Max, aruLast |-> None, rtr |-> {}, rtrTo |-> Everyone,
   rg |-> t.rg]

\* A form2 or regular token on its way to the first of rest. A daemon that is
\* not in the attempt any more swallows it.
Swallowed(t) == [kind |-> "gone", members |-> t.members, rest |-> {},
                 rg |-> [highest |-> t.rg.highest]]
Sent(a, t) == IF st[Min(t.rest)].ring = a THEN t ELSE Swallowed(t)

\* Read_form2 by d, the next in the order of the configuration. (\E x \in {e}
\* names the value of e; TLC evaluates a LET of an action again at every use.)
ReadForm2(a, d) ==
  LET t == tokens[a]
      late(r) == {s \in t.rg.holes : Has(r, s) /\ Packets[s].from \in t.members}
      rest == t.rest \ {d}
  IN  /\ t.kind = "form2" /\ d = Min(t.rest)
      /\ st[d].mode = "form" /\ st[d].ring = a
      /\ \E r \in {Discard([st[d] EXCEPT !.highest = t.rg.highest,
                                        !.aru = t.rg.aru])} :
         st' = [st EXCEPT ![d] =
           Alarm([DummiesIn(r, t.rg.holes) EXCEPT
                    !.mode = "evs", !.lastSeq = t.seq, !.aru = 0,
                    !.lastTokenAru = 0,
                    !.fcommit = [trans |-> t.rg.trans, all |-> t.rg.commit]],
                 "Read_form2", late(r) # {})]
      /\ tokens' = [tokens EXCEPT ![a] =
           Sent(a, IF rest = {} THEN FirstRegular(t) ELSE [t EXCEPT !.rest = rest])]
      /\ UNCHANGED <<had, counted>>

\* Mutant: the token's aru at once, not the lower one of two rounds.
AruOf_OneRound(aru, last) == aru

\* Aru: what two tokens in a row say.
AruOf(aru, last) == IF aru > last THEN last ELSE aru

\* The aru of the token is d's to set.
TakesAru(d, r, t) == t.aru > r.myAru \/ t.aruLast = d

\* Memb_commit: d has all there is.
Committed(r) ==
  IF r.myAru = r.highest THEN [r EXCEPT !.myAru = r.lastSeq, !.commit = r.fcommit]
  ELSE r

\* Those of S that there is room for in a token.
Lowest(S) == {s \in S : Cardinality({j \in S : j < s}) < MaxRequests}

\* Answer_retrans.
Answered(r, t) == {s \in t.rtr : Has(r, s)}

\* Prot_handle_token in EVS by d.
HandleToken(a, d) ==
  /\ tokens[a].kind = "regular" /\ tokens[a].rest = {d}
  /\ st[d].mode = "evs" /\ st[d].ring = a
  /\ \E t \in {tokens[a]}, r0 \in {st[d]} :
     \E r1 \in {RaiseMyAru(Alarm(r0, "Answer_retrans", \E s \in t.rtr : s < r0.aru))} :
     \E wants \in {Lowest(Holes(r1, r1.myAru + 1, r1.highest))} :
     \E r2 \in {Committed(r1)} :
     \E take \in {TakesAru(d, r2, t)} :
     \E aru \in {IF take THEN r2.myAru ELSE t.aru} :
     \E newAru \in {AruOf(aru, r0.lastTokenAru)} :
     \E r3 \in {Alarm([r2 EXCEPT !.aru = newAru, !.lastTokenAru = aru],
                      "illegally lowering Aru", newAru < r2.aru)} :
       /\ st' = [st EXCEPT ![d] =
            IF newAru > r3.lastDiscarded /\ newAru = r3.lastSeq
            THEN Install(d, r3) ELSE r3]
       /\ tokens' = [tokens EXCEPT ![a] = Sent(a,
            [t EXCEPT !.rest = {Succ(t, d)}, !.aru = aru,
                      !.aruLast = IF take THEN d ELSE @,
                      !.rtr = wants,
                      !.rtrTo = IF wants # {} /\ Answered(r0, t) = t.rtr
                                THEN d ELSE Everyone])]
  /\ UNCHANGED <<had, counted>>

\* (For the history.) The form1 token of t covers s, or will when it has been to
\* everyone.
CountsIn(t, s) ==
  \/ s <= t.rg.highest
  \/ t.kind = "form1" /\ \E e \in t.rest : s <= st[e].highest

\* Prot_handle_bcast: a packet of the old ring, sent long ago or again. Its
\* delivery is blocked. Nobody asks whether form1 counts it in.
HandleBcast(d, s) ==
  LET r == st[d]
      r1 == [r EXCEPT !.exist[s] = 1, !.highest = Max({@, s})]
  IN  /\ r.mode # "op" /\ s > r.lastDiscarded /\ ~Has(r, s)
      /\ st' = [st EXCEPT ![d] = IF s = r.myAru + 1 THEN RaiseMyAru(r1) ELSE r1]
      /\ counted' = (counted /\ (r.mode = "idle" \/ CountsIn(tokens[r.ring], s)))
      /\ UNCHANGED <<tokens, had>>

\* Memb_token_loss in FORM or EVS.
TokenLoss(d) ==
  LET r == st[d]
  IN  /\ r.mode \in {"form", "evs"} /\ Len(tokens) < MaxAttempts
      /\ st' = [st EXCEPT ![d] =
           [(IF r.mode = "evs" THEN Backoff(r) ELSE r) EXCEPT
              !.mode = "idle", !.ring = None, !.lastTokenAru = 0, !.lastSeq = 0,
              !.fcommit = [trans |-> {}, all |-> {}]]]
      /\ tokens' = [tokens EXCEPT ![r.ring] =
           IF @.kind \in {"form2", "regular"} /\ d = Min(@.rest) THEN Swallowed(@)
           ELSE @]
      /\ UNCHANGED <<had, counted>>

Next ==
  \/ \E d \in Daemons : \E others \in SUBSET (Daemons \ {d}) : CreateForm1(d, others)
  \/ \E a \in Attempts, d \in Daemons : FillForm1(a, d)
  \/ \E a \in Attempts, d \in Daemons : ReadForm2(a, d)
  \/ \E a \in Attempts, d \in Daemons : HandleToken(a, d)
  \/ \E d \in Daemons, s \in Seqs : HandleBcast(d, s)
  \/ \E d \in Daemons : TokenLoss(d)

Spec == Init /\ [][Next]_vars

-----------------------------------------------------------------------------
Installed(d) == st[d].mode = "op"
Handed(d) == ToSet(st[d].handed)
BeforeSignalOf(d) ==
  ToSet(IF Installed(d) THEN SubSeq(st[d].handed, 1, st[d].signal) ELSE st[d].handed)

\* d has, or had, the packet s itself and has not dropped it.
Keeps(d, s) ==
  IF Installed(d) THEN s \in Handed(d)
  ELSE s <= st[d].lastDiscarded \/ st[d].exist[s] \in {1, 2}

\* The daemons never come to a state their own assertions call impossible. (They
\* do, by a packet above every highest_seq that comes after form1.)
NoRecoveryAlarm == \A d \in Daemons : st[d].exits = {}

\* No assertion of a daemon fails until a packet comes above every highest_seq of
\* its form1 token.
CountedNoAlarm == counted => NoRecoveryAlarm

\* A daemon hands over each packet once, in the order of the ring but for the
\* reliable ones.
OrderedOnce(d) ==
  \A i, j \in DOMAIN st[d].handed :
    i < j => /\ st[d].handed[i] # st[d].handed[j]
             /\ \/ Reliable(st[d].handed[i]) \/ Reliable(st[d].handed[j])
                \/ st[d].handed[i] < st[d].handed[j]

\* Daemons that come to the new ring together hand over the same packets of the
\* old one, each once, in the same order, with the transitional signal at the
\* same place. (They do not, if a packet above every highest_seq comes to one of
\* them after form1.) Nobody asks whether a reliable packet may be handed over.
VirtualSynchrony ==
  /\ \A d \in Daemons : OrderedOnce(d)
  /\ \A d, e \in Daemons :
       Installed(d) /\ Installed(e) /\ st[d].ring = st[e].ring =>
         \A s \in Seqs : \/ Reliable(s)
                         \/ /\ s \in Handed(d) <=> s \in Handed(e)
                            /\ s \in BeforeSignalOf(d) <=> s \in BeforeSignalOf(e)

\* Daemons that come to the new ring together hand over the same of the old one,
\* at the same side of the signal, as long as form1 counts in what comes.
CountedSynchrony == counted => VirtualSynchrony

\* A safe packet handed over before the signal is with every daemon of the old
\* ring; one handed over after it, or a fifo one, is with everyone in the signal's
\* set, and will be handed over there, whatever becomes of the attempt for them.
SafeDelivery ==
  \A d \in Daemons : \A s \in Handed(d) :
    /\ IsSafe(s) /\ s \in BeforeSignalOf(d) => \A e \in Daemons : Keeps(e, s)
    /\ Installed(d) /\ ~Reliable(s) => \A e \in st[d].trans : Keeps(e, s)

\* What is handed over as safe is with whom it should be, as long as form1 counts
\* in what comes.
CountedSafe == counted => SafeDelivery

\* A daemon's own packets come to its clients, whatever comes late.
SelfDelivery ==
  \A d \in Daemons : Installed(d) => {s \in Seqs : Packets[s].from = d} \subseteq Handed(d)

\* Nothing is handed over without what may have caused it: what its sender had
\* handed over before it.
Caused(s) == {c \in 1..(s - 1) : 1..c \subseteq had[Packets[s].from]}
CausalDelivery ==
  \A d \in Daemons : \A s \in Handed(d) :
    ~Reliable(s) => Caused(s) \subseteq Handed(d)

\* No effect is handed over without its cause, as long as form1 counts in what
\* comes.
CountedCausal == counted => CausalDelivery

\* When the token comes to a daemon that has installed the new ring, all members
\* have, whatever comes late: SpreadRing may begin.
InstalledTogether ==
  \A a \in Attempts : \A d \in tokens[a].rest :
    tokens[a].kind = "regular" /\ Installed(d) /\ st[d].ring = a =>
      \A e \in tokens[a].members : Installed(e) /\ st[e].ring = a
=============================================================================
