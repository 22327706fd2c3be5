------------------------------ MODULE SpreadRing ------------------------------
(***************************************************************************)
(* The ring protocol of the Spread daemons (daemon/protocol.c and          *)
(* flow_control.c) between two membership changes: a token goes round the  *)
(* members; who holds it answers retransmission requests, numbers and      *)
(* sends new packets, asks for what it misses and lowers or raises the     *)
(* "aru" (all received up to). Packets and tokens are datagrams: they are  *)
(* lost, overtaken and duplicated.                                         *)
(*                                                                         *)
(* Daemons are numbered in the order of the configuration; 1 is the        *)
(* leader. The state of a daemon is a record of the C globals; the         *)
(* functions of protocol.c are operators from record to record, applied in *)
(* the order of their calls. A message is one packet.                      *)
(***************************************************************************)
EXTENDS Integers, FiniteSetsExt, SequencesExt, Functions

CONSTANTS
  NumDaemons,      \* members of the ring
  Waiting,         \* Waiting[d]: services of the messages in d's down queue at first
  Late,            \* Late[d]: messages d's clients send later,
  LateServices,    \*          with any of these services
  NumSlots,        \* MAX_PACKETS_IN_STRUCT
  SeqGap,          \* MAX_SEQ_GAP
  Window,          \* Conf_get_window()
  PersonalWindow,  \* Conf_get_personal_window()
  Accelerated,     \* Conf_get_accelerated_ring()
  MaxRequests,     \* retransmission requests that fit in a token
  ArqMod,          \* 0x10: the ARQ field of a token has four bits
  OldAru,          \* aru of the last token of the recovery before this ring
  MaxFaults        \* bound: datagrams lost and tokens sent again too early

Daemons == 1..NumDaemons
Services == {"reliable", "fifo", "safe"}

ASSUME SpreadRingAssumption ==
  /\ NumDaemons \in Nat \ {0, 1}
  /\ Waiting \in [Daemons -> Seq(Services)] /\ Late \in [Daemons -> Nat]
  /\ LateServices \subseteq Services
  /\ {NumSlots, MaxRequests} \subseteq Nat \ {0} /\ ArqMod \in Nat /\ ArqMod >= 3
  /\ {SeqGap, OldAru, MaxFaults} \subseteq Nat
  /\ {Window, PersonalWindow} \subseteq Nat \ {0}
  /\ Accelerated \in BOOLEAN

VARIABLES
  st,        \* st[d]: the globals of daemon d
  order,     \* history: the packets in the order in which they were numbered
  net,       \* net[d]: packets on their way to d
  tokens,    \* tokens[d]: copies of tokens that may (still) arrive at d
  hurries,   \* daemons whose hurry packet is on its way to the leader
  faults     \* datagrams lost and tokens sent again too early

vars == <<st, order, net, tokens, hurries, faults>>

Leader == 1
Succ(d) == (d % NumDaemons) + 1
Everyone == 0       \* proc_id -1 of a ring_rtr: retransmit to all

-----------------------------------------------------------------------------
(* Packets[] is indexed by seq & PACKET_MASK.                              *)

Slot(s) == s % NumSlots
Empty == [exist |-> 0, seq |-> 0, from |-> 0, svc |-> "none"]
Entry(p, e) == [exist |-> e, seq |-> p.seq, from |-> p.from, svc |-> p.svc]
PacketOf(x) == [seq |-> x.seq, from |-> x.from, svc |-> x.svc]

At(r, s) == r.packets[Slot(s)]
Has(r, s) == At(r, s).exist > 0
NotDelivered(r, lo, hi) == {i \in lo..hi : At(r, i).exist = 1}

\* A call of Alarm(EXIT): the daemon gives up.
Alarm(r, what, if) == IF if THEN [r EXCEPT !.exits = @ \cup {what}] ELSE r

\* The numbers of S, from the lowest up.
Ascending(S) ==
  CHOOSE a \in [1..Cardinality(S) -> S] : \A i, j \in DOMAIN a : i < j => a[i] < a[j]

\* Deliver_packet for the sequence numbers S in their order: the message is
\* handed to Sess_deliver_message and the packet kept for retransmission.
Deliver(r, S) ==
  LET ss == Ascending(S)
  IN  [r EXCEPT
         !.handed = @ \o [k \in DOMAIN ss |-> At(r, ss[k]).seq],
         !.packets = [x \in DOMAIN @ |->
                        IF \E s \in S : Slot(s) = x
                        THEN [@[x] EXCEPT !.exist = 2] ELSE @[x]]]

\* My_aru: every packet up to it is there.
RaiseMyAru(r) ==
  [r EXCEPT !.myAru =
     Max({@} \cup {m \in @..r.highest : \A i \in (r.myAru + 1)..m : Has(r, i)})]

\* Mutant: safe packets are delivered as soon as they are in order.
DeliverAgreed_SafeToo(r) ==
  [Deliver(r, NotDelivered(r, r.lastDelivered + 1, r.myAru))
     EXCEPT !.lastDelivered = Max({@, r.myAru})]

\* Deliver_agreed_packets: in order, up to the first safe packet that waits. Only a
\* reliable packet may have been handed over before ("fifo" stands for agreed, too).
DeliverAgreed(r) ==
  LET waiting == {i \in NotDelivered(r, r.lastDelivered + 1, r.myAru) :
                    At(r, i).svc = "safe"}
      last == IF waiting = {} THEN r.myAru ELSE Min(waiting) - 1
      wrong == \E i \in (r.lastDelivered + 1)..last :
                 ~Has(r, i) \/ (At(r, i).exist = 2 /\ At(r, i).svc # "reliable")
  IN  Alarm([Deliver(r, NotDelivered(r, r.lastDelivered + 1, last))
               EXCEPT !.lastDelivered = Max({@, last})],
            "Deliver_agreed_packets", wrong)

\* Deliver_reliable_packets: reliable messages need no order.
DeliverReliable(r, from, num) ==
  LET first == Max({from, r.lastDelivered + 1})
  IN  Deliver(r, {i \in NotDelivered(r, first, from + num - 1) :
                    At(r, i).svc = "reliable"})

\* Discard_packets outside EVS: everyone has what is up to Aru.
Discard(r) ==
  LET range == (r.lastDiscarded + 1)..r.aru
      gone == \E i \in range : ~Has(r, i)
  IN  IF r.aru <= r.lastDiscarded THEN r
      ELSE Alarm([Deliver(r, NotDelivered(r, r.lastDiscarded + 1, r.aru)) EXCEPT
                    !.packets = [x \in DOMAIN @ |->
                       IF \E i \in range : Slot(i) = x THEN Empty ELSE @[x]],
                    !.lastDiscarded = r.aru,
                    !.lastDelivered = Max({@, r.aru})],
                 "Discard_packets", gone)

-----------------------------------------------------------------------------
(* The pieces of Prot_handle_token.                                        *)

\* Mutant: no limit on the distance from Aru.
Allowed_NoGap(r, fc) ==
  Max({0, Min({Window + PersonalWindow - fc, Window, PersonalWindow})})

\* FC_allowed.
Allowed(r, fc) ==
  IF r.highest > r.aru + SeqGap THEN 0
  ELSE Max({0, Min({Window + PersonalWindow - fc, Window, PersonalWindow})})

\* Send_new_packets: the packets made of the first messages of the down queue.
NewPackets(d, r, num) ==
  [k \in 1..num |-> [seq |-> r.highest + k, from |-> d, svc |-> r.down[k]]]

SendNew(d, r, new) ==
  Alarm([r EXCEPT
           !.highest = @ + Len(new),
           !.down = SubSeq(@, Len(new) + 1, Len(@)),
           !.packets = [x \in DOMAIN @ |->
              IF \E k \in DOMAIN new : Slot(new[k].seq) = x
              THEN Entry(new[CHOOSE k \in DOMAIN new : Slot(new[k].seq) = x], 1)
              ELSE @[x]]],
        "Send_new_packets",
        \E k \in DOMAIN new : Has(r, new[k].seq))

\* The first token of a ring is taken for one that says 0.
Installed(r) ==
  IF r.justInstalled THEN [r EXCEPT !.justInstalled = FALSE, !.lastToken.aru = 0] ELSE r

\* Answer_retrans: the requests in the token that d can answer. Nobody asks for
\* a packet that everyone has.
Answered(r, t) == {s \in t.rtr : Has(r, s)}
Answer(r, t) == {PacketOf(At(r, s)) : s \in Answered(r, t)}
TokenSeen(r, t) ==
  Alarm([r EXCEPT !.highest = Max({@, t.seq})],
        "Answer_retrans", \E s \in t.rtr : s < r.aru)

\* How far d asks for packets. With the accelerated ring those numbered since
\* its last token may not even be sent yet.
MaxRtr(r) == IF Accelerated THEN r.lastToken.seq ELSE r.highest

\* The lowest numbers of S, as many as fit in a token.
Lowest(S) == {i \in S : Cardinality({j \in S : j < i}) < MaxRequests}

\* Mutant: the last packet is not asked for.
Missing_NotLast(r) == Lowest({i \in (r.myAru + 1)..(MaxRtr(r) - 1) : ~Has(r, i)})

Missing(r) == Lowest({i \in (r.myAru + 1)..MaxRtr(r) : ~Has(r, i)})

\* Mutant: the aru is raised by any daemon that has more.
TakesAru_Raises(d, r, t) == t.aru # r.myAru

\* The aru of the token is d's to set: it is lower, it set it last, or nobody
\* missed anything.
TakesAru(d, r, t) ==
  \/ t.aru > r.myAru
  \/ t.aruLast = d
  \/ t.aru = t.seq

\* Aru: what two tokens in a row say.
AruOf(new, last) == IF new.aru > last.aru THEN last.aru ELSE new.aru

\* Is_token_hold and To_hold_token.
Holds(r) == r.lastToken.retrans <= 1 /\ r.aru = r.highest /\ r.tokenCounter > 1

\* Mutant: what was retransmitted in the last round stays in the count.
FlowControl_NoRetrans(r, t, retrans, sent) == t.fc - r.lastSent + retrans + sent

\* Token->flow_control: what was sent in the last round.
FlowControl(r, t, retrans, sent) ==
  t.fc - r.lastRetrans - r.lastSent + retrans + sent

\* The token d sends on: r is its state after sending new packets, before t was
\* r.lastToken.
TokenOut(d, r, t, retrans, sent) ==
  LET take == TakesAru(d, r, t)
      fresh == d = Leader
  IN  [arq     |-> IF fresh THEN (t.arq + 1) % ArqMod ELSE t.arq,
       retrans |-> IF fresh THEN 0 ELSE t.retrans,
       seq     |-> r.highest,
       aru     |-> IF take THEN r.myAru ELSE t.aru,
       aruLast |-> IF take THEN d ELSE t.aruLast,
       fc      |-> FlowControl(r, t, retrans, sent),
       rtrTo   |-> IF Missing(r) = {} THEN Everyone
                   ELSE IF Answered(r, t) = t.rtr THEN d ELSE Everyone,
       rtr     |-> Missing(r)]

Header(t) == [t EXCEPT !.rtr = {}, !.rtrTo = Everyone]

\* The rest of Prot_handle_token, after the token out is sent: the new Aru, and
\* what it lets the daemon discard and deliver.
TokenDone(r, out, retrans, sent) ==
  LET newAru == AruOf(out, r.lastToken)
      done == [r EXCEPT
                 !.lastRetrans = retrans,
                 !.lastSent = sent,
                 !.aru = newAru,
                 !.tokenCounter = IF r.highest = newAru THEN Min({@ + 1, 2}) ELSE 0,
                 !.lastToken = Header(out)]
  IN  DeliverReliable(
        DeliverAgreed(Discard(Alarm(done, "illegally lowering Aru", newAru < r.aru))),
        r.highest - sent + 1, sent)

\* Net_send_token by d; tok are the tokens on their way. No token is delayed by
\* more than a round: the four bits of ARQ tell apart those of sixteen.
SendToken(tok, d, t) ==
  [tok EXCEPT ![Succ(d)] =
     {u \in @ : u.arq \in {t.arq, (t.arq - 1) % ArqMod}} \cup {t}]
Without(d, t) == [tokens EXCEPT ![d] = @ \ {t}]

\* The daemons a packet sent by d to "to" goes to; what is then on its way.
Receivers(d, to) == IF to = Everyone THEN Daemons \ {d} ELSE {to} \ {d}
Sent(d, to, answer, new) ==
  [e \in Daemons |->
     net[e] \cup (IF e \in Receivers(d, to) THEN answer ELSE {})
            \cup (IF e # d THEN Range(new) ELSE {})]

-----------------------------------------------------------------------------
Init ==
  /\ st = [d \in Daemons |->
       [highest |-> 0, myAru |-> 0, aru |-> 0, lastDiscarded |-> 0,
        lastDelivered |-> 0, packets |-> [x \in 0..(NumSlots - 1) |-> Empty],
        down |-> Waiting[d], late |-> Late[d], handed |-> <<>>, tokenCounter |-> 0,
        lastRetrans |-> 0, lastSent |-> 0, justInstalled |-> TRUE, exits |-> {},
        lastToken |-> [arq |-> 0, retrans |-> 0, seq |-> 0, aru |-> OldAru,
                       aruLast |-> Leader, fc |-> 0, rtrTo |-> Everyone,
                       rtr |-> {}]]]
  /\ order = <<>>
  /\ net = [d \in Daemons |-> {}]
  /\ tokens = [d \in Daemons |->
       IF d = Leader
       THEN {[arq |-> 0, retrans |-> 0, seq |-> 0, aru |-> OldAru,
              aruLast |-> Leader, fc |-> 0, rtrTo |-> Everyone, rtr |-> {}]}
       ELSE {}]
  /\ hurries = {}
  /\ faults = 0

\* Prot_token_hurry by d, whose state is r but for what the call changes.
Hurry(tok, d, r) ==
  LET u == IF d = Leader
           THEN [r.lastToken EXCEPT !.retrans = (@ + 1) % 16] ELSE r.lastToken
  IN  /\ st' = [st EXCEPT ![d] = [r EXCEPT !.lastToken = u]]
      /\ tokens' = SendToken(tok, d, u)

\* The token is the next one: the leader gets its own back.
IsNew(d, t) ==
  IF d = Leader THEN t.arq = st[d].lastToken.arq
  ELSE t.arq = (st[d].lastToken.arq + 1) % ArqMod

\* Prot_handle_token, a token that is taken. (\E x \in {e} names the value of e;
\* TLC evaluates a LET of an action again at every use.)
TakeToken(d, t) ==
  /\ IsNew(d, t)
  /\ \E r \in {TokenSeen(Installed(st[d]), t)} :
     \E answer \in {Answer(r, t)} :
     \E new \in {NewPackets(d, r, Min({Allowed(r, t.fc), Len(r.down)}))} :
     \E sent \in {RaiseMyAru(SendNew(d, r, new))} :
     \E out \in {TokenOut(d, sent, t, Cardinality(answer), Len(new))} :
       /\ st' = [st EXCEPT ![d] = TokenDone(sent, out, Cardinality(answer), Len(new))]
       /\ order' = order \o new
       /\ net' = Sent(d, t.rtrTo, answer, new)
       /\ tokens' = IF d = Leader /\ Holds(sent) THEN Without(d, t)
                    ELSE SendToken(Without(d, t), d, out)
       /\ UNCHANGED <<hurries, faults>>

\* Prot_handle_token, not the leader, the same token with a higher retransmit
\* count: the copy d sent was lost, it sends it again.
RepeatToken(d, t) ==
  /\ d # Leader /\ t.arq = st[d].lastToken.arq
  /\ t.retrans > st[d].lastToken.retrans
  /\ Hurry(Without(d, t), d, [st[d] EXCEPT !.lastToken.retrans = t.retrans])
  /\ UNCHANGED <<order, net, hurries, faults>>

\* Prot_handle_token, any other token.
Swallow(d, t) ==
  /\ ~IsNew(d, t)
  /\ d = Leader \/ t.arq # st[d].lastToken.arq \/ t.retrans <= st[d].lastToken.retrans
  /\ tokens' = Without(d, t)
  /\ UNCHANGED <<st, order, net, hurries, faults>>

HandleToken(d) ==
  \E t \in tokens[d] : TakeToken(d, t) \/ RepeatToken(d, t) \/ Swallow(d, t)

\* Prot_handle_bcast.
HandleBcast(d) ==
  \E p \in net[d], r \in {st[d]} :
  \E r1 \in {[r EXCEPT !.packets[Slot(p.seq)] = Entry(p, 1),
                      !.highest = Max({@, p.seq})]} :
  \E r2 \in {RaiseMyAru(r1)} :
    /\ st' = IF p.seq <= r.lastDiscarded \/ Has(r, p.seq) THEN st
             ELSE [st EXCEPT ![d] = IF p.seq = r.myAru + 1 THEN DeliverAgreed(r2)
                                    ELSE DeliverReliable(r1, p.seq, 1)]
    /\ net' = [net EXCEPT ![d] = @ \ {p}]
    /\ UNCHANGED <<order, tokens, hurries, faults>>

Idle == \A d \in Daemons : tokens[d] = {}

\* A token sent again while one is on its way counts against MaxFaults.
Extra == IF Idle THEN UNCHANGED faults ELSE faults < MaxFaults /\ faults' = faults + 1

\* Prot_new_message: a client's message; a daemon that had none wakes up the
\* leader when the token is held.
NewMessage(d) ==
  \E svc \in LateServices :
  LET r == [st[d] EXCEPT !.down = Append(@, svc), !.late = @ - 1]
      wake == Len(r.down) = 1 /\ Holds(r)
  IN  /\ st[d].late > 0
      /\ IF wake /\ d = Leader
         THEN /\ Hurry(tokens, d, [r EXCEPT !.tokenCounter = 0])
              /\ Extra /\ UNCHANGED hurries
         ELSE /\ st' = [st EXCEPT ![d] = r]
              /\ hurries' = IF wake THEN hurries \cup {d} ELSE hurries
              /\ UNCHANGED <<tokens, faults>>
      /\ UNCHANGED <<order, net>>

\* Handle_hurry at the leader.
HandleHurry ==
  \E d \in hurries :
    /\ hurries' = hurries \ {d}
    /\ IF Holds(st[Leader])
       THEN Hurry(tokens, Leader, [st[Leader] EXCEPT !.tokenCounter = 0]) /\ Extra
       ELSE UNCHANGED <<st, tokens, faults>>
    /\ UNCHANGED <<order, net>>

\* Prot_token_hurry_event: the leader's timer.
HurryTimeout ==
  /\ Hurry(tokens, Leader, st[Leader]) /\ Extra
  /\ UNCHANGED <<order, net, hurries>>

\* The network loses a datagram.
Lose ==
  /\ faults < MaxFaults /\ faults' = faults + 1
  /\ \/ \E d \in Daemons : \E p \in net[d] :
          net' = [net EXCEPT ![d] = @ \ {p}] /\ UNCHANGED <<tokens, hurries>>
     \/ \E d \in Daemons : \E t \in tokens[d] :
          tokens' = Without(d, t) /\ UNCHANGED <<net, hurries>>
     \/ \E d \in hurries :
          hurries' = hurries \ {d} /\ UNCHANGED <<net, tokens>>
  /\ UNCHANGED <<st, order>>

Next ==
  \/ \E d \in Daemons : HandleToken(d) \/ HandleBcast(d) \/ NewMessage(d)
  \/ HandleHurry \/ HurryTimeout \/ Lose

Spec == Init /\ [][Next]_vars

\* The event loop of a daemon serves what arrives, and the leader's timer goes
\* off; the clients owe nothing and the losses are bounded. (Weak fairness, with
\* ENABLED written out.)
Fairness ==
  /\ \A d \in Daemons : []<>(tokens[d] = {}) \/ []<><<HandleToken(d)>>_vars
  /\ \A d \in Daemons : []<>(net[d] = {}) \/ []<><<HandleBcast(d)>>_vars
  /\ []<>(~Idle) \/ []<><<HurryTimeout>>_vars

FairSpec == Spec /\ Fairness

-----------------------------------------------------------------------------
Handed(d) == ToSet(st[d].handed)

\* The numbers that have reached d.
Received(d) ==
  (1..st[d].lastDiscarded) \cup
  {s \in (st[d].lastDiscarded + 1)..Len(order) : At(st[d], s).seq = s}

\* The daemons never come to a state their own assertions call impossible: no
\* request for a packet that everyone has (Answer_retrans), no new packet in a
\* slot still in use (Send_new_packets), no hole below My_aru or Aru
\* (Deliver_agreed_packets, Discard_packets), nothing but reliable packets handed
\* over before their turn (Deliver_agreed_packets), no Aru that goes back.
NoAlarm == \A d \in Daemons : st[d].exits = {}

\* A packet is given up only when nobody can ask for it any more: what a daemon
\* has discarded, every daemon has.
DiscardedByAll ==
  \A e \in Daemons :
    1..Max({st[d].lastDiscarded : d \in Daemons}) \subseteq Received(e)

\* The flow control field of the live token is what the daemons sent in their
\* last turns, so the ring keeps its window (Prot_handle_token, FC_allowed).
SentInRound == SumFunction([d \in Daemons |-> st[d].lastSent + st[d].lastRetrans])
WindowKept ==
  /\ \A d \in Daemons : \A t \in tokens[d] : IsNew(d, t) => t.fc = SentInRound
  /\ SumFunction([d \in Daemons |-> st[d].lastSent]) <= Window + PersonalWindow

\* The ring implements the ordered delivery its clients rely on.
Delivery == INSTANCE OrderedDelivery WITH
  has <- [d \in Daemons |-> Received(d)],
  handed <- [d \in Daemons |-> st[d].handed]
DeliverySpec == Delivery!Spec

\* Whatever is lost, delayed or held up, the ring comes again and again to a
\* state where all that clients sent is with the clients of every daemon.
AllDelivered ==
  []<>(\A d \in Daemons : st[d].down = <<>> /\ Handed(d) = 1..Len(order))
=============================================================================
