-------------------------------- MODULE Groups --------------------------------
(***************************************************************************)
(* The process groups of the Spread daemons (daemon/groups.c): what each   *)
(* daemon knows of a group, and how daemons that come together in a ring   *)
(* learn it from each other.                                               *)
(*                                                                         *)
(* Joins and leaves are messages of the ring, in one order for all. When   *)
(* the ring changes, a daemon is told the transitional membership (those   *)
(* of its old ring it goes on with) and then the regular one. If others    *)
(* have come, it gathers: one daemon of each synced set, whose daemons     *)
(* know the same, sends what they know in GROUPS messages, and when those  *)
(* represent the whole ring all know everything. The ring may change again *)
(* in the midst of this.                                                   *)
(*                                                                         *)
(* What the ring does is an environment here (Change, DeliverNext and the  *)
(* rest of the section Ring): it does what OrderedDelivery and             *)
(* SpreadRecovery promise. All groups are handled alike; this is one.      *)
(***************************************************************************)
EXTENDS Integers, FiniteSets, FiniteSetsExt, SequencesExt

CONSTANTS
  Daemons,       \* proc ids, numbers in the order of the configuration
  Clients,       \* private groups: one client of a daemon each
  Home,          \* Home[c]: the daemon of client c
  Rings0,        \* the rings at the beginning
  Joined0,       \* the clients that are in the group then
  Calls,         \* what clients may do: pairs of a client and a kind of message
  Parts,         \* messages it takes to hold what a daemon knows
  MaxRings,      \* bound: memberships, the first ones included
  MayCrash,      \* bound: the daemons that may crash
  MaxEvents      \* bound: messages of clients and crashes, together

ClientKinds == {"join", "leave", "kill", "agreed", "reliable"}

ASSUME GroupsAssumption ==
  /\ Daemons \subseteq Nat \ {0} /\ IsFiniteSet(Daemons)
  /\ Home \in [Clients -> Daemons]
  /\ Rings0 \in Seq(SUBSET Daemons)
  /\ \A d \in Daemons : \E r \in DOMAIN Rings0 :
       \A s \in DOMAIN Rings0 : d \in Rings0[s] <=> s = r
  /\ Joined0 \subseteq Clients
  /\ Calls \subseteq Clients \X ClientKinds
  /\ Parts \in {1, 2}
  /\ {MaxRings, MaxEvents} \subseteq Nat /\ MayCrash \subseteq Daemons

VARIABLES
  st,        \* st[d]: the globals of daemon d, and the views its clients got
  rings,     \* rings[n]: the n-th membership, and what was sent in it
  events     \* bound: messages of clients and crashes so far

vars == <<st, rings, events>>

Startup == 0                         \* a daemon that is in no ring yet
RegId(n) == <<n, 0>>                 \* Memb_id of the n-th ring
TransId(n, T) == <<n, Min(T)>>       \* Memb_trans_id of those who come with T
Unknown == <<0, 0>>                  \* unknown_memb_id
NoView == <<Unknown, 0>>

NoDaemons == [p \in {} |-> [memb |-> Unknown, mbrs |-> {}]]
NoGroup == [id |-> Unknown, idx |-> 0, changed |-> FALSE, dm |-> NoDaemons]

Members(g) == UNION {g.dm[p].mbrs : p \in DOMAIN g.dm}
Exists(g) == DOMAIN g.dm # {}
\* grp->mboxes: one for each local member.
Local(d, g) == IF d \in DOMAIN g.dm THEN g.dm[d].mbrs ELSE {}

\* A call of Alarmp(SPLOG_FATAL): the daemon gives up.
Alarm(r, what, if) == IF if THEN [r EXCEPT !.exits = @ \cup {what}] ELSE r

-----------------------------------------------------------------------------
(* What the members are told.                                              *)

Partitioned(g, p) == g.dm[p].memb = Unknown

\* G_build_memb_vs_buf: who came together, the joiner by itself.
VsSets(g, joiner) ==
  LET together(p) == {q \in DOMAIN g.dm : q = p \/ (/\ ~Partitioned(g, p)
                                                     /\ g.dm[q].memb = g.dm[p].memb)}
      sets == {UNION {g.dm[q].mbrs : q \in together(p)} \ joiner : p \in DOMAIN g.dm}
  IN  (sets \cup {joiner}) \ {{}}

\* A regular membership to the local members, if any.
Notify(d, r, vs, cause) ==
  IF Local(d, r.grp) = {} THEN r
  ELSE [r EXCEPT
          !.views = @ \cup {[gid |-> <<r.grp.id, r.grp.idx>>, cause |-> cause,
                             members |-> Members(r.grp), vs |-> vs,
                             prev |-> r.prev, since |-> r.since]},
          !.prev = <<r.grp.id, r.grp.idx>>, !.since = {}]

\* G_send_heavyweight_memb.
NotifyNetwork(d, r) == Notify(d, r, VsSets(r.grp, {}), "network")

-----------------------------------------------------------------------------
(* Joins, leaves, and clients that are gone. r is what a daemon d knows.   *)

\* The group as of id, with no daemons yet.
NewGroup(id, idx) == [id |-> id, idx |-> idx, changed |-> FALSE, dm |-> NoDaemons]

WithDaemon(g, p, memb, mbrs) ==
  [g EXCEPT !.dm = [q \in DOMAIN @ \cup {p} |->
                      IF q = p THEN [memb |-> memb, mbrs |-> mbrs] ELSE @[q]]]

InExchange(r) == r.gstate \in {"GGATHER", "GGT"}

\* The memb_id of a daemon that is new in the group.
JoinedAs(r, g, p) ==
  IF r.gstate = "GOP" \/ p \in r.trans THEN g.id ELSE Unknown

\* G_handle_join.
Join(d, r, c) ==
  LET p == Home[c]
      g == IF Exists(r.grp) THEN r.grp
           ELSE NewGroup(IF r.gstate = "GOP" THEN r.regId ELSE r.transId, 0)
      dmn == IF p \in DOMAIN g.dm THEN g.dm[p]
             ELSE [memb |-> JoinedAs(r, g, p), mbrs |-> {}]
      g1 == [WithDaemon(g, p, dmn.memb, dmn.mbrs \cup {c}) EXCEPT
               !.idx = @ + 1, !.changed = @ \/ dmn.memb = Unknown]
      r1 == Alarm([r EXCEPT !.grp = g1], "no local session", p = d /\ c \notin r.ses)
      r2 == IF Local(d, g) = {} THEN [r1 EXCEPT !.prev = NoView, !.since = {}] ELSE r1
  IN  IF InExchange(r) THEN Alarm(r, "G_handle_join", TRUE)
      ELSE IF c \in dmn.mbrs THEN r
      ELSE IF g1.changed THEN Notify(d, r2, VsSets(g1, {c}), "network")
      ELSE Notify(d, r2, {{c}}, "join")

\* A member less; an empty daemon or group is discarded.
Without(g, p, c) ==
  IF Members(g) = {c} THEN NoGroup
  ELSE IF g.dm[p].mbrs = {c}
       THEN [g EXCEPT !.idx = @ + 1, !.dm = [q \in DOMAIN @ \ {p} |-> @[q]]]
       ELSE [g EXCEPT !.idx = @ + 1, !.dm[p].mbrs = @ \ {c}]

\* G_handle_leave and G_handle_kill.
Leave(d, r, c, cause) ==
  LET p == Home[c]
      r1 == Alarm([r EXCEPT !.grp = Without(@, p, c)],
                  "no local session", p = d /\ c \notin r.ses)
  IN  IF InExchange(r) THEN Alarm(r, "G_handle_leave, G_handle_kill", TRUE)
      ELSE IF p \notin DOMAIN r.grp.dm \/ c \notin Members(r.grp) THEN r
      ELSE IF r.grp.changed THEN NotifyNetwork(d, r1)
      ELSE Notify(d, r1, {{c}}, cause)

\* G_analize_groups for a message to the group: to its local members, who hear
\* of uids with it.
ToGroup(d, r, uids) ==
  Alarm([r EXCEPT !.since = IF Local(d, r.grp) = {} THEN @ ELSE @ \cup uids],
        "G_analize_groups", InExchange(r) /\ Exists(r.grp))

-----------------------------------------------------------------------------
(* GROUPS messages: what a synced set knows, in Parts of them.             *)

Leads(d, r) == d = Min(r.sset)       \* Is_synced_set_leader

\* The memb_id that goes with a daemon: the group's, not the daemon's.
MembIdSent(g, p) == g.id

GroupSent(g) ==
  [g EXCEPT !.dm = [p \in DOMAIN @ |-> [memb |-> MembIdSent(g, p),
                                        mbrs |-> g.dm[p].mbrs]]]

\* G_build_new_groups_bufs: the synced set is in the last buffer.
NewBufs(r) ==
  IF Parts = 1 THEN <<[sset |-> r.sset, grp |-> GroupSent(r.grp)]>>
  ELSE <<[sset |-> {}, grp |-> GroupSent(r.grp)], [sset |-> r.sset, grp |-> NoGroup]>>

\* G_build_groups_msg_hdr, G_send_groups_messages: only the last is agreed.
GroupsMessages(d, r) ==
  [i \in DOMAIN r.bufs |->
     [kind |-> "groups", from |-> d, svc |-> IF i = Parts THEN "agreed" ELSE "reliable",
      client |-> 0, memb |-> r.regId, size |-> Cardinality(r.sset), buf |-> r.bufs[i]]]

SendBufs(d, r) == [r EXCEPT !.down = @ \o GroupsMessages(d, r)]

\* Mutant: the group is not marked though it was where it comes from.
MessToGroups_OwnMark(g, sg) ==
  IF ~Exists(sg) THEN g
  ELSE LET g0 == IF Exists(g) THEN g ELSE NewGroup(sg.id, sg.idx)
       IN  [g0 EXCEPT
              !.dm = [p \in DOMAIN @ \cup DOMAIN sg.dm |->
                        IF p \in DOMAIN sg.dm THEN sg.dm[p] ELSE @[p]],
              !.changed = @ \/ \E p \in DOMAIN sg.dm : sg.dm[p].memb # g0.id]

\* G_mess_to_groups for the group of one message.
MessToGroups(g, sg) ==
  IF ~Exists(sg) THEN g
  ELSE LET g0 == IF Exists(g) THEN g ELSE NewGroup(sg.id, sg.idx)
       IN  [g0 EXCEPT
              !.dm = [p \in DOMAIN @ \cup DOMAIN sg.dm |->
                        IF p \in DOMAIN sg.dm THEN sg.dm[p] ELSE @[p]],
              !.changed = @ \/ sg.changed
                            \/ \E p \in DOMAIN sg.dm : sg.dm[p].memb # g0.id]

\* G_mess_to_groups and G_add_to_synced_set for what another representative sent.
Merge(r, rep) ==
  Alarm([r EXCEPT !.grp = MessToGroups(@, rep.grp), !.sset = @ \cup rep.sset],
        "G_add_to_synced_set", r.sset \cap rep.sset # {})

MergeAll(r, reps) == FoldLeft(Merge, r, reps)

\* Mutant: daemons that are partitioned have the new id too.
Renamed_All(g, id) ==
  [g EXCEPT !.id = id, !.idx = 1,
            !.dm = [p \in DOMAIN @ |-> [@[p] EXCEPT !.memb = id]]]

\* G_update_daemon_memb_ids, for the new id of a group.
Renamed(g, id) ==
  [g EXCEPT !.id = id, !.idx = 1,
            !.dm = [p \in DOMAIN @ |->
                      IF Partitioned(g, p) THEN @[p] ELSE [@[p] EXCEPT !.memb = id]]]

\* Mutant: the daemons counted so far are not forgotten.
Forget_Num(r) == [r EXCEPT !.gathered = <<>>, !.complete = FALSE]

Forget(r) == [r EXCEPT !.gathered = <<>>, !.complete = FALSE, !.num = 0]

\* G_compute_and_notify: the members hear who came with whom, then the daemons
\* of the group are all alike.
ComputeAndNotify(d, r) ==
  LET r1 == MergeAll(r, r.gathered)
      r2 == [r1 EXCEPT !.grp = [@ EXCEPT !.id = r.regId, !.idx = 1, !.changed = FALSE]]
      r3 == NotifyNetwork(d, r2)
      r4 == IF r1.grp.changed THEN [r3 EXCEPT !.grp = Renamed(@, r.regId)] ELSE r1
  IN  [Forget(r4) EXCEPT !.bufs = <<>>, !.fresh = FALSE]

ShiftToGOP(r) == [r EXCEPT !.gstate = "GOP", !.thr = "unreliable"]

\* What has come of another representative, with message m; the last to begin
\* comes first.
Filed(gathered, m) ==
  LET last == m.svc = "agreed"
      of == {i \in DOMAIN gathered : gathered[i].rep = m.from}
  IN  IF of = {}
      THEN <<[rep |-> m.from, sset |-> m.buf.sset, grp |-> m.buf.grp,
              complete |-> last]>> \o gathered
      ELSE [gathered EXCEPT ![Min(of)] =
              [@ EXCEPT !.sset = @ \cup m.buf.sset, !.complete = @ \/ last,
                        !.grp = IF Exists(m.buf.grp) THEN m.buf.grp ELSE @]]

-----------------------------------------------------------------------------
(* The memberships of the ring.                                            *)

\* The daemons that are not in T are partitioned, the others have a new id.
Split(g, T, id) ==
  Renamed([g EXCEPT !.changed = TRUE,
                    !.dm = [p \in DOMAIN @ |->
                              IF p \in T THEN @[p] ELSE [@[p] EXCEPT !.memb = Unknown]]],
          id)

Loses(g, T) == ~(DOMAIN g.dm \subseteq T)

\* G_handle_trans_memb. (The signal to the members tells them no more than the
\* group's id, and is left out.)
TransMemb(r, T, id) ==
  LET r1 == [r EXCEPT !.trans = T, !.transId = id]
  IN  CASE r.gstate = "GOP" ->
             [r1 EXCEPT !.gstate = "GTRANS", !.sset = @ \cap T,
                        !.grp = IF Loses(@, T) THEN Split(@, T, id) ELSE @]
        [] r.gstate = "GGATHER" ->
             [r1 EXCEPT !.gstate = "GGT", !.grp.changed = @ \/ Loses(r.grp, T)]
        [] OTHER -> Alarm(r, "G_handle_trans_memb", TRUE)

\* G_handle_groups.
HandleGroups(d, r, m) ==
  LET r1 == IF m.from = Min(r.sset)
            THEN [r EXCEPT !.complete = @ \/ m.svc = "agreed"]
            ELSE [r EXCEPT !.gathered = Filed(@, m)]
      r2 == [r1 EXCEPT !.num = @ + IF m.svc = "agreed" THEN m.size ELSE 0]
      r3 == ShiftToGOP(ComputeAndNotify(d, r2))
  IN  IF ~InExchange(r) THEN Alarm(r, "G_handle_groups", TRUE)
      ELSE IF m.memb # r.regId THEN r
      ELSE IF r2.num # Cardinality(r.reg) THEN r2
      ELSE IF r.gstate = "GGATHER" THEN r3
      ELSE TransMemb(r3, r.trans, r.transId)

\* G_eliminate_partitioned_daemons: the daemons that stay are those in keep.
Eliminate(g, keep) ==
  IF DOMAIN g.dm \cap keep = {} THEN NoGroup
  ELSE [g EXCEPT !.dm = [p \in DOMAIN @ \cap keep |-> @[p]]]

Established(g) == {p \in DOMAIN g.dm : ~Partitioned(g, p)}

\* The exchange begins: leaders send, the ring's clients wait.
Gather(d, r, fresh) ==
  LET r1 == IF fresh /\ r.fresh THEN r ELSE [r EXCEPT !.bufs = NewBufs(r), !.fresh = TRUE]
      r2 == IF Leads(d, r) THEN SendBufs(d, r1) ELSE r
  IN  [r2 EXCEPT !.gstate = "GGATHER", !.thr = "agreed"]

\* G_handle_reg_memb in GTRANS, nobody has come: no exchange is needed.
RegMembSubtractive(d, r) ==
  LET r1 == [r EXCEPT !.grp = [Renamed(@, r.regId) EXCEPT !.changed = FALSE]]
  IN  ShiftToGOP(IF r.grp.changed /\ Exists(r.grp) THEN NotifyNetwork(d, r1) ELSE r)

\* Mutant: what came of others counts though one's own has not come.
Brought_Complete(r) == SelectSeq(r.gathered, LAMBDA rep : rep.complete)

\* What is worth keeping of an exchange that was cut off.
Brought(r) ==
  SelectSeq(r.gathered, LAMBDA rep : r.complete /\ rep.complete)

\* Whether the buffers of the exchange that was cut off may be sent again.
StillFresh(r, lost) == r.fresh /\ Brought(r) = <<>> /\ ~lost

\* G_handle_reg_memb in GGT.
RegMembCascade(d, r) ==
  LET r1 == MergeAll(r, Brought(r))
      lost == Loses(r1.grp, r.trans)
      g == Eliminate(r1.grp, r.trans)
      r2 == [Forget(r1) EXCEPT
               !.grp = IF lost /\ Exists(g) THEN [g EXCEPT !.changed = TRUE] ELSE g,
               !.sset = @ \cap r.trans,
               !.fresh = StillFresh(r, lost \/ ~(r1.sset \subseteq r.trans))]
  IN  Gather(d, r2, TRUE)

\* G_handle_reg_memb.
RegMemb(d, r, M, id) ==
  LET r1 == [r EXCEPT !.reg = M, !.regId = id]
      r2 == IF r1.grp.changed THEN [r1 EXCEPT !.grp = Eliminate(@, Established(@))] ELSE r1
  IN  CASE r.gstate = "GTRANS" /\ Cardinality(r.trans) = Cardinality(M) ->
             RegMembSubtractive(d, r2)
        [] r.gstate = "GTRANS" /\ Cardinality(r.trans) # Cardinality(M) ->
             Gather(d, r2, FALSE)
        [] r.gstate = "GGT" -> RegMembCascade(d, r1)
        [] OTHER -> Alarm(r, "G_handle_reg_memb", TRUE)

-----------------------------------------------------------------------------
(* Ring: what the daemons' protocol does with the messages and members.    *)

\* Deliver_packet and Sess_deliver_message, for the message uid.
Deliver(d, r, m, uid) ==
  CASE m.kind = "groups" -> HandleGroups(d, r, m)
    [] m.kind = "join" -> Join(d, r, m.client)
    [] m.kind = "leave" -> Leave(d, r, m.client, "leave")
    [] m.kind = "kill" ->
         [Leave(d, r, m.client, "disconnect") EXCEPT !.ses = @ \ {m.client}]
    [] m.kind = "agreed" -> ToGroup(d, r, {uid})
    [] m.kind = "reliable" -> ToGroup(d, r, {})

DeliverAll(d, r, n, idxs) ==
  FoldLeft(LAMBDA r1, i : IF i \in r1.early THEN r1
                          ELSE Deliver(d, r1, rings[n].log[i], <<n, i>>),
           r, idxs)

Interval(lo, hi) == [k \in 1..(IF hi < lo THEN 0 ELSE hi - lo + 1) |-> lo + k - 1]

\* G_init, for a daemon all of whose clients have connected.
G_init(d) ==
  [ring |-> Startup, to |-> Startup, pos |-> 0, early |-> {},
   gstate |-> "GOP", thr |-> "unreliable",
   reg |-> {}, regId |-> Unknown, trans |-> {}, transId |-> Unknown,
   sset |-> {d}, grp |-> NoGroup,
   gathered |-> <<>>, complete |-> FALSE, num |-> 0, bufs |-> <<>>, fresh |-> FALSE,
   down |-> <<>>, ses |-> {c \in Clients : Home[c] = d},
   views |-> {}, prev |-> NoView, since |-> {}, exits |-> {}]

NoRing == [members |-> {}, trans |-> <<>>, before |-> <<>>, after |-> <<>>,
           log |-> <<>>, stable |-> 0, recovered |-> TRUE]

\* The clients of Joined0 have joined one after another in the first rings.
Init ==
  /\ rings = [n \in DOMAIN Rings0 |-> [NoRing EXCEPT !.members = Rings0[n]]]
  /\ st = [d \in Daemons |->
       LET n == CHOOSE n \in DOMAIN Rings0 : d \in Rings0[n]
           joined(p) == {c \in Joined0 : Home[c] = p}
           homes == {p \in Rings0[n] : joined(p) # {}}
           all == UNION {joined(p) : p \in homes}
           g == [NewGroup(RegId(n), Cardinality(all)) EXCEPT
                   !.dm = [p \in homes |-> [memb |-> RegId(n), mbrs |-> joined(p)]]]
       IN  [G_init(d) EXCEPT
              !.ring = n, !.reg = Rings0[n], !.regId = RegId(n), !.sset = Rings0[n],
              !.grp = IF all = {} THEN NoGroup ELSE g,
              !.prev = IF d \in homes THEN <<g.id, g.idx>> ELSE NoView]]
  /\ events = 0

\* d is in a ring whose token it has seen since.
Operates(d) == st[d].ring # Startup /\ st[d].to = Startup

Append1(n, m) == [rings EXCEPT ![n].log = Append(@, m)]

\* A client's message gets its place in the ring's order. (The down queue is
\* that of the groups while they are gathered.)
Send(d, c, kind) ==
  /\ Operates(d) /\ ~InExchange(st[d]) /\ c \in st[d].ses
  /\ events < MaxEvents
  /\ \A i \in DOMAIN rings[st[d].ring].log :
       rings[st[d].ring].log[i].kind # "kill" \/ rings[st[d].ring].log[i].client # c
  /\ rings' = Append1(st[d].ring,
       [kind |-> kind, from |-> d,
        svc |-> IF kind = "kill" THEN "safe"
                ELSE IF kind = "reliable" THEN "reliable" ELSE "agreed",
        client |-> c, memb |-> Unknown, size |-> 0,
        buf |-> [sset |-> {}, grp |-> NoGroup]])
  /\ events' = events + 1
  /\ UNCHANGED st

\* So does a message of the groups' down queue.
SendGroups(d) ==
  /\ Operates(d) /\ InExchange(st[d]) /\ st[d].down # <<>>
  /\ rings' = Append1(st[d].ring, Head(st[d].down))
  /\ st' = [st EXCEPT ![d].down = Tail(@)]
  /\ UNCHANGED events

\* The next message in the order; a safe one when all have it.
DeliverNext(d) ==
  LET r == st[d]
      n == r.ring
      i == r.pos + 1
  IN  /\ Operates(d) /\ i \in DOMAIN rings[n].log
      /\ LET safe == rings[n].log[i].svc = "safe"
         IN  /\ safe => \A e \in rings[n].members : st[e].ring = n /\ st[e].to = Startup
             /\ rings' = IF safe THEN [rings EXCEPT ![n].stable = Max({@, i})] ELSE rings
      /\ st' = [st EXCEPT ![d] = [DeliverAll(d, r, n, <<i>>) EXCEPT !.pos = i]]
      /\ UNCHANGED events

\* Mutant: the exchange leaves the delivery threshold as it is.
MayHandReliable_Always(r) == TRUE

\* Deliver_reliable_packets: not below the delivery threshold.
MayHandReliable(r) == r.thr = "unreliable"

\* A reliable message, as soon as it comes.
HandReliable(d, i) ==
  LET r == st[d]
      n == r.ring
  IN  /\ Operates(d) /\ i \in DOMAIN rings[n].log /\ i > r.pos /\ i \notin r.early
      /\ rings[n].log[i].svc = "reliable" /\ MayHandReliable(r)
      /\ st' = [st EXCEPT ![d] =
           [Deliver(d, r, rings[n].log[i], <<n, i>>) EXCEPT !.early = @ \cup {i}]]
      /\ UNCHANGED <<rings, events>>

\* What d has of its ring from an attempt in which everyone got everything,
\* though d did not come to install that ring.
Kept(d) ==
  UNION {1..rings[m].before[d] \cup ToSet(rings[m].after[d]) :
           m \in {m \in DOMAIN rings :
                   m > st[d].ring /\ d \in rings[m].members /\ rings[m].recovered}}

\* How those of ring n who go on together may settle it: what they hand over
\* before the transitional signal, and what after it. A hole is what none of them
\* has; behind it only their own messages count, and what they have kept.
Endings(n, T) ==
  LET log == rings[n].log
      done == Max({st[d].pos : d \in T})
      kept == UNION {Kept(d) : d \in T}
      holes == {h \in (done + 1)..Len(log) :
                  /\ log[h].from \notin T /\ h > rings[n].stable /\ h \notin kept
                  /\ \A d \in T : h \notin st[d].early}
      unsafe(h) == {s \in (done + 1)..(h - 1) : log[s].svc = "safe" /\ s > rings[n].stable}
      ending(h) ==
        LET s == Min({h} \cup unsafe(h))
        IN  [before |-> s - 1,
             after |-> SelectSeq(Interval(s, Len(log)),
                                 LAMBDA i : i < h \/ log[i].from \in T \/ i \in kept)]
  IN  {ending(h) : h \in holes \cup {Len(log) + 1}}

\* A token has been round those in S: a new membership, for them to install.
Change(S) ==
  LET olds == {st[d].ring : d \in S} \ {Startup}
      with(d) == IF st[d].ring = Startup THEN {d}
                 ELSE {e \in S : st[e].ring = st[d].ring}
      goers(n) == {e \in S : st[e].ring = n}
      n1 == Len(rings) + 1
  IN  /\ Len(rings) < MaxRings
      /\ \E end \in [olds -> UNION {Endings(n, goers(n)) : n \in olds}] :
           /\ \A n \in olds : end[n] \in Endings(n, goers(n))
           /\ LET endOf(d) == IF st[d].ring = Startup THEN [before |-> 0, after |-> <<>>]
                              ELSE end[st[d].ring]
              IN  rings' = Append(rings,
                    [members |-> S, trans |-> [d \in S |-> with(d)],
                     before |-> [d \in S |-> endOf(d).before],
                     after |-> [d \in S |-> endOf(d).after],
                     log |-> <<>>, stable |-> 0, recovered |-> FALSE])
      /\ st' = [d \in Daemons |-> IF d \in S THEN [st[d] EXCEPT !.to = n1] ELSE st[d]]
      /\ UNCHANGED events

\* The members of ring n have exchanged what some of them missed of their old rings.
Recover(n) ==
  /\ ~rings[n].recovered /\ \A d \in rings[n].members : st[d].to = n
  /\ rings' = [rings EXCEPT ![n].recovered = TRUE]
  /\ UNCHANGED <<st, events>>

\* Discard_packets in EVS: d settles its old ring and has the new membership.
Install(d) ==
  LET r == st[d]
      n == r.to
      new == rings[n]
      old == IF r.ring = Startup THEN 1 ELSE r.ring
      r1 == DeliverAll(d, r, old, Interval(r.pos + 1, new.before[d]))
      r2 == TransMemb(r1, new.trans[d], TransId(n, new.trans[d]))
      r3 == DeliverAll(d, r2, old, new.after[d])
      r4 == RegMemb(d, r3, new.members, RegId(n))
  IN  /\ n # Startup /\ new.recovered
      /\ st' = [st EXCEPT ![d] = [r4 EXCEPT !.ring = n, !.to = Startup, !.pos = 0,
                                            !.early = {}]]
      /\ UNCHANGED <<rings, events>>

\* The daemon of d's machine ends and is started again.
Crash(d) ==
  /\ events < MaxEvents /\ events' = events + 1
  /\ st' = [st EXCEPT ![d] = [G_init(d) EXCEPT !.views = st[d].views]]
  /\ UNCHANGED rings

Next ==
  \/ \E d \in Daemons : SendGroups(d) \/ DeliverNext(d) \/ Install(d)
  \/ \E d \in MayCrash : Crash(d)
  \/ \E call \in Calls : Send(Home[call[1]], call[1], call[2])
  \/ \E d \in Daemons : \E i \in 1..(MaxEvents + MaxRings * Parts) : HandReliable(d, i)
  \/ \E n \in DOMAIN rings : Recover(n)
  \/ \E S \in SUBSET Daemons \ {{}} : Change(S)

Spec == Init /\ [][Next]_vars

-----------------------------------------------------------------------------
(* Properties.                                                             *)

\* NoGroupsAlarm: no daemon gives up: no join, leave or message to the group comes
\* in the midst of an exchange, no GROUPS message outside of one, no synced
\* set is added twice, and each local member has a session (the SPLOG_FATAL
\* calls of groups.c).
NoGroupsAlarm == \A d \in Daemons : st[d].exits = {}

\* The daemons that are in ring n, at the same place of its order.
Alike(d, e) ==
  /\ Operates(d) /\ Operates(e)
  /\ st[d].ring = st[e].ring /\ st[d].pos = st[e].pos

\* Agreement: daemons of a ring that have had the same messages of it, and are
\* not in an exchange, know the same of the group, whatever came before: its
\* members, its id, and who is synced (G_compute_and_notify, GroupsList).
Agreement ==
  \A d, e \in Daemons :
    Alike(d, e) /\ st[d].gstate = "GOP" /\ st[e].gstate = "GOP" =>
      st[d].grp = st[e].grp /\ st[d].sset = st[e].sset

\* SyncedSets: in an exchange the daemons are divided into synced sets, of
\* which each has one leader in the ring that speaks for all of them, as they
\* know the same (MySyncedSet, Is_synced_set_leader).
SyncedSets ==
  \A d, e \in Daemons :
    Alike(d, e) /\ st[d].gstate = "GGATHER" /\ st[e].gstate = "GGATHER" =>
      IF e \in st[d].sset
      THEN /\ st[e].sset = st[d].sset
           /\ st[e].grp.dm = st[d].grp.dm /\ st[e].grp.changed = st[d].grp.changed
      ELSE st[e].sset \cap st[d].sset = {}

\* The clients that a view says came with those of d.
CameWith(d, v) ==
  UNION {s \in v.vs : \E c \in s : Home[c] = d /\ c \in v.members}

\* OwnVsSet: members that a view of d lists in the vs_set of d's members, and
\* that got this view too, had the same view before and the same agreed
\* messages in it (G_build_memb_vs_buf).
OwnVsSet ==
  \A d, e \in Daemons : \A v \in st[d].views, w \in st[e].views :
    (v.cause = "network" /\ w.cause = "network" /\ v.gid = w.gid
       /\ \E c \in CameWith(d, v) : Home[c] = e)
      => v.prev = w.prev /\ v.since = w.since

\* Concludes: an exchange is not left over: when the members of a ring have sent
\* all their GROUPS messages and have had all messages of the ring, none is in an
\* exchange, also if those before were cut off at any point (Groups_bufs_fresh,
\* Gathered, Num_daemons_gathered).
HasHadAll(d, n) ==
  Operates(d) /\ st[d].ring = n /\ st[d].pos = Len(rings[n].log) /\ st[d].down = <<>>
Concludes ==
  \A n \in DOMAIN rings :
    (\A d \in rings[n].members : HasHadAll(d, n)) =>
      \A d \in rings[n].members : st[d].gstate = "GOP"
=============================================================================
