---------------------------- MODULE IgmpGroupDb ----------------------------
(***************************************************************************)
(* IGMP snooping: the data base of multicast groups                        *)
(* (common/src/lwps/igmp_group_db.c), what igmp_snooping.c, the timer, the *)
(* link status and the web page do to it, and the table of the chip that   *)
(* follows it.                                                             *)
(*                                                                         *)
(* The data base is a linked list of entries taken from a pool.  A list is *)
(* a sequence here, a group is an address in a VLAN, and a free entry is   *)
(* what is left in it that matters: its timers, which nobody clears.  A    *)
(* port is a router port while its timer runs; router_portMask says the    *)
(* same.  Fast leave is on for every port, and nothing turns it off.       *)
(*                                                                         *)
(* A link changes at any time; the main loop sees it later, and a frame    *)
(* received before may still be queued.  Each handler reads one link       *)
(* status throughout.                                                      *)
(***************************************************************************)
EXTENDS Integers, SequencesExt

CONSTANTS SAL_PORT_ID_CPU,         \* the ports are those before the CPU's
          Group, Mac,
          MacOf(_),                \* the 23 bits of a group that the chip's table holds
          MAX_GROUP_SIZE,
          IGMP_GROUP_MEM_INTERVAL, V1_ROUTER_PRESENT_TIME, IGMPDB_CHECK_PERIOD,
          QuerierPort,             \* where routers may be
          StaticRouters,           \* the sets that may be configured as router ports
          Trunks                   \* the sets that may be configured as the trunk

Port == 0 .. SAL_PORT_ID_CPU - 1

ASSUME GroupDbAssumption ==
    /\ SAL_PORT_ID_CPU \in Nat /\ QuerierPort \subseteq Port
    /\ \A g \in Group : MacOf(g) \in Mac
    /\ {MAX_GROUP_SIZE, IGMP_GROUP_MEM_INTERVAL, V1_ROUTER_PRESENT_TIME,
        IGMPDB_CHECK_PERIOD} \subseteq Nat \ {0}
    /\ StaticRouters \subseteq SUBSET Port /\ Trunks \subseteq SUBSET Port

VARIABLES db,                      \* the lists, the router timers and the chip's table
          routerStatic, pass_time, enabled,
          trunk,
          link, seen,              \* the ports that are up, and prevLinkUpPmsk
          late                     \* down ports with a frame still in the queue

vars == <<db, routerStatic, pass_time, enabled, trunk, link, seen, late>>

NoTimers == [p \in Port |-> 0]
Timers == [Port -> 0 .. IGMP_GROUP_MEM_INTERVAL]
Entry == [addr : Group, fwd : SUBSET Port, timer : Timers]
DataBase == [list : Seq(Entry), free : Seq(Timers),
             router : [Port -> 0 .. V1_ROUTER_PRESENT_TIME],
             chip : [Mac -> SUBSET Port]]

\* igmp_group_get_queryPort
RouterPorts(d) == {p \in Port : d.router[p] # 0} \cup routerStatic

-----------------------------------------------------------------------------
(* What the operations do to the data base d                               *)

\* igmpdb_get_group
Listed(d, g) == \E i \in DOMAIN d.list : d.list[i].addr = g
Index(d, g) == CHOOSE i \in DOMAIN d.list : d.list[i].addr = g
Get(d, g) == d.list[Index(d, g)]
Put(d, e) == [d EXCEPT !.list[Index(d, e.addr)] = e]

\* sal_igmp_ipAddrEntry_add: the entry's ports and the router ports replace
\* what the chip holds for the address.
ToChip(d, g) == [d EXCEPT !.chip[MacOf(g)] = Get(d, g).fwd \cup RouterPorts(d)]

DelGroup_KeepsChip(d, g) ==  \* Seeded bug: the chip goes on forwarding the group.
    IF ~Listed(d, g) THEN d
    ELSE [d EXCEPT !.list = RemoveAt(@, Index(d, g)),
                   !.free = <<Get(d, g).timer>> \o @]

\* igmp_group_del_group
DelGroup(d, g) ==
    IF ~Listed(d, g) THEN d
    ELSE [d EXCEPT !.list = RemoveAt(@, Index(d, g)),
                   !.free = <<Get(d, g).timer>> \o @,
                   !.chip[MacOf(g)] = {}]

\* igmpdb_get_empty_entry: the entry keeps the timers it had.
NewGroup(d, g) ==
    [d EXCEPT !.list = Append(@, [addr |-> g, fwd |-> {}, timer |-> Head(d.free)]),
              !.free = Tail(@)]

TrunkUp_AlsoDown(p) ==  \* Seeded bug: a port of the trunk joins although it is down.
    IF p \in trunk THEN trunk ELSE {}

\* The ports of p's trunk that are up
TrunkUp(p) == IF p \in trunk THEN trunk \cap link ELSE {}

\* igmp_add_groupMember_byTrunk
Joins(d, g, p) ==
    LET new == TrunkUp(p) \cup {p}
        e == Get(d, g)
    IN  ToChip(Put(d, [e EXCEPT
            !.fwd = @ \cup new,
            !.timer = [q \in Port |-> IF q \in new THEN IGMP_GROUP_MEM_INTERVAL ELSE @[q]]]), g)

\* igmp_group_add_groupMember
AddMember(d, g, p) ==
    IF Listed(d, g) THEN Joins(d, g, p)
    ELSE IF d.free # <<>> THEN Joins(NewGroup(d, g), g, p)
    ELSE d

Settle_NotToChip(d, e, new) ==  \* Seeded bug: the chip is told of the last port only.
    IF new.fwd = {} THEN DelGroup(Put(d, new), e.addr) ELSE Put(d, new)

\* Entry e becomes new.  With no port left it goes; the chip hears of other ports.
Settle(d, e, new) ==
    IF new.fwd = {} THEN DelGroup(Put(d, new), e.addr)
    ELSE IF new.fwd # e.fwd THEN ToChip(Put(d, new), e.addr)
    ELSE Put(d, new)

\* The loops over the groups: each in turn becomes what new says of it.
SettleAll(d, new) ==
    LET after[i \in 0 .. Len(d.list)] ==
            IF i = 0 THEN d ELSE Settle(after[i - 1], d.list[i], new[i])
    IN  after[Len(d.list)]

\* igmp_group_del_groupMember: one port leaves, whatever its trunk.
DelMember(d, g, p) ==
    IF ~Listed(d, g) THEN d
    ELSE LET rest == [Get(d, g) EXCEPT !.fwd = @ \ {p}, !.timer[p] = 0]
         IN  IF rest.fwd = {} THEN DelGroup(Put(d, rest), g) ELSE ToChip(Put(d, rest), g)

Aged_Wraps(e) ==  \* Seeded bug: a timer that is not running runs.
    [e EXCEPT !.fwd = {p \in @ : e.timer[p] # 1},
              !.timer = [p \in Port |-> @[p] - 1]]

Aged_Stays(e) ==  \* Seeded bug: a port stays when its time is over.
    [e EXCEPT !.timer = [p \in Port |-> IF @[p] = 0 THEN 0 ELSE @[p] - 1]]

\* One IGMPDB_CHECK_PERIOD passes for entry e.
Aged(e) == [e EXCEPT !.fwd = {p \in @ : e.timer[p] # 1},
                     !.timer = [p \in Port |-> IF @[p] = 0 THEN 0 ELSE @[p] - 1]]

RoutersExpire(d) ==
    [d EXCEPT !.router = [p \in Port |-> IF @[p] = 0 THEN 0 ELSE @[p] - 1]]

-----------------------------------------------------------------------------
(* igmp_group_linkStatus_change                                            *)

Rejoin_NoTimer(d, g, p) ==  \* Seeded bug: the port has no timer of its own.
    IF TrunkUp(p) \cap Get(d, g).fwd = {} THEN d
    ELSE ToChip(Put(d, [Get(d, g) EXCEPT !.fwd = @ \cup {p}]), g)

Rejoin_NotToChip(d, g, p) ==  \* Seeded bug: the chip is not told.
    LET e == Get(d, g)
        others == (TrunkUp(p) \cap e.fwd) \ {p}
        first == CHOOSE k \in others : \A k2 \in others : k <= k2
    IN  IF TrunkUp(p) \cap e.fwd = {} THEN d
        ELSE Put(d, [e EXCEPT !.fwd = @ \cup {p},
                              !.timer[p] = IF others = {} THEN @ ELSE e.timer[first]])

\* Port p has come up: it joins a group of which its trunk is a member, with
\* the timer of the trunk's first other member.
Rejoin(d, g, p) ==
    LET e == Get(d, g)
        others == (TrunkUp(p) \cap e.fwd) \ {p}
        first == CHOOSE k \in others : \A k2 \in others : k <= k2
    IN  IF TrunkUp(p) \cap e.fwd = {} THEN d
        ELSE ToChip(Put(d, [e EXCEPT
                !.fwd = @ \cup {p},
                !.timer[p] = IF others = {} THEN @ ELSE e.timer[first]]), g)

\* The loop over the groups does not advance: only the first one is treated.
LinksUp(d, up) ==
    LET after[k \in 0 .. SAL_PORT_ID_CPU] ==
            IF k = 0 THEN d
            ELSE IF k - 1 \in up THEN Rejoin(after[k - 1], d.list[1].addr, k - 1)
            ELSE after[k - 1]
    IN  IF d.list = <<>> THEN d ELSE after[SAL_PORT_ID_CPU]

RoutersDown(d, down) ==
    [d EXCEPT !.router = [p \in Port |-> IF p \in down THEN 0 ELSE @[p]]]

LosePorts(e, down) ==
    [e EXCEPT !.fwd = @ \ down,
              !.timer = [p \in Port |-> IF p \in down \cap e.fwd \/ e.fwd \subseteq down
                                        THEN 0 ELSE @[p]]]

\* The loop over the groups stops at the first that loses no port: `continue`
\* leaves the pointer where it is.
Reached(d, down) ==
    {i \in DOMAIN d.list : \A j \in 1 .. i : d.list[j].fwd \cap down # {}}

LinksDown(d, down) ==
    SettleAll(RoutersDown(d, down),
              [i \in DOMAIN d.list |-> IF i \in Reached(d, down)
                                       THEN LosePorts(d.list[i], down) ELSE d.list[i]])

-----------------------------------------------------------------------------
Init ==
    /\ db = [list |-> <<>>, free |-> [i \in 1 .. MAX_GROUP_SIZE |-> NoTimers],
             router |-> NoTimers, chip |-> [m \in Mac |-> {}]]
    /\ routerStatic \in StaticRouters /\ trunk \in Trunks
    /\ pass_time = 0 /\ enabled \in BOOLEAN
    /\ link = {} /\ seen = {} /\ late = {}

\* igmp_up gets a frame from a port that is up, or was when it came.
Received(p) ==
    /\ enabled
    /\ p \in link \/ p \in late
    /\ late' = late \ {p}
    /\ UNCHANGED <<routerStatic, pass_time, enabled, trunk, link, seen>>

\* A report of v1 or v2, or a record of v3 unless it includes no source
Report(g, p) == Received(p) /\ db' = AddMember(db, g, p)

\* A leave of v2, or a record of v3 that includes no source
Leave(g, p) == Received(p) /\ db' = DelMember(db, g, p)

\* A query whose sender has an address: igmp_group_add_queryPort
Query(p) == Received(p) /\ db' = [db EXCEPT !.router[p] = V1_ROUTER_PRESENT_TIME]

Tick == pass_time' = IF enabled THEN (pass_time + 1) % IGMPDB_CHECK_PERIOD ELSE 0

\* igmpdb_timer(1): routers first, so that an entry is written without them.
Timer ==
    /\ Tick
    /\ db' = IF enabled /\ pass_time' = 0
             THEN SettleAll(RoutersExpire(db), [i \in DOMAIN db.list |-> Aged(db.list[i])])
             ELSE db
    /\ UNCHANGED <<routerStatic, enabled, trunk, link, seen, late>>

SeeLinks == seen # link /\ seen' = link

\* The main loop sees that links have changed.
LinkChange ==
    /\ SeeLinks
    /\ db' = IF enabled THEN LinksDown(LinksUp(db, link \ seen), seen \ link) ELSE db
    /\ UNCHANGED <<routerStatic, pass_time, enabled, trunk, link, late>>

\* A cable is plugged or pulled, perhaps with a frame still in the queue.
Plug(p) ==
    /\ p \notin link /\ link' = link \cup {p} /\ late' = late \ {p}
    /\ UNCHANGED <<db, routerStatic, pass_time, enabled, trunk, seen>>

Pull(p) ==
    /\ p \in link /\ link' = link \ {p}
    /\ late' \in {late, late \cup {p}}
    /\ UNCHANGED <<db, routerStatic, pass_time, enabled, trunk, seen>>

\* sal_igmp_state_set: igmp_group_del, and igmp_group_db_init puts the free
\* entries, with the timers they have, back into the order of the pool.
Disable ==
    /\ enabled /\ enabled' = FALSE
    /\ LET gone == SettleAll(db, [i \in DOMAIN db.list |-> [db.list[i] EXCEPT !.fwd = {}]])
           free == DOMAIN gone.free
       IN  \E pool \in Bijection(free, free) :
               db' = [gone EXCEPT !.router = NoTimers,
                                  !.free = [i \in free |-> @[pool[i]]]]
    /\ UNCHANGED <<routerStatic, pass_time, trunk, link, seen, late>>

Enable ==
    /\ ~enabled /\ enabled' = TRUE
    /\ UNCHANGED <<db, routerStatic, pass_time, trunk, link, seen, late>>

\* The pages of the static router ports and of the trunk leave the data base alone.
SetStaticRouters ==
    /\ routerStatic' \in StaticRouters \ {routerStatic}
    /\ UNCHANGED <<db, pass_time, enabled, trunk, link, seen, late>>

SetTrunk ==
    /\ trunk' \in Trunks \ {trunk}
    /\ UNCHANGED <<db, routerStatic, pass_time, enabled, link, seen, late>>

Next ==
    \/ \E g \in Group, p \in Port : Report(g, p) \/ Leave(g, p)
    \/ \E p \in QuerierPort : Query(p)
    \/ Timer \/ LinkChange
    \/ \E p \in Port : Plug(p) \/ Pull(p)
    \/ Disable \/ Enable \/ SetStaticRouters \/ SetTrunk

Spec == Init /\ [][Next]_vars

\* The main loop runs the timer every second and looks at the links.  Timer and
\* LinkChange can always do the rest of what they do.
FairSpec == Spec /\ WF_pass_time(Tick) /\ WF_seen(SeeLinks)

-----------------------------------------------------------------------------
TypeOK ==
    /\ db \in DataBase
    /\ routerStatic \in StaticRouters /\ trunk \in Trunks
    /\ pass_time \in 0 .. IGMPDB_CHECK_PERIOD - 1 /\ enabled \in BOOLEAN
    /\ link \subseteq Port /\ seen \subseteq Port /\ late \subseteq Port \ link

\* However groups come and go, the pool keeps its entries, all of them while
\* snooping is off; those in use are for different groups with members, and
\* each member has a timer that will end it, also a port that its trunk has
\* made a member.
PoolIsKept ==
    /\ Len(db.list) + Len(db.free) = MAX_GROUP_SIZE
    /\ enabled \/ db.list = <<>>
    /\ \A i, j \in DOMAIN db.list : db.list[i].addr = db.list[j].addr => i = j
    /\ \A e \in ToSet(db.list) : e.fwd # {} /\ \A p \in e.fwd : e.timer[p] # 0

\* No other group has g's address in the chip.
OwnMac(g) == \A h \in Group : MacOf(h) = MacOf(g) => h = g

\* The chip forwards to its members each listed group that has an address of
\* its own, and has no entry for an address of which no group is left.
ChipAgrees ==
    /\ \A e \in ToSet(db.list) : OwnMac(e.addr) => e.fwd \subseteq db.chip[MacOf(e.addr)]
    /\ \A m \in Mac : db.chip[m] # {} => \E e \in ToSet(db.list) : MacOf(e.addr) = m

\* A port that is down, with no frame left in the queue, only loses: it joins no
\* group, not by a report of another port of its trunk nor with a link that comes
\* up, and no timer of its memberships is set again.
DownPortOnlyLoses ==
    [][\A p \in Port \ (link \cup late) : \A e \in ToSet(db'.list) : p \in e.fwd =>
        /\ Listed(db, e.addr)
        /\ p \in Get(db, e.addr).fwd /\ e.timer[p] <= Get(db, e.addr).timer[p]]_vars

\* The ports to which the chip forwards m though they are members of no such group
Strangers(d, m) == {p \in d.chip[m] : \A e \in ToSet(d.list) : MacOf(e.addr) = m => p \notin e.fwd}

\* A port that leaves a group, by whatever way, is struck out in the chip in the
\* same step, although the loops miss groups and groups share addresses: only a
\* router port may be left over, for the chip is not told of those.
ChipFollowsMembers ==
    [][\A m \in Mac : Strangers(db', m) \subseteq Strangers(db, m) \cup RouterPorts(db)]_vars

\* A port that stays down is in the end a member of nothing and forwarded
\* nothing, although the loop over the groups may miss it and a late report
\* may bring it back.
DownPortLeaves == \A p \in Port :
    <>[](p \notin link \cup routerStatic) =>
        <>[](\A m \in Mac : p \notin db.chip[m])

\* A router port that has gone is in the end forwarded no group of which it is
\* no member, although the chip is not told when a router port expires.
OldRoutersLeave == \A p \in Port, m \in Mac :
    (p \in db.chip[m] /\ p \notin RouterPorts(db))
        ~> (p \notin db.chip[m] \/ p \in RouterPorts(db) \/
            \E e \in ToSet(db.list) : MacOf(e.addr) = m /\ p \in e.fwd)

=============================================================================
