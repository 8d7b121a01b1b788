------------------------------ MODULE ArpTable ------------------------------
(***************************************************************************)
(* The ARP cache (lwps/etharp.c): which MAC address a frame for an IP      *)
(* address goes to.  It learns from ARP frames and from IP frames of the   *)
(* own subnet; the timer ages it, once a second, and asks for the gateway. *)
(*                                                                         *)
(* Entry 0 is kept for the gateway.  It is scanned for an update even when *)
(* it is empty, so what it held last matters; of the other entries it is   *)
(* never read, and they are Blank here when they are empty.  Any frame can *)
(* be lost or late: hearing from a host is an action of its own.           *)
(***************************************************************************)
EXTENDS Integers, FiniteSets

CONSTANTS
    Size,           \* LWPS_ETHARP_ARP_TABLE_SIZE
    MaxAge,         \* LWPS_ETHARP_ARP_MAXAGE
    MaxPending,     \* LWPS_ETHARP_ARP_MAXPENDING
    GatewayPeriod,  \* the 60 of etharp_timer
    QueryTime,      \* LWPS_ETHARP_GATEWAY_QUERY_TIME
    Ip, Host,       \* addresses of the own subnet; pairs <<IP, MAC>> of its hosts
    Unset, NoMac,   \* 0.0.0.0, no gateway; the MAC address of no host
    TrapDip         \* where SNMP traps go, if that is in the subnet, or Unset

ASSUME ArpAssumption ==
    /\ Size \in Nat /\ Size > 1
    /\ MaxAge \in Nat /\ MaxPending \in 1 .. MaxAge
    /\ QueryTime \in Nat \ {0}
    /\ Unset \in Ip /\ TrapDip \in Ip
    /\ \A h \in Host : h[1] \in Ip /\ h[2] # NoMac

\* The gateway is asked for more often than an entry expires.
ASSUME PeriodAssumption == GatewayPeriod \in 1 .. MaxPending - 1

Entry == 0 .. Size - 1

VARIABLES
    arp_table,
    gw_mac_need,            \* a frame was for another subnet
    default_gateway,
    cnt, gateway_timeout,   \* the counters of etharp_timer
    watched, since,         \* history: a host, and the ticks since it was heard
    answer                  \* history: how the gateway answers, see Due

vars == <<arp_table, gw_mac_need, default_gateway, cnt, gateway_timeout, watched, since, answer>>

Blank == [host |-> <<Unset, NoMac>>, state |-> "EMPTY", ctime |-> 0]

Live(e) == e.state # "EMPTY"
Holds(e, ip) == Live(e) /\ e.host[1] = ip

-----------------------------------------------------------------------------
(* Looking up.  Tables are parameters, for the timer does several things   *)
(* to the table one after the other.                                       *)

\* The scan for ip stops at i.
FoundAt(t, i, ip) == Holds(t[i], ip) /\ \A j \in Entry : j < i => ~Holds(t[j], ip)
Known(t, ip) == \E i \in Entry : Holds(t[i], ip)

\* Seeded bug: a look-up recharges the entry.
Found_Recharged(t, ip) ==
    [i \in Entry |-> IF FoundAt(t, i, ip) THEN [t[i] EXCEPT !.state = "STABLE", !.ctime = 0]
                     ELSE t[i]]

\* etharp_entry_find: the entry becomes STABLE, its age goes on.
Found(t, ip) ==
    [i \in Entry |-> IF FoundAt(t, i, ip) THEN [t[i] EXCEPT !.state = "STABLE"] ELSE t[i]]

\* An entry that is recycled
Emptied(i, e) == IF i = 0 THEN [e EXCEPT !.state = "EMPTY", !.ctime = 0] ELSE Blank

\* etharp_entry_clear
Cleared(t, ip) ==
    [i \in Entry |-> IF FoundAt(t, i, ip) THEN Emptied(i, t[i]) ELSE t[i]]

\* An entry other than the gateway's has the address.
Elsewhere(t, ip) == \E i \in Entry \ {0} : Holds(t[i], ip)

\* Seeded bug: the scan starts at entry 0.
Requests_FromZero(t, ip) == ~Known(t, ip)

\* Does etharp_request send?
Requests(t, ip) == ~Elsewhere(t, ip)

-----------------------------------------------------------------------------
(* Learning                                                                *)

Matches(i, h) == (Live(arp_table[i]) \/ i = 0) /\ arp_table[i].host = h

Vacant == {i \in Entry \ {0} : ~Live(arp_table[i])}

\* The first of the oldest entries
Oldest(i) ==
    \A j \in Entry : \/ arp_table[j].ctime < arp_table[i].ctime
                     \/ arp_table[j].ctime = arp_table[i].ctime /\ i =< j

\* The first empty entry, or else the oldest, but entry 1 instead of entry 0
Replaceable(i) ==
    IF Vacant # {} THEN i \in Vacant /\ \A j \in Vacant : i =< j
    ELSE (i # 0 /\ Oldest(i)) \/ (i = 1 /\ Oldest(0))

\* Where etharp_entry_update puts host h
PlaceFor(h, i) ==
    IF \E j \in Entry : Matches(j, h)
    THEN Matches(i, h) /\ \A j \in Entry : j < i => ~Matches(j, h)
    ELSE IF h[1] = default_gateway THEN i = 0 ELSE Replaceable(i)

-----------------------------------------------------------------------------
\* The gateway was asked for.  Its answer is "due" until the next tick and
\* "late" from then on; it is "prompt" when it was heard and is in entry 0 only.
Due(asks) == IF asks /\ answer = "prompt" THEN "due" ELSE answer

Init ==
    /\ arp_table = [i \in Entry |-> Blank]
    /\ gw_mac_need = TRUE /\ default_gateway \in Ip
    /\ cnt = 0 /\ gateway_timeout = QueryTime
    /\ watched \in Host /\ since = MaxAge /\ answer = "late"

\* A frame of host h: etharp_up, eth_up
Hear(h) ==
    /\ \E i \in Entry :
        /\ PlaceFor(h, i)
        /\ arp_table' = [arp_table EXCEPT ![i] =
                            [host |-> h, state |-> "PENDING", ctime |-> 0]]
    /\ since' = IF h = watched THEN 0 ELSE since
    /\ answer' = IF h[1] = default_gateway /\ ~Elsewhere(arp_table', h[1])
                 THEN "prompt" ELSE answer
    /\ UNCHANGED <<gw_mac_need, default_gateway, cnt, gateway_timeout, watched>>

\* eth_down_handle_ip: a frame for a host of the subnet, or of another one
Send(ip) ==
    /\ arp_table' = Found(arp_table, ip)
    /\ UNCHANGED <<gw_mac_need, default_gateway, cnt, gateway_timeout, watched, since, answer>>

SendOff ==
    /\ gw_mac_need' = TRUE
    /\ arp_table' = Found(arp_table, default_gateway)
    /\ UNCHANGED <<default_gateway, cnt, gateway_timeout, watched, since, answer>>

\* The ping page starts: a known host is forgotten when sending fails; one
\* that is not known, any more or at all, is asked for.
Ping(ip) ==
    /\ arp_table' \in {Found(arp_table, ip), Cleared(arp_table, ip)}
    /\ answer' = Due(ip = default_gateway /\ ~Known(arp_table', ip))
    /\ UNCHANGED <<gw_mac_need, default_gateway, cnt, gateway_timeout, watched, since>>

\* sal_sys_gateway_set
SetGateway(ip) ==
    /\ default_gateway' = ip
    /\ answer' = "late"
    /\ UNCHANGED <<arp_table, gw_mac_need, cnt, gateway_timeout, watched, since>>

-----------------------------------------------------------------------------
(* etharp_timer                                                            *)

Aged(e) == [e EXCEPT !.ctime = IF @ < MaxAge THEN @ + 1 ELSE @]

Expires(e) ==
    \/ e.state = "STABLE" /\ e.ctime >= MaxAge
    \/ e.state = "PENDING" /\ e.ctime >= MaxPending

Ticked ==
    [i \in Entry |-> IF ~Live(arp_table[i]) THEN arp_table[i]
                     ELSE IF Expires(Aged(arp_table[i])) THEN Emptied(i, arp_table[i])
                     ELSE Aged(arp_table[i])]

\* A missing gateway is asked for once per frame that needed it.
Missed(t) == default_gateway # Unset /\ gw_mac_need /\ ~Known(t, default_gateway)

\* The look-ups of the timer: the gateway, if it is needed, and the traps' host
LookedUp(t) ==
    LET g == IF default_gateway # Unset /\ gw_mac_need THEN Found(t, default_gateway) ELSE t
    IN  IF TrapDip \notin {default_gateway, Unset} THEN Found(g, TrapDip) ELSE g

Tick ==
    LET periodic == cnt + 1 = GatewayPeriod
        query == gateway_timeout >= QueryTime
    IN  /\ cnt' = IF periodic THEN 0 ELSE cnt + 1
        /\ gateway_timeout' = (IF query THEN 0 ELSE gateway_timeout) + 1
        /\ arp_table' = IF query THEN LookedUp(Ticked) ELSE Ticked
        /\ gw_mac_need' = (gw_mac_need /\ ~(query /\ Missed(Ticked)))
        /\ answer' = IF answer = "due" THEN "late"
                     ELSE Due(/\ default_gateway # Unset
                              /\ periodic \/ (query /\ Missed(Ticked))
                              /\ Requests(Ticked, default_gateway))
        /\ since' = IF since < MaxAge THEN since + 1 ELSE since
        /\ UNCHANGED <<default_gateway, watched>>

Next ==
    \/ \E h \in Host : Hear(h)
    \/ \E ip \in Ip : Send(ip) \/ Ping(ip) \/ SetGateway(ip)
    \/ SendOff
    \/ Tick

Spec == Init /\ [][Next]_vars

-----------------------------------------------------------------------------
\* An entry in use is younger than MaxAge.
TypeOK ==
    /\ arp_table \in [Entry -> [host : Host \cup {<<Unset, NoMac>>},
                                state : {"EMPTY", "PENDING", "STABLE"},
                                ctime : 0 .. MaxAge - 1]]
    /\ gw_mac_need \in BOOLEAN /\ default_gateway \in Ip
    /\ cnt \in 0 .. GatewayPeriod - 1 /\ gateway_timeout \in 1 .. QueryTime
    /\ watched \in Host /\ since \in 0 .. MaxAge
    /\ answer \in {"prompt", "due", "late"}

\* No frame goes to a MAC address that was not heard with the IP address
\* within the last MaxAge ticks, however often it was looked up and whatever
\* was replaced and forgotten meanwhile: an entry's age is the host's.
FoundWasHeard ==
    /\ \A i \in Entry : Live(arp_table[i]) /\ arp_table[i].host = watched
            => arp_table[i].ctime = since /\ since < MaxAge
    /\ \A i, j \in Entry : Live(arp_table[i]) /\ Live(arp_table[j])
            /\ arp_table[i].host = arp_table[j].host => i = j

\* Entry 0, and no other, has the gateway.
GatewayInPlace ==
    /\ default_gateway # Unset /\ Holds(arp_table[0], default_gateway)
    /\ ~Elsewhere(arp_table, default_gateway)

\* A gateway in its place stays known as long as it answers in time: no tick
\* and no other host removes it.
GatewayStays ==
    [][GatewayInPlace /\ default_gateway' = default_gateway /\ answer' # "late"
        => GatewayInPlace' \/ \E ip \in Ip : Ping(ip)]_vars

=============================================================================
