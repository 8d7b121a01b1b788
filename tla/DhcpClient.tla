----------------------------- MODULE DhcpClient -----------------------------
(***************************************************************************)
(* The DHCP client (common/src/app/dhcpc/dhcpc.c) and the address of the   *)
(* switch it sets.  event_dispatch runs in passes: the one-second event    *)
(* first, then the received frames (replies of servers, requests to the    *)
(* web server), then dhcpc_routine.                                        *)
(*                                                                         *)
(* A server leases one address to the switch, which here has the server's  *)
(* name; netmask and gateway follow the address.  Each new transaction id  *)
(* empties "asked", the requests a reply may still answer: replies to      *)
(* older ones fail the xid test and are no more than stray datagrams.      *)
(* Replies are lost, late, repeated and reordered by what the servers      *)
(* choose to send.  lwps_sendto reports success whatever becomes of the    *)
(* frame (ip_down ignores the result of eth_down), and retries is never    *)
(* decremented, so neither failure of dhcpc_state_update is a step here.   *)
(* Lease times stay below 2^32/7 seconds, where their product fits.        *)
(***************************************************************************)
EXTENDS Integers

CONSTANTS Server,     \* the DHCP servers, and the addresses they lease
          Other,      \* a host that is no DHCP server
          NoIp,       \* 0.0.0.0
          DefaultIp,  \* def_ipaddr
          StaticIp,   \* the address in flash, or set on the web page
          Lease,      \* the lease times a server may grant
          Timeout,    \* DHCPC_TIMEOUT
          MaxTime     \* DHCPC_MAXTIME

ASSUME TimesAssumption ==
    /\ Timeout \in Nat \ {0}
    /\ MaxTime \in Nat \ {0}
    /\ Lease \subseteq Nat

ASSUME AddressAssumption ==
    /\ NoIp # DefaultIp /\ NoIp # StaticIp /\ DefaultIp # StaticIp
    /\ {NoIp, DefaultIp, StaticIp, Other} \cap Server = {}

VARIABLES running,    \* DHCPC_STATUS_RUNNING
          state, timeout, left_time, sec_uptime, ipaddr_lease_time,
          offered,    \* offer_times > 0
          update_ip,  \* one of DHCPC_STATUS_BOUND, _RENEW, _REBIND
          clientid, serverid, server_ip,
          socket,     \* socket_id >= 0
          ip,         \* this_ip
          asked,      \* requests with the current transaction id
          at          \* where the pass of event_dispatch is

vars == <<running, state, timeout, left_time, sec_uptime, ipaddr_lease_time,
          offered, update_ip, clientid, serverid, server_ip, socket, ip, asked, at>>

DhcpState == {"NONE", "INITIALIZING", "SELECTING", "REQUESTING",
              "BOUND", "RENEWING", "REBINDING"}
Host == Server \cup {Other}

\* A request names the server it is for; a broadcast without option 54, none.
Everyone == NoIp
Discover == [type |-> "DISCOVER", server |-> Everyone, addr |-> NoIp]
Request(s, a) == [type |-> "REQUEST", server |-> s, addr |-> a]
Message == [type : {"DISCOVER", "REQUEST"}, server : Host \cup {Everyone},
            addr : Server \cup {NoIp}]

Init ==
    /\ running = FALSE /\ state = "NONE" /\ timeout = 0 /\ left_time = 0
    /\ sec_uptime = 0 /\ ipaddr_lease_time = 0 /\ offered = FALSE /\ update_ip = FALSE
    /\ clientid = NoIp /\ serverid = NoIp /\ server_ip = NoIp
    /\ socket = FALSE /\ ip = StaticIp /\ asked = {} /\ at = "start"

-----------------------------------------------------------------------------
(* dhcpc_timer, called by timer_sec_dsr at the start of a pass             *)

TimeRuns_Always == running  \* Seeded bug: a timeout that is off counts down.

TimeRuns == running /\ timeout > 0

Timer_OnlyBound ==  \* Seeded bug: the time of the lease stops once it is being renewed.
    /\ at = "start" /\ at' = "rx"
    /\ sec_uptime' = IF TimeRuns \/ state = "BOUND" THEN sec_uptime + 1 ELSE sec_uptime
    /\ timeout' = IF TimeRuns THEN timeout - 1 ELSE timeout
    /\ left_time' = IF TimeRuns THEN left_time - 1 ELSE left_time
    /\ UNCHANGED <<running, state, ipaddr_lease_time, offered, update_ip,
                   clientid, serverid, server_ip, socket, ip, asked>>

Timer ==
    /\ at = "start" /\ at' = "rx"
    /\ sec_uptime' = IF running THEN sec_uptime + 1 ELSE sec_uptime
    /\ timeout' = IF TimeRuns THEN timeout - 1 ELSE timeout
    /\ left_time' = IF TimeRuns THEN left_time - 1 ELSE left_time
    /\ UNCHANGED <<running, state, ipaddr_lease_time, offered, update_ip,
                   clientid, serverid, server_ip, socket, ip, asked>>

-----------------------------------------------------------------------------
(* lwps_dhcpc_recvfrom                                                     *)

\* The effect of a reply on the state machine, after its fields are stored.
StateReceives(type) ==
    LET acked == type = "ACK" /\ running /\ state \in {"REQUESTING", "RENEWING", "REBINDING"}
    IN  /\ offered' = (offered \/ (type = "OFFER" /\ running /\ state = "SELECTING"))
        /\ state' = IF acked THEN "BOUND" ELSE state
        /\ update_ip' = (update_ip \/ acked)
        /\ sec_uptime' = IF acked THEN 0 ELSE sec_uptime

\* The messages server s may answer, and how: a server acknowledges only the
\* address it leases, and may refuse any request it is meant to read.
Answer(s) ==
    {type \in {"OFFER", "ACK", "NAK"} :
        \E q \in asked :
            \/ type = "OFFER" /\ q = Discover
            \/ /\ type \in {"ACK", "NAK"} /\ q.type = "REQUEST" /\ q.server \in {s, Everyone}
               /\ type = "ACK" => q.addr = s}

Reply(s, type, l) ==
    /\ socket /\ at' = "rx"
    /\ type \in Answer(s)
    /\ server_ip' = s /\ serverid' = s
    /\ clientid' = IF type = "NAK" THEN NoIp ELSE s
    /\ ipaddr_lease_time' = IF type = "NAK" THEN ipaddr_lease_time ELSE l
    /\ StateReceives(type)
    /\ UNCHANGED <<running, timeout, left_time, socket, ip, asked>>

\* Any other datagram for the client's port: not a reply, or another xid.
Stray(h) ==
    /\ socket /\ at' = "rx"
    /\ server_ip' = h
    /\ UNCHANGED <<running, state, timeout, left_time, sec_uptime, ipaddr_lease_time,
                   offered, update_ip, clientid, serverid, socket, ip, asked>>

-----------------------------------------------------------------------------
(* sal_sys_dhcp_set, by post_ip or when the saved setting is applied at     *)
(* start.  A switch without an address receives no web request.             *)

Enable ==
    /\ ip # NoIp /\ at' = "rx"
    /\ running' = TRUE /\ state' = "INITIALIZING"
    /\ timeout' = Timeout /\ left_time' = MaxTime
    /\ UNCHANGED <<sec_uptime, ipaddr_lease_time, offered, update_ip, clientid,
                   serverid, server_ip, socket, ip, asked>>

\* post_ip has stopped the client when it finds the form's address invalid.
Disable ==
    /\ ip # NoIp /\ at' = "rx"
    /\ running' = FALSE
    /\ ip' \in {ip, StaticIp}
    /\ UNCHANGED <<state, timeout, left_time, sec_uptime, ipaddr_lease_time, offered,
                   update_ip, clientid, serverid, server_ip, socket, asked>>

\* The page that puts the management address on a VLAN sets it whether or not
\* the client runs.
SetVlanIp ==
    /\ ip # NoIp /\ at' = "rx"
    /\ ip' = StaticIp
    /\ UNCHANGED <<running, state, timeout, left_time, sec_uptime, ipaddr_lease_time,
                   offered, update_ip, clientid, serverid, server_ip, socket, asked>>

-----------------------------------------------------------------------------
(* dhcpc_state_update: one operator per state of the client                *)

Retry == timeout = 0
Recharged == IF Retry THEN Timeout ELSE timeout

\* An unanswered transaction is left by a new id, which "asked" forgets.
Initializing_KeepsIp ==  \* Seeded bug: the old address stays in use.
    /\ state = "INITIALIZING"
    /\ state' = "SELECTING" /\ timeout' = Timeout
    /\ asked' = {Discover}
    /\ sec_uptime' = 0 /\ offered' = FALSE
    /\ UNCHANGED <<left_time, update_ip, ip>>

Initializing_RestartsDeadline ==  \* Seeded bug: each try has the whole time again.
    /\ state = "INITIALIZING"
    /\ state' = "SELECTING" /\ timeout' = Timeout /\ left_time' = MaxTime
    /\ ip' = NoIp /\ asked' = {Discover}
    /\ sec_uptime' = 0 /\ offered' = FALSE
    /\ UNCHANGED update_ip

Initializing ==
    /\ state = "INITIALIZING"
    /\ state' = "SELECTING" /\ timeout' = Timeout
    /\ ip' = NoIp /\ asked' = {Discover}
    /\ sec_uptime' = 0 /\ offered' = FALSE
    /\ UNCHANGED <<left_time, update_ip>>

Selecting ==
    /\ state = "SELECTING"
    /\ \/ /\ offered
          /\ state' = "REQUESTING" /\ timeout' = Timeout
          /\ asked' = asked \cup {Request(serverid, clientid)}
       \/ /\ ~offered
          /\ state' = IF Retry THEN "INITIALIZING" ELSE state
          /\ timeout' = Recharged
          /\ UNCHANGED asked
    /\ UNCHANGED <<left_time, sec_uptime, offered, update_ip, ip>>

Requesting ==
    /\ state = "REQUESTING"
    /\ state' = IF Retry THEN "SELECTING" ELSE state
    /\ timeout' = Recharged
    /\ UNCHANGED <<left_time, sec_uptime, offered, update_ip, ip, asked>>

Bound_TimerRuns ==  \* Seeded bug: the timeout is not disabled.
    /\ state = "BOUND"
    /\ timeout' = Recharged
    /\ IF sec_uptime >= ipaddr_lease_time \div 2
       THEN state' = "RENEWING" /\ asked' = {Request(server_ip, clientid)}
       ELSE UNCHANGED <<state, asked>>
    /\ ip' = IF update_ip THEN clientid ELSE ip
    /\ update_ip' = FALSE
    /\ UNCHANGED <<left_time, sec_uptime, offered>>

Bound ==
    /\ state = "BOUND"
    /\ timeout' = -1
    /\ IF sec_uptime >= ipaddr_lease_time \div 2
       THEN state' = "RENEWING" /\ asked' = {Request(server_ip, clientid)}
       ELSE UNCHANGED <<state, asked>>
    /\ ip' = IF update_ip THEN clientid ELSE ip
    /\ update_ip' = FALSE
    /\ UNCHANGED <<left_time, sec_uptime, offered>>

Renewing ==
    /\ state = "RENEWING"
    /\ timeout' = Recharged
    /\ IF sec_uptime >= (ipaddr_lease_time * 7) \div 8
       THEN state' = "REBINDING" /\ asked' = {Request(Everyone, clientid)}
       ELSE UNCHANGED <<state, asked>>
    /\ UNCHANGED <<left_time, sec_uptime, offered, update_ip, ip>>

Rebinding ==
    /\ state = "REBINDING"
    /\ timeout' = Recharged
    /\ IF sec_uptime >= ipaddr_lease_time
       THEN state' = "INITIALIZING" /\ left_time' = MaxTime
       ELSE UNCHANGED <<state, left_time>>
    /\ UNCHANGED <<sec_uptime, offered, update_ip, ip, asked>>

\* dhcpc_routine, at the end of a pass: open or close the socket, then update.
GiveUp ==
    /\ running /\ left_time = 0
    /\ running' = FALSE /\ ip' = DefaultIp /\ timeout' = Recharged
    /\ UNCHANGED <<state, left_time, sec_uptime, offered, update_ip, asked>>

Update ==
    /\ running /\ left_time > 0
    /\ Initializing \/ Selecting \/ Requesting \/ Bound \/ Renewing \/ Rebinding
    /\ UNCHANGED running

Idle ==
    /\ ~running
    /\ UNCHANGED <<running, state, timeout, left_time, sec_uptime, offered,
                   update_ip, ip, asked>>

Routine ==
    /\ at' = "start"
    /\ socket' = running
    /\ GiveUp \/ Update \/ Idle
    /\ UNCHANGED <<ipaddr_lease_time, clientid, serverid, server_ip>>

-----------------------------------------------------------------------------
Next ==
    \/ Timer
    \/ \E s \in Server, l \in Lease, type \in {"OFFER", "ACK", "NAK"} : Reply(s, type, l)
    \/ \E h \in Host : Stray(h)
    \/ Enable
    \/ Disable
    \/ SetVlanIp
    \/ Routine

Spec == Init /\ [][Next]_vars

\* The main loop never stops, and handles a raised one-second event before
\* the frames of the next pass: passes that start without one cannot starve it.
FairSpec == Spec /\ WF_vars(Routine) /\ SF_vars(Timer)

-----------------------------------------------------------------------------
TypeOK ==
    /\ running \in BOOLEAN /\ state \in DhcpState
    /\ timeout \in -1 .. Timeout
    /\ left_time \in 0 .. MaxTime
    /\ sec_uptime \in Nat /\ ipaddr_lease_time \in Lease \cup {0}
    /\ offered \in BOOLEAN /\ update_ip \in BOOLEAN /\ socket \in BOOLEAN
    /\ clientid \in Server \cup {NoIp} /\ serverid \in Server \cup {NoIp}
    /\ server_ip \in Host \cup {NoIp}
    /\ ip \in Server \cup {NoIp, DefaultIp, StaticIp}
    /\ asked \subseteq Message
    /\ at \in {"start", "rx"}

\* While it looks for a server or waits for one to grant its request, the
\* switch uses no address, not even the one of a lease that has run out: it
\* is given up before the first DISCOVER, whatever is late or repeated.
NoAddressWhileAsking ==
    running /\ state \in {"SELECTING", "REQUESTING"} => ip = NoIp

Holding == running /\ (state \in {"RENEWING", "REBINDING"} \/ (state = "BOUND" /\ ~update_ip))

\* A switch that has taken a leased address never falls back to the default
\* address while the lease runs: the overall deadline of the negotiation
\* (left_time) is no longer running, whatever was left of it.
NeverGivesUpALease == [][Holding => ip' # DefaultIp]_vars

Negotiating == running /\ state \in {"INITIALIZING", "SELECTING", "REQUESTING"}

\* Within one negotiation nothing adds to its overall deadline, no retry and no
\* reply, however often the client goes back to an earlier state; and from the
\* first DISCOVER on each second is taken off it.  Only the user starts it anew.
DeadlineIsCounted ==
    [][Negotiating /\ Negotiating' /\ ~Enable =>
        /\ left_time' <= left_time
        /\ Timer /\ state # "INITIALIZING" => left_time' < left_time]_vars

\* A negotiation ends: with a lease, or with the default address, however
\* the servers behave; a retry never restarts the overall deadline.
NegotiationEnds == Negotiating ~> (state = "BOUND" \/ ~running)

\* A lease that no server extends is given up: renewal turns to rebinding,
\* rebinding to a new negotiation, unless an acknowledgement comes first.
LeaseRunsOut == /\ (running /\ state = "RENEWING") ~> (state # "RENEWING" \/ ~running)
                /\ (running /\ state = "REBINDING") ~> (state # "REBINDING" \/ ~running)

\* The fields under the heading "Bound" in dhcpc_slot_s are those of the
\* lease the client is bound to: only an acknowledgement changes them.
BoundFieldsAreTheLease ==
    [][running /\ state = "BOUND" /\ state' = "BOUND" => clientid' = clientid]_vars

=============================================================================
