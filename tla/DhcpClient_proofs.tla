------------------------- MODULE DhcpClient_proofs -------------------------
(***************************************************************************)
(* Proofs about DhcpClient, for any servers, lease times and time-outs.    *)
(* The heart is the deadline: it runs exactly while the timeout does, the  *)
(* client looks at it in every pass before the next second is counted, and *)
(* a client that holds a lease has stopped it above zero.                  *)
(***************************************************************************)
EXTENDS DhcpClient, TLAPS

\* Between passes a running client has time left, so that the next second
\* cannot take left_time below zero.
TimeLeftBetweenPasses == at = "start" /\ running => left_time > 0

\* The deadline of a client that holds a lease stands still, above zero.
DeadlineStands == Holding => timeout = -1 /\ left_time > 0

\* Once the first DISCOVER is out, the default address is not in use until
\* the client gives up.
NotDefault == running /\ state # "INITIALIZING" => state # "NONE" /\ ip # DefaultIp

\* The inductive invariant
IInv ==
    /\ TypeOK
    /\ NoAddressWhileAsking
    /\ TimeLeftBetweenPasses
    /\ DeadlineStands
    /\ NotDefault

LEMMA AddressesDiffer ==
    /\ NoIp # DefaultIp /\ NoIp # StaticIp /\ DefaultIp # StaticIp
    /\ NoIp \notin Server /\ DefaultIp \notin Server
BY AddressAssumption

LEMMA RequestIsMessage ==
    ASSUME NEW s \in Host \cup {Everyone}, NEW a \in Server \cup {NoIp}
    PROVE  Request(s, a) \in Message
BY DEF Request, Message

LEMMA InitInv == Init => IInv
<1> SUFFICES ASSUME Init PROVE IInv
  OBVIOUS
<1>1. timeout \in -1 .. Timeout /\ left_time \in 0 .. MaxTime /\ sec_uptime \in Nat
  BY TimesAssumption DEF Init
<1>2. TypeOK
  BY <1>1 DEF Init, TypeOK, DhcpState
<1> QED
  BY <1>2 DEF Init, IInv, NoAddressWhileAsking, TimeLeftBetweenPasses, DeadlineStands,
              NotDefault, Holding

-----------------------------------------------------------------------------
(* The steps before the routine                                            *)

LEMMA TimerInv == IInv /\ Timer => IInv'
<1> SUFFICES ASSUME IInv, Timer PROVE IInv'
  OBVIOUS
<1> USE DEF Timer
<1>1. TypeOK /\ timeout \in Int /\ left_time \in Int /\ sec_uptime \in Nat
  BY TimesAssumption DEF IInv, TypeOK
<1>2. TimeRuns => left_time > 0
  BY DEF IInv, TimeLeftBetweenPasses, TimeRuns
<1>3. timeout' \in -1 .. Timeout /\ left_time' \in 0 .. MaxTime
  BY <1>1, <1>2, TimesAssumption DEF TypeOK, TimeRuns
<1>4. TypeOK'
  BY <1>1, <1>3 DEF TypeOK
<1>5. Holding' => Holding
  BY DEF Holding
<1>6. DeadlineStands'
  BY <1>1, <1>5 DEF IInv, DeadlineStands, TimeRuns
<1>7. NoAddressWhileAsking' /\ TimeLeftBetweenPasses' /\ NotDefault'
  BY DEF IInv, NoAddressWhileAsking, TimeLeftBetweenPasses, NotDefault
<1> QED
  BY <1>4, <1>6, <1>7 DEF IInv

LEMMA ReplyInv ==
    ASSUME IInv, NEW s \in Server, NEW l \in Lease, NEW type \in {"OFFER", "ACK", "NAK"},
           Reply(s, type, l)
    PROVE  IInv'
<1> USE DEF Reply, StateReceives
<1> DEFINE acked == type = "ACK" /\ running /\ state \in {"REQUESTING", "RENEWING", "REBINDING"}
<1>1. CASE acked
  <2>1. state' = "BOUND" /\ update_ip' = TRUE /\ sec_uptime' = 0 /\ offered' \in BOOLEAN
    BY <1>1 DEF IInv, TypeOK
  <2>2. TypeOK'
    BY <2>1 DEF IInv, TypeOK, DhcpState, Host
  <2>3. ~Holding'
    BY <2>1 DEF Holding
  <2>4. NoAddressWhileAsking' /\ TimeLeftBetweenPasses' /\ DeadlineStands'
    BY <2>1, <2>3 DEF NoAddressWhileAsking, TimeLeftBetweenPasses, DeadlineStands
  <2>5. NotDefault'
    BY <1>1, <2>1 DEF IInv, NotDefault
  <2> QED
    BY <2>2, <2>4, <2>5 DEF IInv
<1>2. CASE ~acked
  <2>1. state' = state /\ update_ip' = update_ip /\ sec_uptime' = sec_uptime
    BY <1>2 DEF IInv, TypeOK
  <2>2. offered' \in BOOLEAN
    BY DEF IInv, TypeOK
  <2>3. TypeOK'
    BY <2>1, <2>2 DEF IInv, TypeOK, Host
  <2>4. NoAddressWhileAsking' /\ TimeLeftBetweenPasses' /\ DeadlineStands' /\ NotDefault'
    BY <2>1 DEF IInv, NoAddressWhileAsking, TimeLeftBetweenPasses, DeadlineStands,
                NotDefault, Holding
  <2> QED
    BY <2>3, <2>4 DEF IInv
<1> QED
  BY <1>1, <1>2

LEMMA StrayInv == ASSUME IInv, NEW h \in Host, Stray(h) PROVE IInv'
BY DEF Stray, IInv, TypeOK, NoAddressWhileAsking, TimeLeftBetweenPasses, DeadlineStands,
       NotDefault, Holding

LEMMA WebInv == IInv /\ (Enable \/ Disable \/ SetVlanIp) => IInv'
<1> SUFFICES ASSUME IInv, Enable \/ Disable \/ SetVlanIp PROVE IInv'
  OBVIOUS
<1>1. CASE Enable
  BY <1>1, TimesAssumption
     DEF Enable, IInv, TypeOK, NoAddressWhileAsking, TimeLeftBetweenPasses, DeadlineStands,
         NotDefault, Holding, DhcpState
<1>2. CASE Disable
  BY <1>2
     DEF Disable, IInv, TypeOK, NoAddressWhileAsking, TimeLeftBetweenPasses, DeadlineStands,
         NotDefault, Holding
<1>3. CASE SetVlanIp
  BY <1>3, AddressesDiffer
     DEF SetVlanIp, IInv, TypeOK, NoAddressWhileAsking, TimeLeftBetweenPasses,
         DeadlineStands, NotDefault, Holding
<1> QED
  BY <1>1, <1>2, <1>3

-----------------------------------------------------------------------------
(* The routine                                                             *)

LEMMA RechargedInRange == TypeOK => Recharged \in -1 .. Timeout /\ (timeout = -1 => Recharged = -1)
BY TimesAssumption DEF TypeOK, Recharged, Retry

LEMMA GiveUpInv == IInv /\ Routine /\ GiveUp => IInv'
<1> SUFFICES ASSUME IInv, Routine, GiveUp PROVE IInv'
  OBVIOUS
<1>1. TypeOK'
  BY RechargedInRange DEF IInv, TypeOK, Routine, GiveUp
<1> QED
  BY <1>1 DEF IInv, Routine, GiveUp, NoAddressWhileAsking, TimeLeftBetweenPasses,
              DeadlineStands, NotDefault, Holding

LEMMA IdleInv == IInv /\ Routine /\ Idle => IInv'
BY DEF IInv, Routine, Idle, TypeOK, NoAddressWhileAsking, TimeLeftBetweenPasses,
       DeadlineStands, NotDefault, Holding

LEMMA UpdateInv == IInv /\ Routine /\ Update => IInv'
<1> SUFFICES ASSUME IInv, Routine, Update PROVE IInv'
  OBVIOUS
<1> USE DEF Routine, Update
<1>1. /\ TypeOK /\ running /\ running' /\ left_time > 0
      /\ UNCHANGED <<ipaddr_lease_time, clientid, serverid, server_ip>>
      /\ at' = "start" /\ socket' \in BOOLEAN
  BY DEF IInv, TypeOK
<1>2. Recharged \in -1 .. Timeout /\ (timeout = -1 => Recharged = -1)
  BY <1>1, RechargedInRange
<1>3. /\ clientid \in Server \cup {NoIp} /\ ip \in Server \cup {NoIp, DefaultIp, StaticIp}
      /\ serverid \in Host \cup {Everyone} /\ server_ip \in Host \cup {Everyone}
      /\ left_time \in 0 .. MaxTime /\ asked \subseteq Message
  BY <1>1 DEF TypeOK, Host, Everyone
<1>4. CASE Initializing
  <2>1. state' = "SELECTING" /\ ip' = NoIp /\ left_time' = left_time
    BY <1>4 DEF Initializing
  <2>2. Discover \in Message
    BY DEF Discover, Message, Everyone
  <2>3. /\ timeout' \in -1 .. Timeout /\ sec_uptime' = 0 /\ offered' = FALSE
        /\ update_ip' = update_ip /\ asked' \subseteq Message
    BY <1>4, <2>2, TimesAssumption DEF Initializing
  <2>4. TypeOK'
    BY <1>1, <2>1, <2>3 DEF TypeOK, DhcpState
  <2> QED
    BY <1>1, <2>1, <2>4, AddressesDiffer
       DEF IInv, NoAddressWhileAsking, TimeLeftBetweenPasses, DeadlineStands, NotDefault, Holding
<1>5. CASE Selecting
  <2>1. state' \in {"INITIALIZING", "SELECTING", "REQUESTING"} /\ ip' = ip /\ left_time' = left_time
    BY <1>5 DEF Selecting
  <2>2. asked' \subseteq Message
    BY <1>3, <1>5, RequestIsMessage DEF Selecting
  <2>3. timeout' \in -1 .. Timeout
    BY <1>2, <1>5, TimesAssumption DEF Selecting
  <2>4. TypeOK'
    BY <1>1, <1>5, <2>1, <2>2, <2>3 DEF Selecting, TypeOK, DhcpState
  <2>5. ip = NoIp
    BY <1>1, <1>5 DEF IInv, NoAddressWhileAsking, Selecting
  <2> QED
    BY <1>1, <2>1, <2>4, <2>5, AddressesDiffer
       DEF IInv, NoAddressWhileAsking, TimeLeftBetweenPasses, DeadlineStands, NotDefault, Holding
<1>6. CASE Requesting
  <2>1. state' \in {"SELECTING", "REQUESTING"} /\ ip' = ip /\ left_time' = left_time
    BY <1>6 DEF Requesting
  <2>2. timeout' \in -1 .. Timeout /\ UNCHANGED <<sec_uptime, offered, update_ip, asked>>
    BY <1>2, <1>6 DEF Requesting
  <2>3. TypeOK'
    BY <1>1, <2>1, <2>2 DEF TypeOK, DhcpState
  <2>4. ip = NoIp
    BY <1>1, <1>6 DEF IInv, NoAddressWhileAsking, Requesting
  <2> QED
    BY <1>1, <2>1, <2>4, <2>3, AddressesDiffer
       DEF IInv, NoAddressWhileAsking, TimeLeftBetweenPasses, DeadlineStands, NotDefault, Holding
<1>7. CASE Bound
  <2>1. /\ state' \in {"BOUND", "RENEWING"} /\ timeout' = -1 /\ left_time' = left_time
        /\ ip' \in {ip, clientid} /\ update_ip' = FALSE
        /\ sec_uptime' = sec_uptime /\ offered' = offered
    BY <1>7 DEF Bound
  <2>2. asked' \subseteq Message
    BY <1>3, <1>7, RequestIsMessage DEF Bound
  <2>3. timeout' \in -1 .. Timeout /\ ip' \in Server \cup {NoIp, DefaultIp, StaticIp}
    BY <1>3, <2>1, TimesAssumption
  <2>4. TypeOK'
    BY <1>1, <2>1, <2>2, <2>3 DEF TypeOK, DhcpState
  <2>5. ip' # DefaultIp
    BY <1>1, <1>3, <1>7, <2>1, AddressesDiffer DEF IInv, NotDefault, Bound
  <2> QED
    BY <1>1, <2>1, <2>4, <2>5
       DEF IInv, NoAddressWhileAsking, TimeLeftBetweenPasses, DeadlineStands, NotDefault, Holding
<1>8. CASE Renewing
  <2>1. /\ state' \in {"RENEWING", "REBINDING"} /\ timeout' = Recharged /\ left_time' = left_time
        /\ ip' = ip /\ UNCHANGED <<sec_uptime, offered, update_ip>>
    BY <1>8 DEF Renewing
  <2>2. asked' \subseteq Message
    BY <1>3, <1>8, RequestIsMessage DEF Renewing
  <2>3. TypeOK'
    BY <1>1, <1>2, <2>1, <2>2 DEF TypeOK, DhcpState
  <2>4. timeout' = -1
    BY <1>1, <1>2, <1>8, <2>1 DEF IInv, DeadlineStands, Holding, Renewing
  <2>5. ip' # DefaultIp
    BY <1>1, <1>8, <2>1 DEF IInv, NotDefault, Renewing
  <2> QED
    BY <1>1, <2>1, <2>3, <2>4, <2>5
       DEF IInv, NoAddressWhileAsking, TimeLeftBetweenPasses, DeadlineStands, NotDefault, Holding
<1>9. CASE Rebinding
  <2>1. /\ state' \in {"INITIALIZING", "REBINDING"} /\ timeout' = Recharged
        /\ left_time' \in {left_time, MaxTime}
        /\ ip' = ip /\ UNCHANGED <<sec_uptime, offered, update_ip, asked>>
    BY <1>9 DEF Rebinding
  <2>2. left_time' \in 0 .. MaxTime /\ left_time' > 0
    BY <1>1, <1>3, <2>1, TimesAssumption
  <2>3. TypeOK'
    BY <1>1, <1>2, <2>1, <2>2 DEF TypeOK, DhcpState
  <2>4. timeout' = -1
    BY <1>1, <1>2, <1>9, <2>1 DEF IInv, DeadlineStands, Holding, Rebinding
  <2>5. ip' # DefaultIp
    BY <1>1, <1>9, <2>1 DEF IInv, NotDefault, Rebinding
  <2> QED
    BY <1>1, <2>1, <2>2, <2>3, <2>4, <2>5
       DEF IInv, NoAddressWhileAsking, TimeLeftBetweenPasses, DeadlineStands, NotDefault, Holding
<1> QED
  BY <1>4, <1>5, <1>6, <1>7, <1>8, <1>9

-----------------------------------------------------------------------------
LEMMA NextInv == IInv /\ [Next]_vars => IInv'
<1> SUFFICES ASSUME IInv, [Next]_vars PROVE IInv'
  OBVIOUS
<1>1. CASE Timer
  BY <1>1, TimerInv
<1>2. CASE \E s \in Server, l \in Lease, type \in {"OFFER", "ACK", "NAK"} : Reply(s, type, l)
  BY <1>2, ReplyInv
<1>3. CASE \E h \in Host : Stray(h)
  BY <1>3, StrayInv
<1>4. CASE Enable \/ Disable \/ SetVlanIp
  BY <1>4, WebInv
<1>5. CASE Routine
  <2>1. GiveUp \/ Update \/ Idle
    BY <1>5 DEF Routine
  <2> QED
    BY <1>5, <2>1, GiveUpInv, UpdateInv, IdleInv
<1>6. CASE UNCHANGED vars
  BY <1>6 DEF vars, IInv, TypeOK, NoAddressWhileAsking, TimeLeftBetweenPasses,
              DeadlineStands, NotDefault, Holding
<1> QED
  BY <1>1, <1>2, <1>3, <1>4, <1>5, <1>6 DEF Next

LEMMA Inductive == Spec => []IInv
BY InitInv, NextInv, PTL DEF Spec

\* The timers stay in range; above all, left_time is never counted down at
\* zero (dhcpc_timer decrements an unsigned long).
THEOREM DhcpTypeCorrect == Spec => []TypeOK
<1>1. IInv => TypeOK
  BY DEF IInv
<1> QED
  BY <1>1, Inductive, PTL

\* No address is in use while the client looks for one
\* (dhcpc_state_update sets 0.0.0.0 before the first DISCOVER).
THEOREM NoAddressTooEarly == Spec => []NoAddressWhileAsking
<1>1. IInv => NoAddressWhileAsking
  BY DEF IInv
<1> QED
  BY <1>1, Inductive, PTL

LEMMA StepKeepsLease == IInv /\ [Next]_vars => [Holding => ip' # DefaultIp]_vars
<1> SUFFICES ASSUME IInv, Next, Holding PROVE ip' # DefaultIp
  BY DEF vars
<1>1. ip # DefaultIp
  BY DEF IInv, NotDefault, Holding
<1>2. ~GiveUp
  BY DEF IInv, DeadlineStands, GiveUp
<1>3. CASE Timer \/ Enable \/ Idle
  BY <1>1, <1>3 DEF Timer, Enable, Idle
<1>4. CASE \E s \in Server, l \in Lease, type \in {"OFFER", "ACK", "NAK"} : Reply(s, type, l)
  BY <1>1, <1>4 DEF Reply
<1>5. CASE \E h \in Host : Stray(h)
  BY <1>1, <1>5 DEF Stray
<1>6. CASE Disable \/ SetVlanIp
  BY <1>1, <1>6, AddressesDiffer DEF Disable, SetVlanIp
<1>7. CASE Update
  BY <1>1, <1>7, AddressesDiffer
     DEF Update, Initializing, Selecting, Requesting, Bound, Renewing, Rebinding, IInv, TypeOK
<1> QED
  BY <1>2, <1>3, <1>4, <1>5, <1>6, <1>7 DEF Next, Routine

\* A client that has taken a leased address never falls back to the default
\* address while it holds the lease: dhcpc_state_update has stopped the
\* deadline with time left on it.
THEOREM LeaseIsKept == Spec => NeverGivesUpALease
<1>1. Spec => [][Holding => ip' # DefaultIp]_vars
  BY Inductive, StepKeepsLease, PTL DEF Spec
<1> QED
  BY <1>1 DEF NeverGivesUpALease

-----------------------------------------------------------------------------
(* The deadline of a negotiation                                           *)

\* While the client waits for a server a retry is pending, and between two
\* passes there is time left until it, so that the next second is counted.
SearchIsTimed ==
    running /\ state \in {"SELECTING", "REQUESTING"} =>
        timeout >= 0 /\ (at = "start" => timeout > 0)

LEMMA SearchTimedStep == IInv /\ SearchIsTimed /\ [Next]_vars => SearchIsTimed'
<1> SUFFICES ASSUME IInv, SearchIsTimed, [Next]_vars PROVE SearchIsTimed'
  OBVIOUS
<1>1. timeout \in Int /\ Timeout \in Nat \ {0}
  BY TimesAssumption DEF IInv, TypeOK
<1>2. CASE Timer
  BY <1>1, <1>2 DEF Timer, TimeRuns, SearchIsTimed
<1>3. CASE \E s \in Server, l \in Lease, type \in {"OFFER", "ACK", "NAK"} : Reply(s, type, l)
  BY <1>3 DEF Reply, StateReceives, SearchIsTimed
<1>4. CASE \E h \in Host : Stray(h)
  BY <1>4 DEF Stray, SearchIsTimed
<1>5. CASE Enable \/ Disable \/ SetVlanIp
  BY <1>5 DEF Enable, Disable, SetVlanIp, SearchIsTimed
<1>6. CASE Routine
  <2>1. CASE GiveUp \/ Idle
    BY <2>1 DEF GiveUp, Idle, SearchIsTimed
  <2>2. CASE Update
    <3>1. CASE Initializing
      BY <1>1, <3>1 DEF Initializing, SearchIsTimed
    <3>2. CASE Selecting \/ Requesting
      <4>1. timeout >= 0
        BY <2>2, <3>2 DEF SearchIsTimed, Update, Selecting, Requesting
      <4>2. timeout' \in Nat /\ timeout' > 0
        BY <1>1, <3>2, <4>1 DEF Selecting, Requesting, Recharged, Retry
      <4> QED BY <1>1, <4>2 DEF SearchIsTimed
    <3>3. CASE Bound \/ Renewing \/ Rebinding
      <4>1. state' \notin {"SELECTING", "REQUESTING"}
        BY <3>3 DEF Bound, Renewing, Rebinding
      <4> QED BY <4>1 DEF SearchIsTimed
    <3> QED BY <2>2, <3>1, <3>2, <3>3 DEF Update
  <2> QED BY <1>6, <2>1, <2>2 DEF Routine
<1>7. CASE UNCHANGED vars
  BY <1>7 DEF vars, SearchIsTimed
<1> QED BY <1>2, <1>3, <1>4, <1>5, <1>6, <1>7 DEF Next

LEMMA StepCountsDeadline ==
    ASSUME IInv, SearchIsTimed, Next, Negotiating, Negotiating', ~Enable
    PROVE  /\ left_time' <= left_time
           /\ Timer /\ state # "INITIALIZING" => left_time' < left_time
<1>1. left_time \in Int /\ timeout \in Int
  BY TimesAssumption DEF IInv, TypeOK
<1>2. CASE Timer
  <2>1. ASSUME state # "INITIALIZING" PROVE TimeRuns
    BY <1>2, <2>1 DEF Timer, Negotiating, SearchIsTimed, TimeRuns
  <2> QED BY <1>1, <1>2, <2>1 DEF Timer
<1>3. ASSUME ~Timer PROVE left_time' = left_time
  <2>1. CASE \E s \in Server, l \in Lease, type \in {"OFFER", "ACK", "NAK"} : Reply(s, type, l)
    BY <2>1 DEF Reply
  <2>2. CASE \E h \in Host : Stray(h)
    BY <2>2 DEF Stray
  <2>3. CASE Disable \/ SetVlanIp
    BY <2>3 DEF Disable, SetVlanIp
  <2>4. CASE Routine
    BY <2>4 DEF Routine, GiveUp, Idle, Update, Negotiating, Initializing, Selecting, Requesting,
                Bound, Renewing, Rebinding
  <2> QED BY <1>3, <2>1, <2>2, <2>3, <2>4 DEF Next
<1> QED BY <1>1, <1>2, <1>3

\* Within a negotiation nothing adds to the deadline, and from the first DISCOVER
\* on each second is taken off it: dhcpc_timer and every state of
\* dhcpc_state_update.  With LeaseIsKept it is the safety part of NegotiationEnds.
THEOREM DeadlineOnlyShrinks == Spec => DeadlineIsCounted
<1>1. Init => SearchIsTimed
  BY DEF Init, SearchIsTimed
<1>2. Spec => []SearchIsTimed
  BY <1>1, Inductive, SearchTimedStep, PTL DEF Spec
<1>3. IInv /\ SearchIsTimed /\ [Next]_vars =>
          [Negotiating /\ Negotiating' /\ ~Enable =>
              /\ left_time' <= left_time
              /\ Timer /\ state # "INITIALIZING" => left_time' < left_time]_vars
  BY StepCountsDeadline
<1>4. Spec => [][Negotiating /\ Negotiating' /\ ~Enable =>
              /\ left_time' <= left_time
              /\ Timer /\ state # "INITIALIZING" => left_time' < left_time]_vars
  BY <1>2, <1>3, Inductive, PTL DEF Spec
<1> QED BY <1>4 DEF DeadlineIsCounted
=============================================================================
