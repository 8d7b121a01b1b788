--------------------------- MODULE ArpTable_proofs ---------------------------
(***************************************************************************)
(* Proofs about ArpTable, for tables, ages and periods of any size and any *)
(* hosts.                                                                  *)
(*                                                                         *)
(* The argument: looking up and forgetting leave every entry that is still *)
(* in use as it was (Kept), a tick makes it one older, and only hearing a  *)
(* host writes one.  So an entry's age is the host's, given that no host   *)
(* has two entries (Distinct, which counts entry 0 also when it is empty:  *)
(* it is scanned all the same).  The gateway's entry is no older than the  *)
(* counter of the periodic requests as long as the answers are prompt      *)
(* (GatewayFresh).                                                         *)
(***************************************************************************)
EXTENDS ArpTable, TLAPS

Entries == [host : Host \cup {<<Unset, NoMac>>},
            state : {"EMPTY", "PENDING", "STABLE"},
            ctime : 0 .. MaxAge - 1]

Tables == [Entry -> Entries]

\* Every entry of u that is in use is as it was in t, but perhaps STABLE.
Kept(t, u) ==
    /\ \A i \in Entry : Live(u[i]) =>
            Live(t[i]) /\ u[i].host = t[i].host /\ u[i].ctime = t[i].ctime
    /\ u[0].host = t[0].host

\* No host is found at two entries by a scan that takes entry 0 for used.
Distinct(t) ==
    \A i, j \in Entry :
        (i = 0 \/ Live(t[i])) /\ (j = 0 \/ Live(t[j])) /\ t[i].host = t[j].host => i = j

\* The entry of the host that is watched has age s.
Ages(t, s) == \A i \in Entry : Live(t[i]) /\ t[i].host = watched => t[i].ctime = s

\* What holds of the gateway while it answers in time.
GatewayFresh ==
    default_gateway # Unset =>
        /\ answer # "late" => ~Elsewhere(arp_table, default_gateway)
        /\ answer = "prompt" /\ Holds(arp_table[0], default_gateway)
                => arp_table[0].ctime =< cnt

AInv == TypeOK /\ Distinct(arp_table) /\ Ages(arp_table, since) /\ GatewayFresh

LEMMA Zeroth == 0 \in Entry /\ 1 \in Entry
  BY ArpAssumption DEF Entry

LEMMA Recycled ==
    ASSUME NEW i \in Entry, NEW e \in Entries
    PROVE  Emptied(i, e) \in Entries /\ ~Live(Emptied(i, e))
           /\ (i = 0 => Emptied(i, e).host = e.host)
<1>1. 0 \in 0 .. MaxAge - 1
  BY ArpAssumption
<1>2. CASE i = 0
  <2>1. Emptied(i, e) = [host |-> e.host, state |-> "EMPTY", ctime |-> 0]
    BY <1>2 DEF Emptied, Entries
  <2> QED BY <1>1, <2>1 DEF Entries, Live
<1>3. CASE i # 0
  BY <1>1, <1>3 DEF Emptied, Blank, Entries, Live
<1> QED BY <1>2, <1>3

-----------------------------------------------------------------------------
(* What the operations do to the table                                     *)

\* A look-up changes no more than a state, and that of no empty entry.
LEMMA FoundKeeps ==
    ASSUME NEW t \in Tables, NEW ip
    PROVE  /\ Found(t, ip) \in Tables
           /\ Kept(t, Found(t, ip))
           /\ \A i \in Entry : Live(t[i]) => Live(Found(t, ip)[i])
<1> DEFINE u == Found(t, ip)
<1>1. \A i \in Entry : t[i] \in Entries
  BY DEF Tables
<1>2. ASSUME NEW i \in Entry
      PROVE  /\ u[i] \in Entries /\ u[i].host = t[i].host /\ u[i].ctime = t[i].ctime
             /\ Live(u[i]) <=> Live(t[i])
  <2>1. CASE FoundAt(t, i, ip)
    <3>1. u[i] = [t[i] EXCEPT !.state = "STABLE"]
      BY <2>1 DEF Found
    <3>2. Live(t[i])
      BY <2>1 DEF FoundAt, Holds
    <3> QED BY <1>1, <3>1, <3>2 DEF Entries, Live
  <2>2. CASE ~FoundAt(t, i, ip)
    BY <1>1, <2>2 DEF Found
  <2> QED BY <2>1, <2>2
<1>3. u \in Tables
  BY <1>2 DEF Found, Tables
<1> QED BY <1>2, <1>3, Zeroth DEF Kept

LEMMA ClearedKeeps ==
    ASSUME NEW t \in Tables, NEW ip
    PROVE  Cleared(t, ip) \in Tables /\ Kept(t, Cleared(t, ip))
<1> DEFINE u == Cleared(t, ip)
<1>1. \A i \in Entry : t[i] \in Entries
  BY DEF Tables
<1>2. \A i \in Entry : u[i] = t[i] \/ u[i] = Emptied(i, t[i])
  BY DEF Cleared
<1>3. u \in Tables
  BY <1>1, <1>2, Recycled DEF Cleared, Tables
<1>4. \A i \in Entry : Live(u[i]) => u[i] = t[i]
  BY <1>1, <1>2, Recycled
<1>5. u[0].host = t[0].host
  BY <1>1, <1>2, Recycled, Zeroth
<1> QED BY <1>3, <1>4, <1>5 DEF Kept

\* A tick recycles an entry or makes it one older.
LEMMA TickedAges ==
    ASSUME arp_table \in Tables
    PROVE  /\ Ticked \in Tables
           /\ Ticked[0].host = arp_table[0].host
           /\ \A i \in Entry : Live(Ticked[i]) =>
                /\ Live(arp_table[i]) /\ Ticked[i].host = arp_table[i].host
                /\ Ticked[i].ctime = arp_table[i].ctime + 1
           /\ \A i \in Entry : Live(arp_table[i]) /\ arp_table[i].ctime + 1 < MaxPending
                => Live(Ticked[i])
<1>1. ASSUME NEW i \in Entry
      PROVE  /\ Ticked[i] \in Entries
             /\ i = 0 => Ticked[i].host = arp_table[i].host
             /\ Live(Ticked[i]) =>
                /\ Live(arp_table[i]) /\ Ticked[i].host = arp_table[i].host
                /\ Ticked[i].ctime = arp_table[i].ctime + 1
             /\ Live(arp_table[i]) /\ arp_table[i].ctime + 1 < MaxPending
                => Live(Ticked[i])
  <2> DEFINE e == arp_table[i]
             o == Aged(arp_table[i])
  <2>1. e \in Entries
    BY DEF Tables
  <2>2. /\ o.host = e.host /\ o.state = e.state /\ o.ctime = e.ctime + 1
        /\ o = [host |-> e.host, state |-> e.state, ctime |-> e.ctime + 1]
    BY <2>1, ArpAssumption DEF Aged, Entries
  <2>3. CASE ~Live(e)
    BY <2>1, <2>3 DEF Ticked
  <2>4. CASE Live(e) /\ Expires(o)
    <3>1. Ticked[i] = Emptied(i, e)
      BY <2>4 DEF Ticked
    <3>2. ~(e.ctime + 1 < MaxPending)
      BY <2>1, <2>2, <2>4, ArpAssumption DEF Expires, Entries
    <3> QED BY <2>1, <3>1, <3>2, Recycled
  <2>5. CASE Live(e) /\ ~Expires(o)
    <3>1. Ticked[i] = o
      BY <2>5 DEF Ticked
    <3>2. o.ctime \in 0 .. MaxAge - 1
      BY <2>1, <2>2, <2>5, ArpAssumption DEF Expires, Entries, Live
    <3> QED BY <2>1, <2>2, <2>5, <3>1, <3>2 DEF Entries, Live
  <2> QED BY <2>3, <2>4, <2>5
<1>2. Ticked \in Tables
  BY <1>1 DEF Ticked, Tables
<1> QED BY <1>1, <1>2, Zeroth

\* The look-ups of the timer are look-ups.
LEMMA LookedUpKeeps ==
    ASSUME NEW t \in Tables
    PROVE  /\ LookedUp(t) \in Tables
           /\ Kept(t, LookedUp(t))
           /\ \A i \in Entry : Live(t[i]) => Live(LookedUp(t)[i])
<1> DEFINE g == IF default_gateway # Unset /\ gw_mac_need THEN Found(t, default_gateway) ELSE t
<1>1. g \in Tables /\ Kept(t, g) /\ \A i \in Entry : Live(t[i]) => Live(g[i])
  BY FoundKeeps DEF Kept
<1>2. LookedUp(t) = IF TrapDip \notin {default_gateway, Unset} THEN Found(g, TrapDip) ELSE g
  BY DEF LookedUp
<1> HIDE DEF g
<1>3. CASE LookedUp(t) = Found(g, TrapDip)
  BY <1>1, <1>3, FoundKeeps DEF Kept
<1> QED BY <1>1, <1>2, <1>3

\* A table of which all is kept inherits what the invariant says of it.
LEMMA KeptInherits ==
    ASSUME NEW t, NEW u, NEW s, Kept(t, u)
    PROVE  /\ Distinct(t) => Distinct(u)
           /\ Ages(t, s) => Ages(u, s)
           /\ \A ip : Elsewhere(u, ip) => Elsewhere(t, ip)
           /\ \A ip : Holds(u[0], ip) => Holds(t[0], ip) /\ u[0].ctime = t[0].ctime
<1>1. Distinct(t) => Distinct(u)
  BY DEF Kept, Distinct
<1>2. Ages(t, s) => Ages(u, s)
  BY DEF Kept, Ages
<1>3. \A ip : Elsewhere(u, ip) => Elsewhere(t, ip)
  BY DEF Kept, Elsewhere, Holds
<1>4. \A ip : Holds(u[0], ip) => Holds(t[0], ip) /\ u[0].ctime = t[0].ctime
  BY Zeroth DEF Kept, Holds
<1> QED BY <1>1, <1>2, <1>3, <1>4

-----------------------------------------------------------------------------
(* The invariant                                                           *)

LEMMA InitInv == Init => AInv
<1> SUFFICES ASSUME Init PROVE AInv
  OBVIOUS
<1>1. Blank \in Entries /\ ~Live(Blank)
  BY ArpAssumption DEF Blank, Entries, Live
<1>2. TypeOK
  BY <1>1, ArpAssumption, PeriodAssumption DEF Init, TypeOK, Entries
<1>3. Distinct(arp_table) /\ Ages(arp_table, since)
  BY <1>1 DEF Init, Distinct, Ages
<1>4. GatewayFresh
  BY DEF Init, GatewayFresh
<1> QED BY <1>2, <1>3, <1>4 DEF AInv

LEMMA TypesOfTable == TypeOK => arp_table \in Tables
  BY DEF TypeOK, Tables, Entries

\* A step that leaves the table as it was, but for states and recycled
\* entries, and the history as it was.
LEMMA KeepingInv ==
    ASSUME AInv, arp_table' \in Tables, Kept(arp_table, arp_table'),
           gw_mac_need' \in BOOLEAN, answer' \in {answer, "due"},
           UNCHANGED <<default_gateway, cnt, gateway_timeout, watched, since>>,
           answer = "late" => answer' = "late"
    PROVE  AInv'
<1>1. TypeOK'
  BY DEF AInv, TypeOK, Tables, Entries
<1>2. Distinct(arp_table') /\ Ages(arp_table', since)
  BY KeptInherits DEF AInv
<1>3. GatewayFresh'
  BY KeptInherits DEF AInv, GatewayFresh
<1> QED BY <1>1, <1>2, <1>3 DEF AInv, Ages

LEMMA HearInv == ASSUME AInv, NEW h \in Host, Hear(h) PROVE AInv'
<1>1. arp_table \in Tables
  BY TypesOfTable DEF AInv
<1> DEFINE e == [host |-> h, state |-> "PENDING", ctime |-> 0]
<1>2. PICK i \in Entry :
        PlaceFor(h, i) /\ arp_table' = [arp_table EXCEPT ![i] = e]
  BY DEF Hear
<1>3. e \in Entries /\ Live(e)
  BY ArpAssumption DEF Entries, Live
<1>4. arp_table' \in Tables
  BY <1>1, <1>2, <1>3 DEF Tables
<1>5. \A j \in Entry : arp_table'[j] = IF j = i THEN e ELSE arp_table[j]
  BY <1>1, <1>2 DEF Tables
<1> HIDE DEF e
<1>6. e.host = h /\ e.ctime = 0
  BY DEF e
<1>7. since' \in 0 .. MaxAge /\ answer' \in {"prompt", "due", "late"}
  BY ArpAssumption DEF Hear, AInv, TypeOK
<1>8. TypeOK'
  BY <1>4, <1>7 DEF Hear, AInv, TypeOK, Tables, Entries
<1>9. ASSUME NEW j \in Entry, j # i PROVE ~Matches(j, h)
  <2>1. CASE \E k \in Entry : Matches(k, h)
    BY <1>2, <1>9, <2>1 DEF PlaceFor, Matches, AInv, Distinct
  <2> QED BY <2>1
<1>10. Distinct(arp_table')
  <2> SUFFICES ASSUME NEW j \in Entry, NEW k \in Entry, j # k,
                      j = 0 \/ Live(arp_table'[j]), k = 0 \/ Live(arp_table'[k]),
                      arp_table'[j].host = arp_table'[k].host
               PROVE  FALSE
    BY DEF Distinct
  <2>1. CASE j = i
    BY <1>5, <1>6, <1>9, <2>1 DEF Matches
  <2>2. CASE k = i
    BY <1>5, <1>6, <1>9, <2>2 DEF Matches
  <2>3. CASE j # i /\ k # i
    BY <1>5, <2>3 DEF AInv, Distinct
  <2> QED BY <2>1, <2>2, <2>3
<1>11. Ages(arp_table', since')
  <2> SUFFICES ASSUME NEW j \in Entry, Live(arp_table'[j]), arp_table'[j].host = watched
               PROVE  arp_table'[j].ctime = since'
    BY DEF Ages, Hear
  <2>1. CASE j = i
    BY <1>5, <1>6, <2>1 DEF Hear
  <2>2. CASE j # i
    <3>1. watched # h
      BY <1>5, <1>9, <2>2 DEF Matches
    <3> QED BY <1>5, <2>2, <3>1 DEF Hear, AInv, Ages
  <2> QED BY <2>1, <2>2
<1>12. GatewayFresh'
  <2> SUFFICES ASSUME default_gateway # Unset
               PROVE  /\ answer' # "late" => ~Elsewhere(arp_table', default_gateway)
                      /\ answer' = "prompt" /\ Holds(arp_table'[0], default_gateway)
                            => arp_table'[0].ctime =< cnt
    BY DEF GatewayFresh, Hear
  <2>1. CASE h[1] = default_gateway /\ ~Elsewhere(arp_table', default_gateway)
    <3>1. i = 0 \/ ~Holds(arp_table'[i], default_gateway)
      BY <2>1, Zeroth DEF Elsewhere
    <3>2. i = 0
      BY <1>3, <1>5, <1>6, <2>1, <3>1 DEF Holds
    <3>3. arp_table'[0].ctime = 0
      BY <1>5, <1>6, <3>2, Zeroth
    <3>4. cnt >= 0 /\ cnt \in Int
      BY PeriodAssumption DEF AInv, TypeOK
    <3> QED BY <2>1, <3>3, <3>4
  <2>2. CASE h[1] = default_gateway /\ Elsewhere(arp_table', default_gateway)
    <3>1. answer' = answer
      BY <2>2 DEF Hear
    <3>2. CASE Elsewhere(arp_table, default_gateway)
      BY <2>2, <3>1, <3>2 DEF AInv, GatewayFresh
    <3>3. CASE ~Elsewhere(arp_table, default_gateway)
      <4>1. PICK j \in Entry \ {0} : Holds(arp_table'[j], default_gateway)
        BY <2>2 DEF Elsewhere
      <4>2. j = i
        BY <1>5, <3>3, <4>1 DEF Elsewhere
      <4>3. ~\E k \in Entry : Matches(k, h)
        BY <1>2, <2>2, <3>3, <4>1, <4>2 DEF PlaceFor, Matches, Elsewhere, Holds
      <4> QED BY <1>2, <2>2, <4>1, <4>2, <4>3 DEF PlaceFor
    <3> QED BY <3>2, <3>3
  <2>3. CASE h[1] # default_gateway
    <3>1. answer' = answer /\ cnt' = cnt
      BY <2>3 DEF Hear
    <3>2. ~Holds(e, default_gateway)
      BY <1>6, <2>3 DEF Holds
    <3>3. Elsewhere(arp_table', default_gateway) => Elsewhere(arp_table, default_gateway)
      BY <1>5, <3>2 DEF Elsewhere
    <3>4. Holds(arp_table'[0], default_gateway) => arp_table'[0] = arp_table[0]
      BY <1>5, <3>2, Zeroth
    <3> QED BY <3>1, <3>3, <3>4 DEF AInv, GatewayFresh
  <2> QED BY <2>1, <2>2, <2>3
<1> QED BY <1>8, <1>10, <1>11, <1>12 DEF AInv, Ages, Hear

LEMMA SendInv == ASSUME AInv, NEW ip, Send(ip) PROVE AInv'
<1>1. arp_table' \in Tables /\ Kept(arp_table, arp_table')
  BY FoundKeeps, TypesOfTable DEF Send, AInv
<1> QED BY <1>1, KeepingInv DEF Send, AInv, TypeOK

LEMMA SendOffInv == ASSUME AInv, SendOff PROVE AInv'
<1>1. arp_table' \in Tables /\ Kept(arp_table, arp_table')
  BY FoundKeeps, TypesOfTable DEF SendOff, AInv
<1> QED BY <1>1, KeepingInv DEF SendOff

LEMMA PingInv == ASSUME AInv, NEW ip, Ping(ip) PROVE AInv'
<1>1. arp_table' \in Tables /\ Kept(arp_table, arp_table')
  BY FoundKeeps, ClearedKeeps, TypesOfTable DEF Ping, AInv
<1>2. answer' \in {answer, "due"} /\ (answer = "late" => answer' = "late")
  BY DEF Ping, Due
<1> QED BY <1>1, <1>2, KeepingInv DEF Ping, AInv, TypeOK

LEMMA SetGatewayInv == ASSUME AInv, NEW ip \in Ip, SetGateway(ip) PROVE AInv'
<1>1. TypeOK'
  BY DEF SetGateway, AInv, TypeOK
<1>2. GatewayFresh'
  BY DEF SetGateway, GatewayFresh
<1> QED BY <1>1, <1>2 DEF SetGateway, AInv, Ages

\* The table after a tick: what is still in use is one older.
LEMMA TickTable ==
    ASSUME AInv, Tick
    PROVE  /\ arp_table' \in Tables
           /\ arp_table'[0].host = arp_table[0].host
           /\ \A i \in Entry : Live(arp_table'[i]) =>
                /\ Live(arp_table[i]) /\ arp_table'[i].host = arp_table[i].host
                /\ arp_table'[i].ctime = arp_table[i].ctime + 1
           /\ \A i \in Entry : Live(arp_table[i]) /\ arp_table[i].ctime + 1 < MaxPending
                => Live(arp_table'[i])
<1>1. arp_table \in Tables
  BY TypesOfTable DEF AInv
<1>2. CASE arp_table' = Ticked
  BY <1>1, <1>2, TickedAges
<1>3. CASE arp_table' = LookedUp(Ticked)
  BY <1>1, <1>3, TickedAges, LookedUpKeeps DEF Kept
<1> QED BY <1>2, <1>3 DEF Tick

\* While the gateway was prompt and has been asked for, its answer is due.
LEMMA TickAnswer ==
    ASSUME AInv, Tick, default_gateway # Unset, answer' # "late"
    PROVE  /\ answer = "prompt"
           /\ answer' = "prompt" => cnt' = cnt + 1
<1>1. answer = "prompt"
  BY DEF Tick, Due, AInv, TypeOK
<1>2. ASSUME answer' = "prompt", cnt + 1 = GatewayPeriod PROVE FALSE
  <2>1. ~Elsewhere(arp_table, default_gateway)
    BY <1>1 DEF AInv, GatewayFresh
  <2>2. ~Elsewhere(Ticked, default_gateway)
    BY <2>1, TickedAges, TypesOfTable DEF AInv, Elsewhere, Holds
  <2>3. answer' = "due"
    BY <1>1, <1>2, <2>2 DEF Tick, Due, Requests
  <2> QED BY <1>2, <2>3
<1> QED BY <1>1, <1>2 DEF Tick

LEMMA TickInv == ASSUME AInv, Tick PROVE AInv'
<1>1. TypeOK'
  <2>1. cnt' \in 0 .. GatewayPeriod - 1 /\ gateway_timeout' \in 1 .. QueryTime
    BY ArpAssumption, PeriodAssumption DEF Tick, AInv, TypeOK
  <2>2. gw_mac_need' \in BOOLEAN
    BY DEF Tick
  <2>3. since' \in 0 .. MaxAge
    BY ArpAssumption DEF Tick, AInv, TypeOK
  <2>4. answer' \in {"prompt", "due", "late"}
    BY DEF Tick, Due, AInv, TypeOK
  <2> QED BY TickTable, <2>1, <2>2, <2>3, <2>4 DEF Tick, AInv, TypeOK, Tables, Entries
<1>2. Distinct(arp_table')
  BY TickTable DEF AInv, Distinct
<1>3. Ages(arp_table', since')
  <2> SUFFICES ASSUME NEW i \in Entry, Live(arp_table'[i]), arp_table'[i].host = watched
               PROVE  arp_table'[i].ctime = since'
    BY DEF Ages, Tick
  <2>1. arp_table'[i].ctime = arp_table[i].ctime + 1 /\ arp_table[i].ctime = since
    BY TickTable DEF AInv, Ages
  <2>2. arp_table[i].ctime \in 0 .. MaxAge - 1
    BY DEF AInv, TypeOK
  <2> QED BY <2>1, <2>2, ArpAssumption DEF Tick
<1>4. GatewayFresh'
  <2> SUFFICES ASSUME default_gateway # Unset, answer' # "late"
               PROVE  /\ ~Elsewhere(arp_table', default_gateway)
                      /\ answer' = "prompt" /\ Holds(arp_table'[0], default_gateway)
                            => arp_table'[0].ctime =< cnt'
    BY DEF GatewayFresh, Tick
  <2>1. answer = "prompt" /\ (answer' = "prompt" => cnt' = cnt + 1)
    BY TickAnswer
  <2>2. ~Elsewhere(arp_table', default_gateway)
    BY <2>1, TickTable DEF AInv, GatewayFresh, Elsewhere, Holds
  <2>3. ASSUME answer' = "prompt", Holds(arp_table'[0], default_gateway)
        PROVE  arp_table'[0].ctime =< cnt'
    <3>1. Holds(arp_table[0], default_gateway) /\ arp_table'[0].ctime = arp_table[0].ctime + 1
      BY <2>3, TickTable, Zeroth DEF Holds
    <3>2. arp_table[0].ctime =< cnt
      BY <2>1, <3>1 DEF AInv, GatewayFresh
    <3>3. arp_table[0].ctime \in Int /\ cnt \in Int
      BY Zeroth DEF AInv, TypeOK
    <3> QED BY <2>1, <2>3, <3>1, <3>2, <3>3
  <2> QED BY <2>2, <2>3
<1> QED BY <1>1, <1>2, <1>3, <1>4 DEF AInv, Ages, Tick

LEMMA NextInv == AInv /\ [Next]_vars => AInv'
<1> SUFFICES ASSUME AInv, [Next]_vars PROVE AInv'
  OBVIOUS
<1>1. ASSUME NEW h \in Host, Hear(h) PROVE AInv'
  BY <1>1, HearInv
<1>2. ASSUME NEW ip \in Ip, Send(ip) PROVE AInv'
  BY <1>2, SendInv
<1>3. ASSUME NEW ip \in Ip, Ping(ip) PROVE AInv'
  BY <1>3, PingInv
<1>4. ASSUME NEW ip \in Ip, SetGateway(ip) PROVE AInv'
  BY <1>4, SetGatewayInv
<1>5. CASE SendOff
  BY <1>5, SendOffInv
<1>6. CASE Tick
  BY <1>6, TickInv
<1>7. CASE UNCHANGED vars
  BY <1>7 DEF vars, AInv, TypeOK, Ages, GatewayFresh
<1> QED BY <1>1, <1>2, <1>3, <1>4, <1>5, <1>6, <1>7 DEF Next

LEMMA ArpInvariant == Spec => []AInv
  BY InitInv, NextInv, PTL DEF Spec

-----------------------------------------------------------------------------
(* Theorems                                                                *)

\* The table of etharp.c stays well-typed; no entry in use is MaxAge old.
THEOREM ArpTypeCorrect == Spec => []TypeOK
<1>1. AInv => TypeOK
  BY DEF AInv
<1> QED BY <1>1, ArpInvariant, PTL

\* etharp_entry_find gives out no MAC address that was not heard with the IP
\* address within the last MaxAge ticks: the age of an entry is the host's.
THEOREM NoStaleAddress == Spec => []FoundWasHeard
<1>1. AInv => FoundWasHeard
  BY ArpAssumption DEF AInv, TypeOK, FoundWasHeard, Distinct, Ages
<1> QED BY <1>1, ArpInvariant, PTL

\* A gateway that has entry 0 for itself and answers in time keeps it,
\* because etharp_timer asks for it more often than an entry expires.
THEOREM GatewayKept == Spec => GatewayStays
<1> DEFINE Stays == GatewayInPlace /\ default_gateway' = default_gateway /\ answer' # "late"
                        => GatewayInPlace' \/ \E ip \in Ip : Ping(ip)
<1>1. AInv /\ [Next]_vars => [Stays]_vars
  <2> SUFFICES ASSUME AInv, [Next]_vars, GatewayInPlace,
                      default_gateway' = default_gateway, answer' # "late"
               PROVE  GatewayInPlace' \/ \E ip \in Ip : Ping(ip)
    OBVIOUS
  <2>1. arp_table \in Tables
    BY TypesOfTable DEF AInv
  <2>2. ASSUME NEW ip, arp_table' = Found(arp_table, ip) PROVE GatewayInPlace'
    BY <2>1, <2>2, FoundKeeps, KeptInherits, Zeroth DEF GatewayInPlace, Holds, Kept
  <2>3. ASSUME NEW h \in Host, Hear(h) PROVE GatewayInPlace'
    <3>1. PICK i \in Entry :
            /\ PlaceFor(h, i)
            /\ arp_table' = [arp_table EXCEPT
                                ![i] = [host |-> h, state |-> "PENDING", ctime |-> 0]]
      BY <2>3 DEF Hear
    <3>2. h[1] = default_gateway <=> i = 0
      BY <2>1, <3>1, Zeroth
         DEF PlaceFor, Matches, Replaceable, Vacant, GatewayInPlace, Elsewhere, Holds
    <3> QED BY <2>1, <3>1, <3>2, Zeroth DEF GatewayInPlace, Elsewhere, Holds, Live, Tables
  <2>4. CASE Tick
    <3>1. answer = "prompt"
      BY <2>4, TickAnswer DEF GatewayInPlace
    <3>2. arp_table[0].ctime =< cnt
      BY <3>1 DEF AInv, GatewayFresh, GatewayInPlace
    <3>3. arp_table[0].ctime + 1 < MaxPending
      BY <3>2, Zeroth, ArpAssumption, PeriodAssumption DEF AInv, TypeOK
    <3> QED BY <2>4, <3>3, TickTable, Zeroth DEF GatewayInPlace, Elsewhere, Holds
  <2>5. CASE \E ip \in Ip : SetGateway(ip)
    BY <2>5 DEF SetGateway
  <2>6. CASE UNCHANGED vars
    BY <2>6 DEF vars, GatewayInPlace
  <2> QED BY <2>2, <2>3, <2>4, <2>5, <2>6 DEF Next, Send, SendOff
<1>2. Spec => [][Stays]_vars
  BY <1>1, ArpInvariant, PTL DEF Spec
<1> QED BY <1>2 DEF GatewayStays

=============================================================================
