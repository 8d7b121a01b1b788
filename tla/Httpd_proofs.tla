---------------------------- MODULE Httpd_proofs ----------------------------
(***************************************************************************)
(* Proofs about TcpSocket and about Httpd, which extends it: first the     *)
(* tables of connections and sockets, of every size and for every set of   *)
(* remote ends and every pair of timeouts; then the sessions above them,   *)
(* for any number of records, also fewer than the sessions need, when some *)
(* sessions are rejected.                                                  *)
(***************************************************************************)
EXTENDS Httpd, TLAPS

-----------------------------------------------------------------------------
(* The connections and sockets: TcpSocket                                  *)


\* The inductive invariant.  Its parts need each other: the close that is
\* pending names an ESTABLISHED PCB only because the sockets follow the
\* PCBs, and tcp_timer frees the right PCBs only because every PCB in use
\* has a running timer and the listener has none.
IInv ==
    /\ TypeOK
    /\ OneConnectionPerRemote
    /\ SocketTracksConnection
    /\ ListenerSurvives
    /\ FreeMeansIdle
    /\ CloseStillNamesItsConnection

\* The free PCB is a PCB, whatever state it was left from.
LEMMA FreePcbType ==
    ASSUME NEW i \in PcbId, NEW s \in TcpState
    PROVE  FreePcb(i, s) \in Pcb
BY SizeAssumption DEF FreePcb, Pcb, TcpState

LEMMA ListenerIsPcb == Listener \in PcbId
BY SizeAssumption DEF Listener, PcbId

LEMMA NoCloseIsNoPcb == NoClose \notin PcbId
BY SizeAssumption DEF NoClose, PcbId

LEMMA InitInv == Init => IInv
<1> SUFFICES ASSUME Init PROVE IInv
  OBVIOUS
<1> USE SizeAssumption, TupleAssumption, ListenerIsPcb
<1>1. TypeOK
  <2>1. ASSUME NEW i \in PcbId PROVE FreePcb(i, "NONE") \in Pcb
    BY FreePcbType DEF TcpState
  <2>2. [FreePcb(Listener, "NONE") EXCEPT !.tuple = AnyRemote, !.state = "LISTEN"] \in Pcb
    <3>1. FreePcb(Listener, "NONE") \in Pcb
      BY <2>1
    <3> QED
      BY <3>1 DEF Pcb, TcpState
  <2>3. pcb \in [PcbId -> Pcb]
    BY <2>1, <2>2 DEF Init
  <2> QED
    BY <2>3 DEF TypeOK, Init
<1>2. ASSUME NEW i \in Children
      PROVE  pcb[i].tuple = Empty /\ pcb[i].state = "NONE" /\ pcb[i].timer_rest = -1
  <2>1. pcb[i] = FreePcb(i, "NONE")
    BY DEF Init, Children
  <2> QED
    BY <2>1 DEF FreePcb
<1>3. /\ pcb[Listener].tuple = AnyRemote
      /\ pcb[Listener].state = "LISTEN"
      /\ pcb[Listener].timer_rest = -1
  BY DEF Init, FreePcb
<1>4. ListenerSurvives
  BY <1>3 DEF ListenerSurvives, Init
<1>5. FreeMeansIdle
  BY <1>2 DEF FreeMeansIdle
<1>6. OneConnectionPerRemote
  BY <1>2, <1>3 DEF OneConnectionPerRemote, Children
<1>7. SocketTracksConnection
  BY <1>2 DEF SocketTracksConnection, Init, Children
<1>8. CloseStillNamesItsConnection
  BY DEF CloseStillNamesItsConnection, Init
<1> QED
  BY <1>1, <1>4, <1>5, <1>6, <1>7, <1>8 DEF IInv

-----------------------------------------------------------------------------
(***************************************************************************)
(* Most steps change one child PCB and leave the others alone.  Updated is *)
(* what such a step does to the tables; it preserves the invariant when    *)
(* the new PCB is in order.                                                *)
(***************************************************************************)
GoodChild(p) ==
    \/ p.tuple = Empty /\ p.state = "NONE" /\ p.timer_rest = -1
    \/ /\ p.tuple \in Remote
       /\ p.state \in {"SYN_RECEIVED", "ESTABLISHED"} \cup Closing
       /\ p.timer_rest >= 0

LEMMA OneChildStep ==
    ASSUME IInv, NEW i \in Children, NEW p \in Pcb, GoodChild(p),
           p.tuple = Empty \/ p.tuple = pcb[i].tuple \/ ~Matched(p.tuple),
           pcb' = [pcb EXCEPT ![i] = p],
           valid' = [valid EXCEPT ![i] = (p.state = "ESTABLISHED")]
    PROVE  /\ pcb' \in [PcbId -> Pcb]
           /\ valid' \in [PcbId -> BOOLEAN]
           /\ OneConnectionPerRemote'
           /\ SocketTracksConnection'
           /\ ListenerSurvives'
           /\ FreeMeansIdle'
<1> USE SizeAssumption, TupleAssumption, ListenerIsPcb DEF IInv, TypeOK
<1>1. i \in PcbId /\ i # Listener
  BY DEF Children
<1>2. pcb' \in [PcbId -> Pcb] /\ valid' \in [PcbId -> BOOLEAN]
  BY <1>1
<1>3. pcb'[i] = p /\ \A j \in PcbId : j # i => pcb'[j] = pcb[j] /\ valid'[j] = valid[j]
  BY <1>1
<1>4. OneConnectionPerRemote'
  BY <1>1, <1>3 DEF OneConnectionPerRemote, Matched
<1>5. SocketTracksConnection'
  BY <1>1, <1>3 DEF SocketTracksConnection, Children
<1>6. ListenerSurvives'
  BY <1>1, <1>3 DEF ListenerSurvives
<1>7. FreeMeansIdle'
  BY <1>1, <1>3 DEF FreeMeansIdle, GoodChild, Children
<1> QED
  BY <1>2, <1>4, <1>5, <1>6, <1>7

\* The PCB a segment from a remote end finds is a child, and never idle.
LEMMA FoundIsChild ==
    ASSUME IInv, NEW r \in Remote, NEW i \in PcbId, Found(i, r)
    PROVE  /\ i \in Children
           /\ pcb[i].tuple = r
           /\ pcb[i].state \in {"SYN_RECEIVED", "ESTABLISHED"} \cup Closing
           /\ pcb[i].timer_rest >= 0
BY TupleAssumption DEF IInv, Found, ListenerSurvives, FreeMeansIdle, Children

-----------------------------------------------------------------------------
(***************************************************************************)
(* One frame from r.                                                       *)
(***************************************************************************)

\* Before a frame is handled no close is pending.
LEMMA NothingPending ==
    ASSUME IInv, at = "poll"
    PROVE  close_req = NoClose
<1> SUFFICES ASSUME close_req # NoClose PROVE FALSE
  OBVIOUS
<1>1. close_req \in PcbId /\ pcb[close_req].state = "ESTABLISHED" /\ pcb[close_req].tuple = at
  BY DEF IInv, TypeOK, CloseStillNamesItsConnection
<1>2. close_req \in Children
  BY <1>1 DEF IInv, ListenerSurvives, Children
<1>3. pcb[close_req].tuple \in Remote
  BY <1>1, <1>2 DEF IInv, FreeMeansIdle
<1> QED
  BY <1>1, <1>3, TupleAssumption

LEMMA RxInv ==
    ASSUME IInv, NEW r \in Remote, NEW seg \in Segment, Rx(r, seg)
    PROVE  IInv'
<1> USE SizeAssumption, TupleAssumption
<1>0. at = "poll" /\ at' = r /\ close_req = NoClose
  BY NothingPending DEF Rx
<1>1. TypeOK
  BY DEF IInv
<1> DEFINE Rest(p) == [p EXCEPT !.timer_rest = 0]
<1> DEFINE Quiet == valid' = valid /\ close_req' = NoClose
\* What is left of the invariant once the tables are known to be in order
<1>2. ASSUME pcb' \in [PcbId -> Pcb], valid' \in [PcbId -> BOOLEAN],
             OneConnectionPerRemote', SocketTracksConnection',
             ListenerSurvives', FreeMeansIdle',
             NEW i \in PcbId, close_req' \in {NoClose, i},
             close_req' = i => pcb'[i].state = "ESTABLISHED" /\ pcb'[i].tuple = r
      PROVE  IInv'
  BY <1>0, <1>2, <1>1 DEF IInv, TypeOK, CloseStillNamesItsConnection, NoClose, PcbId
<1>3. CASE RxAccept(r, seg)
  <2>1. PICK l, e \in PcbId :
            /\ Found(l, AnyRemote)
            /\ pcb[l].state = "LISTEN"
            /\ Found(e, Empty)
            /\ pcb' = [pcb EXCEPT ![e] = [tuple |-> r, state |-> "SYN_RECEIVED",
                                          prev_state |-> "LISTEN",
                                          parent_id |-> l, timer_rest |-> 0]]
    BY <1>3 DEF RxAccept
  <2> DEFINE p == [tuple |-> r, state |-> "SYN_RECEIVED", prev_state |-> "LISTEN",
                   parent_id |-> l, timer_rest |-> 0]
  <2>2. e \in Children /\ pcb[e].tuple = Empty
    BY <2>1 DEF IInv, Found, ListenerSurvives, Children
  <2>3. p \in Pcb
    BY <2>1 DEF Pcb, TcpState
  <2>4. GoodChild(p)
    BY DEF GoodChild
  <2>5. ~valid[e]
    BY <2>2 DEF IInv, FreeMeansIdle, SocketTracksConnection
  <2>6. valid' = [valid EXCEPT ![e] = (p.state = "ESTABLISHED")]
    BY <1>3, <1>1, <2>5 DEF RxAccept, TypeOK
  <2>7. ~Matched(p.tuple)
    BY <1>3 DEF RxAccept
  <2>8. close_req' = NoClose
    BY <1>0, <1>3 DEF RxAccept
  <2> HIDE DEF p
  <2>9. pcb' = [pcb EXCEPT ![e] = p]
    BY <2>1 DEF p
  <2>10. /\ pcb' \in [PcbId -> Pcb]
         /\ valid' \in [PcbId -> BOOLEAN]
         /\ OneConnectionPerRemote'
         /\ SocketTracksConnection'
         /\ ListenerSurvives'
         /\ FreeMeansIdle'
    BY <2>2, <2>3, <2>4, <2>6, <2>7, <2>9, OneChildStep
  <2> QED
    BY <1>2, <2>1, <2>8, <2>10, NoCloseIsNoPcb
<1>4. CASE RxDrop(r, seg)
  <2>1. pcb' = pcb /\ valid' = valid /\ close_req' = NoClose
    BY <1>0, <1>4 DEF RxDrop
  <2> QED
    BY <2>1, <1>0 DEF IInv, TypeOK, OneConnectionPerRemote, SocketTracksConnection,
                      ListenerSurvives, FreeMeansIdle, CloseStillNamesItsConnection
<1>5. ASSUME NEW i \in PcbId, Found(i, r),
             \/ RxSynReceived(i, seg) \/ RxData(i, seg) \/ RxFin(i, seg)
             \/ RxFinWait1Ack(i, seg) \/ RxClosed(i, seg) \/ RxIgnored(i, seg)
      PROVE  IInv'
  <2>1. /\ i \in Children
        /\ pcb[i].tuple = r
        /\ pcb[i].state \in {"SYN_RECEIVED", "ESTABLISHED"} \cup Closing
        /\ pcb[i].timer_rest >= 0
    BY <1>5, FoundIsChild
  <2>2. pcb[i] \in Pcb /\ 0 \in -1 .. RestTimeout
    BY <1>1 DEF TypeOK
  <2>3. valid[i] <=> pcb[i].state = "ESTABLISHED"
    BY <2>1 DEF IInv, SocketTracksConnection
  \* a step that leaves the connection alive, in state s
  <2>4. ASSUME NEW p \in Pcb, p.tuple = r,
               p.state \in {"SYN_RECEIVED", "ESTABLISHED"} \cup Closing,
               p.timer_rest = 0,
               pcb' = [pcb EXCEPT ![i] = p],
               valid' = [valid EXCEPT ![i] = (p.state = "ESTABLISHED")],
               close_req' \in {NoClose, i},
               close_req' = i => p.state = "ESTABLISHED"
        PROVE  IInv'
    <3>1. GoodChild(p)
      BY <2>4 DEF GoodChild
    <3>2. pcb'[i] = p
      BY <2>4, <1>1 DEF TypeOK
    <3> QED
      BY <1>2, <2>1, <2>4, <3>1, <3>2, OneChildStep
  \* a step that changes no socket
  <2>5. ASSUME valid' = valid, NEW p, (p.state = "ESTABLISHED") <=> (pcb[i].state = "ESTABLISHED")
        PROVE  valid' = [valid EXCEPT ![i] = (p.state = "ESTABLISHED")]
    BY <2>5, <2>3, <1>1 DEF TypeOK
  <2>6. \A s \in TcpState : [StateUpdate(pcb[i], s) EXCEPT !.timer_rest = 0] \in Pcb
    BY <2>2 DEF StateUpdate, Pcb
  <2>7. ASSUME NEW s \in TcpState
        PROVE  LET q == [StateUpdate(pcb[i], s) EXCEPT !.timer_rest = 0]
               IN  q.tuple = r /\ q.state = s /\ q.timer_rest = 0
    BY <2>1, <2>2 DEF StateUpdate, Pcb
  <2>8. LET q == [pcb[i] EXCEPT !.timer_rest = 0]
        IN  q \in Pcb /\ q.tuple = r /\ q.state = pcb[i].state /\ q.timer_rest = 0
    BY <2>1, <2>2 DEF Pcb
  <2>9. CASE RxSynReceived(i, seg)
    <3> DEFINE q == [StateUpdate(pcb[i], "ESTABLISHED") EXCEPT !.timer_rest = 0]
    <3>1. q \in Pcb /\ q.tuple = r /\ q.state = "ESTABLISHED" /\ q.timer_rest = 0
      BY <2>6, <2>7 DEF TcpState
    <3>2. pcb' = [pcb EXCEPT ![i] = q]
      BY <2>9 DEF RxSynReceived
    <3>3. valid' = [valid EXCEPT ![i] = TRUE] /\ close_req' \in {NoClose, i}
      BY <2>9, <1>0 DEF RxSynReceived, ConnectCallback, MayClose
    <3> HIDE DEF q
    <3> QED
      BY <2>4, <3>1, <3>2, <3>3
  <2>10. CASE RxData(i, seg)
    <3> DEFINE q == [pcb[i] EXCEPT !.timer_rest = 0]
    <3>1. q \in Pcb /\ q.tuple = r /\ q.state = "ESTABLISHED" /\ q.timer_rest = 0
      BY <2>8, <2>10 DEF RxData
    <3>2. pcb' = [pcb EXCEPT ![i] = q] /\ valid' = valid /\ close_req' \in {NoClose, i}
      BY <2>10, <1>0 DEF RxData, RecvCallback, MayClose
    <3>3. pcb[i].state = "ESTABLISHED"
      BY <2>10 DEF RxData
    <3> HIDE DEF q
    <3>4. valid' = [valid EXCEPT ![i] = (q.state = "ESTABLISHED")]
      BY <2>5, <3>1, <3>2, <3>3
    <3> QED
      BY <2>4, <3>1, <3>2, <3>4
  <2>11. CASE RxFin(i, seg)
    <3> DEFINE q == [StateUpdate(pcb[i], "LAST_ACK") EXCEPT !.timer_rest = 0]
    <3>1. q \in Pcb /\ q.tuple = r /\ q.state = "LAST_ACK" /\ q.timer_rest = 0
      BY <2>6, <2>7 DEF TcpState
    <3>2. pcb' = [pcb EXCEPT ![i] = q]
      BY <2>11 DEF RxFin
    <3>3. valid' = [valid EXCEPT ![i] = FALSE] /\ close_req' = NoClose
      BY <2>11, <1>0 DEF RxFin, DisconnectCallback
    <3> HIDE DEF q
    <3>4. valid' = [valid EXCEPT ![i] = (q.state = "ESTABLISHED")]
      BY <3>1, <3>3
    <3> QED
      BY <2>4, <3>1, <3>2, <3>3, <3>4, NoCloseIsNoPcb DEF Closing
  <2>12. CASE RxFinWait1Ack(i, seg)
    <3> DEFINE q == [StateUpdate(pcb[i], "FIN_WAIT_2") EXCEPT !.timer_rest = 0]
    <3>1. q \in Pcb /\ q.tuple = r /\ q.state = "FIN_WAIT_2" /\ q.timer_rest = 0
      BY <2>6, <2>7 DEF TcpState
    <3>2. pcb' = [pcb EXCEPT ![i] = q] /\ valid' = valid /\ close_req' = NoClose
      BY <2>12, <1>0 DEF RxFinWait1Ack
    <3>3. pcb[i].state = "FIN_WAIT_1"
      BY <2>12 DEF RxFinWait1Ack
    <3> HIDE DEF q
    <3>4. valid' = [valid EXCEPT ![i] = (q.state = "ESTABLISHED")]
      BY <2>5, <3>1, <3>2, <3>3
    <3> QED
      BY <2>4, <3>1, <3>2, <3>4, NoCloseIsNoPcb DEF Closing
  <2>13. CASE RxClosed(i, seg)
    <3> DEFINE q == FreePcb(i, "CLOSED")
    <3>1. q \in Pcb /\ GoodChild(q) /\ q.tuple = Empty /\ q.state = "NONE"
      BY FreePcbType DEF TcpState, GoodChild, FreePcb
    <3>2. pcb' = [pcb EXCEPT ![i] = q] /\ valid' = valid /\ close_req' = NoClose
      BY <2>13, <1>0 DEF RxClosed
    <3>3. pcb[i].state # "ESTABLISHED"
      BY <2>13 DEF RxClosed
    <3> HIDE DEF q
    <3>4. valid' = [valid EXCEPT ![i] = (q.state = "ESTABLISHED")]
      BY <2>5, <3>1, <3>2, <3>3
    <3>5. /\ pcb' \in [PcbId -> Pcb]
          /\ valid' \in [PcbId -> BOOLEAN]
          /\ OneConnectionPerRemote'
          /\ SocketTracksConnection'
          /\ ListenerSurvives'
          /\ FreeMeansIdle'
      BY <2>1, <3>1, <3>2, <3>4, OneChildStep
    <3> QED
      BY <1>2, <3>2, <3>5, NoCloseIsNoPcb
  <2>14. CASE RxIgnored(i, seg)
    <3> DEFINE q == [pcb[i] EXCEPT !.timer_rest = 0]
    <3>1. q \in Pcb /\ q.tuple = r /\ q.state = pcb[i].state /\ q.timer_rest = 0
      BY <2>8
    <3>2. pcb' = [pcb EXCEPT ![i] = q] /\ valid' = valid /\ close_req' = NoClose
      BY <2>14, <1>0 DEF RxIgnored
    <3> HIDE DEF q
    <3>3. valid' = [valid EXCEPT ![i] = (q.state = "ESTABLISHED")]
      BY <2>5, <3>1, <3>2
    <3> QED
      BY <2>4, <2>1, <3>1, <3>2, <3>3, NoCloseIsNoPcb
  <2> QED
    BY <1>5, <2>9, <2>10, <2>11, <2>12, <2>13, <2>14
<1> QED
  BY <1>3, <1>4, <1>5 DEF Rx

-----------------------------------------------------------------------------
(***************************************************************************)
(* The deferred close, the tick, and a stuttering step.                    *)
(***************************************************************************)

\* While a close is pending its socket is open on a child PCB in use.
LEMMA PendingIsOpenChild ==
    ASSUME IInv, close_req # NoClose
    PROVE  /\ close_req \in Children
           /\ pcb[close_req].state = "ESTABLISHED"
           /\ pcb[close_req].tuple \in Remote
           /\ pcb[close_req].timer_rest >= 0
BY DEF IInv, TypeOK, CloseStillNamesItsConnection, ListenerSurvives, FreeMeansIdle,
       Children, Closing

LEMMA EventHandlerInv ==
    ASSUME IInv, EventHandler
    PROVE  IInv'
<1> USE SizeAssumption, TupleAssumption
<1>1. TypeOK /\ at' = "poll" /\ close_req' = NoClose
  BY DEF IInv, EventHandler
<1>2. CASE close_req = NoClose
  <2>1. pcb' = pcb /\ valid' = valid
    BY <1>2 DEF EventHandler
  <2> QED
    BY <1>1, <2>1 DEF IInv, TypeOK, OneConnectionPerRemote, SocketTracksConnection,
                      ListenerSurvives, FreeMeansIdle, CloseStillNamesItsConnection
<1>3. CASE close_req # NoClose
  <2> DEFINE q == StateUpdate(pcb[close_req], "FIN_WAIT_1")
  <2>1. /\ close_req \in Children
        /\ pcb[close_req].state = "ESTABLISHED"
        /\ pcb[close_req].tuple \in Remote
        /\ pcb[close_req].timer_rest >= 0
        /\ pcb[close_req] \in Pcb
    BY <1>1, <1>3, PendingIsOpenChild DEF TypeOK, Children
  <2>2. /\ q \in Pcb
        /\ q.tuple = pcb[close_req].tuple
        /\ q.state = "FIN_WAIT_1"
        /\ q.timer_rest = pcb[close_req].timer_rest
    BY <2>1 DEF StateUpdate, Pcb, TcpState
  <2>3. pcb' = [pcb EXCEPT ![close_req] = q]
    BY <1>3 DEF EventHandler
  <2>4. valid' = [valid EXCEPT ![close_req] = FALSE]
    BY <1>3, <2>1 DEF EventHandler, DisconnectCallback
  <2> HIDE DEF q
  <2>5. GoodChild(q)
    BY <2>1, <2>2 DEF GoodChild, Closing
  <2>6. valid' = [valid EXCEPT ![close_req] = (q.state = "ESTABLISHED")]
    BY <2>2, <2>4
  <2>7. /\ pcb' \in [PcbId -> Pcb]
        /\ valid' \in [PcbId -> BOOLEAN]
        /\ OneConnectionPerRemote'
        /\ SocketTracksConnection'
        /\ ListenerSurvives'
        /\ FreeMeansIdle'
    BY <2>1, <2>2, <2>3, <2>5, <2>6, OneChildStep
  <2> QED
    BY <1>1, <2>7 DEF IInv, TypeOK, CloseStillNamesItsConnection
<1> QED
  BY <1>2, <1>3

LEMMA TimerInv ==
    ASSUME IInv, Timer
    PROVE  IInv'
<1> USE SizeAssumption, TupleAssumption, ListenerIsPcb
<1>1. TypeOK /\ close_req = NoClose /\ close_req' = NoClose /\ at' = at
  BY NothingPending DEF IInv, Timer
<1>2. ASSUME NEW i \in PcbId, Expired(pcb[i])
      PROVE  /\ pcb'[i] \in Pcb
             /\ pcb'[i].tuple = Empty
             /\ pcb'[i].state = "NONE"
             /\ pcb'[i].timer_rest = -1
             /\ i \in Children
             /\ valid'[i] = FALSE
  <2>1. pcb'[i] = FreePcb(i, pcb[i].state)
    BY <1>2 DEF Timer
  <2>2. pcb[i] \in Pcb
    BY <1>1 DEF TypeOK
  <2>3. pcb[i].state \in TcpState
    BY <2>2 DEF Pcb
  <2>4. i \in Children
    BY <1>2 DEF Expired, IInv, ListenerSurvives, Children
  <2>5. valid'[i] = FALSE
    <3>1. valid'[i] = (valid[i] /\ ~(Expired(pcb[i]) /\ pcb[i].state = "ESTABLISHED"))
      BY DEF Timer
    <3> QED
      BY <3>1, <1>1, <1>2, <2>4 DEF IInv, SocketTracksConnection, TypeOK
  <2> QED
    BY <2>1, <2>3, <2>4, <2>5, FreePcbType DEF FreePcb
<1>3. ASSUME NEW i \in PcbId, ~Expired(pcb[i])
      PROVE  /\ pcb'[i] \in Pcb
             /\ pcb'[i].tuple = pcb[i].tuple
             /\ pcb'[i].state = pcb[i].state
             /\ IF pcb[i].timer_rest >= 0 THEN pcb'[i].timer_rest >= 0
                                          ELSE pcb'[i].timer_rest = pcb[i].timer_rest
             /\ valid'[i] = valid[i]
  <2>1. pcb'[i] = Ticked(pcb[i]) /\ pcb[i] \in Pcb
    BY <1>1, <1>3 DEF Timer, TypeOK
  <2>2. pcb[i].timer_rest \in -1 .. RestTimeout
    BY <2>1 DEF Pcb
  <2>3. valid'[i] = valid[i]
    <3>1. valid'[i] = (valid[i] /\ ~(Expired(pcb[i]) /\ pcb[i].state = "ESTABLISHED"))
      BY DEF Timer
    <3> QED
      BY <3>1, <1>1, <1>3 DEF TypeOK
  <2>4. CASE pcb[i].timer_rest >= 0
    <3>1. pcb[i].timer_rest + 1 \in -1 .. RestTimeout
      BY <1>3, <2>2, <2>4 DEF Expired
    <3>2. pcb'[i] = [pcb[i] EXCEPT !.timer_rest = @ + 1]
      BY <2>1, <2>4 DEF Ticked
    <3> QED
      BY <2>1, <2>2, <2>3, <2>4, <3>1, <3>2 DEF Pcb
  <2>5. CASE ~(pcb[i].timer_rest >= 0)
    BY <2>1, <2>3, <2>5 DEF Ticked
  <2> QED
    BY <2>4, <2>5
<1>4. TypeOK'
  <2>1. pcb' \in [PcbId -> Pcb]
    <3>1. \A i \in PcbId : pcb'[i] \in Pcb
      BY <1>2, <1>3
    <3>2. pcb' = [i \in PcbId |-> pcb'[i]]
      BY DEF Timer
    <3> QED
      BY <3>1, <3>2
  <2>2. valid' \in [PcbId -> BOOLEAN]
    BY DEF Timer
  <2> QED
    BY <1>1, <2>1, <2>2 DEF TypeOK
<1>5. OneConnectionPerRemote'
  <2> SUFFICES ASSUME NEW i \in PcbId, NEW j \in PcbId,
                      pcb'[i].tuple \in Remote, pcb'[i].tuple = pcb'[j].tuple
               PROVE  i = j
    BY DEF OneConnectionPerRemote
  <2>1. pcb'[i].tuple = pcb[i].tuple /\ pcb'[j].tuple = pcb[j].tuple
    BY <1>2, <1>3
  <2> QED
    BY <2>1 DEF IInv, OneConnectionPerRemote
<1>6. SocketTracksConnection'
  BY <1>2, <1>3 DEF IInv, SocketTracksConnection, Children
<1>7. ListenerSurvives'
  <2>1. ~Expired(pcb[Listener])
    BY <1>2 DEF Children
  <2>2. /\ pcb'[Listener].tuple = pcb[Listener].tuple
        /\ pcb'[Listener].state = pcb[Listener].state
        /\ valid'[Listener] = valid[Listener]
        /\ pcb[Listener].timer_rest = -1 => pcb'[Listener].timer_rest = -1
    BY <1>3, <2>1
  <2> QED
    BY <2>2 DEF IInv, ListenerSurvives
<1>8. FreeMeansIdle'
  <2> SUFFICES ASSUME NEW i \in Children
               PROVE  \/ pcb'[i].tuple = Empty /\ pcb'[i].state = "NONE" /\ pcb'[i].timer_rest = -1
                      \/ /\ pcb'[i].tuple \in Remote
                         /\ pcb'[i].state \in {"SYN_RECEIVED", "ESTABLISHED"} \cup Closing
                         /\ pcb'[i].timer_rest >= 0
    BY DEF FreeMeansIdle
  <2>1. i \in PcbId
    BY DEF Children
  <2>2. CASE Expired(pcb[i])
    BY <1>2, <2>1, <2>2
  <2>3. CASE ~Expired(pcb[i])
    <3>1. /\ pcb'[i].tuple = pcb[i].tuple
          /\ pcb'[i].state = pcb[i].state
          /\ IF pcb[i].timer_rest >= 0 THEN pcb'[i].timer_rest >= 0
                                       ELSE pcb'[i].timer_rest = pcb[i].timer_rest
      BY <1>3, <2>1, <2>3
    <3>2. CASE pcb[i].timer_rest >= 0
      BY <3>1, <3>2 DEF IInv, FreeMeansIdle
    <3>3. CASE ~(pcb[i].timer_rest >= 0)
      BY <3>1, <3>3 DEF IInv, FreeMeansIdle
    <3> QED
      BY <3>2, <3>3
  <2> QED
    BY <2>2, <2>3
<1> QED
  BY <1>1, <1>4, <1>5, <1>6, <1>7, <1>8 DEF IInv, CloseStillNamesItsConnection

LEMMA NextInv == IInv /\ [Next]_vars => IInv'
<1> SUFFICES ASSUME IInv, [Next]_vars PROVE IInv'
  OBVIOUS
<1>1. CASE \E r \in Remote, seg \in Segment : Rx(r, seg)
  BY <1>1, RxInv
<1>2. CASE EventHandler
  BY <1>2, EventHandlerInv
<1>3. CASE Timer
  BY <1>3, TimerInv
<1>4. CASE UNCHANGED vars
  BY <1>4 DEF vars, IInv, TypeOK, OneConnectionPerRemote, SocketTracksConnection,
              ListenerSurvives, FreeMeansIdle, CloseStillNamesItsConnection
<1> QED
  BY <1>1, <1>2, <1>3, <1>4 DEF Next

-----------------------------------------------------------------------------
(***************************************************************************)
(* The theorems.                                                           *)
(***************************************************************************)

\* The tables stay well-typed, every timer within its limit: tcp_timer
\* frees a PCB before its rest timer can pass TCP_TIMER_REST_TIMEOUT.
THEOREM TypeCorrect == Spec => []TypeOK
<1>1. Spec => []IInv
  BY InitInv, NextInv, PTL DEF Spec
<1>2. IInv => TypeOK
  BY DEF IInv
<1> QED
  BY <1>1, <1>2, PTL

\* However frames, closes and ticks interleave: one PCB per remote end, a
\* socket open exactly on the ESTABLISHED PCBs, the listener alive, and no
\* PCB in use without a running timer.
THEOREM TablesAgree == Spec => []TablesInStep
<1>1. Spec => []IInv
  BY InitInv, NextInv, PTL DEF Spec
<1>2. IInv => TablesInStep
  BY DEF IInv, TablesInStep
<1> QED
  BY <1>1, <1>2, PTL

\* A close deferred by lwps_close is still about the same open connection
\* when lwps_event_handler performs it.
THEOREM DeferredCloseIsSafe == Spec => []CloseStillNamesItsConnection
<1>1. Spec => []IInv
  BY InitInv, NextInv, PTL DEF Spec
<1>2. IInv => CloseStillNamesItsConnection
  BY DEF IInv
<1> QED
  BY <1>1, <1>2, PTL

\* PcbNeverChangesHands holds of every step from a state of the invariant.
\* A segment that finds its connection changes that PCB only, and cannot
\* open it unless it was half-open.
LEMMA FoundStep ==
    ASSUME IInv, NEW r \in Remote, NEW seg \in Segment, NEW i \in PcbId, Found(i, r),
           \/ RxSynReceived(i, seg) \/ RxData(i, seg) \/ RxFin(i, seg)
           \/ RxFinWait1Ack(i, seg) \/ RxClosed(i, seg) \/ RxIgnored(i, seg)
    PROVE  /\ \A j \in PcbId : j # i => pcb'[j] = pcb[j]
           /\ pcb'[i].tuple \in {Empty, r}
           /\ pcb'[i].state = "ESTABLISHED"
                 => pcb[i].state \in {"SYN_RECEIVED", "ESTABLISHED"}
<1>1. pcb \in [PcbId -> Pcb] /\ pcb[i] \in Pcb /\ pcb[i].tuple = r
  BY FoundIsChild DEF IInv, TypeOK
<1>2. CASE RxSynReceived(i, seg)
  BY <1>1, <1>2 DEF RxSynReceived, StateUpdate, Pcb
<1>3. CASE RxData(i, seg)
  BY <1>1, <1>3 DEF RxData, Pcb
<1>4. CASE RxFin(i, seg)
  BY <1>1, <1>4 DEF RxFin, StateUpdate, Pcb
<1>5. CASE RxFinWait1Ack(i, seg)
  BY <1>1, <1>5 DEF RxFinWait1Ack, StateUpdate, Pcb
<1>6. CASE RxClosed(i, seg)
  BY <1>1, <1>6 DEF RxClosed, FreePcb
<1>7. CASE RxIgnored(i, seg)
  BY <1>1, <1>7 DEF RxIgnored, Pcb
<1> QED
  BY <1>2, <1>3, <1>4, <1>5, <1>6, <1>7

\* No step moves a PCB from one remote end to another, or opens a
\* connection that was not half-open.
THEOREM NeverChangesHands == Spec => PcbNeverChangesHands
<1> DEFINE Kept(i) ==
        /\ pcb[i].tuple \in Remote /\ pcb'[i].tuple \in Remote
               => pcb'[i].tuple = pcb[i].tuple
        /\ pcb'[i].state = "ESTABLISHED"
               => pcb[i].state \in {"SYN_RECEIVED", "ESTABLISHED"}
<1>1. ASSUME IInv, Next, NEW j \in Children PROVE Kept(j)
  <2> USE TupleAssumption
  <2>1. j \in PcbId /\ pcb \in [PcbId -> Pcb]
    BY <1>1 DEF Children, IInv, TypeOK
  <2>2. ASSUME NEW r \in Remote, NEW seg \in Segment, Rx(r, seg) PROVE Kept(j)
    <3>1. CASE RxAccept(r, seg)
      <4>1. PICK l, e \in PcbId :
                /\ Found(e, Empty)
                /\ pcb' = [pcb EXCEPT ![e] = [tuple |-> r, state |-> "SYN_RECEIVED",
                                              prev_state |-> "LISTEN",
                                              parent_id |-> l, timer_rest |-> 0]]
        BY <3>1 DEF RxAccept
      <4>2. CASE j = e
        BY <2>1, <4>1, <4>2 DEF Found
      <4>3. CASE j # e
        <5>1. pcb'[j] = pcb[j]
          BY <2>1, <4>1, <4>3
        <5> QED
          BY <5>1
      <4> QED
        BY <4>2, <4>3
    <3>2. CASE RxDrop(r, seg)
      BY <3>2 DEF RxDrop
    <3>3. ASSUME NEW i \in PcbId, Found(i, r),
                 \/ RxSynReceived(i, seg) \/ RxData(i, seg) \/ RxFin(i, seg)
                 \/ RxFinWait1Ack(i, seg) \/ RxClosed(i, seg) \/ RxIgnored(i, seg)
          PROVE  Kept(j)
      <4>1. pcb[i].tuple = r
        BY <3>3 DEF Found
      <4> QED
        BY <1>1, <2>1, <3>3, <4>1, FoundStep
    <3> QED
      BY <2>2, <3>1, <3>2, <3>3 DEF Rx
  <2>3. CASE EventHandler
    <3>1. CASE close_req = NoClose
      <4>1. pcb' = pcb
        BY <2>3, <3>1 DEF EventHandler
      <4> QED
        BY <4>1
    <3>2. CASE close_req # NoClose
      <4>1. close_req \in PcbId /\ pcb[close_req] \in Pcb
        BY <1>1, <2>1, <3>2, PendingIsOpenChild DEF Children
      <4>2. pcb' = [pcb EXCEPT ![close_req] = StateUpdate(pcb[close_req], "FIN_WAIT_1")]
        BY <2>3, <3>2 DEF EventHandler
      <4>3. CASE j = close_req
        BY <2>1, <4>1, <4>2, <4>3 DEF StateUpdate, Pcb
      <4>4. CASE j # close_req
        <5>1. pcb'[j] = pcb[j]
          BY <2>1, <4>2, <4>4
        <5> QED
          BY <5>1
      <4> QED
        BY <4>3, <4>4
    <3> QED
      BY <3>1, <3>2
  <2>4. CASE Timer
    <3>1. CASE Expired(pcb[j])
      <4>1. pcb'[j] = FreePcb(j, pcb[j].state)
        BY <2>1, <2>4, <3>1 DEF Timer
      <4> QED
        BY <4>1 DEF FreePcb
    <3>2. CASE ~Expired(pcb[j])
      <4>1. pcb'[j] = Ticked(pcb[j]) /\ pcb[j] \in Pcb
        BY <2>1, <2>4, <3>2 DEF Timer
      <4>2. pcb'[j].tuple = pcb[j].tuple /\ pcb'[j].state = pcb[j].state
        BY <4>1 DEF Ticked, Pcb
      <4> QED
        BY <4>2
    <3> QED
      BY <3>1, <3>2
  <2> QED
    BY <1>1, <2>2, <2>3, <2>4 DEF Next
<1>2. IInv /\ [Next]_vars => [\A i \in Children : Kept(i)]_vars
  BY <1>1
<1>3. Spec => []IInv
  BY InitInv, NextInv, PTL DEF Spec
<1> QED
  BY <1>2, <1>3, PTL DEF Spec, PcbNeverChangesHands

\* In one step the rest timer of a connection counts the second or stands still,
\* unless the connection ends or a frame of its own remote end comes.
LEMMA StepCountsSilence ==
    ASSUME IInv, Next, NEW j \in Children,
           pcb[j].tuple \in Remote, at' = at \/ at' # pcb[j].tuple
    PROVE  \/ pcb'[j].tuple = Empty
           \/ /\ pcb'[j].tuple = pcb[j].tuple
              /\ pcb'[j].timer_rest = pcb[j].timer_rest + (IF at' = at THEN 1 ELSE 0)
<1> USE TupleAssumption
<1>1. /\ j \in PcbId /\ pcb \in [PcbId -> Pcb] /\ pcb[j] \in Pcb
      /\ pcb[j].timer_rest \in Int /\ pcb[j].timer_rest >= 0
  BY SizeAssumption DEF Children, IInv, TypeOK, Pcb, FreeMeansIdle
<1>2. ASSUME NEW r \in Remote, NEW seg \in Segment, Rx(r, seg)
      PROVE  at' # at /\ pcb'[j] = pcb[j]
  <2>1. at = "poll" /\ at' = r /\ r # "poll" /\ r # pcb[j].tuple
    BY <1>2 DEF Rx
  <2>2. CASE RxAccept(r, seg)
    <3>1. PICK l, e \in PcbId :
              /\ Found(e, Empty)
              /\ pcb' = [pcb EXCEPT ![e] = [tuple |-> r, state |-> "SYN_RECEIVED",
                                            prev_state |-> "LISTEN",
                                            parent_id |-> l, timer_rest |-> 0]]
      BY <2>2 DEF RxAccept
    <3>2. j # e
      BY <3>1 DEF Found
    <3> QED BY <1>1, <2>1, <3>1, <3>2
  <2>3. CASE RxDrop(r, seg)
    BY <2>1, <2>3 DEF RxDrop
  <2>4. ASSUME NEW i \in PcbId, Found(i, r),
               \/ RxSynReceived(i, seg) \/ RxData(i, seg) \/ RxFin(i, seg)
               \/ RxFinWait1Ack(i, seg) \/ RxClosed(i, seg) \/ RxIgnored(i, seg)
        PROVE  pcb'[j] = pcb[j]
    <3>1. j # i
      BY <2>1, <2>4 DEF Found
    <3> QED BY <1>1, <2>4, <3>1, FoundStep
  <2> QED BY <1>2, <2>1, <2>2, <2>3, <2>4 DEF Rx
<1>3. CASE EventHandler
  <2>1. at' # at /\ at' = "poll"
    BY <1>3 DEF EventHandler
  <2>2. CASE close_req = NoClose \/ j # close_req
    <3>1. pcb'[j] = pcb[j]
      BY <1>1, <1>3, <2>2 DEF EventHandler
    <3> QED BY <1>1, <2>1, <3>1
  <2>3. CASE close_req # NoClose /\ j = close_req
    <3>1. pcb'[j] = StateUpdate(pcb[j], "FIN_WAIT_1")
      BY <1>1, <1>3, <2>3 DEF EventHandler
    <3> QED BY <1>1, <2>1, <3>1 DEF StateUpdate, Pcb
  <2> QED BY <2>2, <2>3
<1>4. CASE Timer
  <2>1. CASE Expired(pcb[j])
    <3>1. pcb'[j] = FreePcb(j, pcb[j].state)
      BY <1>1, <1>4, <2>1 DEF Timer
    <3> QED BY <3>1 DEF FreePcb
  <2>2. CASE ~Expired(pcb[j])
    <3>1. pcb'[j] = Ticked(pcb[j]) /\ at' = at
      BY <1>1, <1>4, <2>2 DEF Timer
    <3> QED BY <1>1, <3>1 DEF Ticked, Pcb
  <2> QED BY <2>1, <2>2
<1> QED BY <1>1, <1>2, <1>3, <1>4 DEF Next

\* tcp_timer counts the silence of every connection, whatever state it is in, and
\* only a frame of its remote end sets the count back (tcp_up_handle_ip).  With
\* TypeCorrect, which bounds the count, it is the safety part of SilenceFreesPcb.
THEOREM SilenceRunsOut == Spec => SilenceIsCounted
<1> DEFINE Counts ==
        \A i \in Children : pcb[i].tuple \in Remote /\ (at' = at \/ at' # pcb[i].tuple) =>
            \/ pcb'[i].tuple = Empty
            \/ /\ pcb'[i].tuple = pcb[i].tuple
               /\ pcb'[i].timer_rest = pcb[i].timer_rest + (IF at' = at THEN 1 ELSE 0)
<1>1. IInv /\ [Next]_vars => [Counts]_vars
  BY StepCountsSilence
<1>2. Spec => []IInv
  BY InitInv, NextInv, PTL DEF Spec
<1>3. Spec => [][Counts]_vars
  BY <1>1, <1>2, PTL DEF Spec
<1> QED BY <1>3 DEF SilenceIsCounted

-----------------------------------------------------------------------------
(***************************************************************************)
(* TcpSocket implements ConnTable.                                         *)
(***************************************************************************)

Stage(s) == IF s = "SYN_RECEIVED" THEN "half"
            ELSE IF s = "ESTABLISHED" THEN "open"
            ELSE IF s \in Closing THEN "closing"
            ELSE "none"

\* The life of a connection is the stage of the one PCB that holds it.
LEMMA LifeOf ==
    IInv => /\ \A i \in PcbId : pcb[i].tuple \in Remote
                    => connOfRemote[pcb[i].tuple] = Stage(pcb[i].state)
            /\ \A r \in Remote : ~Matched(r) => connOfRemote[r] = "none"
<1> SUFFICES ASSUME IInv
             PROVE  /\ \A i \in PcbId : pcb[i].tuple \in Remote
                           => connOfRemote[pcb[i].tuple] = Stage(pcb[i].state)
                    /\ \A r \in Remote : ~Matched(r) => connOfRemote[r] = "none"
  OBVIOUS
<1>1. ASSUME NEW i \in PcbId, pcb[i].tuple \in Remote
      PROVE  connOfRemote[pcb[i].tuple] = Stage(pcb[i].state)
  <2>1. ASSUME NEW S PROVE Holds(pcb[i].tuple, S) <=> pcb[i].state \in S
    BY <1>1 DEF Holds, IInv, OneConnectionPerRemote
  <2> QED
    BY <1>1, <2>1 DEF connOfRemote, Stage
<1>2. ASSUME NEW r \in Remote, ~Matched(r) PROVE connOfRemote[r] = "none"
  BY <1>2 DEF connOfRemote, Holds, Matched
<1> QED
  BY <1>1, <1>2

LEMMA LifeOfNext ==
    IInv' => /\ \A i \in PcbId : pcb'[i].tuple \in Remote
                    => connOfRemote'[pcb'[i].tuple] = Stage(pcb'[i].state)
             /\ \A r \in Remote : ~Matched(r)' => connOfRemote'[r] = "none"
<1>1. (IInv => /\ \A i \in PcbId : pcb[i].tuple \in Remote
                       => connOfRemote[pcb[i].tuple] = Stage(pcb[i].state)
               /\ \A r \in Remote : ~Matched(r) => connOfRemote[r] = "none")'
  BY LifeOf, PTL
<1> QED
  BY <1>1 DEF Stage, Closing

\* A step that changes one PCB changes the life of one remote end.
LEMMA OneLifeStep ==
    ASSUME NEW i \in PcbId, NEW r \in Remote,
           \A j \in PcbId : j # i => pcb'[j] = pcb[j],
           pcb[i].tuple \in {Empty, r},
           pcb'[i].tuple \in {Empty, r}
    PROVE  connOfRemote' = [connOfRemote EXCEPT ![r] = connOfRemote'[r]]
<1>1. ASSUME NEW q \in Remote, q # r PROVE connOfRemote'[q] = connOfRemote[q]
  <2>1. q # Empty
    BY TupleAssumption
  <2>2. \A j \in PcbId : pcb'[j].tuple = q <=> pcb[j].tuple = q
    BY <1>1, <2>1
  <2>3. \A j \in PcbId : pcb[j].tuple = q => pcb'[j] = pcb[j]
    BY <1>1, <2>1
  <2>4. ASSUME NEW S PROVE Holds(q, S)' <=> Holds(q, S)
    BY <2>2, <2>3 DEF Holds
  <2> QED
    BY <2>4 DEF connOfRemote, Closing
<1>2. connOfRemote = [q \in Remote |-> connOfRemote[q]]
  BY DEF connOfRemote
<1>3. connOfRemote' = [q \in Remote |-> connOfRemote'[q]]
  BY DEF connOfRemote
<1> QED
  BY <1>1, <1>2, <1>3

\* tcp_timer gives up the remote ends of the PCBs that expire.
LEMMA TimerGivesUp ==
    ASSUME IInv, IInv', Timer
    PROVE  Conn!ConnNext
<1> DEFINE Gone == {r \in Remote : \E i \in PcbId : pcb[i].tuple = r /\ Expired(pcb[i])}
<1>1. ASSUME NEW i \in PcbId, Expired(pcb[i]) PROVE pcb'[i].tuple = Empty
  BY <1>1 DEF Timer, FreePcb
<1>2. ASSUME NEW i \in PcbId, ~Expired(pcb[i])
      PROVE  pcb'[i].tuple = pcb[i].tuple /\ pcb'[i].state = pcb[i].state
  <2>1. pcb'[i] = Ticked(pcb[i]) /\ pcb[i] \in Pcb
    BY <1>2 DEF Timer, IInv, TypeOK
  <2> QED
    BY <2>1 DEF Ticked, Pcb
<1>3. ASSUME NEW r \in Remote, r \in Gone PROVE connOfRemote'[r] = "none"
  <2>1. PICK i \in PcbId : pcb[i].tuple = r /\ Expired(pcb[i])
    BY <1>3
  <2>2. ASSUME NEW j \in PcbId PROVE pcb'[j].tuple # r
    <3>1. CASE Expired(pcb[j])
      BY <1>1, <3>1, TupleAssumption
    <3>2. CASE ~Expired(pcb[j])
      <4>1. i # j
        BY <2>1, <3>2
      <4> QED
        BY <1>2, <2>1, <3>2, <4>1 DEF IInv, OneConnectionPerRemote
    <3> QED
      BY <3>1, <3>2
  <2>3. ~Matched(r)'
    BY <2>2 DEF Matched
  <2> QED
    BY <2>3, LifeOfNext
<1>4. ASSUME NEW r \in Remote, r \notin Gone PROVE connOfRemote'[r] = connOfRemote[r]
  <2>1. \A i \in PcbId : pcb'[i].tuple = r => pcb[i].tuple = r /\ pcb'[i].state = pcb[i].state
    BY <1>1, <1>2, TupleAssumption
  <2>2. \A i \in PcbId : pcb[i].tuple = r => pcb'[i].tuple = r /\ pcb'[i].state = pcb[i].state
    BY <1>2, <1>4
  <2>3. ASSUME NEW S PROVE Holds(r, S)' <=> Holds(r, S)
    BY <2>1, <2>2 DEF Holds
  <2> QED
    BY <2>3 DEF connOfRemote, Closing
<1>5. connOfRemote' = [r \in Remote |-> IF r \in Gone THEN "none" ELSE connOfRemote[r]]
  <2>1. connOfRemote' = [r \in Remote |-> connOfRemote'[r]]
    BY DEF connOfRemote
  <2> HIDE DEF Gone
  <2> QED
    BY <1>3, <1>4, <2>1
<1>6. Gone \in SUBSET Remote
  OBVIOUS
<1> HIDE DEF Gone
<1> QED
  BY <1>5, <1>6 DEF Conn!ConnNext, Conn!GiveUp

\* Any other step advances one connection by one stage, or none.
LEMMA AdvancesOne ==
    ASSUME NEW r \in Remote, NEW from, NEW to,
           <<from, to>> \in {<<"none", "half">>, <<"half", "open">>,
                             <<"open", "closing">>, <<"closing", "none">>},
           connOfRemote[r] = from,
           connOfRemote' = [connOfRemote EXCEPT ![r] = connOfRemote'[r]],
           connOfRemote'[r] = to
    PROVE  Conn!ConnNext
<1>1. Conn!Advance(r, from, to)
  BY DEF Conn!Advance
<1>2. \/ from = "none" /\ to = "half"
      \/ from = "half" /\ to = "open"
      \/ from = "open" /\ to = "closing"
      \/ from = "closing" /\ to = "none"
  OBVIOUS
<1> QED
  BY <1>1, <1>2 DEF Conn!ConnNext

\* A segment that finds its connection moves it on by one stage or leaves
\* it in the stage it is in.
LEMMA FoundAdvances ==
    ASSUME IInv, NEW r \in Remote, NEW seg \in Segment, NEW i \in PcbId, Found(i, r),
           \/ RxSynReceived(i, seg) \/ RxData(i, seg) \/ RxFin(i, seg)
           \/ RxFinWait1Ack(i, seg) \/ RxClosed(i, seg) \/ RxIgnored(i, seg)
    PROVE  \/ pcb'[i].tuple = r /\ Stage(pcb'[i].state) = Stage(pcb[i].state)
           \/ /\ pcb'[i].tuple = r
              /\ Stage(pcb[i].state) = "half"
              /\ Stage(pcb'[i].state) = "open"
           \/ /\ pcb'[i].tuple = r
              /\ Stage(pcb[i].state) = "open"
              /\ Stage(pcb'[i].state) = "closing"
           \/ /\ pcb'[i].tuple = Empty
              /\ Stage(pcb[i].state) = "closing"
<1>1. pcb \in [PcbId -> Pcb] /\ pcb[i] \in Pcb /\ pcb[i].tuple = r
  BY FoundIsChild DEF IInv, TypeOK
<1>2. ASSUME RxSynReceived(i, seg) \/ RxFin(i, seg) \/ RxFinWait1Ack(i, seg)
      PROVE  pcb'[i].tuple = r
  <2>1. PICK s \in TcpState : pcb'[i] = [StateUpdate(pcb[i], s) EXCEPT !.timer_rest = 0]
    BY <1>1, <1>2 DEF RxSynReceived, RxFin, RxFinWait1Ack, TcpState
  <2> QED
    BY <1>1, <2>1 DEF StateUpdate, Pcb
<1>3. CASE RxSynReceived(i, seg)
  <2>1. pcb[i].state = "SYN_RECEIVED" /\ pcb'[i].state = "ESTABLISHED"
    BY <1>1, <1>3 DEF RxSynReceived, StateUpdate, Pcb
  <2> QED
    BY <1>2, <1>3, <2>1 DEF Stage
<1>4. CASE RxData(i, seg)
  <2>1. pcb'[i].tuple = r /\ pcb'[i].state = pcb[i].state
    BY <1>1, <1>4 DEF RxData, Pcb
  <2> QED
    BY <2>1
<1>5. CASE RxFin(i, seg)
  <2>1. pcb[i].state = "ESTABLISHED" /\ pcb'[i].state = "LAST_ACK"
    BY <1>1, <1>5 DEF RxFin, StateUpdate, Pcb
  <2> QED
    BY <1>2, <1>5, <2>1 DEF Stage, Closing
<1>6. CASE RxFinWait1Ack(i, seg)
  <2>1. pcb[i].state = "FIN_WAIT_1" /\ pcb'[i].state = "FIN_WAIT_2"
    BY <1>1, <1>6 DEF RxFinWait1Ack, StateUpdate, Pcb
  <2> QED
    BY <1>2, <1>6, <2>1 DEF Stage, Closing
<1>7. CASE RxClosed(i, seg)
  <2>1. pcb[i].state \in Closing /\ pcb'[i].tuple = Empty
    BY <1>1, <1>7 DEF RxClosed, FreePcb, Closing
  <2> QED
    BY <2>1 DEF Stage, Closing
<1>8. CASE RxIgnored(i, seg)
  <2>1. pcb'[i].tuple = r /\ pcb'[i].state = pcb[i].state
    BY <1>1, <1>8 DEF RxIgnored, Pcb
  <2> QED
    BY <2>1
<1> QED
  BY <1>3, <1>4, <1>5, <1>6, <1>7, <1>8

LEMMA StepRefines ==
    IInv /\ IInv' /\ [Next]_vars => [Conn!ConnNext]_connOfRemote
<1> SUFFICES ASSUME IInv, IInv', [Next]_vars
             PROVE  Conn!ConnNext \/ connOfRemote' = connOfRemote
  OBVIOUS
<1> USE TupleAssumption
<1>1. ASSUME pcb' = pcb PROVE connOfRemote' = connOfRemote
  BY <1>1 DEF connOfRemote, Holds
<1>2. pcb \in [PcbId -> Pcb]
  BY DEF IInv, TypeOK
\* one PCB moves on and the life of its remote end with it
<1>3. ASSUME NEW i \in PcbId, NEW r \in Remote,
             \A j \in PcbId : j # i => pcb'[j] = pcb[j],
             pcb[i].tuple = r,
             \/ pcb'[i].tuple = r /\ Stage(pcb'[i].state) = Stage(pcb[i].state)
             \/ /\ pcb'[i].tuple = r
                /\ Stage(pcb[i].state) = "half"
                /\ Stage(pcb'[i].state) = "open"
             \/ /\ pcb'[i].tuple = r
                /\ Stage(pcb[i].state) = "open"
                /\ Stage(pcb'[i].state) = "closing"
             \/ /\ pcb'[i].tuple = Empty
                /\ Stage(pcb[i].state) = "closing"
      PROVE  Conn!ConnNext \/ connOfRemote' = connOfRemote
  <2>1. connOfRemote' = [connOfRemote EXCEPT ![r] = connOfRemote'[r]]
    BY <1>3, OneLifeStep
  <2>2. connOfRemote[r] = Stage(pcb[i].state)
    BY <1>3, LifeOf
  <2>3. CASE pcb'[i].tuple = r
    <3>1. connOfRemote'[r] = Stage(pcb'[i].state)
      BY <2>3, LifeOfNext
    <3>2. CASE Stage(pcb'[i].state) = Stage(pcb[i].state)
      <4>1. connOfRemote'[r] = connOfRemote[r]
        BY <2>2, <3>1, <3>2
      <4>2. connOfRemote = [q \in Remote |-> connOfRemote[q]]
        BY DEF connOfRemote
      <4> HIDE DEF connOfRemote
      <4> QED
        BY <2>1, <4>1, <4>2
    <3>3. CASE Stage(pcb[i].state) = "half" /\ Stage(pcb'[i].state) = "open"
      BY <2>1, <2>2, <3>1, <3>3, AdvancesOne
    <3>4. CASE Stage(pcb[i].state) = "open" /\ Stage(pcb'[i].state) = "closing"
      BY <2>1, <2>2, <3>1, <3>4, AdvancesOne
    <3> QED
      BY <1>3, <2>3, <3>2, <3>3, <3>4
  <2>4. CASE pcb'[i].tuple = Empty
    <3>1. \A j \in PcbId : pcb'[j].tuple # r
      BY <1>3, <2>4 DEF IInv, OneConnectionPerRemote
    <3>2. connOfRemote'[r] = "none"
      BY <3>1, LifeOfNext DEF Matched
    <3>3. Stage(pcb[i].state) = "closing"
      BY <1>3, <2>4
    <3> QED
      BY <2>1, <2>2, <3>2, <3>3, AdvancesOne
  <2> QED
    BY <1>3, <2>3, <2>4
<1>4. ASSUME NEW r \in Remote, NEW seg \in Segment, Rx(r, seg)
      PROVE  Conn!ConnNext \/ connOfRemote' = connOfRemote
  <2>1. CASE RxAccept(r, seg)
    <3>1. PICK l, e \in PcbId :
              /\ Found(e, Empty)
              /\ pcb' = [pcb EXCEPT ![e] = [tuple |-> r, state |-> "SYN_RECEIVED",
                                            prev_state |-> "LISTEN",
                                            parent_id |-> l, timer_rest |-> 0]]
      BY <2>1 DEF RxAccept
    <3>2. pcb'[e].tuple = r /\ pcb'[e].state = "SYN_RECEIVED" /\ pcb[e].tuple = Empty
      BY <1>2, <3>1 DEF Found
    <3>3. \A j \in PcbId : j # e => pcb'[j] = pcb[j]
      BY <1>2, <3>1
    <3>4. connOfRemote' = [connOfRemote EXCEPT ![r] = connOfRemote'[r]]
      BY <3>2, <3>3, OneLifeStep
    <3>5. connOfRemote[r] = "none"
      BY <2>1, LifeOf DEF RxAccept
    <3>6. connOfRemote'[r] = "half"
      BY <3>2, LifeOfNext DEF Stage
    <3> QED
      BY <3>4, <3>5, <3>6, AdvancesOne
  <2>2. CASE RxDrop(r, seg)
    BY <1>1, <2>2 DEF RxDrop
  <2>3. ASSUME NEW i \in PcbId, Found(i, r),
               \/ RxSynReceived(i, seg) \/ RxData(i, seg) \/ RxFin(i, seg)
               \/ RxFinWait1Ack(i, seg) \/ RxClosed(i, seg) \/ RxIgnored(i, seg)
        PROVE  Conn!ConnNext \/ connOfRemote' = connOfRemote
    <3>1. pcb[i].tuple = r /\ \A j \in PcbId : j # i => pcb'[j] = pcb[j]
      BY <2>3, FoundStep DEF Found
    <3> QED
      BY <1>3, <2>3, <3>1, FoundAdvances
  <2> QED
    BY <1>4, <2>1, <2>2, <2>3 DEF Rx
<1>5. CASE EventHandler
  <2>1. CASE close_req = NoClose
    BY <1>1, <1>5, <2>1 DEF EventHandler
  <2>2. CASE close_req # NoClose
    <3>1. /\ close_req \in PcbId
          /\ pcb[close_req] \in Pcb
          /\ pcb[close_req].state = "ESTABLISHED"
          /\ pcb[close_req].tuple \in Remote
      BY <1>2, <2>2, PendingIsOpenChild DEF Children
    <3>2. pcb' = [pcb EXCEPT ![close_req] = StateUpdate(pcb[close_req], "FIN_WAIT_1")]
      BY <1>5, <2>2 DEF EventHandler
    <3>3. /\ pcb'[close_req].tuple = pcb[close_req].tuple
          /\ pcb'[close_req].state = "FIN_WAIT_1"
      BY <1>2, <3>1, <3>2 DEF StateUpdate, Pcb
    <3>4. \A j \in PcbId : j # close_req => pcb'[j] = pcb[j]
      BY <1>2, <3>2
    <3>5. Stage(pcb[close_req].state) = "open" /\ Stage(pcb'[close_req].state) = "closing"
      BY <3>1, <3>3 DEF Stage, Closing
    <3> QED
      BY <1>3, <3>1, <3>3, <3>4, <3>5
  <2> QED
    BY <2>1, <2>2
<1>6. CASE Timer
  BY <1>6, TimerGivesUp
<1>7. CASE UNCHANGED vars
  BY <1>1, <1>7 DEF vars
<1> QED
  BY <1>4, <1>5, <1>6, <1>7 DEF Next

\* Every behaviour of the PCB and socket tables is, remote end by remote
\* end, a behaviour of ConnTable.
THEOREM Implements == Spec => ImplementsConnTable
<1>1. Init => Conn!ConnInit
  <2> SUFFICES ASSUME Init PROVE connOfRemote = [r \in Remote |-> "none"]
    BY DEF Conn!ConnInit
  <2>1. ASSUME NEW r \in Remote, NEW i \in PcbId PROVE pcb[i].tuple # r
    BY TupleAssumption, ListenerIsPcb DEF Init, FreePcb
  <2> QED
    BY <2>1 DEF connOfRemote, Holds
<1>2. Spec => []IInv
  BY InitInv, NextInv, PTL DEF Spec
<1> QED
  BY <1>1, <1>2, StepRefines, PTL DEF Spec, ImplementsConnTable, Conn!ConnSpec

-----------------------------------------------------------------------------
(* The sessions: Httpd                                                     *)

\* The record bound to a session is the one its cookie names, so that the
\* end of the session frees it.
RecordKnown ==
    \A c \in ClientId : client[c] # NoSocket => cookie[client[c]] = c

\* Every session that may still receive has a record's cookie: a rejected
\* one has its close pending until the frame is done with.
ServedHasCookie ==
    \A i \in Children : valid[i] /\ close_req # i => cookie[i] \in ClientId

\* The inductive invariant, on top of that of the tables
HInv ==
    /\ IInv
    /\ HttpdTypeOK
    /\ SessionOwnsRecord
    /\ RecordsNotLeaked
    /\ BufferHasOpenOwner
    /\ RecordKnown
    /\ ServedHasCookie

LEMMA SocketNames == NoSocket \notin PcbId /\ NoCookie \notin ClientId
BY SizeAssumption, ClientAssumption DEF NoSocket, NoCookie, PcbId, ClientId

LEMMA HttpdInitInv == HttpdInit => HInv
<1> SUFFICES ASSUME HttpdInit PROVE HInv
  OBVIOUS
<1>1. IInv
  BY InitInv DEF HttpdInit
<1>2. HttpdTypeOK
  BY DEF HttpdInit, HttpdTypeOK
<1>3. RecordsNotLeaked /\ BufferHasOpenOwner /\ RecordKnown
  BY DEF HttpdInit, RecordsNotLeaked, BufferHasOpenOwner, RecordKnown
<1>4. ServedHasCookie /\ SessionOwnsRecord
  BY DEF HttpdInit, Init, ServedHasCookie, SessionOwnsRecord, Children
<1> QED
  BY <1>1, <1>2, <1>3, <1>4 DEF HInv

\* Every step of httpd is a step of the tables.
LEMMA HttpdStepIsTcpStep == [HttpdNext]_httpdVars => [Next]_vars
BY DEF HttpdNext, HttpdRx, HttpdEventHandler, HttpdTimer, Next, httpdVars, vars

-----------------------------------------------------------------------------

\* A frame opens or closes at most one socket.
LEMMA RxOneSocket ==
    ASSUME IInv, NEW r \in Remote, NEW seg \in Segment, Rx(r, seg)
    PROVE  \E k \in PcbId : \A j \in PcbId : j # k => valid'[j] = valid[j]
<1>1. valid \in [PcbId -> BOOLEAN]
  BY DEF IInv, TypeOK
<1>2. CASE RxAccept(r, seg) \/ RxDrop(r, seg)
  BY <1>2, ListenerIsPcb DEF RxAccept, RxDrop
<1>3. ASSUME NEW i \in PcbId,
             \/ RxSynReceived(i, seg) \/ RxData(i, seg) \/ RxFin(i, seg)
             \/ RxFinWait1Ack(i, seg) \/ RxClosed(i, seg) \/ RxIgnored(i, seg)
      PROVE  \A j \in PcbId : j # i => valid'[j] = valid[j]
  BY <1>1, <1>3 DEF RxSynReceived, RxData, RxFin, RxFinWait1Ack, RxClosed, RxIgnored,
                    ConnectCallback, DisconnectCallback
<1> QED
  BY <1>2, <1>3 DEF Rx

\* The segment httpd is handed opens and closes nothing.
LEMMA DeliveredIsData ==
    ASSUME IInv, NEW r \in Remote, NEW seg \in Segment, Rx(r, seg),
           NEW i \in PcbId, Delivered(i, r, seg)
    PROVE  valid' = valid /\ i \in Children
<1> USE TupleAssumption
<1>1. i \in Children /\ pcb[i].tuple = r
  BY FoundIsChild DEF Delivered
<1>2. ~RxAccept(r, seg) /\ ~RxDrop(r, seg)
  BY <1>1 DEF RxAccept, RxDrop, Matched, Children
<1>3. PICK k \in PcbId :
        /\ Found(k, r)
        /\ \/ RxSynReceived(k, seg) \/ RxData(k, seg) \/ RxFin(k, seg)
           \/ RxFinWait1Ack(k, seg) \/ RxClosed(k, seg) \/ RxIgnored(k, seg)
  BY <1>2 DEF Rx
<1>4. k = i
  BY <1>1, <1>3 DEF Found, IInv, OneConnectionPerRemote
<1> QED
  BY <1>1, <1>3, <1>4 DEF Delivered, RxSynReceived, RxData, RxFin, RxFinWait1Ack,
                          RxClosed, RxIgnored

\* A step in which the sockets that change are those closed, and httpd
\* hears of them.
LEMMA DisconnectInv ==
    ASSUME HInv, IInv', HttpdDisconnect(Closed),
           \A j \in PcbId : valid'[j] => valid[j],
           \A j \in Children : valid'[j] /\ close_req' # j => close_req # j
    PROVE  HInv'
<1> USE SocketNames
<1>1. /\ client' = [c \in ClientId |->
                      IF \E i \in Closed : cookie[i] = c THEN NoSocket ELSE client[c]]
      /\ cookie' = cookie /\ rejected' = rejected
      /\ http_request_sid' = IF http_request_sid \in Closed THEN NoSocket ELSE http_request_sid
  BY DEF HttpdDisconnect
<1>2. HttpdTypeOK'
  BY <1>1 DEF HInv, HttpdTypeOK
<1>3. ASSUME NEW c \in ClientId, client'[c] # NoSocket
      PROVE  client'[c] = client[c] /\ client[c] \in Children /\ valid'[client[c]]
  <2>1. client'[c] = client[c] /\ ~\E i \in Closed : cookie[i] = c
    BY <1>1, <1>3
  <2>2. client[c] \in Children /\ valid[client[c]] /\ cookie[client[c]] = c
    BY <1>3, <2>1 DEF HInv, RecordsNotLeaked, RecordKnown
  <2>3. client[c] \notin Closed
    BY <2>1, <2>2
  <2> QED
    BY <2>1, <2>2, <2>3 DEF Closed, Children
<1>4. RecordsNotLeaked'
  BY <1>3 DEF RecordsNotLeaked, Children
<1>5. RecordKnown'
  BY <1>1, <1>3 DEF HInv, RecordKnown
<1>6. BufferHasOpenOwner'
  BY <1>1 DEF HInv, BufferHasOpenOwner, Closed, Children
<1>7. ServedHasCookie'
  BY <1>1 DEF HInv, ServedHasCookie, Children
<1>8. SessionOwnsRecord'
  <2> SUFFICES ASSUME ~rejected, NEW j \in Children, valid'[j]
               PROVE  cookie[j] # NoCookie /\ client'[cookie[j]] = j
    BY <1>1 DEF SessionOwnsRecord
  <2>1. cookie[j] # NoCookie /\ client[cookie[j]] = j /\ cookie[j] \in ClientId
    BY DEF HInv, SessionOwnsRecord, HttpdTypeOK, Children
  <2>2. ASSUME NEW i \in Closed, cookie[i] = cookie[j] PROVE FALSE
    <3>1. i \in Children /\ i # j /\ valid[i]
      BY DEF HInv, IInv, ListenerSurvives, Closed, Children
    <3> QED
      BY <2>1, <2>2, <3>1 DEF HInv, SessionOwnsRecord
  <2> QED
    BY <1>1, <2>1, <2>2
<1> QED
  BY <1>2, <1>4, <1>5, <1>6, <1>7, <1>8 DEF HInv

LEMMA HttpdRxInv ==
    ASSUME HInv, IInv', NEW r \in Remote, NEW seg \in Segment, HttpdRx(r, seg)
    PROVE  HInv'
<1> USE SocketNames
<1>1. /\ Rx(r, seg) /\ IInv /\ close_req = NoClose
      /\ valid \in [PcbId -> BOOLEAN] /\ valid' \in [PcbId -> BOOLEAN]
  BY NothingPending DEF HttpdRx, HInv, Rx, IInv, TypeOK
<1>2. PICK k \in PcbId : \A j \in PcbId : j # k => valid'[j] = valid[j]
  BY <1>1, RxOneSocket
<1>3. ASSUME NEW i \in PcbId, Opened(i), HttpdConnect(i)
      PROVE  HInv'
  <2>1. \A j \in PcbId : j # i => valid'[j] = valid[j]
    BY <1>2, <1>3 DEF Opened
  <2>2. i \in Children /\ ~valid[i] /\ valid'[i]
    BY <1>1, <1>3 DEF Opened, IInv, ListenerSurvives, Children
  <2>3. http_request_sid' = http_request_sid
    BY <1>3 DEF HttpdConnect
  <2>4. BufferHasOpenOwner'
    BY <2>1, <2>2, <2>3 DEF HInv, BufferHasOpenOwner, Children
  <2>5. \A c \in ClientId : client[c] # i
    BY <2>2 DEF HInv, RecordsNotLeaked, Children
  <2>6. ASSUME NEW c \in ClientId, FirstFree(c),
               client' = [client EXCEPT ![c] = i],
               cookie' = [cookie EXCEPT ![i] = c],
               rejected' = rejected
        PROVE  HInv'
    <3>1. client \in [ClientId -> PcbId \cup {NoSocket}] /\ cookie \in [PcbId -> ClientId \cup {NoCookie}]
      BY DEF HInv, HttpdTypeOK
    <3>2. HttpdTypeOK'
      BY <2>3, <2>6, <3>1 DEF HInv, HttpdTypeOK
    <3>3. ASSUME NEW d \in ClientId, d # c PROVE client'[d] = client[d]
      BY <2>6, <3>1, <3>3
    <3>4. client'[c] = i /\ cookie'[i] = c /\ \A j \in PcbId : j # i => cookie'[j] = cookie[j]
      BY <2>6, <3>1
    <3>5. RecordsNotLeaked'
      BY <2>1, <2>2, <3>3, <3>4 DEF HInv, RecordsNotLeaked, Children
    <3>6. RecordKnown'
      <4> SUFFICES ASSUME NEW d \in ClientId, client'[d] # NoSocket
                   PROVE  cookie'[client'[d]] = d
        BY DEF RecordKnown
      <4>1. CASE d = c
        BY <3>4, <4>1
      <4>2. CASE d # c
        <5>1. client'[d] = client[d] /\ client[d] # i /\ client[d] \in PcbId
          BY <2>5, <3>1, <3>3, <4>2
        <5>2. cookie[client[d]] = d
          BY <5>1 DEF HInv, RecordKnown
        <5> QED
          BY <3>4, <5>1, <5>2
      <4> QED
        BY <4>1, <4>2
    <3>7. ServedHasCookie'
      <4> SUFFICES ASSUME NEW j \in Children, valid'[j] PROVE cookie'[j] \in ClientId
        BY DEF ServedHasCookie
      <4>1. CASE j = i
        BY <3>4, <4>1
      <4>2. CASE j # i
        <5>1. j \in PcbId /\ close_req # j /\ valid[j]
          BY <1>1, <2>1, <4>2, NoCloseIsNoPcb DEF Children
        <5> QED
          BY <3>4, <4>2, <5>1 DEF HInv, ServedHasCookie
      <4> QED
        BY <4>1, <4>2
    <3>8. SessionOwnsRecord'
      <4> SUFFICES ASSUME ~rejected, NEW j \in Children, valid'[j]
                   PROVE  cookie'[j] # NoCookie /\ client'[cookie'[j]] = j
        BY <2>6 DEF SessionOwnsRecord
      <4>1. CASE j = i
        BY <3>4, <4>1
      <4>2. CASE j # i
        <5>1. j \in PcbId /\ cookie[j] # NoCookie /\ client[cookie[j]] = j
          BY <2>1, <4>2 DEF HInv, SessionOwnsRecord, Children
        <5>2. cookie[j] \in ClientId /\ cookie[j] # c
          BY <2>6, <3>1, <5>1 DEF FirstFree
        <5> QED
          BY <3>3, <3>4, <4>2, <5>1, <5>2
      <4> QED
        BY <4>1, <4>2
    <3> QED
      BY <2>4, <3>2, <3>5, <3>6, <3>7, <3>8 DEF HInv
  <2>7. ASSUME AllBusy, close_req' = i, rejected' = TRUE, client' = client, cookie' = cookie
        PROVE  HInv'
    <3>1. HttpdTypeOK' /\ RecordKnown'
      BY <2>3, <2>7 DEF HInv, HttpdTypeOK, RecordKnown
    <3>2. RecordsNotLeaked'
      BY <2>1, <2>2, <2>7 DEF HInv, RecordsNotLeaked, Children
    <3>3. ServedHasCookie'
      <4> SUFFICES ASSUME NEW j \in Children, valid'[j], j # i PROVE cookie'[j] \in ClientId
        BY <2>7 DEF ServedHasCookie
      <4>1. j \in PcbId /\ close_req # j /\ valid[j]
        BY <1>1, <2>1, NoCloseIsNoPcb DEF Children
      <4> QED
        BY <2>7, <4>1 DEF HInv, ServedHasCookie
    <3>4. SessionOwnsRecord'
      BY <2>7 DEF SessionOwnsRecord
    <3> QED
      BY <2>4, <3>1, <3>2, <3>3, <3>4 DEF HInv
  <2> QED
    BY <1>3, <2>6, <2>7 DEF HttpdConnect
<1>4. ASSUME NEW i \in PcbId, Delivered(i, r, seg), HttpdReceive(i)
      PROVE  HInv'
  <2>1. valid' = valid /\ i \in Children /\ valid[i]
    BY <1>1, <1>4, DeliveredIsData DEF Delivered
  <2>2. client' = client /\ cookie' = cookie /\ rejected' = rejected
    BY <1>4 DEF HttpdReceive
  <2>3. cookie[i] \in ClientId
    BY <1>1, <2>1, NoCloseIsNoPcb DEF HInv, ServedHasCookie, Children
  <2>4. http_request_sid' \in {http_request_sid, client[cookie[i]], NoSocket}
    BY <1>4 DEF HttpdReceive, ReceiveFirst, ReceiveMore
  <2>5. client[cookie[i]] \in Children \cup {NoSocket}
    BY <2>3 DEF HInv, RecordsNotLeaked
  <2>6. BufferHasOpenOwner'
    BY <2>1, <2>3, <2>4 DEF HInv, BufferHasOpenOwner, RecordsNotLeaked
  <2>7. HttpdTypeOK'
    BY <2>2, <2>4, <2>5 DEF HInv, HttpdTypeOK, Children
  <2>8. RecordsNotLeaked' /\ RecordKnown'
    BY <2>1, <2>2 DEF HInv, RecordsNotLeaked, RecordKnown
  <2>9. ServedHasCookie'
    BY <1>1, <2>1, <2>2, NoCloseIsNoPcb DEF HInv, ServedHasCookie, Children
  <2>10. SessionOwnsRecord'
    BY <2>1, <2>2 DEF HInv, SessionOwnsRecord
  <2> QED
    BY <2>6, <2>7, <2>8, <2>9, <2>10 DEF HInv
<1>5. CASE /\ ~\E i \in PcbId : Opened(i) \/ Delivered(i, r, seg)
           /\ HttpdDisconnect(Closed)
  <2>1. \A j \in PcbId : valid'[j] => valid[j]
    BY <1>5 DEF Opened
  <2>2. \A j \in Children : close_req # j
    BY <1>1, NoCloseIsNoPcb DEF Children
  <2> QED
    BY <1>5, <2>1, <2>2, DisconnectInv
<1> QED
  BY <1>3, <1>4, <1>5 DEF HttpdRx

LEMMA HttpdNextInv == HInv /\ [HttpdNext]_httpdVars => HInv'
<1> SUFFICES ASSUME HInv, [HttpdNext]_httpdVars PROVE HInv'
  OBVIOUS
<1>1. IInv /\ IInv' /\ valid \in [PcbId -> BOOLEAN]
  BY HttpdStepIsTcpStep, NextInv DEF HInv, IInv, TypeOK
<1>2. CASE \E r \in Remote, seg \in Segment : HttpdRx(r, seg)
  BY <1>1, <1>2, HttpdRxInv
<1>3. CASE HttpdEventHandler
  <2>1. EventHandler /\ HttpdDisconnect(Closed)
    BY <1>3 DEF HttpdEventHandler
  <2>2. CASE close_req = NoClose
    <3>1. valid' = valid /\ \A j \in Children : close_req # j
      BY <2>1, <2>2, NoCloseIsNoPcb DEF EventHandler, Children
    <3> QED
      BY <1>1, <2>1, <3>1, DisconnectInv
  <2>3. CASE close_req # NoClose
    <3>1. close_req \in Children /\ pcb[close_req].state = "ESTABLISHED"
      BY <1>1, <2>3, PendingIsOpenChild
    <3>2. valid' = [valid EXCEPT ![close_req] = FALSE]
      BY <2>1, <2>3, <3>1 DEF EventHandler, DisconnectCallback
    <3>3. (\A j \in PcbId : valid'[j] => valid[j]) /\ ~valid'[close_req]
      BY <1>1, <3>1, <3>2 DEF Children
    <3> QED
      BY <1>1, <2>1, <3>3, DisconnectInv
  <2> QED
    BY <2>2, <2>3
<1>4. CASE HttpdTimer
  <2>1. Timer /\ HttpdDisconnect(Closed)
    BY <1>4 DEF HttpdTimer
  <2>2. (\A j \in PcbId : valid'[j] => valid[j]) /\ close_req' = close_req
    BY <2>1 DEF Timer
  <2> QED
    BY <1>1, <2>1, <2>2, DisconnectInv
<1>5. CASE UNCHANGED httpdVars
  BY <1>1, <1>5 DEF httpdVars, HInv, HttpdTypeOK, RecordsNotLeaked, BufferHasOpenOwner,
                    RecordKnown, ServedHasCookie, SessionOwnsRecord
<1> QED
  BY <1>2, <1>3, <1>4, <1>5 DEF HttpdNext

-----------------------------------------------------------------------------
(***************************************************************************)
(* The theorems.                                                           *)
(***************************************************************************)

\* httpd adds nothing to what TcpSocket allows an application to do, so
\* every theorem about TcpSocket holds of the composition.
THEOREM HttpdUsesSockets == HttpdSpec => Spec
<1>1. HttpdInit => Init
  BY DEF HttpdInit
<1> QED
  BY <1>1, HttpdStepIsTcpStep, PTL DEF HttpdSpec, Spec

LEMMA HttpdInvariant == HttpdSpec => []HInv
BY HttpdInitInv, HttpdNextInv, PTL DEF HttpdSpec

\* The web server's variables stay well-typed.
THEOREM HttpdTypeCorrect == HttpdSpec => []HttpdTypeOK
<1>1. HInv => HttpdTypeOK
  BY DEF HInv
<1> QED
  BY <1>1, HttpdInvariant, PTL

\* However many sessions there are for the records, no record and no
\* request buffer outlives the session that holds it.
THEOREM NothingLeaks == HttpdSpec => []NothingLeaked
<1>1. HInv => NothingLeaked
  BY DEF HInv, NothingLeaked
<1> QED
  BY <1>1, HttpdInvariant, PTL

\* Until a session is rejected, each open session works on its own record.
THEOREM RecordsAreOwned == HttpdSpec => []SessionOwnsRecord
<1>1. HInv => SessionOwnsRecord
  BY DEF HInv
<1> QED
  BY <1>1, HttpdInvariant, PTL

=============================================================================
