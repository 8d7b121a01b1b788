------------------------------ MODULE TcpSocket ------------------------------
(***************************************************************************)
(* The TCP half of the LwPS stack: the PCB table of lwps/tcp.c and the TCP *)
(* slots of the socket table of lwps/lwps_api.c, as the firmware's one     *)
(* thread drives them.  TCP socket i always sits on PCB i.                 *)
(*                                                                         *)
(* The thread alternates between nic_rx_dsr, which takes a frame up the    *)
(* stack and then runs lwps_event_handler, and tcp_timer, once a second.   *)
(* tcp.c calls the application back synchronously (connect, disconnect,    *)
(* receive); a callback that wants to close its connection calls           *)
(* lwps_close, which only records the wish for lwps_event_handler.  Here   *)
(* the application closes or not, freely; Httpd says when httpd does.      *)
(*                                                                         *)
(* Abstracted: the four-tuple is a remote end (an element of Remote), or   *)
(* none, or that of a bound listening socket; sequence numbers are         *)
(* whether a segment is the expected one; timer_alive is written but never *)
(* read.  Active opens (tcp_connect, SYN_SENT) are compiled in but no      *)
(* application of this build calls them.                                   *)
(***************************************************************************)
EXTENDS Integers

CONSTANTS
    ConnectionMax,      \* TCP_CONNECTION_MAX, PCBs in the table
    RestTimeout,        \* TCP_TIMER_REST_TIMEOUT, ticks of silence
    RestTimeoutFast,    \* TCP_TIMER_REST_TIMEOUT_FAST, for half-open PCBs
    Remote,             \* the remote ends that send to the listening port
    Empty, AnyRemote    \* four-tuple of a free PCB, of a listening PCB

ASSUME SizeAssumption ==
    /\ ConnectionMax \in Nat \ {0}
    /\ RestTimeout \in Nat
    /\ RestTimeoutFast \in Nat
    /\ RestTimeoutFast <= RestTimeout
ASSUME TupleAssumption ==
    /\ Empty \notin Remote
    /\ AnyRemote \notin Remote
    /\ Empty # AnyRemote
    /\ "poll" \notin Remote

PcbId == 0 .. ConnectionMax - 1
Listener == 0       \* the PCB of the socket httpd_init opens at boot
NoClose == -1

TcpState == {"NONE", "LISTEN", "SYN_RECEIVED", "ESTABLISHED", "FIN_WAIT_1",
             "FIN_WAIT_2", "CLOSE_WAIT", "LAST_ACK", "TIME_WAIT", "CLOSED"}

Pcb == [tuple : Remote \cup {Empty, AnyRemote},
        state : TcpState,
        prev_state : TcpState,
        parent_id : PcbId,
        timer_rest : -1 .. RestTimeout]

Segment == [syn : BOOLEAN, ack : BOOLEAN, fin : BOOLEAN, expected : BOOLEAN]

VARIABLES
    pcb,        \* tcp_pcb_entry
    valid,      \* lwps_socket_entry[].valid: the slot is in use, handlers set
    close_req,  \* lwps_events and lwps_events_parm0: the close not yet done
    at          \* "poll", or the sender of the frame just handled when
                \* lwps_event_handler is what runs next

vars == <<pcb, valid, close_req, at>>

TypeOK ==
    /\ pcb \in [PcbId -> Pcb]
    /\ valid \in [PcbId -> BOOLEAN]
    /\ close_req \in PcbId \cup {NoClose}
    /\ at \in Remote \cup {"poll"}

-----------------------------------------------------------------------------
(***************************************************************************)
(* Helpers of tcp.c.                                                       *)
(***************************************************************************)

StateUpdate(p, s) == [p EXCEPT !.prev_state = p.state, !.state = s]

FreePcb(i, last) ==
    [tuple |-> Empty, state |-> "NONE", prev_state |-> last,
     parent_id |-> i, timer_rest |-> -1]

\* tcp_findPCB: the first PCB with this four-tuple, whatever its state
Found(i, t) ==
    /\ pcb[i].tuple = t
    /\ \A j \in PcbId : j < i => pcb[j].tuple # t

Matched(t) == \E i \in PcbId : pcb[i].tuple = t

Listening == \E l \in PcbId : Found(l, AnyRemote) /\ pcb[l].state = "LISTEN"

Init ==
    /\ pcb = [i \in PcbId |->
                IF i = Listener
                THEN [FreePcb(i, "NONE") EXCEPT !.tuple = AnyRemote, !.state = "LISTEN"]
                ELSE FreePcb(i, "NONE")]
    /\ valid = [i \in PcbId |-> i = Listener]
    /\ close_req = NoClose
    /\ at = "poll"

-----------------------------------------------------------------------------
(***************************************************************************)
(* The callbacks of lwps_api.c.                                            *)
(***************************************************************************)

\* What the application's connect or receive callback may leave behind
MayClose(i) == close_req' \in {close_req, i}

ConnectCallback(i) ==
    /\ valid' = [valid EXCEPT ![i] = TRUE]
    /\ MayClose(i)

DisconnectCallback(i) == valid' = [valid EXCEPT ![i] = FALSE]

RecvCallback(i) ==
    IF valid[i] THEN MayClose(i) ELSE UNCHANGED close_req

-----------------------------------------------------------------------------
(***************************************************************************)
(* tcp_up_handle_ip, one action per state of the PCB the segment finds.    *)
(***************************************************************************)

\* Seeded bug: a PCB in LAST_ACK is taken for a free one
RxAccept_TakesLastAck(r, seg) ==
    /\ ~Matched(r)
    /\ seg.syn
    /\ \E l, e \in PcbId :
        /\ Found(l, AnyRemote)
        /\ pcb[l].state = "LISTEN"
        /\ Found(e, Empty) \/ pcb[e].state = "LAST_ACK"
        /\ pcb' = [pcb EXCEPT ![e] = [tuple |-> r, state |-> "SYN_RECEIVED",
                                      prev_state |-> "LISTEN",
                                      parent_id |-> l, timer_rest |-> 0]]
    /\ UNCHANGED <<valid, close_req>>

\* A SYN from a new remote end: a free PCB goes through LISTEN to
\* SYN_RECEIVED and answers SYN+ACK
RxAccept(r, seg) ==
    /\ ~Matched(r)
    /\ seg.syn
    /\ \E l, e \in PcbId :
        /\ Found(l, AnyRemote)
        /\ pcb[l].state = "LISTEN"
        /\ Found(e, Empty)
        /\ pcb' = [pcb EXCEPT ![e] = [tuple |-> r, state |-> "SYN_RECEIVED",
                                      prev_state |-> "LISTEN",
                                      parent_id |-> l, timer_rest |-> 0]]
    /\ UNCHANGED <<valid, close_req>>

\* No connection and not a SYN, no listener, or no free PCB
RxDrop(r, seg) ==
    /\ ~Matched(r)
    /\ ~(seg.syn /\ Listening /\ Matched(Empty))
    /\ UNCHANGED <<pcb, valid, close_req>>

RxSynReceived(i, seg) ==
    /\ pcb[i].state = "SYN_RECEIVED"
    /\ seg.ack
    /\ pcb' = [pcb EXCEPT ![i] = [StateUpdate(@, "ESTABLISHED") EXCEPT !.timer_rest = 0]]
    /\ ConnectCallback(i)

\* The application sees every expected segment, an empty one too
RxData(i, seg) ==
    /\ pcb[i].state = "ESTABLISHED"
    /\ seg.expected /\ ~seg.fin
    /\ pcb' = [pcb EXCEPT ![i].timer_rest = 0]
    /\ RecvCallback(i)
    /\ UNCHANGED valid

\* Passive close: straight to LAST_ACK
RxFin(i, seg) ==
    /\ pcb[i].state = "ESTABLISHED"
    /\ seg.expected /\ seg.fin
    /\ pcb' = [pcb EXCEPT ![i] = [StateUpdate(@, "LAST_ACK") EXCEPT !.timer_rest = 0]]
    /\ DisconnectCallback(i)
    /\ UNCHANGED close_req

RxFinWait1Ack(i, seg) ==
    /\ pcb[i].state = "FIN_WAIT_1"
    /\ seg.ack /\ ~seg.fin
    /\ pcb' = [pcb EXCEPT ![i] = [StateUpdate(@, "FIN_WAIT_2") EXCEPT !.timer_rest = 0]]
    /\ UNCHANGED <<valid, close_req>>

\* The three ways a closing connection ends: CLOSED, then tcp_delPCB
RxClosed(i, seg) ==
    /\ \/ pcb[i].state \in {"FIN_WAIT_1", "FIN_WAIT_2"} /\ seg.fin
       \/ pcb[i].state = "LAST_ACK" /\ seg.ack
    /\ pcb' = [pcb EXCEPT ![i] = FreePcb(i, "CLOSED")]
    /\ UNCHANGED <<valid, close_req>>

\* Seeded bug: a repeated SYN in FIN_WAIT_1 opens the connection again
RxIgnored_Reopens(i, seg) ==
    /\ pcb[i].state = "FIN_WAIT_1" /\ ~seg.ack /\ ~seg.fin /\ seg.syn
    /\ pcb' = [pcb EXCEPT ![i] = [StateUpdate(@, "SYN_RECEIVED") EXCEPT !.timer_rest = 0]]
    /\ UNCHANGED <<valid, close_req>>

\* Every other segment only proves the remote end alive
RxIgnored(i, seg) ==
    /\ \/ pcb[i].state = "SYN_RECEIVED" /\ ~seg.ack
       \/ pcb[i].state = "ESTABLISHED" /\ ~seg.expected
       \/ pcb[i].state = "FIN_WAIT_1" /\ ~seg.ack /\ ~seg.fin
       \/ pcb[i].state = "FIN_WAIT_2" /\ ~seg.fin
       \/ pcb[i].state = "LAST_ACK" /\ ~seg.ack
    /\ pcb' = [pcb EXCEPT ![i].timer_rest = 0]
    /\ UNCHANGED <<valid, close_req>>

\* nic_rx_dsr takes one frame from r up the stack
Rx(r, seg) ==
    /\ at = "poll"
    /\ at' = r
    /\ \/ RxAccept(r, seg)
       \/ RxDrop(r, seg)
       \/ \E i \in PcbId :
            /\ Found(i, r)
            /\ \/ RxSynReceived(i, seg)
               \/ RxData(i, seg)
               \/ RxFin(i, seg)
               \/ RxFinWait1Ack(i, seg)
               \/ RxClosed(i, seg)
               \/ RxIgnored(i, seg)

\* Seeded bug: the request is not cleared once served
EventHandler_KeepsRequest ==
    /\ at # "poll"
    /\ at' = "poll"
    /\ UNCHANGED close_req
    /\ IF close_req = NoClose
       THEN UNCHANGED <<pcb, valid>>
       ELSE /\ pcb' = [pcb EXCEPT ![close_req] = StateUpdate(@, "FIN_WAIT_1")]
            /\ IF pcb[close_req].state = "ESTABLISHED"
               THEN DisconnectCallback(close_req)
               ELSE UNCHANGED valid

\* lwps_event_handler after each frame: the deferred tcp_close, which sends
\* FIN whatever the state of the PCB
EventHandler ==
    /\ at # "poll"
    /\ at' = "poll"
    /\ close_req' = NoClose
    /\ IF close_req = NoClose
       THEN UNCHANGED <<pcb, valid>>
       ELSE /\ pcb' = [pcb EXCEPT ![close_req] = StateUpdate(@, "FIN_WAIT_1")]
            /\ IF pcb[close_req].state = "ESTABLISHED"
               THEN DisconnectCallback(close_req)
               ELSE UNCHANGED valid

-----------------------------------------------------------------------------
(***************************************************************************)
(* tcp_timer, once a second from timer_sec_dsr.                            *)
(***************************************************************************)

FastStates == {"SYN_RECEIVED", "FIN_WAIT_1", "FIN_WAIT_2", "CLOSE_WAIT", "TIME_WAIT"}

\* Seeded bug: the comparison is made before the increment
Expired_Late(p) ==
    /\ p.timer_rest >= 0
    /\ \/ p.timer_rest > RestTimeout
       \/ p.timer_rest > RestTimeoutFast /\ p.state \in FastStates

Expired(p) ==
    /\ p.timer_rest >= 0
    /\ \/ p.timer_rest + 1 > RestTimeout
       \/ p.timer_rest + 1 > RestTimeoutFast /\ p.state \in FastStates

\* Seeded bug: an open connection does not age
Ticked_OpenForever(p) ==
    IF p.timer_rest >= 0 /\ p.state # "ESTABLISHED"
    THEN [p EXCEPT !.timer_rest = @ + 1] ELSE p

Ticked(p) == IF p.timer_rest >= 0 THEN [p EXCEPT !.timer_rest = @ + 1] ELSE p

\* Seeded bug: tcp_delPCB sets the state itself, so no callback is made
Timer_NoCallback ==
    /\ at = "poll"
    /\ pcb' = [i \in PcbId |-> IF Expired(pcb[i]) THEN FreePcb(i, pcb[i].state)
                                                  ELSE Ticked(pcb[i])]
    /\ UNCHANGED <<valid, close_req, at>>

Timer ==
    /\ at = "poll"
    /\ pcb' = [i \in PcbId |-> IF Expired(pcb[i]) THEN FreePcb(i, pcb[i].state)
                                                  ELSE Ticked(pcb[i])]
    /\ valid' = [i \in PcbId |->
                    valid[i] /\ ~(Expired(pcb[i]) /\ pcb[i].state = "ESTABLISHED")]
    /\ UNCHANGED <<close_req, at>>

Next ==
    \/ \E r \in Remote, seg \in Segment : Rx(r, seg)
    \/ EventHandler
    \/ Timer

Spec == Init /\ [][Next]_vars

\* The main loop never stops: a frame is always followed by the event
\* handler, and nic_rx_dsr takes at most CONFIG_MAX_RX_PER_INTR frames per
\* pass, so the second is served however many frames keep coming (strong
\* fairness: Timer is not enabled while a frame is being handled).  Remote
\* ends owe nothing.
FairSpec == Spec /\ WF_vars(EventHandler) /\ SF_vars(Timer)

-----------------------------------------------------------------------------
(***************************************************************************)
(* Properties.                                                             *)
(***************************************************************************)

Children == PcbId \ {Listener}
Closing == {"FIN_WAIT_1", "FIN_WAIT_2", "LAST_ACK"}

\* No remote end ever owns two PCBs, so tcp_findPCB, which takes the first
\* four-tuple that matches without looking at its state, cannot answer with
\* the wrong connection.
OneConnectionPerRemote ==
    \A i, j \in PcbId : pcb[i].tuple \in Remote /\ pcb[i].tuple = pcb[j].tuple => i = j

\* A socket is open for the application exactly while its PCB is
\* ESTABLISHED: lwps_api.c frees the slot long before tcp.c frees the PCB,
\* and only the order of the two callbacks keeps the tables in step.
SocketTracksConnection ==
    \A i \in Children : valid[i] <=> pcb[i].state = "ESTABLISHED"

\* The listening PCB survives whatever the other PCBs go through: it is
\* never timed out, closed, or handed to a new connection.
ListenerSurvives ==
    /\ pcb[Listener].tuple = AnyRemote
    /\ pcb[Listener].state = "LISTEN"
    /\ pcb[Listener].timer_rest = -1
    /\ valid[Listener]

\* A PCB that tcp_findPCB takes for free (no four-tuple) has no connection,
\* and one that has a connection has a running rest timer, without which
\* tcp_timer would never take it back.
FreeMeansIdle ==
    \A i \in Children :
        \/ pcb[i].tuple = Empty /\ pcb[i].state = "NONE" /\ pcb[i].timer_rest = -1
        \/ /\ pcb[i].tuple \in Remote
           /\ pcb[i].state \in {"SYN_RECEIVED", "ESTABLISHED"} \cup Closing
           /\ pcb[i].timer_rest >= 0

\* The PCB table and the socket table, written by two components at
\* different times, describe the same connections between any two steps.
TablesInStep ==
    /\ OneConnectionPerRemote
    /\ SocketTracksConnection
    /\ ListenerSurvives
    /\ FreeMeansIdle

\* tcp_close checks no state, so the close lwps_close left pending must
\* still name the connection it was asked for when lwps_event_handler does
\* it: the frame just handled came from that very connection.
CloseStillNamesItsConnection ==
    close_req # NoClose =>
        /\ pcb[close_req].state = "ESTABLISHED"
        /\ pcb[close_req].tuple = at

\* Between two remote ends a PCB is always given back to the free pool, and
\* a connection is open only after a handshake: no step moves a PCB to
\* another remote end or opens one that was not half-open.
PcbNeverChangesHands ==
    [][\A i \in Children :
        /\ pcb[i].tuple \in Remote /\ pcb'[i].tuple \in Remote
               => pcb'[i].tuple = pcb[i].tuple
        /\ pcb'[i].state = "ESTABLISHED"
               => pcb[i].state \in {"SYN_RECEIVED", "ESTABLISHED"}]_vars

\* Only a frame of its own remote end sets the rest timer of a connection back;
\* each second that comes without one brings the connection nearer to its end,
\* whatever state it is in and whatever the others send.
SilenceIsCounted ==
    [][\A i \in Children : pcb[i].tuple \in Remote /\ (at' = at \/ at' # pcb[i].tuple) =>
        \/ pcb'[i].tuple = Empty
        \/ /\ pcb'[i].tuple = pcb[i].tuple
           /\ pcb'[i].timer_rest = pcb[i].timer_rest + (IF at' = at THEN 1 ELSE 0)]_vars

\* A remote end that falls silent cannot hold a PCB: whatever state the
\* silence catches the connection in, tcp_timer takes the PCB back.
SilenceFreesPcb ==
    \A r \in Remote : []<>(at = r) \/ <>[](~Matched(r))

-----------------------------------------------------------------------------
(***************************************************************************)
(* The implementation of ConnTable.                                        *)
(***************************************************************************)

\* r owns a PCB in one of these states
Holds(r, states) == \E i \in PcbId : pcb[i].tuple = r /\ pcb[i].state \in states

connOfRemote ==
    [r \in Remote |->
        IF Holds(r, {"SYN_RECEIVED"}) THEN "half"
        ELSE IF Holds(r, {"ESTABLISHED"}) THEN "open"
        ELSE IF Holds(r, Closing) THEN "closing"
        ELSE "none"]

Conn == INSTANCE ConnTable WITH conn <- connOfRemote

\* Through the PCB table every remote end sees the life of one connection,
\* stage by stage, however segments, ticks and deferred closes interleave.
ImplementsConnTable == Conn!ConnSpec

=============================================================================
