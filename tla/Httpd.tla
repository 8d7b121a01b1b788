------------------------------- MODULE Httpd -------------------------------
(***************************************************************************)
(* The web server of app/web/httpd.c on top of the TCP sockets: one client *)
(* record per session, found through the cookie of the session's socket,   *)
(* and one request buffer that the sessions share.                         *)
(*                                                                         *)
(* Each step is a step of TcpSocket together with the callbacks httpd      *)
(* makes of it; what TcpSocket leaves to the application (when to call     *)
(* lwps_close) is settled here.  Abstracted: of a request only what        *)
(* http_packet_check says of the bytes seen so far, and of the buffer its  *)
(* owner; Upgrade has the pieces of an upload.                             *)
(***************************************************************************)
EXTENDS TcpSocket

CONSTANT ClientMax      \* HTTPD_CLIENT_MAX, client records

ASSUME ClientAssumption == ClientMax \in Nat \ {0}

ClientId == 0 .. ClientMax - 1
NoSocket == -1
NoCookie == -1      \* NULL: what a socket that never had a session holds

VARIABLES
    client,             \* httpd_client_entry[].socket_id
    cookie,             \* lwps_socket_entry[].cookie, as an index of client
    http_request_sid,   \* owner of http_request_buf
    rejected            \* history: some session was rejected

httpdVars == <<pcb, valid, close_req, at, client, cookie, http_request_sid, rejected>>

HttpdTypeOK ==
    /\ client \in [ClientId -> PcbId \cup {NoSocket}]
    /\ cookie \in [PcbId -> ClientId \cup {NoCookie}]
    /\ http_request_sid \in PcbId \cup {NoSocket}
    /\ rejected \in BOOLEAN

HttpdInit ==
    /\ Init
    /\ client = [c \in ClientId |-> NoSocket]
    /\ cookie = [i \in PcbId |-> NoCookie]
    /\ http_request_sid = NoSocket
    /\ rejected = FALSE

-----------------------------------------------------------------------------

FirstFree(c) ==
    /\ client[c] = NoSocket
    /\ \A d \in ClientId : d < c => client[d] # NoSocket

AllBusy == \A c \in ClientId : client[c] # NoSocket

\* Seeded bug: the session is given the record but not the cookie
HttpdConnect_NoCookieSet(i) ==
    /\ \/ \E c \in ClientId :
            /\ FirstFree(c)
            /\ client' = [client EXCEPT ![c] = i]
            /\ UNCHANGED <<cookie, close_req, rejected>>
       \/ AllBusy /\ close_req' = i /\ rejected' = TRUE /\ UNCHANGED <<client, cookie>>
    /\ UNCHANGED http_request_sid

\* lwps_httpd_connect: bind the first free record to the session, or reject
\* the session.  A rejected session keeps the cookie of the last session on
\* its socket.
HttpdConnect(i) ==
    /\ \/ \E c \in ClientId :
            /\ FirstFree(c)
            /\ client' = [client EXCEPT ![c] = i]
            /\ cookie' = [cookie EXCEPT ![i] = c]
            /\ UNCHANGED <<close_req, rejected>>
       \/ AllBusy /\ close_req' = i /\ rejected' = TRUE /\ UNCHANGED <<client, cookie>>
    /\ UNCHANGED http_request_sid

\* Seeded bug: the request buffer stays with the socket that is closed
HttpdDisconnect_KeepsBuffer(S) ==
    /\ client' = [c \in ClientId |->
                    IF \E i \in S : cookie[i] = c THEN NoSocket ELSE client[c]]
    /\ UNCHANGED <<cookie, http_request_sid, rejected>>

\* lwps_httpd_disconnect for each socket in S; tcp_timer may close several
\* in one pass.  A NULL cookie names no record.
HttpdDisconnect(S) ==
    /\ http_request_sid' = IF http_request_sid \in S THEN NoSocket ELSE http_request_sid
    /\ client' = [c \in ClientId |->
                    IF \E i \in S : cookie[i] = c THEN NoSocket ELSE client[c]]
    /\ UNCHANGED <<cookie, rejected>>

\* A frame of a session that does not own the request buffer: a request that
\* is complete is answered, one in error is not, and both are closed; an
\* incomplete one takes the buffer, or is closed when the buffer is taken.
ReceiveFirst(i, check) ==
    /\ http_request_sid # i
    /\ IF check # "incomplete" \/ http_request_sid # NoSocket
       THEN close_req' = i /\ UNCHANGED http_request_sid
       ELSE /\ http_request_sid' = client[cookie[i]]
            /\ close_req' = close_req

\* A frame of the owner, appended to the buffer.  The buffer is released
\* with a complete request, unless parsing it fails.
ReceiveMore(i, check) ==
    /\ http_request_sid = i
    /\ CASE check = "complete" ->
                /\ close_req' = i
                /\ http_request_sid' \in {i, NoSocket}
         [] check = "error" ->
                /\ close_req' = i
                /\ UNCHANGED http_request_sid
         [] check = "incomplete" ->     \* an upload may reach its end here
                /\ close_req' \in {close_req, i}
                /\ UNCHANGED http_request_sid

HttpdReceive(i) ==
    /\ \E check \in {"complete", "error", "incomplete"} :
        ReceiveFirst(i, check) \/ ReceiveMore(i, check)
    /\ UNCHANGED <<client, cookie, rejected>>

-----------------------------------------------------------------------------

Opened(i) == ~valid[i] /\ valid'[i]
Closed == {i \in PcbId : valid[i] /\ ~valid'[i]}

\* tcp_handler_recv_func hands the segment to httpd
Delivered(i, r, seg) ==
    /\ Found(i, r)
    /\ pcb[i].state = "ESTABLISHED"
    /\ seg.expected /\ ~seg.fin
    /\ valid[i]

HttpdRx(r, seg) ==
    /\ Rx(r, seg)
    /\ \/ \E i \in PcbId : Opened(i) /\ HttpdConnect(i)
       \/ \E i \in PcbId : Delivered(i, r, seg) /\ HttpdReceive(i)
       \/ /\ ~\E i \in PcbId : Opened(i) \/ Delivered(i, r, seg)
          /\ HttpdDisconnect(Closed)

HttpdEventHandler == EventHandler /\ HttpdDisconnect(Closed)

HttpdTimer == Timer /\ HttpdDisconnect(Closed)

HttpdNext ==
    \/ \E r \in Remote, seg \in Segment : HttpdRx(r, seg)
    \/ HttpdEventHandler
    \/ HttpdTimer

HttpdSpec == HttpdInit /\ [][HttpdNext]_httpdVars

\* The main loop, as in TcpSocket
HttpdFairSpec == HttpdSpec /\ WF_httpdVars(HttpdEventHandler) /\ SF_httpdVars(HttpdTimer)

-----------------------------------------------------------------------------
(***************************************************************************)
(* Properties.                                                             *)
(***************************************************************************)

\* Until the first session is rejected for want of a record, each open
\* session has a record of its own: lwps_httpd_receive works through the
\* cookie and would otherwise use the state of another session's request.
SessionOwnsRecord ==
    ~rejected => \A i \in Children : valid[i] =>
        cookie[i] # NoCookie /\ client[cookie[i]] = i

\* A record in use belongs to an open session, also after sessions were
\* rejected: a leaked record would never be freed again, since only the
\* callback of its session frees it.
RecordsNotLeaked ==
    \A c \in ClientId : client[c] # NoSocket => client[c] \in Children /\ valid[client[c]]

\* The one request buffer belongs to an open session or to nobody, so no
\* session waits for a buffer whose owner is gone.
BufferHasOpenOwner ==
    http_request_sid # NoSocket =>
        http_request_sid \in Children /\ valid[http_request_sid]

\* Neither outlives the session that holds it, however many are rejected.
NothingLeaked == RecordsNotLeaked /\ BufferHasOpenOwner

\* A record is freed only by the end of the session it is bound to
\* (httpd.c rejects a session "-> close this session", not another one).
RecordFreedByItsSession ==
    [][\A c \in ClientId : client[c] # NoSocket /\ client'[c] = NoSocket
            => client[c] \in Closed]_httpdVars

=============================================================================
