------------------------------ MODULE ConnTable ------------------------------
(***************************************************************************)
(* What the TCP server promises of each remote end, without PCBs, sockets, *)
(* timers or flags: a connection is half-open, then open, then closing,    *)
(* then gone, in that order, and any number of connections may be given up *)
(* for silence at once.  TcpSocket implements it.                          *)
(***************************************************************************)
CONSTANT Remote

VARIABLE conn       \* the life of the connection with each remote end

Life == {"none", "half", "open", "closing"}

ConnInit == conn = [r \in Remote |-> "none"]

\* The connection with r goes from one stage of its life to the next
Advance(r, from, to) ==
    /\ conn[r] = from
    /\ conn' = [conn EXCEPT ![r] = to]

\* Silence: the connections of the remote ends in S are dropped
GiveUp(S) == conn' = [r \in Remote |-> IF r \in S THEN "none" ELSE conn[r]]

ConnNext ==
    \/ \E r \in Remote :
        \/ Advance(r, "none", "half")
        \/ Advance(r, "half", "open")
        \/ Advance(r, "open", "closing")
        \/ Advance(r, "closing", "none")
    \/ \E S \in SUBSET Remote : GiveUp(S)

ConnSpec == ConnInit /\ [][ConnNext]_conn

=============================================================================
