-------------------------------- MODULE Net --------------------------------
(***************************************************************************)
(* The network stack: connections (Tcp) and datagrams (Udp) over one       *)
(* net_poll.  The two halves share the frames and the ARP cache but no     *)
(* socket, so that a behaviour in which the programs use both is an        *)
(* interleaving of one of each; a behaviour here uses one of them, which   *)
(* is what role and uses say.                                              *)
(***************************************************************************)
EXTENDS Tcp, Udp

Datagrams == uses # {}

NetInit == Init /\ UdpInit /\ (uses = {} <=> role # {})

NetNext ==
    \/ ~Datagrams /\ Next /\ UNCHANGED uvars
    \/ Datagrams /\ UdpNext /\ UNCHANGED vars

NetSpec == NetInit /\ [][NetNext]_<<vars, uvars>> /\ TimersRun
-----------------------------------------------------------------------------
\* Both directions of a connection are prefixes of what was sent, over a wire
\* that loses, repeats, reorders and re-cuts segments.
StreamsInOrder == RxPrefix /\ PeerPrefix

\* Sockets: a slot, its timer, a backlog and a call in progress agree on who
\* holds what, on every way out of a connection or a call.
SocketsHeld == TypeOK /\ TimerSound /\ BacklogSound /\ NoSocketLeft

\* Datagrams: they reach the socket bound to their port, and an answer is the
\* one to the question asked last, from the address learned last.
DatagramsSound == UdpRouting /\ AnswersFit /\ ArpSound
=============================================================================
