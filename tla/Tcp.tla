-------------------------------- MODULE Tcp --------------------------------
(***************************************************************************)
(* The TCP half of the network stack (network/netstack.c): the socket pool *)
(* with the legacy socket 0, the eight timer slots that retransmit and age *)
(* the ARP cache, passive and active open, the accept backlog, the receive *)
(* queue of whole segments, and close.  net_poll takes one frame at a time;*)
(* it is called by the blocking calls, by recv on an empty queue and by    *)
(* the tiling manager's loop, so a frame or a timer may come between any   *)
(* two calls and at any moment of a blocking one.                          *)
(*                                                                         *)
(* The remote hosts and the wire are external.  Each member of Conns is    *)
(* one remote address and port: a client that connects to ListenPort or a  *)
(* server the programs connect to.  The wire delivers any segment ever     *)
(* sent at any time, again or never: loss, reordering, duplication, delay. *)
(* A payload of a peer is the range of stream offsets it carries; a        *)
(* payload of ours is the number of the send call.  A segment that could   *)
(* not be sent is on the wire too from then on: it is armed before the     *)
(* error is returned, so the timer may send it at once, and a card whose   *)
(* transmission timed out may still send it by itself.                     *)
(* Programs use only the socket ids they were given.                       *)
(***************************************************************************)
EXTENDS Integers, Sequences, FiniteSets

CONSTANTS
    Clients,     \* remote endpoints that connect to us
    Servers,     \* remote endpoints we connect to
    NSockets,    \* NET_TCP_MAX_SOCKETS
    NTimers,     \* slots of g_net.timers
    RxSlots,     \* slots of a socket's rxq
    Backlog,     \* NET_TCP_ACCEPT_BACKLOG
    Attempts,    \* TCP_RETX_MAX_ATTEMPTS
    SeqMod,      \* number of sequence numbers
    OurIsn,      \* net_get_ticks() when the first connection starts
    Stride,      \* ticks between two openings, more than a connection sends
    PeerIsn,     \* initial sequence number of the peers
    PeerBytes,   \* bound: length of a peer's stream
    SendLens,    \* payload lengths of a send
    MaxSends,    \* bound: sends of the programs
    MaxOpens,    \* bound: connections opened, by a SYN or by connect
    Roles,       \* what the programs of a behaviour may do: "serve", "connect",
                 \* with pool sockets or on the "legacy" socket 0; bound: "tell"
                 \* and "hear" make it one about sending or about receiving
    TxFails,     \* whether tcp_send_segment may return an error
    Resets       \* whether peers may reset connections

ASSUME TcpAssumption ==
    /\ NSockets \in Nat \ {0} /\ NTimers \in Nat \ {0}
    /\ RxSlots \in Nat \ {0} /\ Backlog \in Nat \ {0} /\ Attempts \in Nat
    /\ SeqMod \in Nat \ {0} /\ OurIsn \in 0 .. SeqMod - 1 /\ PeerIsn \in 0 .. SeqMod - 1
    /\ Stride \in Nat /\ PeerBytes \in Nat /\ SendLens \subseteq Nat \ {0} /\ MaxSends \in Nat /\ MaxOpens \in Nat
    /\ Clients \cap Servers = {}
    /\ Roles \subseteq SUBSET {"serve", "legacy", "connect", "tell", "hear"}
    /\ TxFails \in BOOLEAN /\ Resets \in BOOLEAN

Conns == Clients \cup Servers
Ids == 0 .. NSockets - 1
PoolIds == Ids \ {0}
Slots == 0 .. NTimers - 1
None == "none"
Inactive == -1
ArpAge == -2

VARIABLES
    sock,     \* g_net.tcp_sockets
    timers,   \* g_net.timers: Inactive, ArpAge or the id its callback is given
    role,     \* what the programs do
    call,     \* the blocking call in progress
    owned,    \* pool ids the programs hold
    peer,     \* remote hosts
    out,      \* segments we sent that a peer may still act on
    sent,     \* numbers of the sends that returned a length, per connection
    got,      \* stream offsets recv returned, per connection
    failed,   \* history: connections on which a send returned an error after
              \* it armed its segment
    sends,    \* sends so far
    opens     \* connections opened so far

vars == <<sock, timers, role, call, owned, peer, out, sent, got, failed, sends, opens>>

\* Bounds by role.  A behaviour about sending has MaxSends sends, which may fail,
\* and silent peers; one about receiving has PeerBytes bytes of a peer and no
\* send; one about neither has one send, two bytes and peers that reset; one
\* about both has everything.
Mixed == role \cap {"tell", "hear"} = {}
Full == {"tell", "hear"} \subseteq role
MaySend == sends < MaxSends /\ ("tell" \in role \/ (Mixed /\ sends < 1))
PeerMaySend(n) == n < PeerBytes /\ ("hear" \in role \/ (Mixed /\ n < 2))
MayReset == Resets /\ (Mixed \/ Full)
Oks == {TRUE, ~(TxFails /\ "tell" \in role)}

Plus(n, d) == (n + d) % SeqMod

\* The initial sequence number of a connection: the tick count.
Ticks == Plus(OurIsn, Stride * opens)

Segment(flags, seq, ack, len, data) ==
    [flags |-> flags, seq |-> seq, ack |-> ack, len |-> len, data |-> data]

NoSegment == Segment({}, 0, 0, 0, 0)

\* A slot after memset: its timer id is 0, not -1.
Cleared ==
    [state |-> "CLOSED", inUse |-> FALSE, listening |-> FALSE, bound |-> FALSE,
     conn |-> None, seq |-> 0, ack |-> 0, armed |-> FALSE, count |-> 0, timer |-> 0,
     last |-> NoSegment, rxq |-> <<>>, backlog |-> <<>>]

Idle == [op |-> None, id |-> 0]

-----------------------------------------------------------------------------
(* Timers and retransmission.  An operator that changes a socket and the   *)
(* timers takes and returns the pair k = [sock, timers].                   *)

Both == [sock |-> sock, timers |-> timers]

Update(k, i, s) == [k EXCEPT !.sock[i] = s]

FreeSlots(k) == {t \in Slots : k.timers[t] = Inactive}

FirstOf(S) == CHOOSE x \in S : \A y \in S : x <= y

\* net_timer_start: -2 when no slot is free.
TimerStart(k) == IF FreeSlots(k) = {} THEN -2 ELSE FirstOf(FreeSlots(k))

SetTimer(k, t, n) == [k EXCEPT !.timers[t] = n]

TimerCancel(k, t) == IF t \in Slots THEN SetTimer(k, t, Inactive) ELSE k

RetxCancel(k, i) ==
    Update(TimerCancel(k, k.sock[i].timer), i,
           [k.sock[i] EXCEPT !.timer = -1, !.armed = FALSE, !.count = 0, !.last = NoSegment])

EndOf(m) ==
    Plus(m.seq, m.len + (IF m.flags \cap {"SYN", "FIN"} # {} THEN 1 ELSE 0))

RetxArm(k, i, m) ==
    LET c == RetxCancel(k, i)
        t == TimerStart(c)
        s == [c.sock[i] EXCEPT !.last = m, !.armed = TRUE, !.timer = t]
    IN  Update(IF t \in Slots THEN SetTimer(c, t, i) ELSE c, i, s)

RetxAckOfStart(k, i, ack) ==
    IF k.sock[i].armed /\ ack >= k.sock[i].last.seq THEN RetxCancel(k, i) ELSE k

\* A plain comparison: it does not allow for sequence numbers that wrapped.
RetxAckReceived(k, i, ack) ==
    IF k.sock[i].armed /\ ack >= EndOf(k.sock[i].last) THEN RetxCancel(k, i) ELSE k

MetaClear(k, i) == Update(k, i, Cleared)

Installed(k) == sock' = k.sock /\ timers' = k.timers

\* The peers repeat what they send whatever we acknowledge, so only the
\* acknowledgement that ends a handshake is kept of the bare ones.
Heeded(c, m) == m.flags # {"ACK"} \/ peer[c].state = "synrcvd"

Emit(c, segs) == out' = [out EXCEPT ![c] = @ \cup {m \in segs : Heeded(c, m)}]

OnTimerForever(k, i) ==
    Update(k, i, [k.sock[i] EXCEPT !.count = (@ + 1) % (Attempts + 1)])

OnTimer(k, i) ==
    LET s == k.sock[i]
        c == RetxCancel(k, i)
    IN  IF ~s.armed THEN k
        ELSE IF s.state = "CLOSED" THEN c
        ELSE IF s.count >= Attempts THEN Update(c, i, [c.sock[i] EXCEPT !.state = "CLOSED"])
        ELSE Update(k, i, [s EXCEPT !.count = @ + 1])

\* The segment goes out with the numbers it was armed with.
Repeated(s) == s.last

\* Slot t expires in net_timer_run: tcp_retx_timer_cb.
RetxTimer(t) ==
    LET i == timers[t]
        s == sock[i]
        again == s.armed /\ s.state # "CLOSED" /\ s.count < Attempts /\ s.conn # None
    IN  /\ i \in Ids
        /\ Installed(OnTimer(Both, i))
        /\ IF again THEN Emit(s.conn, {Repeated(s)}) ELSE UNCHANGED out
        /\ UNCHANGED <<role, call, owned, peer, sent, got, failed, sends, opens>>

-----------------------------------------------------------------------------
(* net_poll: one frame.                                                    *)

\* The first socket in index order with an open connection to c.
Matching(c) ==
    {i \in Ids : (i = 0 \/ sock[i].inUse) /\ sock[i].state # "CLOSED" /\ sock[i].conn = c}

Free == {i \in PoolIds : ~sock[i].inUse}

Listeners == {i \in PoolIds : sock[i].inUse /\ sock[i].listening}

LegacyListens == sock[0].listening /\ sock[0].state = "CLOSED"

\* The socket a new SYN is given: the listening legacy socket, or a free pool
\* socket put on the backlog of the first listener.
Passive(k, i, c, m) ==
    LET s == [k.sock[i] EXCEPT !.conn = c, !.seq = Ticks, !.ack = Plus(m.seq, 1),
                               !.state = "SYN_RECEIVED"]
        reply == Segment({"SYN", "ACK"}, s.seq, s.ack, 0, 0)
    IN  /\ Installed(RetxArm(Update(k, i, s), i, reply))
        /\ Emit(c, {reply})
        /\ opens' = opens + 1

\* Nothing to do: no listener, no free socket or a full backlog.  The peer will
\* repeat its SYN.
MayQueue ==
    Listeners # {} /\ Free # {} /\ Len(sock[FirstOf(Listeners)].backlog) < Backlog

PassiveOpen(c, m) ==
    \/ /\ LegacyListens
       /\ Passive(Both, 0, c, m)
    \/ /\ ~LegacyListens /\ MayQueue
       /\ LET l == FirstOf(Listeners)
              i == FirstOf(Free)
              k == Update(Both, i, [Cleared EXCEPT !.inUse = TRUE, !.timer = -1])
              q == [k.sock[l] EXCEPT !.backlog = Append(@, i)]
          IN  Passive(Update(k, l, q), i, c, m)

ReceiveSyn(c, m) ==
    /\ Matching(c) = {} /\ "SYN" \in m.flags /\ opens < MaxOpens
    /\ PassiveOpen(c, m)
    /\ UNCHANGED <<role, call, owned, peer, sent, got, failed, sends>>

Receiving(c, i) == Matching(c) # {} /\ i = FirstOf(Matching(c))

Closed(k, i) ==
    LET c == RetxCancel(k, i) IN Update(c, i, [c.sock[i] EXCEPT !.state = "CLOSED"])

ReceiveReset(c, m, i) ==
    /\ Receiving(c, i) /\ "RST" \in m.flags
    /\ Installed(Closed(Both, i))
    /\ UNCHANGED <<role, call, owned, peer, out, sent, got, failed, sends, opens>>

AckNow(s) == Segment({"ACK"}, s.seq, s.ack, 0, 0)

ReceiveSynAck(c, m, i) ==
    /\ Receiving(c, i) /\ "RST" \notin m.flags
    /\ sock[i].state = "SYN_SENT"
    /\ {"SYN", "ACK"} \subseteq m.flags /\ m.ack = Plus(sock[i].seq, 1)
    /\ LET k == RetxCancel(Both, i)
           s == [k.sock[i] EXCEPT !.seq = Plus(@, 1), !.ack = Plus(m.seq, 1),
                                  !.state = "ESTABLISHED"]
       IN  Installed(Update(k, i, s)) /\ Emit(c, {AckNow(s)})
    /\ UNCHANGED <<role, call, owned, peer, sent, got, failed, sends, opens>>

\* The payload of the segment that completes the handshake is not looked at.
ReceiveHandshakeAck(c, m, i) ==
    /\ Receiving(c, i) /\ "RST" \notin m.flags
    /\ sock[i].state = "SYN_RECEIVED"
    /\ "ACK" \in m.flags /\ m.ack = Plus(sock[i].seq, 1)
    /\ LET k == RetxCancel(Both, i)
       IN  Installed(Update(k, i, [k.sock[i] EXCEPT !.seq = Plus(@, 1),
                                                    !.state = "ESTABLISHED"]))
    /\ UNCHANGED <<role, call, owned, peer, out, sent, got, failed, sends, opens>>

\* tcp_socket_rxq_enqueue; the queue is a ring of RxSlots whole payloads.
RxqEnqueue(s, c, m) ==
    IF Len(s.rxq) >= RxSlots THEN s
    ELSE [s EXCEPT !.rxq = Append(@, [conn |-> c, data |-> m.data, len |-> m.len]),
                   !.ack = Plus(@, m.len)]

WithAnyPayload(s, c, m) == IF m.len > 0 THEN RxqEnqueue(s, c, m) ELSE s

\* The ACK advances only over a payload that is in order and was queued.
WithPayload(s, c, m) == IF m.len > 0 /\ m.seq = s.ack THEN RxqEnqueue(s, c, m) ELSE s

FinInOrder(s, m) == "FIN" \in m.flags /\ Plus(m.seq, m.len) = s.ack

\* ESTABLISHED and FIN_WAIT: acknowledgement, payload, then FIN.
ReceiveData(c, m, i) ==
    LET k == IF "ACK" \in m.flags THEN RetxAckReceived(Both, i, m.ack) ELSE Both
        s == WithPayload(k.sock[i], c, m)
        f == IF FinInOrder(s, m) THEN [s EXCEPT !.ack = Plus(@, 1)] ELSE s
        ends == \/ FinInOrder(s, m)
                \/ s.state = "FIN_WAIT" /\ "ACK" \in m.flags /\ "FIN" \notin m.flags
    IN  /\ Receiving(c, i) /\ "RST" \notin m.flags
        /\ sock[i].state \in {"ESTABLISHED", "FIN_WAIT"}
        /\ Installed(IF ends THEN Closed(Update(k, i, f), i) ELSE Update(k, i, f))
        /\ Emit(c, (IF m.len > 0 THEN {AckNow(s)} ELSE {}) \cup
                   (IF "FIN" \in m.flags THEN {AckNow(f)} ELSE {}))
        /\ UNCHANGED <<role, call, owned, peer, sent, got, failed, sends, opens>>

-----------------------------------------------------------------------------
(* The calls of the programs.                                              *)

MayCall == call = Idle

SocketOpen ==
    /\ MayCall /\ "legacy" \notin role /\ Free # {}
    /\ LET i == FirstOf(Free)
       IN  /\ sock' = [sock EXCEPT ![i] = [Cleared EXCEPT !.inUse = TRUE, !.timer = -1]]
           /\ owned' = owned \cup {i}
    /\ UNCHANGED <<timers, role, call, peer, out, sent, got, failed, opens, sends>>

\* bind: the port is refused when another socket already listens on it.
SocketBind(i) ==
    /\ MayCall /\ "serve" \in role /\ i \in owned /\ ~sock[i].bound
    /\ Listeners \ {i} = {} /\ ~sock[0].listening
    /\ sock' = [sock EXCEPT ![i].bound = TRUE]
    /\ UNCHANGED <<timers, role, call, owned, peer, out, sent, got, failed, opens, sends>>

\* A second listen empties the backlog: what was queued keeps its slot.
SocketListen(i) ==
    /\ MayCall /\ i \in owned /\ sock[i].bound
    /\ Installed(RetxCancel(Update(Both, i, [sock[i] EXCEPT
           !.listening = TRUE, !.state = "CLOSED", !.backlog = <<>>, !.rxq = <<>>]), i))
    /\ UNCHANGED <<role, call, owned, peer, out, sent, got, failed, opens, sends>>

\* net_tcp_listen: the legacy socket accepts in place.
LegacyListen ==
    /\ MayCall /\ {"serve", "legacy"} \subseteq role
    /\ Installed(RetxCancel(Update(Both, 0, [sock[0] EXCEPT
           !.listening = TRUE, !.bound = TRUE, !.state = "CLOSED", !.rxq = <<>>]), 0))
    /\ UNCHANGED <<role, call, owned, peer, out, sent, got, failed, opens, sends>>

AcceptStart(l) ==
    /\ MayCall /\ l \in owned /\ sock[l].listening
    /\ call' = [op |-> "accept", id |-> l]
    /\ UNCHANGED <<sock, timers, role, owned, peer, out, sent, got, failed, opens, sends>>

Positions(l, st) == {n \in DOMAIN sock[l].backlog : sock[sock[l].backlog[n]].state \in st}

WithoutNone(q, n) == q

Without(q, n) == SubSeq(q, 1, n - 1) \o SubSeq(q, n + 1, Len(q))

Accepting(l, n) ==
    /\ call.op = "accept" /\ l = call.id
    /\ Positions(l, {"ESTABLISHED", "CLOSED"}) # {}
    /\ n = FirstOf(Positions(l, {"ESTABLISHED", "CLOSED"}))

\* The first queued connection that is established is returned.
AcceptReturns(l, n) ==
    /\ Accepting(l, n)
    /\ sock[sock[l].backlog[n]].state = "ESTABLISHED"
    /\ owned' = owned \cup {sock[l].backlog[n]}
    /\ sock' = [sock EXCEPT ![l].backlog = Without(@, n)]
    /\ call' = Idle
    /\ UNCHANGED <<timers, role, peer, out, sent, got, failed, sends, opens>>

\* A queued connection that died is dropped and its slot cleared.
AcceptReclaims(l, n) ==
    /\ Accepting(l, n)
    /\ sock[sock[l].backlog[n]].state = "CLOSED"
    /\ Installed(LET q == [sock[l] EXCEPT !.backlog = Without(@, n)]
                 IN  MetaClear(Update(Both, l, q), sock[l].backlog[n]))
    /\ UNCHANGED <<role, call, owned, peer, out, sent, got, failed, sends, opens>>

\* connect_impl: memset drops the id of a timer that may still be running, and
\* the cancel that follows no longer finds it.
Connecting(i, c) ==
    Update(Both, i, [Cleared EXCEPT !.timer = -1, !.inUse = TRUE, !.conn = c,
                                    !.seq = Ticks, !.state = "SYN_SENT"])

Syn == Segment({"SYN"}, Ticks, 0, 0, 0)

\* A retry goes to the same server; a new connection to a server not used yet.
\* Whatever the socket was doing, listening or connected, it is cleared.
MayConnect(i, c) ==
    /\ "connect" \in role /\ (i = 0 <=> "legacy" \in role) /\ opens < MaxOpens
    /\ c = sock[i].conn \/ (peer[c].state = "listen" /\ \A j \in Ids : sock[j].conn # c)

ConnectStart(i, c, ok) ==
    /\ MayCall /\ i \in owned \cup {0} /\ MayConnect(i, c)
    /\ opens' = opens + 1
    /\ Installed(RetxArm(Connecting(i, c), i, Syn))
    /\ Emit(c, {Syn})
    /\ call' = IF ok THEN [op |-> "connect", id |-> i] ELSE Idle
    /\ UNCHANGED <<role, owned, peer, sent, got, failed, sends>>

ConnectReturns ==
    /\ call.op = "connect" /\ sock[call.id].state = "ESTABLISHED"
    /\ call' = Idle
    /\ UNCHANGED <<sock, timers, role, owned, peer, out, sent, got, failed, sends, opens>>

\* The spin limit of connect, accept or the one-shot send: the socket and its
\* timer stay as they are.
CallTimeout ==
    /\ call.op \in {"connect", "accept", "tcpsend"}
    /\ call.op # "accept" => sock[call.id].state # "ESTABLISHED"
    /\ call.op = "accept" => Positions(call.id, {"ESTABLISHED", "CLOSED"}) = {}
    /\ call' = Idle
    /\ UNCHANGED <<sock, timers, role, owned, peer, out, sent, got, failed, sends, opens>>

\* The segment is armed for retransmission even when it could not be sent; the
\* call then returns an error and keeps the sequence number.
SendSegment(i, m, ok) ==
    /\ Installed(LET k == RetxArm(Both, i, m)
                 IN  IF ok THEN Update(k, i, [k.sock[i] EXCEPT !.seq = EndOf(m)]) ELSE k)
    /\ Emit(sock[i].conn, {m})
    /\ sent' = IF ok /\ m.len > 0 THEN [sent EXCEPT ![sock[i].conn] = Append(@, m.data)]
                                  ELSE sent
    /\ failed' = IF ok THEN failed ELSE failed \cup {sock[i].conn}

SocketSend(i, n, ok) ==
    /\ MayCall /\ i \in owned \cup {0} /\ sock[i].state = "ESTABLISHED"
    /\ MaySend /\ sends' = sends + 1
    /\ SendSegment(i, Segment({"PSH", "ACK"}, sock[i].seq, sock[i].ack, n, sends), ok)
    /\ UNCHANGED <<role, call, owned, peer, got, opens>>

\* recv returns the oldest packet, whole.
SocketRecv(i) ==
    /\ call = Idle /\ i \in owned \cup {0} /\ sock[i].rxq # <<>>
    /\ LET p == Head(sock[i].rxq)
       IN  /\ got' = [got EXCEPT ![p.conn] = @ \o [j \in 1 .. p.len |-> p.data + j - 1]]
           /\ sock' = [sock EXCEPT ![i].rxq = Tail(@)]
    /\ UNCHANGED <<timers, role, call, owned, peer, out, sent, failed, sends, opens>>

\* A FIN when the connection is established, whether or not it could be sent;
\* the slot keeps its in_use.
CloseSendsFin(i) ==
    /\ MayCall /\ i \in owned \cup {0} /\ sock[i].state = "ESTABLISHED"
    /\ LET m == Segment({"FIN", "ACK"}, sock[i].seq, sock[i].ack, 0, 0)
           k == RetxArm(Both, i, m)
       IN  /\ Installed(Update(k, i, [k.sock[i] EXCEPT
                   !.seq = Plus(@, 1), !.state = "FIN_WAIT", !.listening = FALSE]))
           /\ Emit(sock[i].conn, {m})
    /\ owned' = owned \ {i}
    /\ UNCHANGED <<role, call, peer, sent, got, failed, opens, sends>>

\* Retransmissions and slots of the queued connections of a listener.
ReclaimAll(k, q) ==
    LET cancelled == {k.sock[q[n]].timer : n \in DOMAIN q}
        ids == {q[n] : n \in DOMAIN q}
    IN  [sock |-> [i \in Ids |-> IF i \in ids THEN Cleared ELSE k.sock[i]],
         timers |-> [t \in Slots |-> IF t \in cancelled THEN Inactive ELSE k.timers[t]]]

CloseFrees(i) ==
    /\ MayCall /\ i \in owned /\ sock[i].state # "ESTABLISHED"
    /\ Installed(MetaClear(ReclaimAll(RetxCancel(Both, i), sock[i].backlog), i))
    /\ owned' = owned \ {i}
    /\ UNCHANGED <<role, call, peer, out, sent, got, failed, opens, sends>>

LegacyClose ==
    /\ MayCall /\ sock[0].state # "ESTABLISHED" /\ sock[0].conn # None
    /\ Installed(LET k == RetxCancel(Both, 0)
                 IN  Update(k, 0, [k.sock[0] EXCEPT !.listening = FALSE, !.state = "CLOSED"]))
    /\ UNCHANGED <<role, call, owned, peer, out, sent, got, failed, opens, sends>>

\* net_tcp_send: connect, one payload and a FIN on the legacy socket.
OneShotStart(c, ok) ==
    /\ MayCall /\ MayConnect(0, c)
    /\ MaySend /\ sends' = sends + 1 /\ opens' = opens + 1
    /\ Installed(RetxArm(Update(Both, 0, [Connecting(0, c).sock[0] EXCEPT !.inUse = FALSE]), 0, Syn))
    /\ Emit(c, {Syn})
    /\ call' = IF ok THEN [op |-> "tcpsend", id |-> 0] ELSE Idle
    /\ UNCHANGED <<role, owned, peer, sent, got, failed>>

\* The connection came up: payload and FIN leave one after the other, and the
\* FIN takes over the retransmission slot of the payload.
OneShotSend(dataOk, finOk) ==
    LET d == Segment({"PSH", "ACK"}, sock[0].seq, sock[0].ack, 1, sends)
        k == RetxArm(Both, 0, d)
        f == Segment({"FIN", "ACK"}, EndOf(d), sock[0].ack, 0, 0)
        j == RetxArm(Update(k, 0, [k.sock[0] EXCEPT !.seq = EndOf(d)]), 0, f)
    IN  /\ call.op = "tcpsend" /\ sock[0].state = "ESTABLISHED"
        /\ Installed(IF ~dataOk THEN k
                     ELSE IF ~finOk THEN j
                     ELSE Update(j, 0, [j.sock[0] EXCEPT !.seq = EndOf(f), !.state = "FIN_WAIT"]))
        /\ Emit(sock[0].conn, {d} \cup (IF dataOk THEN {f} ELSE {}))
        /\ sent' = IF dataOk THEN [sent EXCEPT ![sock[0].conn] = Append(@, d.data)] ELSE sent
        /\ failed' = IF dataOk /\ finOk THEN failed ELSE failed \cup {sock[0].conn}
        /\ call' = Idle
        /\ UNCHANGED <<role, owned, peer, got, sends, opens>>

-----------------------------------------------------------------------------
(* The remote hosts: textbook TCP endpoints that repeat whatever they have *)
(* sent, cut into segments anew, until it is acknowledged.                 *)

NewPeer(c) ==
    [state |-> IF c \in Servers THEN "listen" ELSE IF "serve" \in role THEN "start" ELSE "off",
     snd |-> 0, fin |-> FALSE, acks |-> {}, rcv |-> 0, in |-> <<>>]

PeerData(k, n, fin, ack) ==
    Segment({"ACK"} \cup (IF fin THEN {"FIN"} ELSE {}), Plus(PeerIsn, 1 + k), ack, n, k)

\* Every segment peer c may have sent by now.
Wire(c) ==
    LET p == peer[c] IN
    (IF c \in Clients /\ p.state \notin {"start", "off"} THEN {Segment({"SYN"}, PeerIsn, 0, 0, 0)} ELSE {})
    \cup (IF c \in Servers
          THEN {Segment({"SYN", "ACK"}, PeerIsn, a, 0, 0) : a \in p.acks} ELSE {})
    \cup (IF p.state = "synrcvd" THEN {}
          ELSE {PeerData(x[1], x[2], FALSE, x[3]) :
                  x \in {y \in (0 .. p.snd) \X (0 .. p.snd) \X p.acks : y[1] + y[2] <= p.snd}})
    \cup (IF p.fin THEN {PeerData(k, p.snd - k, TRUE, a) : k \in 0 .. p.snd, a \in p.acks}
                   ELSE {})
    \cup (IF p.state = "reset" THEN {Segment({"RST"}, PeerIsn, 0, 0, 0)} ELSE {})

PeerBecomes(c, p) ==
    /\ peer' = [peer EXCEPT ![c] = p]
    /\ UNCHANGED <<sock, timers, role, call, owned, out, sent, got, failed, sends, opens>>

PeerConnects(c) ==
    /\ peer[c].state = "start"
    /\ PeerBecomes(c, [peer[c] EXCEPT !.state = "syn"])

Acknowledging(p, n) == [p EXCEPT !.rcv = n, !.acks = @ \cup {n}]

PeerHandshake(c, m) ==
    /\ "SYN" \in m.flags
    /\ \/ peer[c].state = "syn" /\ "ACK" \in m.flags
          /\ PeerBecomes(c, [Acknowledging(peer[c], Plus(m.seq, 1)) EXCEPT !.state = "est"])
       \/ peer[c].state = "listen" /\ "ACK" \notin m.flags
          /\ PeerBecomes(c, [Acknowledging(peer[c], Plus(m.seq, 1)) EXCEPT !.state = "synrcvd"])

PeerReceives(c, m) ==
    LET p == peer[c]
        a == Acknowledging(p, EndOf(m))
    IN  /\ "SYN" \notin m.flags
        /\ p.state \in {"synrcvd", "est"} /\ m.seq = p.rcv
        /\ PeerBecomes(c, [a EXCEPT !.state = "est",
                                    !.in = IF m.len > 0 THEN Append(@, m.data) ELSE @])

PeerSends(c) ==
    /\ peer[c].state = "est" /\ PeerMaySend(peer[c].snd) /\ ~peer[c].fin
    /\ PeerBecomes(c, [peer[c] EXCEPT !.snd = @ + 1])

PeerFinishes(c) ==
    /\ peer[c].state = "est" /\ ~peer[c].fin /\ ("tell" \notin role \/ Full)
    /\ PeerBecomes(c, [peer[c] EXCEPT !.fin = TRUE])

PeerResets(c) ==
    /\ MayReset /\ peer[c].state \in {"est", "syn", "synrcvd"}
    /\ PeerBecomes(c, [peer[c] EXCEPT !.state = "reset"])

-----------------------------------------------------------------------------
Init ==
    /\ sock = [i \in Ids |-> [Cleared EXCEPT !.timer = -1]]
    /\ timers = [t \in Slots |-> IF t = 0 THEN ArpAge ELSE Inactive]
    /\ role \in Roles /\ call = Idle /\ owned = {} /\ sends = 0 /\ opens = 0
    /\ peer = [c \in Conns |-> NewPeer(c)]
    /\ out = [c \in Conns |-> {}]
    /\ sent = [c \in Conns |-> <<>>] /\ got = [c \in Conns |-> <<>>] /\ failed = {}

Poll ==
    \/ \E c \in Conns : \E m \in Wire(c) :
         \/ ReceiveSyn(c, m)
         \/ \E i \in Ids : \/ ReceiveReset(c, m, i) \/ ReceiveSynAck(c, m, i)
                           \/ ReceiveHandshakeAck(c, m, i) \/ ReceiveData(c, m, i)
    \/ \E t \in Slots : RetxTimer(t)

Blocked ==
    \/ \E l \in PoolIds : \E n \in DOMAIN sock[l].backlog :
         AcceptReturns(l, n) \/ AcceptReclaims(l, n)
    \/ ConnectReturns \/ CallTimeout
    \/ \E d \in Oks, f \in Oks : OneShotSend(d, f)

Program ==
    \/ SocketOpen \/ LegacyListen \/ LegacyClose
    \/ \E i \in Ids : \/ SocketBind(i) \/ SocketListen(i) \/ AcceptStart(i)
                      \/ SocketRecv(i) \/ CloseFrees(i) \/ CloseSendsFin(i)
                      \/ \E ok \in Oks : \/ \E c \in Servers : ConnectStart(i, c, ok)
                                         \/ \E n \in SendLens : SocketSend(i, n, ok)
    \/ \E c \in Servers, ok \in Oks : OneShotStart(c, ok)

Peers ==
    \E c \in Conns :
      \/ PeerConnects(c) \/ PeerSends(c) \/ PeerFinishes(c) \/ PeerResets(c)
      \/ \E m \in out[c] : PeerHandshake(c, m) \/ PeerReceives(c, m)

Next == Poll \/ Blocked \/ Program \/ Peers

\* net_poll runs the timers again and again: the tiling manager's loop calls it
\* and so does every blocking call.  This is weak fairness of RetxTimer(t), which
\* changes the state exactly when the slot's socket is armed, without ENABLED.
Expirable(t) == timers[t] \in Ids /\ sock[timers[t]].armed

TimersRun == \A t \in Slots : []<>~Expirable(t) \/ []<><<RetxTimer(t)>>_vars

Spec == Init /\ [][Next]_vars /\ TimersRun

-----------------------------------------------------------------------------
States == {"CLOSED", "SYN_SENT", "SYN_RECEIVED", "ESTABLISHED", "FIN_WAIT"}

\* Sockets, timers and calls have their types.
TypeOK ==
    /\ \A i \in Ids :
         LET s == sock[i] IN
         /\ s.state \in States /\ s.conn \in Conns \cup {None}
         /\ s.inUse \in BOOLEAN /\ s.listening \in BOOLEAN /\ s.armed \in BOOLEAN
         /\ s.seq \in 0 .. SeqMod - 1 /\ s.ack \in 0 .. SeqMod - 1
         /\ s.timer \in Slots \cup {-1, -2} /\ s.count \in 0 .. Attempts
         /\ Len(s.rxq) <= RxSlots /\ Len(s.backlog) <= Backlog
    /\ \A t \in Slots : timers[t] \in Ids \cup {Inactive, ArpAge}
    /\ owned \subseteq PoolIds

Queued(i, c) == {n \in DOMAIN sock[i].rxq : sock[i].rxq[n].conn = c}

\* Where the queued bytes of connection c end in its stream.
QueueEnd(i, c) ==
    LET q == sock[i].rxq
        own == {n \in DOMAIN q : q[n].conn = c}
    IN  IF own = {} THEN Len(got[c])
        ELSE LET n == CHOOSE x \in own : \A y \in own : y <= x IN q[n].data + q[n].len

\* The reliability comment in net_poll: what recv has returned of a connection
\* and then what is still queued are the first bytes of the peer's stream, each
\* once and in order, and the ACK of an open connection covers exactly those,
\* however segments were lost, repeated, cut differently or met a full queue.
RxPrefix ==
    /\ \A c \in Conns : \A n \in DOMAIN got[c] : got[c][n] = n - 1
    /\ \A i \in Ids :
         LET q == sock[i].rxq IN
         /\ \A n \in DOMAIN q :
              q[n].data = IF n > 1 /\ q[n - 1].conn = q[n].conn
                          THEN q[n - 1].data + q[n - 1].len ELSE Len(got[q[n].conn])
         /\ sock[i].state \in {"ESTABLISHED", "FIN_WAIT"} =>
              sock[i].ack = Plus(PeerIsn, 1 + QueueEnd(i, sock[i].conn))

\* What c has taken is a prefix of what the sends to it that returned a length sent.
TakenInOrder(c) ==
    /\ Len(peer[c].in) <= Len(sent[c])
    /\ \A n \in DOMAIN peer[c].in : peer[c].in[n] = sent[c][n]

\* The bytes a peer has taken are those of the sends that returned a length, in
\* order: a repeated, delayed or replaced segment is never taken for another,
\* and a failed send on one connection does no harm to the others.
PeerPrefix == \A c \in Conns \ failed : TakenInOrder(c)

\* Something of the connection of socket i has not reached the peer.
Unreached(i) ==
    /\ sock[i].state \in {"ESTABLISHED", "FIN_WAIT"}
    /\ peer[sock[i].conn].rcv # sock[i].seq

\* As long as the peer of an open connection on which no send failed has not got
\* everything we sent, the last segment is armed: an acknowledgement that is old
\* never stops it.
UnackedArmed ==
    \A i \in Ids :
      /\ sock[i].state \in {"SYN_SENT", "SYN_RECEIVED"} => sock[i].armed
      /\ Unreached(i) /\ sock[i].conn \notin failed => sock[i].armed

\* The timer a socket in use remembers is active with that socket as its
\* argument, and no cancel has hit the ARP ageing timer that net_init started.
TimerSound ==
    /\ timers[0] = ArpAge
    /\ \A i \in Ids :
         (i = 0 \/ sock[i].inUse) =>
           /\ sock[i].timer \in Slots => timers[sock[i].timer] = i
           /\ sock[i].armed <=> sock[i].timer # -1

\* A backlog holds different pool sockets, all in use, that no program was given
\* and no other backlog holds.
BacklogSound ==
    \A l \in Ids, n \in 1 .. Backlog :
      n <= Len(sock[l].backlog) =>
        LET i == sock[l].backlog[n] IN
        /\ i # l /\ i \in PoolIds \ owned /\ sock[i].inUse /\ l \in owned
        /\ \A k \in Ids, j \in 1 .. Backlog :
             j <= Len(sock[k].backlog) /\ sock[k].backlog[j] = i => k = l /\ j = n

\* A segment that is armed with a timer is not repeated for ever: it is
\* acknowledged or the connection is given up.
RetransmissionEnds ==
    \A i \in Ids : (sock[i].armed /\ sock[i].timer \in Slots) ~> ~sock[i].armed

(* What the code does not keep; the README says how it is lost.             *)

\* "Close a TCP socket allocation": once a program has closed a socket and the
\* connection is over, the slot can be used again.
SlotsReclaimed ==
    \A i \in PoolIds :
      sock[i].inUse => \/ i \in owned \/ sock[i].state # "CLOSED"
                       \/ \E l \in Ids, n \in 1 .. Backlog :
                            n <= Len(sock[l].backlog) /\ sock[l].backlog[n] = i

\* A send that returned an error sends nothing: what any peer takes is what the
\* sends that returned a length sent.
FailedSendsVanish == \A c \in Conns : TakenInOrder(c)

\* What a peer has not got is armed on every connection.
AllUnackedArmed == \A i \in Ids : Unreached(i) => sock[i].armed
====
