-------------------------------- MODULE Udp --------------------------------
(***************************************************************************)
(* The datagram half of the network stack (network/netstack.c): the UDP    *)
(* sockets and the shared queue, the ARP cache, and the kernel's own       *)
(* clients of them: the DNS resolver, the DHCP client, ping and the        *)
(* listen/echo commands.  Only one call runs at a time; net_poll may take  *)
(* a frame between any two of its steps.                                   *)
(*                                                                         *)
(* Remote hosts are external: they may answer a question late, twice or    *)
(* never, and may send a datagram to any port.  A behaviour exercises the  *)
(* clients its uses names.                                                 *)
(***************************************************************************)
EXTENDS Integers, Sequences, FiniteSets

CONSTANTS
    Hosts,        \* remote hosts on the link
    DnsHost,      \* the nameserver, one of them
    Names,        \* names to resolve
    UserPorts,    \* ports programs bind or listen on
    EphBase,      \* first ephemeral port (40000)
    BindTries,    \* ports the resolver tries (16)
    NUdp,         \* MAX_SOCKETS
    SockSlots,    \* SOCKET_RXQ_SIZE
    GlobalSlots,  \* slots of g_net.udp_rxq
    IcmpSlots,    \* slots of g_net.icmp_rxq
    ArpSlots,     \* entries of the ARP cache
    ArpTtl,       \* ARP_CACHE_TTL_MS in ticks
    MaxNow,       \* bound: ticks
    MaxAsked,     \* bound: different DNS queries
    MaxArrivals,  \* bound: datagrams and echo replies taken
    Uses          \* what a behaviour exercises: "dns", "dhcp", "ping", "user", "arp"

ASSUME UdpAssumption ==
    /\ DnsHost \in Hosts
    /\ EphBase \in Nat /\ BindTries \in Nat \ {0} /\ NUdp \in Nat \ {0}
    /\ SockSlots \in Nat \ {0} /\ GlobalSlots \in Nat \ {0} /\ IcmpSlots \in Nat \ {0}
    /\ ArpSlots \in Nat \ {0} /\ ArpTtl \in Nat
    /\ UserPorts \subseteq Nat \ {0, EphBase - 1}
    /\ MaxNow \in Nat /\ MaxAsked \in Nat /\ MaxArrivals \in Nat

UdpIds == 0 .. NUdp - 1
DhcpPort == EphBase - 1

VARIABLES
    usock,    \* g_net.sockets
    gq,       \* g_net.udp_rxq
    icmpq,    \* g_net.icmp_rxq
    arp,      \* g_net.arp_cache
    cfg,      \* the server our address is from, and the request it answered
    now,      \* the tick count
    ucall,    \* the call in progress
    uowned,   \* sockets the programs hold
    asked,    \* questions that left: DNS queries, DHCP messages, echo requests
    arrived,  \* datagrams and replies taken so far
    last,     \* what the last resolver, DHCP or ping call returned
    uses      \* what this behaviour exercises

uvars == <<usock, gq, icmpq, arp, cfg, now, ucall, uowned, asked, arrived, last, uses>>

NoCall == [op |-> "none"]
Nothing == [port |-> 0]
NoEntry == [valid |-> FALSE, ip |-> DnsHost, seen |-> 0]
UnboundSocket == [bound |-> FALSE, port |-> 0, q |-> <<>>, since |-> 0]

Least(S) == CHOOSE x \in S : \A y \in S : x <= y

-----------------------------------------------------------------------------
(* The ARP cache.                                                          *)

Stale(e) == now - e.seen > ArpTtl

EntryFor(a, ip) == {n \in 1 .. ArpSlots : a[n].valid /\ a[n].ip = ip}

FreeEntries(a) == {n \in 1 .. ArpSlots : ~a[n].valid}

\* In place, into the first free entry, or over entry 1 when the cache is full.
ArpCacheUpdate(a, ip) ==
    LET n == IF EntryFor(a, ip) # {} THEN Least(EntryFor(a, ip))
             ELSE IF FreeEntries(a) # {} THEN Least(FreeEntries(a)) ELSE 1
    IN  [a EXCEPT ![n] = [valid |-> TRUE, ip |-> ip, seen |-> now]]

\* A lookup drops the expired entries it passes.
ArpDropExpired(a) ==
    [n \in 1 .. ArpSlots |-> IF a[n].valid /\ Stale(a[n]) THEN [a[n] EXCEPT !.valid = FALSE]
                             ELSE a[n]]

\* arp_resolve: the cached address, else the reply to one of the requests.
\* Every other frame that comes in meanwhile is dropped.
Resolved(h) ==
    LET a == ArpDropExpired(arp)
    IN  IF EntryFor(a, h) # {} THEN a ELSE ArpCacheUpdate(a, h)

\* arp_age_timer_cb.  The request that refreshes the gateway leaves no state.
ArpAgeTimer ==
    /\ arp # ArpDropExpired(arp)
    /\ arp' = ArpDropExpired(arp)
    /\ UNCHANGED <<usock, gq, icmpq, cfg, now, ucall, uowned, asked, arrived, last, uses>>

\* An ARP request or reply seen by net_poll.
ReceiveArp(h) ==
    /\ "arp" \in uses
    /\ arp' = ArpCacheUpdate(arp, h)
    /\ UNCHANGED <<usock, gq, icmpq, cfg, now, ucall, uowned, asked, arrived, last, uses>>

-----------------------------------------------------------------------------
(* UDP sockets.                                                            *)

BoundTo(p) == {i \in UdpIds : usock[i].bound /\ usock[i].port = p}

FreeSockets == {i \in UdpIds : ~usock[i].bound}

MayBind(p) == BoundTo(p) = {} /\ FreeSockets # {}

UdpBindKeepsQueue(p) ==
    [usock EXCEPT ![Least(FreeSockets)] = [@ EXCEPT !.bound = TRUE, !.port = p, !.since = arrived]]

UdpBind(p) ==
    [usock EXCEPT ![Least(FreeSockets)] =
       [bound |-> TRUE, port |-> p, q |-> <<>>, since |-> arrived]]

\* The queue of a closed socket is left as it is; bind empties it.
UdpClose(u, i) ==
    [u EXCEPT ![i] = [bound |-> FALSE, port |-> 0, q |-> u[i].q, since |-> u[i].since]]

\* The first datagram of a queue is taken from it.
UdpTake(i) == [usock EXCEPT ![i].q = Tail(@)]

FreeGlobal == {n \in 1 .. GlobalSlots : gq[n] = Nothing}

\* To the socket bound to the port, or dropped when its queue is full; the
\* shared queue takes the datagrams of ports nobody has bound.
UdpEnqueue(d) ==
    IF BoundTo(d.port) # {}
    THEN LET i == Least(BoundTo(d.port))
         IN  /\ usock' = IF Len(usock[i].q) < SockSlots
                         THEN [usock EXCEPT ![i].q = Append(@, d)] ELSE usock
             /\ UNCHANGED gq
    ELSE /\ gq' = IF FreeGlobal = {} THEN gq ELSE [gq EXCEPT ![Least(FreeGlobal)] = d]
         /\ UNCHANGED usock

Datagram(port, src, kind, id, data) ==
    [port |-> port, src |-> src, kind |-> kind, id |-> id, data |-> data, n |-> arrived]

\* The datagrams remote hosts may send: answers to what was asked, and others.
Incoming ==
    {Datagram(a.port, DnsHost, k, a.id, a.name) :
        k \in {"answer", "error"}, a \in {x \in asked : x.op = "dns"}}
    \cup {Datagram(DhcpPort, h, "offer", a.id, 0) :
            h \in Hosts, a \in {x \in asked : x.op = "discover"}}
    \cup {Datagram(DhcpPort, a.server, "ack", a.id, 0) : a \in {x \in asked : x.op = "request"}}
    \cup (IF "user" \in uses THEN {Datagram(p, h, "user", 0, 0) : p \in UserPorts, h \in Hosts}
          ELSE {})

ReceiveUdp(d) ==
    /\ arrived < MaxArrivals /\ arrived' = arrived + 1
    /\ UdpEnqueue(d)
    /\ arp' = ArpCacheUpdate(arp, d.src)
    /\ UNCHANGED <<icmpq, cfg, now, ucall, uowned, asked, last, uses>>

\* An echo reply: queued for ping in the first free slot, or dropped.
FreeIcmp == {n \in 1 .. IcmpSlots : icmpq[n] = Nothing}

ReceiveEchoReply(a) ==
    /\ a.op = "echo"
    /\ arrived < MaxArrivals /\ arrived' = arrived + 1
    /\ icmpq' = IF FreeIcmp = {} THEN icmpq
                ELSE [icmpq EXCEPT ![Least(FreeIcmp)] = [port |-> 1, src |-> a.host, seq |-> a.seq]]
    /\ arp' = ArpCacheUpdate(arp, a.host)
    /\ UNCHANGED <<usock, gq, cfg, now, ucall, uowned, asked, last, uses>>

-----------------------------------------------------------------------------
(* Sockets of the programs, and the commands on the shared queue.          *)

UserBind(p) ==
    /\ "user" \in uses /\ ucall = NoCall /\ MayBind(p)
    /\ usock' = UdpBind(p)
    /\ uowned' = uowned \cup {Least(FreeSockets)}
    /\ UNCHANGED <<gq, icmpq, arp, cfg, now, ucall, asked, arrived, last, uses>>

UserClose(i) ==
    /\ ucall = NoCall /\ i \in uowned
    /\ usock' = UdpClose(usock, i)
    /\ uowned' = uowned \ {i}
    /\ UNCHANGED <<gq, icmpq, arp, cfg, now, ucall, asked, arrived, last, uses>>

UserRecv(i) ==
    /\ ucall = NoCall /\ i \in uowned /\ usock[i].q # <<>>
    /\ usock' = UdpTake(i)
    /\ UNCHANGED <<gq, icmpq, arp, cfg, now, ucall, uowned, asked, arrived, last, uses>>

\* net_udp_listen and net_udp_echo take the first datagram for the port from
\* the shared queue; echo answers it, which may resolve the sender.
GlobalFor(p) == {n \in 1 .. GlobalSlots : gq[n] # Nothing /\ gq[n].port = p}

ListenTakes(p, echo) ==
    /\ ucall = NoCall /\ GlobalFor(p) # {}
    /\ LET n == Least(GlobalFor(p))
       IN  /\ gq' = [gq EXCEPT ![n] = Nothing]
           /\ arp' = IF echo THEN Resolved(gq[n].src) ELSE arp
    /\ UNCHANGED <<usock, icmpq, cfg, now, ucall, uowned, asked, arrived, last, uses>>

-----------------------------------------------------------------------------
(* The resolver.                                                           *)

\* The ports tried, the first of them chosen by the tick count.
EphPorts == {p \in EphBase + now .. EphBase + now + BindTries - 1 : BoundTo(p) = {}}

DnsStart(name, sends) ==
    /\ "dns" \in uses /\ ucall = NoCall /\ FreeSockets # {} /\ EphPorts # {}
    /\ Cardinality(asked) < MaxAsked
    /\ LET p == Least(EphPorts)
           i == Least(FreeSockets)
           u == UdpBind(p)
       IN  IF sends
           THEN /\ usock' = u
                /\ arp' = Resolved(DnsHost)
                /\ asked' = asked \cup {[op |-> "dns", port |-> p, id |-> now, name |-> name]}
                /\ ucall' = [op |-> "dns", id |-> i, tx |-> now, name |-> name]
                /\ UNCHANGED last
           ELSE /\ usock' = UdpClose(u, i)
                /\ last' = [op |-> "dns", ok |-> FALSE]
                /\ UNCHANGED <<arp, asked, ucall>>
    /\ UNCHANGED <<gq, icmpq, cfg, now, uowned, arrived, uses>>

Ends(i, result) ==
    /\ usock' = UdpClose(usock, i)
    /\ ucall' = NoCall
    /\ last' = result

FromServer(d) == d.src = DnsHost /\ d.kind \in {"answer", "error"}

IsAnswer(d) == FromServer(d) /\ d.id = ucall.tx

\* A datagram from the nameserver with the identifier of the query is its
\* answer; any other one is skipped.
DnsTakes ==
    /\ ucall.op = "dns" /\ usock[ucall.id].q # <<>>
    /\ LET d == Head(usock[ucall.id].q)
       IN  IF IsAnswer(d)
           THEN Ends(ucall.id, [op |-> "dns", ok |-> d.kind = "answer", name |-> ucall.name,
                                answer |-> d.data, tx |-> ucall.tx])
           ELSE /\ usock' = UdpTake(ucall.id)
                /\ UNCHANGED <<ucall, last>>
    /\ UNCHANGED <<gq, icmpq, arp, cfg, now, uowned, asked, arrived, uses>>

\* The spin limit of any of the waiting loops.
WaitEnds ==
    /\ ucall.op \in {"dns", "discover", "request"} /\ usock[ucall.id].q = <<>>
    /\ Ends(ucall.id, [op |-> ucall.op, ok |-> FALSE])
    /\ UNCHANGED <<gq, icmpq, arp, cfg, now, uowned, asked, arrived, uses>>

-----------------------------------------------------------------------------
(* The DHCP client: discover, offer, request, acknowledgement.             *)

DhcpStart ==
    /\ "dhcp" \in uses /\ ucall = NoCall /\ MayBind(DhcpPort)
    /\ usock' = UdpBind(DhcpPort)
    /\ asked' = asked \cup {[op |-> "discover", id |-> now]}
    /\ ucall' = [op |-> "discover", id |-> Least(FreeSockets), tx |-> now]
    /\ UNCHANGED <<gq, icmpq, arp, cfg, now, uowned, arrived, last, uses>>

\* A message with our transaction number and the type that is waited for.
Expected(d) ==
    /\ d.id = ucall.tx
    /\ d.kind = (IF ucall.op = "discover" THEN "offer" ELSE "ack")

DhcpTakes ==
    /\ ucall.op \in {"discover", "request"} /\ usock[ucall.id].q # <<>>
    /\ LET d == Head(usock[ucall.id].q)
           u == UdpTake(ucall.id)
       IN  IF ~Expected(d)
           THEN usock' = u /\ UNCHANGED <<ucall, asked, cfg, last>>
           ELSE IF d.kind = "offer"
           THEN /\ asked' = asked \cup {[op |-> "request", id |-> ucall.tx, server |-> d.src]}
                /\ ucall' = [ucall EXCEPT !.op = "request"]
                /\ usock' = u
                /\ UNCHANGED <<cfg, last>>
           ELSE /\ cfg' = [server |-> d.src, tx |-> ucall.tx]
                /\ usock' = UdpClose(u, ucall.id)
                /\ ucall' = NoCall
                /\ last' = [op |-> "dhcp", ok |-> TRUE]
                /\ UNCHANGED asked
    /\ UNCHANGED <<gq, icmpq, arp, now, uowned, arrived, uses>>

-----------------------------------------------------------------------------
(* ping: one request.  The identifier is the same for every ping and the   *)
(* sequence number restarts at 1 with every command.                       *)

PingStart(h, s) ==
    /\ "ping" \in uses /\ ucall = NoCall
    /\ arp' = Resolved(h)
    /\ asked' = asked \cup {[op |-> "echo", host |-> h, seq |-> s]}
    /\ ucall' = [op |-> "ping", host |-> h, seq |-> s]
    /\ UNCHANGED <<usock, gq, icmpq, cfg, now, uowned, arrived, last, uses>>

PingMatches == {n \in 1 .. IcmpSlots : icmpq[n] # Nothing /\ icmpq[n].seq = ucall.seq}

PingReplied ==
    /\ ucall.op = "ping" /\ PingMatches # {}
    /\ LET n == Least(PingMatches)
       IN  /\ last' = [op |-> "ping", host |-> ucall.host, from |-> icmpq[n].src]
           /\ icmpq' = [icmpq EXCEPT ![n] = Nothing]
    /\ ucall' = NoCall
    /\ UNCHANGED <<usock, gq, arp, cfg, now, uowned, asked, arrived, uses>>

PingTimeout ==
    /\ ucall.op = "ping" /\ PingMatches = {}
    /\ ucall' = NoCall
    /\ UNCHANGED <<usock, gq, icmpq, arp, cfg, now, uowned, asked, arrived, last, uses>>

-----------------------------------------------------------------------------
Tick ==
    /\ now < MaxNow /\ now' = now + 1
    /\ UNCHANGED <<usock, gq, icmpq, arp, cfg, ucall, uowned, asked, arrived, last, uses>>

UdpInit ==
    /\ usock = [i \in UdpIds |-> UnboundSocket]
    /\ gq = [n \in 1 .. GlobalSlots |-> Nothing]
    /\ icmpq = [n \in 1 .. IcmpSlots |-> Nothing]
    /\ arp = [n \in 1 .. ArpSlots |-> NoEntry]
    /\ cfg = [server |-> "none", tx |-> 0]
    /\ now = 0 /\ ucall = NoCall /\ uowned = {} /\ asked = {}
    /\ arrived = 0 /\ last = [op |-> "none"] /\ uses \in Uses

Waiting == DnsTakes \/ DhcpTakes \/ WaitEnds \/ PingReplied \/ PingTimeout

UdpNext ==
    \/ \E d \in Incoming : ReceiveUdp(d)
    \/ \E a \in asked : ReceiveEchoReply(a)
    \/ \E h \in Hosts : ReceiveArp(h)
    \/ ArpAgeTimer \/ Tick
    \/ \E p \in UserPorts : UserBind(p) \/ \E e \in BOOLEAN : ListenTakes(p, e)
    \/ \E i \in UdpIds : UserClose(i) \/ UserRecv(i)
    \/ \E name \in Names, s \in BOOLEAN : DnsStart(name, s)
    \/ DhcpStart \/ (\E h \in Hosts, s \in 1 .. 2 : PingStart(h, s))
    \/ Waiting

-----------------------------------------------------------------------------
\* A socket's queue holds datagrams for its port only, in the order in which
\* they came and none that came before the socket was bound, even when slot and
\* port were used before; two sockets never share a port.
UdpRouting ==
    /\ \A i \in UdpIds, j \in UdpIds :
         usock[i].bound /\ usock[j].bound /\ usock[i].port = usock[j].port => i = j
    /\ \A i \in UdpIds :
         usock[i].bound =>
           LET q == usock[i].q IN
           /\ Len(q) <= SockSlots
           /\ \A n \in DOMAIN q : q[n].port = usock[i].port /\ q[n].n >= usock[i].since
           /\ \A n \in 2 .. Len(q) : q[n - 1].n < q[n].n

\* The kernel's own clients leave no socket behind: besides the programs'
\* sockets only the call in progress has one, on every way out of it.
NoSocketLeft ==
    {i \in UdpIds : usock[i].bound} =
      uowned \cup (IF ucall.op \in {"dns", "discover", "request"} THEN {ucall.id} ELSE {})

\* The resolver never returns the answer to a question of an earlier tick, and
\* our address is one its server acknowledged to a request of ours.
AnswersFit ==
    /\ last.op = "dns" /\ last.ok =>
         \E a \in asked : a.op = "dns" /\ a.id = last.tx /\ a.name = last.answer
    /\ cfg.server # "none" =>
         [op |-> "request", id |-> cfg.tx, server |-> cfg.server] \in asked

\* No two entries of the ARP cache are for the same address, and an entry is
\* never newer than now: a lookup has one answer, the one learned last.
ArpSound ==
    /\ \A m \in 1 .. ArpSlots, n \in 1 .. ArpSlots :
         arp[m].valid /\ arp[n].valid /\ arp[m].ip = arp[n].ip => m = n
    /\ \A n \in 1 .. ArpSlots :
         arp[n].valid => arp[n].seen <= now

(* What the code does not keep; the README says how it is lost.             *)

\* "Stable ID so we can match replies": a reply that ping counts came from the
\* host that was pinged.
PingFromTarget == last.op = "ping" => last.from = last.host
====
