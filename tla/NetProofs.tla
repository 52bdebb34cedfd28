------------------------------ MODULE NetProofs ------------------------------
(***************************************************************************)
(* What is proved about Net: its sockets of both kinds, the ARP cache and  *)
(* the kernel's own clients, for every number of sockets, timers, backlog  *)
(* and queue slots, hosts, names and ports.  The TCP half of the invariant *)
(* is in TcpProofs, its streams in TcpStreams.                             *)
(***************************************************************************)
EXTENDS Net, TcpStreams, FunctionTheorems

(***************************************************************************)
(* The inductive invariant                                                 *)
(***************************************************************************)
DatagramType ==
    [port : Int, src : Hosts, kind : {"answer", "error", "offer", "ack", "user"},
     id : Nat, data : Names \cup {0}, n : Nat]

SocketType == [bound : BOOLEAN, port : Int, q : Seq(DatagramType), since : Nat]

AskedType ==
    [op : {"dns"}, port : Int, id : Nat, name : Names]
    \cup [op : {"discover"}, id : Nat]
    \cup [op : {"request"}, id : Nat, server : Hosts]
    \cup [op : {"echo"}, host : Hosts, seq : 1 .. 2]

CallType ==
    {NoCall}
    \cup [op : {"dns"}, id : UdpIds, tx : Nat, name : Names]
    \cup [op : {"discover", "request"}, id : UdpIds, tx : Nat]
    \cup [op : {"ping"}, host : Hosts, seq : 1 .. 2]

EntryType == [valid : BOOLEAN, ip : Hosts, seen : Nat]

UdpTypes ==
    /\ now \in Nat /\ arrived \in Nat /\ uowned \subseteq UdpIds
    /\ asked \subseteq AskedType /\ ucall \in CallType
    /\ gq \in [1 .. GlobalSlots -> DatagramType \cup {Nothing}]

\* The queue s.q of a socket bound to s.port holds what came for it since, in
\* order, when m datagrams have been taken.
QueueSound(s, m) ==
    /\ Len(s.q) <= SockSlots /\ s.since <= m
    /\ \A n \in DOMAIN s.q : s.q[n].port = s.port /\ s.q[n].n >= s.since /\ s.q[n].n < m
    /\ \A n \in 2 .. Len(s.q) : s.q[n - 1].n < s.q[n].n

SocketsSound(u, m) ==
    /\ u \in [UdpIds -> SocketType]
    /\ \A i, j \in UdpIds : u[i].bound /\ u[j].bound /\ u[i].port = u[j].port => i = j
    /\ \A i \in UdpIds : u[i].bound => QueueSound(u[i], m)

\* An answer was given to a query that was asked, an acknowledgement to a request.
Genuine(d, A) ==
    /\ d.kind = "answer" => \E a \in A : a.op = "dns" /\ a.id = d.id /\ a.name = d.data
    /\ d.kind = "ack" => [op |-> "request", id |-> d.id, server |-> d.src] \in A

QueuesGenuine == \A i \in UdpIds : \A n \in DOMAIN usock[i].q : Genuine(usock[i].q[n], asked)

\* A socket is bound for a program or for the call in progress, never for both.
ClientCall == ucall.op \in {"dns", "discover", "request"}

HeldByOne ==
    /\ \A i \in UdpIds : usock[i].bound <=> i \in uowned \/ (ClientCall /\ i = ucall.id)
    /\ ClientCall => ucall.id \notin uowned

CacheSound(a, t) ==
    /\ a \in [1 .. ArpSlots -> EntryType]
    /\ \A m, n \in 1 .. ArpSlots : a[m].valid /\ a[n].valid /\ a[m].ip = a[n].ip => m = n
    /\ \A n \in 1 .. ArpSlots : a[n].valid => a[n].seen <= t

UInv ==
    /\ UdpTypes /\ SocketsSound(usock, arrived) /\ QueuesGenuine
    /\ HeldByOne /\ AnswersFit /\ CacheSound(arp, now)

-----------------------------------------------------------------------------
(* Sockets *)

\* The first of a set of numbers.
LEMMA LeastFact ==
    ASSUME NEW S \in SUBSET Nat, S # {}
    PROVE  Least(S) \in S /\ \A y \in S : Least(S) <= y
BY LeastExists DEF Least

\* What the type of a socket says of its queue.
LEMMA SocketFacts ==
    ASSUME NEW s \in SocketType
    PROVE  /\ s.q \in Seq(DatagramType) /\ s.since \in Nat /\ s.port \in Int
           /\ Len(s.q) \in Nat /\ DOMAIN s.q = 1 .. Len(s.q)
           /\ \A n \in 1 .. Len(s.q) : s.q[n] \in DatagramType /\ s.q[n].n \in Nat
<1> DEFINE q == s.q
<1>1. q \in Seq(DatagramType) /\ s.since \in Nat /\ s.port \in Int
  BY DEF SocketType
<1> HIDE DEF q
<1>2. Len(q) \in Nat /\ DOMAIN q = 1 .. Len(q) /\ \A n \in 1 .. Len(q) : q[n] \in DatagramType
  BY <1>1, LenProperties, ElementOfSeq
<1>3. \A d \in DatagramType : d.n \in Nat
  BY DEF DatagramType
<1> QED BY <1>1, <1>2, <1>3 DEF q

\* bind takes a socket that was not bound, empties its queue and leaves the others.
LEMMA BindSound ==
    ASSUME NEW p \in Int, SocketsSound(usock, arrived), arrived \in Nat, MayBind(p)
    PROVE  /\ SocketsSound(UdpBind(p), arrived)
           /\ Least(FreeSockets) \in FreeSockets
           /\ \A i \in UdpIds : UdpBind(p)[i].bound <=> usock[i].bound \/ i = Least(FreeSockets)
           /\ \A i \in UdpIds : UdpBind(p)[i].q = usock[i].q \/ UdpBind(p)[i].q = <<>>
<1> DEFINE i == Least(FreeSockets)
           s == [bound |-> TRUE, port |-> p, q |-> <<>>, since |-> arrived]
           u == UdpBind(p)
<1>1. i \in UdpIds /\ ~usock[i].bound /\ i \in FreeSockets
  <2>1. FreeSockets \subseteq Nat /\ FreeSockets # {}
    BY UdpAssumption DEF FreeSockets, UdpIds, MayBind
  <2> QED BY <2>1, LeastFact DEF FreeSockets
<1>2. s \in SocketType /\ QueueSound(s, arrived)
  BY UdpAssumption, EmptySeq DEF SocketType, QueueSound
<1>3. u = [usock EXCEPT ![i] = s]
  BY DEF UdpBind
<1>4. /\ u[i] = s /\ \A j \in UdpIds \ {i} : u[j] = usock[j]
      /\ u \in [UdpIds -> SocketType]
  <2> HIDE DEF i, s, u
  <2> QED BY <1>1, <1>2, <1>3 DEF SocketsSound
<1>5. \A j \in UdpIds : usock[j].bound => usock[j].port # p
  BY DEF MayBind, BoundTo
<1>6. s.bound /\ s.port = p /\ s.q = <<>>
  OBVIOUS
<1> HIDE DEF i, s, u
<1>7. SocketsSound(u, arrived)
  BY <1>1, <1>2, <1>4, <1>5, <1>6 DEF SocketsSound
<1> QED BY <1>1, <1>4, <1>6, <1>7 DEF u, i

\* close leaves the other sockets and every queue.
LEMMA CloseSound ==
    ASSUME NEW u, NEW m, SocketsSound(u, m), NEW i \in UdpIds
    PROVE  /\ SocketsSound(UdpClose(u, i), m)
           /\ \A j \in UdpIds : UdpClose(u, i)[j].bound <=> u[j].bound /\ j # i
           /\ \A j \in UdpIds : UdpClose(u, i)[j].q = u[j].q
<1> DEFINE w == UdpClose(u, i)
<1>1. /\ w \in [UdpIds -> SocketType] /\ ~w[i].bound /\ w[i].q = u[i].q
      /\ \A j \in UdpIds \ {i} : w[j] = u[j]
  <2> DEFINE s == [bound |-> FALSE, port |-> 0, q |-> u[i].q, since |-> u[i].since]
  <2>1. u \in [UdpIds -> SocketType] /\ u[i] \in SocketType
    BY DEF SocketsSound
  <2>2. s \in SocketType /\ ~s.bound /\ s.q = u[i].q
    BY <2>1, SocketFacts DEF SocketType
  <2>3. w = [u EXCEPT ![i] = s]
    BY <2>1 DEF UdpClose
  <2> HIDE DEF s, w
  <2> QED BY <2>1, <2>2, <2>3
<1> HIDE DEF w
<1>2. SocketsSound(w, m)
  BY <1>1 DEF SocketsSound
<1> QED BY <1>1, <1>2 DEF w

\* Taking the oldest datagram leaves a queue in order.
LEMMA TakeSound ==
    ASSUME NEW m, SocketsSound(usock, m), NEW i \in UdpIds, usock[i].q # <<>>
    PROVE  /\ SocketsSound(UdpTake(i), m)
           /\ \A j \in UdpIds : UdpTake(i)[j].bound <=> usock[j].bound
           /\ \A j \in UdpIds : \A n \in DOMAIN UdpTake(i)[j].q :
                \E k \in DOMAIN usock[j].q : UdpTake(i)[j].q[n] = usock[j].q[k]
<1> DEFINE u == UdpTake(i)
           q == usock[i].q
           t == Tail(q)
<1>1. usock[i] \in SocketType /\ q \in Seq(DatagramType) /\ q # <<>>
  BY DEF SocketsSound, SocketType
<1>2. /\ t \in Seq(DatagramType) /\ Len(t) = Len(q) - 1 /\ Len(q) \in Nat
      /\ DOMAIN t = 1 .. Len(t) /\ DOMAIN q = 1 .. Len(q)
      /\ \A n \in 1 .. Len(t) : t[n] = q[n + 1]
  <2> HIDE DEF q
  <2> QED BY <1>1, HeadTailProperties, LenProperties
<1>3. /\ u \in [UdpIds -> SocketType]
      /\ \A j \in UdpIds \ {i} : u[j] = usock[j]
      /\ u[i].q = t /\ u[i].bound = usock[i].bound /\ u[i].port = usock[i].port
      /\ u[i].since = usock[i].since
  BY <1>2 DEF SocketsSound, SocketType, UdpTake
<1> HIDE DEF t, u
<1>4. ASSUME usock[i].bound PROVE QueueSound(u[i], m)
  <2>1. QueueSound(usock[i], m)
    BY <1>4 DEF SocketsSound
  <2>2. \A n \in DOMAIN t : /\ t[n].port = usock[i].port /\ t[n].n >= usock[i].since
                            /\ t[n].n < m
    <3> SUFFICES ASSUME NEW n \in 1 .. Len(t)
                 PROVE  /\ t[n].port = usock[i].port /\ t[n].n >= usock[i].since
                        /\ t[n].n < m
      BY <1>2
    <3>1. n + 1 \in DOMAIN q
      BY <1>2
    <3> QED BY <1>2, <2>1, <3>1 DEF QueueSound
  <2>3. \A n \in 2 .. Len(t) : t[n - 1].n < t[n].n
    <3> SUFFICES ASSUME NEW n \in 2 .. Len(t) PROVE t[n - 1].n < t[n].n
      OBVIOUS
    <3>0. Len(t) = Len(q) - 1 /\ Len(q) \in Nat
      BY <1>2
    <3>1. n + 1 \in 2 .. Len(q) /\ n \in 1 .. Len(t) /\ n - 1 \in 1 .. Len(t) /\ (n - 1) + 1 = n
      BY ONLY <3>0, n \in 2 .. Len(t)
    <3>2. q[n].n < q[n + 1].n
      <4>1. q[(n + 1) - 1].n < q[n + 1].n
        BY <2>1, <3>1 DEF QueueSound
      <4> QED BY <4>1
    <3> QED BY <1>2, <3>1, <3>2
  <2>4. Len(t) <= SockSlots
    BY <1>2, <2>1, UdpAssumption DEF QueueSound
  <2> QED BY <1>3, <2>1, <2>2, <2>3, <2>4 DEF QueueSound
<1>5. SocketsSound(u, m)
  BY <1>3, <1>4 DEF SocketsSound
<1>6. \A j \in UdpIds : \A n \in DOMAIN u[j].q :
        \E k \in DOMAIN usock[j].q : u[j].q[n] = usock[j].q[k]
  <2> SUFFICES ASSUME NEW n \in DOMAIN t PROVE \E k \in DOMAIN q : t[n] = q[k]
    BY <1>3
  <2>1. n \in 1 .. Len(t) /\ n + 1 \in DOMAIN q
    BY <1>2
  <2> QED BY <1>2, <2>1
<1> QED BY <1>3, <1>5, <1>6 DEF u

\* What came before the m-th datagram came before the next one.
LEMMA LaterSound ==
    ASSUME SocketsSound(usock, arrived), arrived \in Nat
    PROVE  \A i \in UdpIds : usock[i].bound => QueueSound(usock[i], arrived + 1)
<1> SUFFICES ASSUME NEW i \in UdpIds, usock[i].bound PROVE QueueSound(usock[i], arrived + 1)
  OBVIOUS
<1>1. QueueSound(usock[i], arrived) /\ usock[i] \in SocketType
  BY DEF SocketsSound
<1>2. /\ \A n \in DOMAIN usock[i].q : usock[i].q[n].n \in Nat
      /\ usock[i].since \in Nat
  BY <1>1, SocketFacts
<1> QED BY <1>1, <1>2 DEF QueueSound

\* A datagram goes to the end of the queue of the socket bound to its port.
LEMMA EnqueueSound ==
    ASSUME SocketsSound(usock, arrived), arrived \in Nat, NEW d \in DatagramType,
           d.n = arrived, UdpEnqueue(d)
    PROVE  /\ SocketsSound(usock', arrived + 1)
           /\ \A j \in UdpIds : usock'[j].bound <=> usock[j].bound
           /\ \A j \in UdpIds : \A n \in DOMAIN usock'[j].q :
                \/ usock'[j].q[n] = d
                \/ \E k \in DOMAIN usock[j].q : usock'[j].q[n] = usock[j].q[k]
<1>1. \A i \in UdpIds : usock[i].bound => QueueSound(usock[i], arrived + 1)
  BY LaterSound
<1>2. CASE UNCHANGED usock
  BY <1>1, <1>2 DEF SocketsSound
<1>3. CASE BoundTo(d.port) # {} /\ ~ UNCHANGED usock
  <2> DEFINE i == Least(BoundTo(d.port))
             q == usock[i].q
             a == Append(q, d)
  <2>1. i \in UdpIds /\ usock[i].bound /\ usock[i].port = d.port
    <3>1. BoundTo(d.port) \subseteq Nat
      BY UdpAssumption DEF BoundTo, UdpIds
    <3> QED BY <1>3, <3>1, LeastFact DEF BoundTo
  <2>2. Len(q) < SockSlots /\ usock' = [usock EXCEPT ![i].q = a]
    BY <1>3 DEF UdpEnqueue
  <2>3. usock[i] \in SocketType /\ q \in Seq(DatagramType) /\ QueueSound(usock[i], arrived)
    BY <2>1 DEF SocketsSound, SocketType
  <2> HIDE DEF i
  <2>4. /\ a \in Seq(DatagramType) /\ Len(a) = Len(q) + 1 /\ Len(q) \in Nat
        /\ DOMAIN a = 1 .. Len(a) /\ DOMAIN q = 1 .. Len(q)
        /\ \A n \in 1 .. Len(q) : a[n] = q[n]
        /\ a[Len(q) + 1] = d
    <3> HIDE DEF q
    <3> QED BY <2>3, AppendProperties, LenProperties
  <2> HIDE DEF a
  <2>5. /\ usock' \in [UdpIds -> SocketType]
        /\ \A j \in UdpIds \ {i} : usock'[j] = usock[j]
        /\ usock'[i].q = a /\ usock'[i].bound = usock[i].bound
        /\ usock'[i].port = usock[i].port /\ usock'[i].since = usock[i].since
    BY <2>1, <2>2, <2>4 DEF SocketsSound, SocketType
  <2>6. QueueSound(usock'[i], arrived + 1)
    <3>1. /\ \A n \in 1 .. Len(q) : q[n].n \in Nat
          /\ usock[i].since \in Nat
      BY <2>3, SocketFacts DEF q
    <3>2. \A n \in DOMAIN a : /\ a[n].port = usock[i].port /\ a[n].n >= usock[i].since
                              /\ a[n].n < arrived + 1
      <4> SUFFICES ASSUME NEW n \in DOMAIN a
                   PROVE  /\ a[n].port = usock[i].port /\ a[n].n >= usock[i].since
                          /\ a[n].n < arrived + 1
        OBVIOUS
      <4>1. CASE n = Len(q) + 1
        BY <2>1, <2>3, <2>4, <3>1, <4>1 DEF QueueSound
      <4>2. CASE n \in 1 .. Len(q)
        <5>1. /\ a[n] = q[n] /\ q[n].n \in Nat /\ q[n].port = usock[i].port
              /\ q[n].n >= usock[i].since /\ q[n].n < arrived
          BY <2>3, <2>4, <3>1, <4>2 DEF QueueSound, q
        <5> QED BY <5>1
      <4> QED BY <2>4, <4>1, <4>2
    <3>3. \A n \in 2 .. Len(a) : a[n - 1].n < a[n].n
      <4> SUFFICES ASSUME NEW n \in 2 .. Len(a) PROVE a[n - 1].n < a[n].n
        OBVIOUS
      <4>0. \A m \in 2 .. Len(q) : q[m - 1].n < q[m].n
        BY <2>3 DEF QueueSound
      <4> HIDE DEF q
      <4>1. n - 1 \in 1 .. Len(q) /\ a[n - 1] = q[n - 1]
        BY <2>4
      <4>2. CASE n = Len(q) + 1
        BY <2>1, <2>3, <2>4, <4>1, <4>2 DEF QueueSound, q
      <4>3. CASE n \in 2 .. Len(q)
        <5>1. a[n] = q[n] /\ q[n - 1].n < q[n].n
          BY <2>4, <4>0, <4>3
        <5> QED BY <4>1, <5>1
      <4> QED BY <2>4, <4>2, <4>3
    <3>4. Len(a) <= SockSlots
      <4>1. Len(q) < SockSlots
        BY <2>2
      <4> HIDE DEF q
      <4> QED BY <2>4, <4>1, UdpAssumption
    <3>5. usock[i].since <= arrived + 1
      BY <2>3, <3>1 DEF QueueSound
    <3> QED BY <2>5, <3>2, <3>3, <3>4, <3>5 DEF QueueSound
  <2>7. SocketsSound(usock', arrived + 1)
    BY <1>1, <2>5, <2>6 DEF SocketsSound
  <2>8. \A n \in DOMAIN a : a[n] = d \/ \E k \in DOMAIN q : a[n] = q[k]
    BY <2>4
  <2> QED BY <2>5, <2>7, <2>8
<1> QED BY <1>2, <1>3 DEF UdpEnqueue

-----------------------------------------------------------------------------
(* The ARP cache *)

\* Learning an address leaves one entry for it, and no entry newer than now.
LEMMA ArpUpdateSound ==
    ASSUME NEW a, CacheSound(a, now), now \in Nat, NEW h \in Hosts
    PROVE  CacheSound(ArpCacheUpdate(a, h), now)
<1> DEFINE n == IF EntryFor(a, h) # {} THEN Least(EntryFor(a, h))
                ELSE IF FreeEntries(a) # {} THEN Least(FreeEntries(a)) ELSE 1
           e == [valid |-> TRUE, ip |-> h, seen |-> now]
           b == ArpCacheUpdate(a, h)
<1>1. /\ n \in 1 .. ArpSlots
      /\ EntryFor(a, h) # {} => n \in EntryFor(a, h)
  <2>1. EntryFor(a, h) \subseteq Nat /\ FreeEntries(a) \subseteq Nat /\ 1 \in 1 .. ArpSlots
    BY UdpAssumption DEF EntryFor, FreeEntries
  <2>2. EntryFor(a, h) # {} => Least(EntryFor(a, h)) \in EntryFor(a, h)
    BY <2>1, LeastFact
  <2>3. FreeEntries(a) # {} => Least(FreeEntries(a)) \in FreeEntries(a)
    BY <2>1, LeastFact
  <2>4. EntryFor(a, h) \subseteq 1 .. ArpSlots /\ FreeEntries(a) \subseteq 1 .. ArpSlots
    BY DEF EntryFor, FreeEntries
  <2> QED BY <2>1, <2>2, <2>3, <2>4
<1>2. e \in EntryType /\ e.valid /\ e.ip = h /\ e.seen = now
  BY DEF EntryType
<1>3. b = [a EXCEPT ![n] = e]
  BY DEF ArpCacheUpdate
<1>4. \A k \in 1 .. ArpSlots \ {n} : ~ (a[k].valid /\ a[k].ip = h)
  <2> SUFFICES ASSUME NEW k \in 1 .. ArpSlots, a[k].valid, a[k].ip = h PROVE k = n
    OBVIOUS
  <2>1. k \in EntryFor(a, h) /\ n \in EntryFor(a, h)
    BY <1>1 DEF EntryFor
  <2> HIDE DEF n
  <2> QED BY <2>1 DEF EntryFor, CacheSound
<1> HIDE DEF n, e, b
<1>5. b[n] = e /\ \A k \in 1 .. ArpSlots \ {n} : b[k] = a[k]
  BY <1>1, <1>3 DEF CacheSound
<1>6. b \in [1 .. ArpSlots -> EntryType]
  BY <1>1, <1>2, <1>3 DEF CacheSound
<1>7. CacheSound(b, now)
  BY <1>1, <1>2, <1>4, <1>5, <1>6 DEF CacheSound
<1> QED BY <1>7 DEF b

\* Dropping what has expired leaves the other entries.
LEMMA ArpDropSound ==
    ASSUME NEW a, CacheSound(a, now), now \in Nat
    PROVE  CacheSound(ArpDropExpired(a), now)
<1> DEFINE b == ArpDropExpired(a)
<1>1. \A n \in 1 .. ArpSlots : /\ b[n] \in EntryType /\ b[n].ip = a[n].ip
                               /\ b[n].seen = a[n].seen /\ (b[n].valid => a[n].valid)
  <2> SUFFICES ASSUME NEW n \in 1 .. ArpSlots
               PROVE  /\ b[n] \in EntryType /\ b[n].ip = a[n].ip
                      /\ b[n].seen = a[n].seen /\ (b[n].valid => a[n].valid)
    OBVIOUS
  <2>1. a[n] \in EntryType
    BY DEF CacheSound
  <2> DEFINE c == [a[n] EXCEPT !.valid = FALSE]
  <2>2. c \in EntryType /\ c.ip = a[n].ip /\ c.seen = a[n].seen /\ ~c.valid
    BY <2>1 DEF EntryType
  <2>3. b[n] = a[n] \/ b[n] = c
    BY DEF ArpDropExpired
  <2> QED BY <2>1, <2>2, <2>3
<1>2. b \in [1 .. ArpSlots -> EntryType]
  <2>1. DOMAIN b = 1 .. ArpSlots /\ b = [n \in 1 .. ArpSlots |-> b[n]]
    BY DEF ArpDropExpired
  <2> HIDE DEF b
  <2> QED BY <1>1, <2>1
<1> HIDE DEF b
<1>3. CacheSound(b, now)
  BY <1>1, <1>2 DEF CacheSound
<1> QED BY <1>3 DEF b

\* Resolving an address leaves the cache sound, whether it was cached or asked for.
LEMMA ResolvedSound ==
    ASSUME CacheSound(arp, now), now \in Nat, NEW h \in Hosts
    PROVE  CacheSound(Resolved(h), now)
BY ArpDropSound, ArpUpdateSound DEF Resolved

-----------------------------------------------------------------------------
(* Datagrams and calls *)

\* What a remote host may send is a datagram that arrives now, and an answer or
\* an acknowledgement of it is genuine.
LEMMA IncomingGenuine ==
    ASSUME UdpTypes, NEW d \in Incoming
    PROVE  d \in DatagramType /\ d.n = arrived /\ Genuine(d, asked)
<1> USE UdpAssumption
<1>1. CASE \E k \in {"answer", "error"}, a \in asked :
             a.op = "dns" /\ d = Datagram(a.port, DnsHost, k, a.id, a.name)
  <2>1. PICK k \in {"answer", "error"}, a \in asked :
             a.op = "dns" /\ d = Datagram(a.port, DnsHost, k, a.id, a.name)
    BY <1>1
  <2>2. a.port \in Int /\ a.id \in Nat /\ a.name \in Names
    BY <2>1 DEF UdpTypes, AskedType
  <2>3. d.kind # "ack" /\ d.id = a.id /\ d.data = a.name /\ d.n = arrived
    BY <2>1 DEF Datagram
  <2>4. d \in DatagramType
    BY <2>1, <2>2 DEF Datagram, DatagramType, UdpTypes
  <2> QED BY <2>1, <2>3, <2>4 DEF Genuine
<1>2. CASE \E h \in Hosts, a \in asked :
             a.op = "discover" /\ d = Datagram(DhcpPort, h, "offer", a.id, 0)
  <2>1. PICK h \in Hosts, a \in asked :
             a.op = "discover" /\ d = Datagram(DhcpPort, h, "offer", a.id, 0)
    BY <1>2
  <2>2. a.id \in Nat
    BY <2>1 DEF UdpTypes, AskedType
  <2> QED BY <2>1, <2>2 DEF Datagram, DatagramType, DhcpPort, UdpTypes, Genuine
<1>3. CASE \E a \in asked : a.op = "request" /\ d = Datagram(DhcpPort, a.server, "ack", a.id, 0)
  <2>1. PICK a \in asked : a.op = "request" /\ d = Datagram(DhcpPort, a.server, "ack", a.id, 0)
    BY <1>3
  <2>2. a.id \in Nat /\ a.server \in Hosts /\ a = [op |-> "request", id |-> a.id, server |-> a.server]
    BY <2>1 DEF UdpTypes, AskedType
  <2>3. d.kind = "ack" /\ d.id = a.id /\ d.src = a.server /\ d.n = arrived
    BY <2>1 DEF Datagram
  <2>4. d \in DatagramType
    BY <2>1, <2>2 DEF Datagram, DatagramType, DhcpPort, UdpTypes
  <2> QED BY <2>2, <2>3, <2>4 DEF Genuine
<1>4. CASE \E p \in UserPorts, h \in Hosts : d = Datagram(p, h, "user", 0, 0)
  BY <1>4 DEF Datagram, DatagramType, UdpTypes, Genuine
<1> QED BY <1>1, <1>2, <1>3, <1>4 DEF Incoming

\* A call of the resolver or of the DHCP client names its socket and its number.
LEMMA CallFacts ==
    ASSUME ucall \in CallType
    PROVE  /\ ClientCall => ucall.id \in UdpIds /\ ucall.tx \in Nat
           /\ ucall = NoCall => ~ClientCall
           /\ ucall.op = "ping" => ~ClientCall
           /\ ucall.op \in {"discover", "request"} =>
                ucall \in [op : {"discover", "request"}, id : UdpIds, tx : Nat]
BY DEF CallType, ClientCall, NoCall

\* Queues stay genuine when what a socket holds is what it held or is genuine.
LEMMA QueuesStay ==
    ASSUME QueuesGenuine, asked \subseteq asked',
           \A j \in UdpIds : \A n \in DOMAIN usock'[j].q :
              \/ Genuine(usock'[j].q[n], asked)
              \/ \E k \in DOMAIN usock[j].q : usock'[j].q[n] = usock[j].q[k]
    PROVE  QueuesGenuine'
<1> SUFFICES ASSUME NEW j \in UdpIds, NEW n \in DOMAIN usock'[j].q
             PROVE  Genuine(usock'[j].q[n], asked')
  BY DEF QueuesGenuine
<1>1. Genuine(usock'[j].q[n], asked)
  BY DEF QueuesGenuine
<1> QED BY <1>1 DEF Genuine

\* The first datagram of a queue is one of it.
LEMMA HeadFact ==
    ASSUME SocketsSound(usock, arrived), QueuesGenuine, NEW i \in UdpIds, usock[i].q # <<>>
    PROVE  Head(usock[i].q) \in DatagramType /\ Genuine(Head(usock[i].q), asked)
<1> DEFINE q == usock[i].q
<1>1. q \in Seq(DatagramType) /\ q # <<>>
  BY SocketFacts DEF SocketsSound
<1>2. Len(q) \in Nat /\ Len(q) # 0 /\ DOMAIN q = 1 .. Len(q) /\ Head(q) = q[1]
  <2> HIDE DEF q
  <2> QED BY <1>1, EmptySeq, LenProperties
<1>3. 1 \in DOMAIN q
  <2> HIDE DEF q
  <2> QED BY <1>2
<1>4. q[1] \in DatagramType
  <2> HIDE DEF q
  <2> QED BY <1>1, <1>2, <1>3, ElementOfSeq
<1>5. Genuine(q[1], asked)
  BY <1>3 DEF QueuesGenuine
<1> QED BY <1>2, <1>4, <1>5

\* The answers that were returned stay answers to what was asked.
LEMMA AnswersStay ==
    ASSUME AnswersFit, asked \subseteq asked', UNCHANGED <<last, cfg>>
    PROVE  AnswersFit'
BY DEF AnswersFit

-----------------------------------------------------------------------------
(* The steps *)

\* net_init leaves no socket bound and nothing asked.
LEMMA UdpInitially == UdpInit => UInv
<1> SUFFICES ASSUME UdpInit PROVE UInv
  OBVIOUS
<1> USE UdpAssumption DEF UdpInit
<1>1. UdpTypes
  BY DEF UdpTypes, CallType
<1>2. SocketsSound(usock, arrived)
  <2>1. UnboundSocket \in SocketType /\ ~UnboundSocket.bound
    BY EmptySeq DEF UnboundSocket, SocketType
  <2>2. \A i \in UdpIds : usock[i] = UnboundSocket
    OBVIOUS
  <2>3. usock \in [UdpIds -> SocketType]
    BY <2>1
  <2> QED BY <2>1, <2>2, <2>3 DEF SocketsSound
<1>3. QueuesGenuine
  BY DEF QueuesGenuine, UnboundSocket
<1>4. HeldByOne
  BY DEF HeldByOne, ClientCall, NoCall, UnboundSocket
<1>5. AnswersFit
  BY DEF AnswersFit
<1>6. CacheSound(arp, now)
  BY DEF CacheSound, NoEntry, EntryType
<1> QED BY <1>1, <1>2, <1>3, <1>4, <1>5, <1>6 DEF UInv

\* A datagram, an echo reply, an ARP frame or a timer: net_poll and its clock.
LEMMA PollStep ==
    ASSUME UInv,
           \/ \E d \in Incoming : ReceiveUdp(d)
           \/ \E a \in asked : ReceiveEchoReply(a)
           \/ \E h \in Hosts : ReceiveArp(h)
           \/ ArpAgeTimer \/ Tick
    PROVE  UInv'
<1> USE DEF UInv
<1>1. CASE \E d \in Incoming : ReceiveUdp(d)
  <2>1. PICK d \in Incoming : ReceiveUdp(d)
    BY <1>1
  <2>2. d \in DatagramType /\ d.n = arrived /\ Genuine(d, asked) /\ d.src \in Hosts
    BY IncomingGenuine DEF DatagramType
  <2>3. /\ UdpEnqueue(d) /\ arrived' = arrived + 1 /\ arp' = ArpCacheUpdate(arp, d.src)
        /\ UNCHANGED <<now, ucall, uowned, asked, cfg, last>>
    BY <2>1 DEF ReceiveUdp
  <2>4. arrived \in Nat /\ now \in Nat
    BY DEF UdpTypes
  <2>5. /\ SocketsSound(usock', arrived')
        /\ \A j \in UdpIds : usock'[j].bound <=> usock[j].bound
        /\ \A j \in UdpIds : \A n \in DOMAIN usock'[j].q :
             \/ usock'[j].q[n] = d
             \/ \E k \in DOMAIN usock[j].q : usock'[j].q[n] = usock[j].q[k]
    BY <2>2, <2>3, <2>4, EnqueueSound
  <2>6. gq' \in [1 .. GlobalSlots -> DatagramType \cup {Nothing}]
    BY <2>2, <2>3 DEF UdpEnqueue, UdpTypes
  <2>7. UdpTypes'
    BY <2>3, <2>6 DEF UdpTypes
  <2>8. QueuesGenuine'
    BY <2>2, <2>3, <2>5, QueuesStay
  <2>9. HeldByOne'
    BY <2>3, <2>5 DEF HeldByOne, ClientCall
  <2>10. AnswersFit' /\ CacheSound(arp', now')
    BY <2>2, <2>3, <2>4, AnswersStay, ArpUpdateSound
  <2> QED BY <2>5, <2>7, <2>8, <2>9, <2>10
<1>2. CASE \E a \in asked : ReceiveEchoReply(a)
  <2>1. PICK a \in asked : ReceiveEchoReply(a)
    BY <1>2
  <2>2. /\ a.op = "echo" /\ arrived' = arrived + 1 /\ arp' = ArpCacheUpdate(arp, a.host)
        /\ UNCHANGED <<usock, gq, now, ucall, uowned, asked, cfg, last>>
    BY <2>1 DEF ReceiveEchoReply
  <2>3. a.host \in Hosts /\ arrived \in Nat /\ now \in Nat
    BY <2>2 DEF UdpTypes, AskedType
  <2>4. SocketsSound(usock', arrived')
    <3>1. \A i \in UdpIds : usock[i].bound => QueueSound(usock[i], arrived')
      BY <2>2, <2>3, LaterSound
    <3> QED BY <2>2, <3>1 DEF SocketsSound
  <2>5. UdpTypes' /\ QueuesGenuine' /\ HeldByOne'
    BY <2>2 DEF UdpTypes, QueuesGenuine, Genuine, HeldByOne, ClientCall
  <2>6. AnswersFit' /\ CacheSound(arp', now')
    BY <2>2, <2>3, AnswersStay, ArpUpdateSound
  <2> QED BY <2>4, <2>5, <2>6
<1>3. CASE (\E h \in Hosts : ReceiveArp(h)) \/ ArpAgeTimer
  <2>1. /\ \/ \E h \in Hosts : arp' = ArpCacheUpdate(arp, h)
           \/ arp' = ArpDropExpired(arp)
        /\ UNCHANGED <<usock, gq, arrived, now, ucall, uowned, asked, cfg, last>>
    BY <1>3 DEF ReceiveArp, ArpAgeTimer
  <2>2. CacheSound(arp', now')
    BY <2>1, ArpUpdateSound, ArpDropSound DEF UdpTypes
  <2>3. UdpTypes' /\ QueuesGenuine' /\ HeldByOne' /\ AnswersFit'
    BY <2>1 DEF UdpTypes, QueuesGenuine, Genuine, HeldByOne, ClientCall, AnswersFit
  <2>4. SocketsSound(usock', arrived')
    BY <2>1
  <2> QED BY <2>2, <2>3, <2>4
<1>4. CASE Tick
  <2>1. /\ now' = now + 1
        /\ UNCHANGED <<usock, gq, arp, arrived, ucall, uowned, asked, cfg, last>>
    BY <1>4 DEF Tick
  <2>2. CacheSound(arp', now')
    <3>1. \A n \in 1 .. ArpSlots : arp[n] \in EntryType /\ arp[n].seen \in Nat
      BY DEF CacheSound, EntryType
    <3> QED BY <2>1, <3>1 DEF CacheSound, UdpTypes
  <2>3. UdpTypes' /\ QueuesGenuine' /\ HeldByOne' /\ AnswersFit'
    BY <2>1 DEF UdpTypes, QueuesGenuine, Genuine, HeldByOne, ClientCall, AnswersFit
  <2>4. SocketsSound(usock', arrived')
    BY <2>1
  <2> QED BY <2>2, <2>3, <2>4
<1> QED BY <1>1, <1>2, <1>3, <1>4

\* A program binds, closes or reads a socket, or a command takes from the shared queue.
LEMMA ProgramStep ==
    ASSUME UInv,
           \/ \E p \in UserPorts : UserBind(p) \/ \E e \in BOOLEAN : ListenTakes(p, e)
           \/ \E i \in UdpIds : UserClose(i) \/ UserRecv(i)
    PROVE  UInv'
<1> USE DEF UInv
<1>0. arrived \in Nat /\ now \in Nat /\ uowned \subseteq UdpIds /\ ucall \in CallType
  BY DEF UdpTypes
<1>1. CASE \E p \in UserPorts : UserBind(p)
  <2>1. PICK p \in UserPorts : UserBind(p)
    BY <1>1
  <2> DEFINE f == Least(FreeSockets)
  <2>2. /\ MayBind(p) /\ ucall = NoCall /\ usock' = UdpBind(p) /\ uowned' = uowned \cup {f}
        /\ UNCHANGED <<gq, arp, cfg, now, ucall, asked, arrived, last>>
    BY <2>1 DEF UserBind
  <2>3. p \in Int
    BY UdpAssumption
  <2>4. /\ SocketsSound(usock', arrived') /\ f \in FreeSockets
        /\ \A i \in UdpIds : usock'[i].bound <=> usock[i].bound \/ i = f
        /\ \A i \in UdpIds : usock'[i].q = usock[i].q \/ usock'[i].q = <<>>
    BY <1>0, <2>2, <2>3, BindSound
  <2> HIDE DEF f
  <2>5. f \in UdpIds
    BY <2>4 DEF FreeSockets
  <2>6. QueuesGenuine'
    BY <2>2, <2>4, QueuesStay
  <2>7. HeldByOne'
    BY <1>0, <2>2, <2>4, <2>5, CallFacts DEF HeldByOne, ClientCall
  <2>8. UdpTypes' /\ AnswersFit' /\ CacheSound(arp', now')
    BY <2>2, <2>5, AnswersStay DEF UdpTypes
  <2> QED BY <2>4, <2>6, <2>7, <2>8
<1>2. CASE \E p \in UserPorts, e \in BOOLEAN : ListenTakes(p, e)
  <2>1. PICK p \in UserPorts, e \in BOOLEAN : ListenTakes(p, e)
    BY <1>2
  <2> DEFINE n == Least(GlobalFor(p))
  <2>2. /\ GlobalFor(p) # {} /\ gq' = [gq EXCEPT ![n] = Nothing]
        /\ arp' = Resolved(gq[n].src) \/ arp' = arp
        /\ UNCHANGED <<usock, cfg, now, ucall, uowned, asked, arrived, last>>
    BY <2>1 DEF ListenTakes
  <2>3. n \in 1 .. GlobalSlots /\ gq[n] # Nothing
    <3>1. GlobalFor(p) \subseteq Nat
      BY DEF GlobalFor
    <3> QED BY <2>2, <3>1, LeastFact DEF GlobalFor
  <2> HIDE DEF n
  <2>4. gq[n] \in DatagramType
    BY <2>3 DEF UdpTypes
  <2>5. gq[n].src \in Hosts
    BY <2>4 DEF DatagramType
  <2>6. CacheSound(arp', now')
    BY <1>0, <2>2, <2>5, ResolvedSound
  <2>7. UdpTypes' /\ QueuesGenuine' /\ HeldByOne' /\ AnswersFit'
    BY <2>2 DEF UdpTypes, QueuesGenuine, HeldByOne, ClientCall, AnswersFit
  <2> QED BY <2>2, <2>6, <2>7
<1>3. CASE \E i \in UdpIds : UserClose(i)
  <2>1. PICK i \in UdpIds : UserClose(i)
    BY <1>3
  <2>2. /\ ucall = NoCall /\ i \in uowned /\ usock' = UdpClose(usock, i) /\ uowned' = uowned \ {i}
        /\ UNCHANGED <<gq, arp, cfg, now, ucall, asked, arrived, last>>
    BY <2>1 DEF UserClose
  <2>3. /\ SocketsSound(usock', arrived')
        /\ \A j \in UdpIds : usock'[j].bound <=> usock[j].bound /\ j # i
        /\ \A j \in UdpIds : usock'[j].q = usock[j].q
    BY <2>2, CloseSound
  <2>4. QueuesGenuine'
    BY <2>2, <2>3, QueuesStay
  <2>5. HeldByOne'
    BY <1>0, <2>2, <2>3, CallFacts DEF HeldByOne, ClientCall
  <2>6. UdpTypes' /\ AnswersFit' /\ CacheSound(arp', now')
    BY <2>2, AnswersStay DEF UdpTypes
  <2> QED BY <2>3, <2>4, <2>5, <2>6
<1>4. CASE \E i \in UdpIds : UserRecv(i)
  <2>1. PICK i \in UdpIds : UserRecv(i)
    BY <1>4
  <2>2. /\ usock[i].q # <<>> /\ usock' = UdpTake(i)
        /\ UNCHANGED <<gq, arp, cfg, now, ucall, uowned, asked, arrived, last>>
    BY <2>1 DEF UserRecv
  <2>3. /\ SocketsSound(usock', arrived')
        /\ \A j \in UdpIds : usock'[j].bound <=> usock[j].bound
        /\ \A j \in UdpIds : \A n \in DOMAIN usock'[j].q :
             \E k \in DOMAIN usock[j].q : usock'[j].q[n] = usock[j].q[k]
    BY <2>2, TakeSound
  <2>4. QueuesGenuine'
    BY <2>2, <2>3, QueuesStay
  <2>5. UdpTypes' /\ HeldByOne' /\ AnswersFit' /\ CacheSound(arp', now')
    BY <2>2, <2>3, AnswersStay DEF UdpTypes, HeldByOne, ClientCall
  <2> QED BY <2>3, <2>4, <2>5
<1> QED BY <1>1, <1>2, <1>3, <1>4

\* A call that ends closes its socket and leaves the programs theirs.
LEMMA EndsSound ==
    ASSUME UInv, ClientCall, NEW r, Ends(ucall.id, r), UNCHANGED <<uowned, asked, arrived>>
    PROVE  SocketsSound(usock', arrived') /\ QueuesGenuine' /\ HeldByOne' /\ ucall' \in CallType
<1> USE DEF UInv
<1>1. ucall.id \in UdpIds /\ usock' = UdpClose(usock, ucall.id) /\ ucall' = NoCall
  BY CallFacts DEF Ends, UdpTypes
<1>2. /\ SocketsSound(usock', arrived')
      /\ \A j \in UdpIds : usock'[j].bound <=> usock[j].bound /\ j # ucall.id
      /\ \A j \in UdpIds : usock'[j].q = usock[j].q
  BY <1>1, CloseSound
<1>3. QueuesGenuine'
  BY <1>2, QueuesStay
<1>4. HeldByOne'
  BY <1>1, <1>2 DEF HeldByOne, ClientCall, NoCall
<1> QED BY <1>1, <1>2, <1>3, <1>4 DEF CallType

\* The resolver: a socket for the query, answers skipped or taken, the spin limit.
LEMMA ResolverStep ==
    ASSUME UInv, (\E name \in Names, s \in BOOLEAN : DnsStart(name, s)) \/ DnsTakes \/ WaitEnds
    PROVE  UInv'
<1> USE DEF UInv
<1>0. arrived \in Nat /\ now \in Nat /\ uowned \subseteq UdpIds /\ ucall \in CallType
  BY DEF UdpTypes
<1>1. CASE \E name \in Names, s \in BOOLEAN : DnsStart(name, s)
  <2>1. PICK name \in Names, s \in BOOLEAN : DnsStart(name, s)
    BY <1>1
  <2> DEFINE f == Least(FreeSockets)
             p == Least(EphPorts)
             query == [op |-> "dns", port |-> p, id |-> now, name |-> name]
  <2>2. /\ FreeSockets # {} /\ EphPorts # {} /\ ucall = NoCall
        /\ UNCHANGED <<gq, cfg, now, uowned, arrived>>
    BY <2>1 DEF DnsStart
  <2>3. p \in EphPorts /\ p \in Int
    <3>1. EphPorts \subseteq Nat
      BY <1>0, UdpAssumption DEF EphPorts
    <3>2. Least(EphPorts) \in EphPorts
      BY <2>2, <3>1, LeastFact
    <3> HIDE DEF p
    <3>3. p \in EphPorts
      BY <3>2 DEF p
    <3> QED BY ONLY <3>1, <3>3
  <2>4. MayBind(p)
    BY <2>2, <2>3 DEF MayBind, EphPorts
  <2>5. /\ SocketsSound(UdpBind(p), arrived) /\ f \in FreeSockets
        /\ \A i \in UdpIds : UdpBind(p)[i].bound <=> usock[i].bound \/ i = f
        /\ \A i \in UdpIds : UdpBind(p)[i].q = usock[i].q \/ UdpBind(p)[i].q = <<>>
    BY <1>0, <2>3, <2>4, BindSound
  <2>6. f \in UdpIds /\ ~usock[f].bound
    BY <2>5 DEF FreeSockets
  <2>7. CASE s
    <3>1. /\ usock' = UdpBind(p) /\ arp' = Resolved(DnsHost)
          /\ asked' = asked \cup {query}
          /\ ucall' = [op |-> "dns", id |-> f, tx |-> now, name |-> name]
          /\ UNCHANGED last
      BY <2>1, <2>7 DEF DnsStart
    <3> HIDE DEF p, f
    <3>2. query \in AskedType /\ ucall' \in CallType
      BY <1>0, <2>3, <2>6, <3>1 DEF AskedType, CallType
    <3> HIDE DEF query
    <3>3. UdpTypes'
      BY <2>2, <3>1, <3>2 DEF UdpTypes
    <3>4. QueuesGenuine'
      BY <2>5, <3>1, QueuesStay
    <3>5. HeldByOne'
      BY <1>0, <2>2, <2>5, <2>6, <3>1, CallFacts DEF HeldByOne, ClientCall
    <3>6. AnswersFit' /\ CacheSound(arp', now')
      BY <1>0, <2>2, <3>1, AnswersStay, ResolvedSound, UdpAssumption
    <3> QED BY <2>2, <2>5, <3>1, <3>3, <3>4, <3>5, <3>6
  <2>8. CASE ~s
    <3>1. /\ usock' = UdpClose(UdpBind(p), f) /\ last' = [op |-> "dns", ok |-> FALSE]
          /\ UNCHANGED <<arp, asked, ucall>>
      BY <2>1, <2>8 DEF DnsStart
    <3> HIDE DEF p, f
    <3>2. /\ SocketsSound(usock', arrived')
          /\ \A j \in UdpIds : usock'[j].bound <=> UdpBind(p)[j].bound /\ j # f
          /\ \A j \in UdpIds : usock'[j].q = UdpBind(p)[j].q
      BY <2>2, <2>5, <2>6, <3>1, CloseSound
    <3>3. QueuesGenuine'
      BY <2>5, <3>1, <3>2, QueuesStay
    <3>4. HeldByOne'
      BY <2>2, <2>5, <2>6, <3>1, <3>2 DEF HeldByOne, ClientCall
    <3>5. AnswersFit' /\ UdpTypes' /\ CacheSound(arp', now')
      BY <2>2, <3>1 DEF AnswersFit, UdpTypes
    <3> QED BY <3>2, <3>3, <3>4, <3>5
  <2> QED BY <2>7, <2>8
<1>2. CASE DnsTakes
  <2> DEFINE i == ucall.id
             d == Head(usock[i].q)
  <2>1. /\ ucall.op = "dns" /\ usock[i].q # <<>>
        /\ UNCHANGED <<gq, arp, cfg, now, uowned, asked, arrived>>
    BY <1>2 DEF DnsTakes
  <2>2. ClientCall /\ i \in UdpIds
    BY <1>0, <2>1, CallFacts DEF ClientCall
  <2>3. d \in DatagramType /\ Genuine(d, asked)
    BY <2>1, <2>2, HeadFact
  <2>4. CASE IsAnswer(d)
    <3> DEFINE r == [op |-> "dns", ok |-> d.kind = "answer", name |-> ucall.name,
                     answer |-> d.data, tx |-> ucall.tx]
    <3>1. Ends(i, r)
      BY <1>2, <2>4 DEF DnsTakes
    <3>2. last' = r
      BY <3>1 DEF Ends
    <3>3. SocketsSound(usock', arrived') /\ QueuesGenuine' /\ HeldByOne' /\ ucall' \in CallType
      <4> HIDE DEF r
      <4> QED BY <2>1, <2>2, <3>1, EndsSound
    <3>4. AnswersFit'
      <4>1. last'.op = "dns" /\ last'.ok => \E a \in asked : a.op = "dns" /\ a.id = last'.tx
                                                           /\ a.name = last'.answer
        BY <2>3, <2>4, <3>2 DEF IsAnswer, Genuine
      <4> QED BY <2>1, <4>1 DEF AnswersFit
    <3> QED BY <2>1, <3>3, <3>4 DEF UdpTypes
  <2>5. CASE ~IsAnswer(d)
    <3>1. usock' = UdpTake(i) /\ UNCHANGED <<ucall, last>>
      BY <1>2, <2>5 DEF DnsTakes
    <3> HIDE DEF i, d
    <3>2. /\ SocketsSound(usock', arrived')
          /\ \A j \in UdpIds : usock'[j].bound <=> usock[j].bound
          /\ \A j \in UdpIds : \A n \in DOMAIN usock'[j].q :
               \E k \in DOMAIN usock[j].q : usock'[j].q[n] = usock[j].q[k]
      BY <2>1, <2>2, <3>1, TakeSound
    <3>3. QueuesGenuine'
      BY <2>1, <3>2, QueuesStay
    <3>4. UdpTypes' /\ HeldByOne' /\ AnswersFit' /\ CacheSound(arp', now')
      BY <2>1, <3>1, <3>2, AnswersStay DEF UdpTypes, HeldByOne, ClientCall
    <3> QED BY <3>2, <3>3, <3>4
  <2> QED BY <2>4, <2>5
<1>3. CASE WaitEnds
  <2> DEFINE r == [op |-> ucall.op, ok |-> FALSE]
  <2>1. /\ ClientCall /\ Ends(ucall.id, r)
        /\ UNCHANGED <<gq, arp, cfg, now, uowned, asked, arrived>>
    BY <1>3 DEF WaitEnds, ClientCall
  <2>2. last' = r
    BY <2>1 DEF Ends
  <2>3. AnswersFit'
    BY <2>1, <2>2 DEF AnswersFit
  <2> HIDE DEF r
  <2>4. SocketsSound(usock', arrived') /\ QueuesGenuine' /\ HeldByOne' /\ ucall' \in CallType
    BY <2>1, EndsSound
  <2> QED BY <2>1, <2>3, <2>4 DEF UdpTypes
<1> QED BY <1>1, <1>2, <1>3

\* The DHCP client: its port, messages skipped, the offer requested, the
\* acknowledgement taken.
LEMMA DhcpStep ==
    ASSUME UInv, DhcpStart \/ DhcpTakes
    PROVE  UInv'
<1> USE DEF UInv
<1>0. arrived \in Nat /\ now \in Nat /\ uowned \subseteq UdpIds /\ ucall \in CallType
  BY DEF UdpTypes
<1>1. CASE DhcpStart
  <2> DEFINE f == Least(FreeSockets)
             message == [op |-> "discover", id |-> now]
  <2>1. /\ ucall = NoCall /\ MayBind(DhcpPort) /\ usock' = UdpBind(DhcpPort)
        /\ asked' = asked \cup {message}
        /\ ucall' = [op |-> "discover", id |-> f, tx |-> now]
        /\ UNCHANGED <<gq, arp, cfg, now, uowned, arrived, last>>
    BY <1>1 DEF DhcpStart
  <2>2. DhcpPort \in Int
    BY UdpAssumption DEF DhcpPort
  <2>3. /\ SocketsSound(usock', arrived') /\ f \in FreeSockets
        /\ \A i \in UdpIds : usock'[i].bound <=> usock[i].bound \/ i = f
        /\ \A i \in UdpIds : usock'[i].q = usock[i].q \/ usock'[i].q = <<>>
    BY <1>0, <2>1, <2>2, BindSound
  <2> HIDE DEF f
  <2>4. f \in UdpIds /\ ~usock[f].bound
    BY <2>3 DEF FreeSockets
  <2>5. message \in AskedType /\ ucall' \in CallType
    BY <1>0, <2>1, <2>4 DEF AskedType, CallType
  <2> HIDE DEF message
  <2>6. UdpTypes'
    BY <2>1, <2>5 DEF UdpTypes
  <2>7. QueuesGenuine'
    BY <2>1, <2>3, QueuesStay
  <2>8. HeldByOne'
    BY <1>0, <2>1, <2>3, <2>4, CallFacts DEF HeldByOne, ClientCall
  <2>9. AnswersFit' /\ CacheSound(arp', now')
    BY <2>1, AnswersStay
  <2> QED BY <2>3, <2>6, <2>7, <2>8, <2>9
<1>2. CASE DhcpTakes
  <2> DEFINE i == ucall.id
             d == Head(usock[i].q)
             u == UdpTake(i)
  <2>1. /\ ucall.op \in {"discover", "request"} /\ usock[i].q # <<>>
        /\ UNCHANGED <<gq, arp, now, uowned, arrived>>
    BY <1>2 DEF DhcpTakes
  <2>2. /\ ClientCall /\ i \in UdpIds /\ ucall.tx \in Nat
        /\ ucall \in [op : {"discover", "request"}, id : UdpIds, tx : Nat]
    BY <1>0, <2>1, CallFacts DEF ClientCall
  <2>3. d \in DatagramType /\ Genuine(d, asked)
    BY <2>1, <2>2, HeadFact
  <2>4. /\ SocketsSound(u, arrived)
        /\ \A j \in UdpIds : u[j].bound <=> usock[j].bound
        /\ \A j \in UdpIds : \A n \in DOMAIN u[j].q :
             \E k \in DOMAIN usock[j].q : u[j].q[n] = usock[j].q[k]
    BY <2>1, <2>2, TakeSound
  <2>5. CASE ~Expected(d)
    <3>1. usock' = u /\ UNCHANGED <<ucall, asked, cfg, last>>
      BY <1>2, <2>5 DEF DhcpTakes
    <3> HIDE DEF i, d, u
    <3>2. QueuesGenuine'
      BY <2>4, <3>1, QueuesStay
    <3>3. UdpTypes' /\ HeldByOne' /\ AnswersFit' /\ CacheSound(arp', now')
      BY <2>1, <2>4, <3>1, AnswersStay DEF UdpTypes, HeldByOne, ClientCall
    <3> QED BY <2>1, <2>4, <3>1, <3>2, <3>3
  <2>6. CASE Expected(d) /\ d.kind = "offer"
    <3> DEFINE request == [op |-> "request", id |-> ucall.tx, server |-> d.src]
    <3>1. /\ usock' = u /\ asked' = asked \cup {request}
          /\ ucall' = [ucall EXCEPT !.op = "request"] /\ UNCHANGED <<cfg, last>>
      BY <1>2, <2>6 DEF DhcpTakes
    <3>2. request \in AskedType
      BY <2>2, <2>3 DEF AskedType, DatagramType
    <3> HIDE DEF d, u, request
    <3>3. /\ ucall' \in [op : {"discover", "request"}, id : UdpIds, tx : Nat]
          /\ ucall'.op = "request" /\ ucall'.id = ucall.id
      BY <2>2, <3>1
    <3>4. ucall' \in CallType
      BY <3>3 DEF CallType
    <3>5. QueuesGenuine'
      BY <2>4, <3>1, QueuesStay
    <3>6. HeldByOne'
      BY <2>1, <2>2, <2>4, <3>1, <3>3 DEF HeldByOne, ClientCall
    <3>7. UdpTypes' /\ AnswersFit' /\ CacheSound(arp', now')
      BY <2>1, <3>1, <3>2, <3>4, AnswersStay DEF UdpTypes
    <3> QED BY <2>1, <2>4, <3>1, <3>5, <3>6, <3>7
  <2>7. CASE Expected(d) /\ d.kind # "offer"
    <3>1. /\ cfg' = [server |-> d.src, tx |-> ucall.tx] /\ usock' = UdpClose(u, i)
          /\ ucall' = NoCall /\ last' = [op |-> "dhcp", ok |-> TRUE] /\ UNCHANGED asked
      BY <1>2, <2>7 DEF DhcpTakes
    <3>2. d.kind = "ack" /\ d.id = ucall.tx
      BY <2>7 DEF Expected
    <3>3. [op |-> "request", id |-> cfg'.tx, server |-> cfg'.server] \in asked'
      BY <2>3, <3>1, <3>2 DEF Genuine
    <3>4. AnswersFit'
      BY <3>1, <3>3 DEF AnswersFit
    <3> HIDE DEF d, u
    <3>5. /\ SocketsSound(usock', arrived)
          /\ \A j \in UdpIds : usock'[j].bound <=> u[j].bound /\ j # i
          /\ \A j \in UdpIds : usock'[j].q = u[j].q
      BY <2>2, <2>4, <3>1, CloseSound
    <3>6. QueuesGenuine'
      BY <2>4, <3>1, <3>5, QueuesStay
    <3>7. HeldByOne'
      BY <2>1, <2>2, <2>4, <3>1, <3>5 DEF HeldByOne, ClientCall, NoCall
    <3>8. UdpTypes' /\ CacheSound(arp', now')
      BY <2>1, <3>1 DEF UdpTypes, CallType
    <3> QED BY <2>1, <3>4, <3>5, <3>6, <3>7, <3>8
  <2> QED BY <2>5, <2>6, <2>7
<1> QED BY <1>1, <1>2

\* ping holds no socket.
LEMMA PingStep ==
    ASSUME UInv, (\E h \in Hosts, s \in 1 .. 2 : PingStart(h, s)) \/ PingReplied \/ PingTimeout
    PROVE  UInv'
<1> USE DEF UInv
<1>0. arrived \in Nat /\ now \in Nat /\ ucall \in CallType
  BY DEF UdpTypes
<1>1. CASE \E h \in Hosts, s \in 1 .. 2 : PingStart(h, s)
  <2>1. PICK h \in Hosts, s \in 1 .. 2 : PingStart(h, s)
    BY <1>1
  <2> DEFINE request == [op |-> "echo", host |-> h, seq |-> s]
  <2>2. /\ ucall = NoCall /\ arp' = Resolved(h) /\ asked' = asked \cup {request}
        /\ ucall' = [op |-> "ping", host |-> h, seq |-> s]
        /\ UNCHANGED <<usock, gq, cfg, now, uowned, arrived, last>>
    BY <2>1 DEF PingStart
  <2>3. request \in AskedType /\ ucall' \in CallType
    BY <2>2 DEF AskedType, CallType
  <2> HIDE DEF request
  <2>4. ~ClientCall /\ ~ClientCall'
    BY <2>2 DEF ClientCall, NoCall
  <2>5. HeldByOne'
    BY <2>2, <2>4 DEF HeldByOne
  <2>6. QueuesGenuine'
    BY <2>2, QueuesStay
  <2>7. UdpTypes' /\ AnswersFit' /\ CacheSound(arp', now')
    BY <1>0, <2>2, <2>3, AnswersStay, ResolvedSound DEF UdpTypes
  <2> QED BY <2>2, <2>5, <2>6, <2>7
<1>2. CASE PingReplied \/ PingTimeout
  <2>1. /\ ucall.op = "ping" /\ ucall' = NoCall
        /\ last' = last \/ last'.op = "ping"
        /\ UNCHANGED <<usock, gq, arp, cfg, now, uowned, asked, arrived>>
    BY <1>2 DEF PingReplied, PingTimeout
  <2>2. ~ClientCall /\ ~ClientCall'
    BY <2>1 DEF ClientCall, NoCall
  <2>3. UdpTypes' /\ QueuesGenuine' /\ HeldByOne' /\ CacheSound(arp', now')
    BY <2>1, <2>2 DEF UdpTypes, CallType, QueuesGenuine, HeldByOne
  <2>4. AnswersFit'
    BY <2>1 DEF AnswersFit
  <2> QED BY <2>1, <2>3, <2>4
<1> QED BY <1>1, <1>2

\* Every step of the datagram half keeps the invariant.
LEMMA UdpInductive ==
    ASSUME UInv, [UdpNext]_uvars
    PROVE  UInv'
<1>1. CASE UdpNext
  BY <1>1, PollStep, ProgramStep, ResolverStep, DhcpStep, PingStep DEF UdpNext, Waiting
<1>2. CASE UNCHANGED uvars
  BY <1>2 DEF uvars, UInv, UdpTypes, QueuesGenuine, HeldByOne, ClientCall, AnswersFit
<1> QED BY <1>1, <1>2

\* What the invariant says of sockets, calls and addresses.
LEMMA UdpMeaning ==
    ASSUME UInv
    PROVE  DatagramsSound /\ NoSocketLeft
<1>1. UdpRouting
  BY DEF UInv, SocketsSound, QueueSound, UdpRouting
<1>2. AnswersFit /\ ArpSound
  BY DEF UInv, CacheSound, ArpSound
<1>3. NoSocketLeft
  <2>1. uowned \subseteq UdpIds /\ (ClientCall => ucall.id \in UdpIds)
    BY CallFacts DEF UInv, UdpTypes
  <2>2. \A i \in UdpIds : usock[i].bound <=> i \in uowned \/ (ClientCall /\ i = ucall.id)
    BY DEF UInv, HeldByOne
  <2> QED BY <2>1, <2>2 DEF NoSocketLeft, ClientCall
<1> QED BY <1>1, <1>2, <1>3 DEF DatagramsSound

-----------------------------------------------------------------------------
\* Both halves of the invariant hold as long as the stack runs: a step is one of
\* either half and leaves the variables of the other alone.
LEMMA NetInductive ==
    /\ NetInit => TcpInv /\ UInv
    /\ TcpInv /\ UInv /\ [NetNext]_<<vars, uvars>> => TcpInv' /\ UInv'
<1>1. NetInit => TcpInv /\ UInv
  BY TcpInitially, UdpInitially DEF NetInit
<1>2. ASSUME TcpInv, UInv, [NetNext]_<<vars, uvars>>
      PROVE  TcpInv' /\ UInv'
  <2>1. Next \/ UNCHANGED vars
    BY <1>2 DEF NetNext
  <2>2. [UdpNext]_uvars
    BY <1>2 DEF NetNext
  <2> QED BY <1>2, <2>1, <2>2, TcpInductive, UdpInductive
<1> QED BY <1>1, <1>2

\* For every number of sockets, queue slots, cache entries, hosts and names: a
\* datagram reaches the socket bound to its port, in order and none from before
\* the bind; the resolver and the DHCP client return only what was answered to a
\* question of theirs; the ARP cache has one entry for an address.
THEOREM DatagramsStaySound == NetSpec => []DatagramsSound
<1>1. TcpInv /\ UInv => DatagramsSound
  BY UdpMeaning
<1> QED BY <1>1, NetInductive, PTL DEF NetSpec

\* For every number of sockets, timer slots and places in a backlog, and whatever
\* the peers and the wire do: a socket in use and its timer slot agree, no cancel
\* stops the ageing of the ARP cache, a queued connection is in use, in one backlog
\* and nobody's yet; and every way out of a UDP call closes its socket.
THEOREM SocketsStayHeld == NetSpec => []SocketsHeld
<1>1. TcpInv /\ UInv => SocketsHeld
  BY TcpMeaning, UdpMeaning DEF SocketsHeld
<1> QED BY <1>1, NetInductive, PTL DEF NetSpec

\* The invariant of the connections holds as long as the stack runs, where their
\* numbers fit.
LEMMA StreamsInductive ==
    ASSUME NumbersFit
    PROVE  /\ NetInit => ConnInv
           /\ ConnInv /\ [NetNext]_<<vars, uvars>> => ConnInv'
<1>1. NetInit => ConnInv
  BY TcpInitially, StreamInitially DEF NetInit, ConnInv
<1>2. [NetNext]_<<vars, uvars>> => Next \/ UNCHANGED vars
  BY DEF NetNext
<1> QED BY <1>1, <1>2, StreamInductive

\* For every number of sockets, timer slots and places, and whatever the wire loses,
\* repeats or reorders, whichever sends fail and whatever the peers do: what recv has
\* returned and then what is queued are the first bytes of the peer's stream, each
\* once, the ACK of an open connection covers exactly those, and a peer on whose
\* connection no send failed has taken the first of our sends.
THEOREM StreamsStayInOrder == ASSUME NumbersFit PROVE NetSpec => []StreamsInOrder
<1>1. ConnInv => StreamsInOrder
  BY StreamMeaning DEF StreamsInOrder
<1> QED BY <1>1, StreamsInductive, PTL DEF NetSpec

\* Under the same conditions: as long as an opening is not answered, or the peer of
\* a connection on which no send failed has not got what was sent to it, the last
\* segment is armed.
THEOREM UnackedStaysArmed == ASSUME NumbersFit PROVE NetSpec => []UnackedArmed
<1>1. ConnInv => UnackedArmed
  BY StreamMeaning
<1> QED BY <1>1, StreamsInductive, PTL DEF NetSpec
=============================================================================
