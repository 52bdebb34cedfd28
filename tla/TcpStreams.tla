----------------------------- MODULE TcpStreams -----------------------------
(***************************************************************************)
(* What is proved about the connections of Tcp: that both directions are   *)
(* prefixes of what was sent, and that what is not acknowledged is armed.  *)
(***************************************************************************)
EXTENDS TcpProofs

(***************************************************************************)
(* Numbers.  Opening k has the sequence numbers from Base(k) on, and the   *)
(* next one starts only after all a connection can send.                   *)
(***************************************************************************)
Base(k) == OurIsn + Stride * k
Within(n, k) == Base(k) <= n /\ n < Base(k) + Stride
Of(n) == CHOOSE k \in Nat : Within(n, k)

\* The longest payload of a send.
Longest ==
    CHOOSE n \in Nat \ {0} :
        /\ SendLens \subseteq 1 .. n
        /\ \A k \in Nat \ {0} : SendLens \subseteq 1 .. k => n <= k

\* Our numbers do not wrap, an opening's fit between it and the next, and the
\* stream of a peer is shorter than the numbers there are.
NumbersFit ==
    /\ Longest \in Nat \ {0} /\ SendLens \subseteq 1 .. Longest
    /\ Longest * MaxSends + 3 <= Stride
    /\ OurIsn + Stride * MaxOpens < SeqMod
    /\ PeerBytes < SeqMod

(***************************************************************************)
(* The invariant.                                                          *)
(***************************************************************************)
Plain(c) == {m \in out[c] : "SYN" \notin m.flags}
Greeted(c) == peer[c].acks # {}
Opened(i) == sock[i].state # "CLOSED"
Greeting(i) == sock[i].state \in {"SYN_SENT", "SYN_RECEIVED"}
Synced(i) == sock[i].state \in {"ESTABLISHED", "FIN_WAIT"}

\* The opening of a socket is the one its peer has taken part in.
Home(i) == Greeted(sock[i].conn) /\ Of(sock[i].seq) = Of(peer[sock[i].conn].rcv)

Numbered(n) == n \in Nat /\ Of(n) \in 0 .. opens - 1 /\ Within(n, Of(n))

\* No two sockets have the same opening.
OpeningsOK ==
    /\ opens \in 0 .. MaxOpens /\ sends \in 0 .. MaxSends
    /\ call.op = "tcpsend" => sends > 0
    /\ \A i \in Ids : Opened(i) => sock[i].conn \in Conns /\ Numbered(sock[i].seq)
    /\ \A i, j \in Ids : Opened(i) /\ Opened(j) /\ i # j => Of(sock[i].seq) # Of(sock[j].seq)

\* A peer acknowledges what it has received of one opening; before that nothing
\* but first segments were sent to it.
PeersGreeted ==
    \A c \in Conns :
      /\ peer[c].state \in {"start", "off", "syn", "listen"} => ~Greeted(c)
      /\ peer[c].state \in {"synrcvd", "est"} => Greeted(c)
      /\ ~Greeted(c) => peer[c].in = <<>> /\ sent[c] = <<>> /\ Plain(c) = {}
      /\ Greeted(c) => /\ Numbered(peer[c].rcv)
                       /\ \A a \in peer[c].acks :
                            a \in Nat /\ Base(Of(peer[c].rcv)) < a /\ a <= peer[c].rcv

\* First segments start an opening; all others are of the opening the peer has
\* taken part in.
SegmentsOK ==
    /\ DOMAIN out = Conns
    /\ \A c \in Conns : \A m \in out[c] :
      /\ m.seq \in Nat /\ m.len \in Nat
      /\ "SYN" \in m.flags => m.len = 0 /\ Numbered(m.seq) /\ m.seq = Base(Of(m.seq))
      /\ "SYN" \notin m.flags =>
           /\ EndOf(m) \in Nat /\ m.seq > Base(Of(peer[c].rcv)) /\ m.seq <= EndOf(m)
           /\ EndOf(m) < Base(Of(peer[c].rcv)) + Stride

\* The one-shot send has a byte still to come.
Pending(i) == IF i = 0 /\ call.op = "tcpsend" THEN 1 ELSE 0

\* While a handshake is not over, the peer has got nothing but its first segment;
\* after it, and until a send fails, the last segment is armed as long as the peer
\* has not got it.
GreetingOK(i) ==
    LET s == sock[i] IN
    /\ s.armed /\ s.seq = Base(Of(s.seq))
    /\ Home(i) => peer[s.conn].rcv = s.seq + 1 /\ Plain(s.conn) = {}

CurrentOK(i) ==
    LET s == sock[i] IN
    /\ peer[s.conn].rcv <= s.seq
    /\ \A m \in Plain(s.conn) : EndOf(m) <= s.seq
    /\ s.armed => EndOf(s.last) = s.seq
    /\ ~s.armed => peer[s.conn].rcv = s.seq

SyncedOK(i) ==
    LET s == sock[i] IN
    /\ Home(i) /\ s.seq > Base(Of(s.seq))
    /\ s.conn \notin failed => CurrentOK(i)
    /\ s.seq + Pending(i) <= Base(Of(s.seq)) + 1 + Longest * sends
                               + (IF s.state = "FIN_WAIT" THEN 1 ELSE 0)

SocketsOK ==
    \A i \in Ids : /\ Opened(i) /\ sock[i].armed => sock[i].last \in out[sock[i].conn]
                   /\ Greeting(i) => GreetingOK(i)
                   /\ Synced(i) => SyncedOK(i)

\* pos[k] is the number after the first k payloads sent to c.
Marks(c, pos) ==
    LET n == Len(sent[c])
        p == peer[c]
    IN  /\ pos \in [0 .. n -> Nat] /\ pos[0] = Base(Of(p.rcv)) + 1
        /\ \A a, b \in 0 .. n : a < b => pos[a] < pos[b]
        /\ \A m \in Plain(c) :
             \/ \E k \in 1 .. n : m.seq = pos[k - 1] /\ EndOf(m) = pos[k] /\ m.len > 0
                                   /\ m.data = sent[c][k]
             \/ m.len = 0 /\ EndOf(m) = m.seq
             \/ m.len = 0 /\ m.seq = pos[n] /\ EndOf(m) = pos[n] + 1
        /\ n > 0 => Plain(c) # {}
        /\ Len(p.in) <= n /\ \A k \in 1 .. Len(p.in) : p.in[k] = sent[c][k]
        /\ \/ p.rcv = pos[Len(p.in)]
           \/ p.rcv = pos[n] + 1 /\ Len(p.in) = n
        /\ \A i \in Ids : sock[i].state = "ESTABLISHED" /\ sock[i].conn = c => sock[i].seq = pos[n]

SendsOK ==
    /\ DOMAIN sent = Conns
    /\ \A c \in Conns : sent[c] \in Seq(Int)
    /\ \A c \in Conns \ failed : peer[c].in \in Seq(Int)
    /\ \A c \in Conns \ failed : Greeted(c) => \E pos : Marks(c, pos)

Has(q, c) == \E n \in 1 .. Len(q) : q[n].conn = c

\* The end of the stream of c after what the queue q and the programs have of it.
StreamEnd(q, c) ==
    IF q # <<>> /\ q[Len(q)].conn = c THEN q[Len(q)].data + q[Len(q)].len ELSE Len(got[c])

\* The packets of a connection are in one queue, one after the other, and go on
\* where the programs have got to.
Chained(q) ==
    \A n \in 1 .. Len(q) :
        q[n].data = IF n > 1 /\ q[n - 1].conn = q[n].conn
                    THEN q[n - 1].data + q[n - 1].len ELSE Len(got[q[n].conn])
Together(q) ==
    \A a, d, b \in 1 .. Len(q) : a <= d /\ d <= b /\ q[a].conn = q[b].conn => q[d].conn = q[a].conn

QueuesOK ==
    /\ DOMAIN got = Conns
    /\ \A c \in Conns : got[c] \in Seq(Int) /\ \A n \in 1 .. Len(got[c]) : got[c][n] = n - 1
    /\ \A i \in Ids : Chained(sock[i].rxq) /\ Together(sock[i].rxq)
    /\ \A c \in Conns, i, j \in Ids : Has(sock[i].rxq, c) /\ Has(sock[j].rxq, c) => i = j

Untouched(c) == got[c] = <<>> /\ \A i \in Ids : ~Has(sock[i].rxq, c)

StreamOK(i) ==
    LET c == sock[i].conn
        q == sock[i].rxq
    IN  /\ sock[i].state = "SYN_RECEIVED" => sock[i].ack = Plus(PeerIsn, 1)
        /\ Greeting(i) /\ Home(i) => Untouched(c)
        /\ Synced(i) =>
             /\ Has(q, c) => q[Len(q)].conn = c
             /\ \A j \in Ids : Has(sock[j].rxq, c) => j = i
             /\ StreamEnd(q, c) \in 0 .. peer[c].snd
             /\ sock[i].ack = Plus(PeerIsn, 1 + StreamEnd(q, c))

StreamsOK ==
    /\ \A c \in Conns : peer[c].snd <= PeerBytes /\ (~Greeted(c) => Untouched(c))
    /\ \A i \in Ids : StreamOK(i)

StreamInv ==
    OpeningsOK /\ PeersGreeted /\ SegmentsOK /\ SocketsOK /\ SendsOK /\ QueuesOK /\ StreamsOK

ConnInv == TcpInv /\ StreamInv

-----------------------------------------------------------------------------
\* A product grows with its factors.
LEMMA ProductFact ==
    ASSUME NEW a \in Nat, NEW b \in Nat, NEW s \in Nat, a <= b
    PROVE  s * a \in Nat /\ s * b \in Nat /\ s * a <= s * b
<1>1. PICK d \in Nat : b = a + d
  BY b - a \in Nat, b = a + (b - a)
<1>2. s * b = s * a + s * d /\ s * d \in Nat /\ s * a \in Nat
  BY <1>1
<1> QED BY <1>2

\* Openings follow one another.
LEMMA BaseFact ==
    ASSUME NumbersFit
    PROVE  /\ Stride \in Nat /\ Stride >= 3 /\ MaxOpens \in Nat /\ MaxSends \in Nat
           /\ \A k \in Nat : Base(k) \in Nat
           /\ \A k, l \in Nat : k < l => Base(k) + Stride <= Base(l)
           /\ Base(MaxOpens) < SeqMod /\ SeqMod \in Nat
<1>1. Stride \in Nat /\ OurIsn \in Nat /\ MaxOpens \in Nat /\ SeqMod \in Nat /\ MaxSends \in Nat
  BY TcpAssumption
<1>2. Longest * MaxSends \in Nat
  BY <1>1 DEF NumbersFit
<1>3. Stride >= 3
  BY <1>1, <1>2 DEF NumbersFit
<1>4. \A k \in Nat : Base(k) \in Nat
  BY <1>1 DEF Base
<1>5. ASSUME NEW k \in Nat, NEW l \in Nat, k < l PROVE Base(k) + Stride <= Base(l)
  <2>1. Stride * (k + 1) <= Stride * l
    BY <1>1, <1>5, ProductFact
  <2>2. Stride * (k + 1) = Stride * k + Stride
    BY <1>1
  <2>3. Stride * k \in Nat /\ Stride * l \in Nat
    BY <1>1
  <2> QED BY <1>1, <2>1, <2>2, <2>3 DEF Base
<1> QED BY <1>1, <1>3, <1>4, <1>5 DEF NumbersFit, Base

\* A number belongs to one opening.
LEMMA OfFact ==
    ASSUME NumbersFit, NEW n \in Int, NEW k \in Nat, Within(n, k)
    PROVE  Of(n) = k
<1>1. ASSUME NEW l \in Nat, Within(n, l) PROVE l = k
  <2>1. ~ (l < k) /\ ~ (k < l)
    <3>1. Base(l) \in Nat /\ Base(k) \in Nat /\ Stride \in Nat
      BY BaseFact
    <3>2. (k < l => Base(k) + Stride <= Base(l)) /\ (l < k => Base(l) + Stride <= Base(k))
      BY BaseFact
    <3> HIDE DEF Base
    <3> QED BY <1>1, <3>1, <3>2 DEF Within
  <2> QED BY <2>1
<1> HIDE DEF Within
<1>2. Of(n) \in Nat /\ Within(n, Of(n))
  BY DEF Of
<1> QED BY <1>1, <1>2

\* Sums that stay below SeqMod are taken as they are.
LEMMA SumFact ==
    ASSUME NEW a \in Nat, NEW b \in Nat, a + b < SeqMod
    PROVE  Plus(a, b) = a + b
BY TcpAssumption DEF Plus

\* What an opening's numbers are.
LEMMA NumberedFact ==
    ASSUME NumbersFit, opens \in 0 .. MaxOpens, NEW n, Numbered(n)
    PROVE  /\ n \in Nat /\ Of(n) \in Nat /\ Of(n) < opens /\ Base(Of(n)) \in Nat /\ Stride \in Nat
           /\ Base(Of(n)) <= n /\ n < Base(Of(n)) + Stride
           /\ Base(Of(n)) + Stride < SeqMod /\ SeqMod \in Nat
           /\ \A x \in Nat : Base(Of(n)) <= x /\ x < Base(Of(n)) + Stride =>
                Of(x) = Of(n) /\ Numbered(x)
<1> DEFINE k == Of(n)
<1>1. /\ n \in Nat /\ k \in 0 .. opens - 1 /\ k \in Nat /\ k < opens /\ k < MaxOpens
      /\ Within(n, k) /\ MaxOpens \in Nat /\ Stride \in Nat /\ SeqMod \in Nat
  BY BaseFact DEF Numbered
<1>2. Base(k) \in Nat /\ Base(MaxOpens) \in Nat /\ Base(k) + Stride <= Base(MaxOpens)
      /\ Base(MaxOpens) < SeqMod
  BY <1>1, BaseFact
<1>3. Base(k) <= n /\ n < Base(k) + Stride
  BY <1>1 DEF Within
<1>4. ASSUME NEW x \in Nat, Base(k) <= x, x < Base(k) + Stride
      PROVE  Of(x) = k /\ Numbered(x)
  <2>1. Within(x, k)
    BY <1>4 DEF Within
  <2>2. Of(x) = k
    BY <1>1, <2>1, OfFact
  <2> QED BY <1>1, <2>1, <2>2 DEF Numbered
<1> HIDE DEF k
<1>5. Base(k) + Stride < SeqMod
  BY <1>1, <1>2
<1> QED BY <1>1, <1>2, <1>3, <1>4, <1>5 DEF k

-----------------------------------------------------------------------------
(***************************************************************************)
(* The steps, as far as connections see them.                              *)
(***************************************************************************)
Same(s, r) ==
    /\ s.state = r.state /\ s.conn = r.conn /\ s.seq = r.seq /\ s.ack = r.ack
    /\ s.rxq = r.rxq /\ s.armed = r.armed /\ s.last = r.last

\* The same but for the queue.
Like(s, r) ==
    /\ s.state = r.state /\ s.conn = r.conn /\ s.seq = r.seq /\ s.ack = r.ack
    /\ s.armed = r.armed /\ s.last = r.last

Ended(s, r) == s.state = "CLOSED" /\ s.rxq \in {r.rxq, <<>>}

\* Nothing moves but that connections may end.
Rests ==
    /\ UNCHANGED <<peer, sent, got, failed, sends, opens>>
    /\ DOMAIN out' = DOMAIN out /\ \A c \in Conns : out'[c] = out[c]
    /\ call'.op = "tcpsend" => call.op = "tcpsend"
    /\ \A i \in Ids : Same(sock'[i], sock[i]) \/ Ended(sock'[i], sock[i])

\* What a socket keeps of the invariant when others or its queue move.
LEMMA SocketAlike ==
    ASSUME NumbersFit, ConnInv, NEW i \in Ids, Like(sock'[i], sock[i]), sends \in Int, sends' \in Int,
           sends <= sends', Pending(i)' <= Pending(i),
           out[sock[i].conn] \subseteq out'[sock[i].conn],
           peer'[sock[i].conn].acks = peer[sock[i].conn].acks,
           peer'[sock[i].conn].rcv = peer[sock[i].conn].rcv,
           Home(i) => Plain(sock[i].conn)' = Plain(sock[i].conn),
           failed \subseteq failed'
    PROVE  /\ Opened(i)' /\ sock'[i].armed => sock'[i].last \in out'[sock'[i].conn]
           /\ Greeting(i)' => GreetingOK(i)'
           /\ Synced(i)' => SyncedOK(i)'
<1> DEFINE c == sock[i].conn
<1>1. /\ Home(i)' <=> Home(i)
      /\ Opened(i)' <=> Opened(i)
      /\ Greeting(i)' <=> Greeting(i)
      /\ Synced(i)' <=> Synced(i)
  BY DEF Home, Greeted, Opened, Greeting, Synced, Like
<1>2. /\ Opened(i) /\ sock[i].armed => sock[i].last \in out[c]
      /\ Greeting(i) => GreetingOK(i)
      /\ Synced(i) => SyncedOK(i)
  BY DEF ConnInv, StreamInv, SocketsOK
<1>4. Opened(i)' /\ sock'[i].armed => sock'[i].last \in out'[sock'[i].conn]
  BY <1>1, <1>2 DEF Like
<1>5. Greeting(i)' => GreetingOK(i)'
  BY <1>1, <1>2 DEF GreetingOK, Like
<1>6. ASSUME Synced(i)' PROVE SyncedOK(i)'
  <2>1. SyncedOK(i) /\ Home(i) /\ Home(i)'
    BY <1>1, <1>2, <1>6 DEF SyncedOK
  <2>2. /\ sock'[i].seq > Base(Of(sock'[i].seq))
        /\ sock'[i].conn \notin failed' => CurrentOK(i)'
    BY <2>1 DEF SyncedOK, CurrentOK, Like
  <2>3. sock'[i].seq + Pending(i)' <= Base(Of(sock'[i].seq)) + 1 + Longest * sends'
                               + (IF sock'[i].state = "FIN_WAIT" THEN 1 ELSE 0)
    <3> DEFINE x == sock[i].seq
               e == IF sock[i].state = "FIN_WAIT" THEN 1 ELSE 0
    <3>1. x \in Nat /\ Base(Of(x)) \in Nat
      <4>1. Numbered(x) /\ opens \in 0 .. MaxOpens
        BY <1>1, <1>6 DEF ConnInv, StreamInv, OpeningsOK, Synced, Opened
      <4> QED BY <4>1, NumberedFact
    <3>2. Longest * sends <= Longest * sends' /\ Longest * sends \in Nat /\ Longest * sends' \in Nat
      <4>1. sends \in Nat /\ sends' \in Nat
        BY DEF ConnInv, StreamInv, OpeningsOK
      <4> QED BY <4>1, ProductFact DEF NumbersFit
    <3>3. x + Pending(i) <= Base(Of(x)) + 1 + Longest * sends + e
      BY <2>1 DEF SyncedOK
    <3>4. Pending(i) \in Nat /\ Pending(i)' \in Nat /\ e \in Nat
      BY DEF Pending
    <3>5. x + Pending(i)' <= Base(Of(x)) + 1 + Longest * sends' + e
      <4> HIDE DEF x, e
      <4> QED BY <3>1, <3>2, <3>3, <3>4
    <3> QED BY <3>5 DEF Like
  <2> QED BY <2>1, <2>2, <2>3 DEF SyncedOK
<1> QED BY <1>4, <1>5, <1>6

\* What a socket keeps of the invariant when others move.
LEMMA SocketKept ==
    ASSUME NumbersFit, ConnInv, NEW i \in Ids, Same(sock'[i], sock[i]), sends \in Int, sends' \in Int,
           sends <= sends', Pending(i)' <= Pending(i),
           out[sock[i].conn] \subseteq out'[sock[i].conn],
           peer'[sock[i].conn].acks = peer[sock[i].conn].acks,
           peer'[sock[i].conn].rcv = peer[sock[i].conn].rcv,
           Home(i) => Plain(sock[i].conn)' = Plain(sock[i].conn),
           failed \subseteq failed'
    PROVE  /\ Opened(i)' /\ sock'[i].armed => sock'[i].last \in out'[sock'[i].conn]
           /\ Greeting(i)' => GreetingOK(i)'
           /\ Synced(i)' => SyncedOK(i)'
<1>1. Like(sock'[i], sock[i])
  BY DEF Same, Like
<1> QED BY <1>1, SocketAlike

\* Queues that stay or are emptied.
LEMMA QueuesKept ==
    ASSUME ConnInv, got' = got,
           \A i \in Ids : sock'[i].rxq = sock[i].rxq \/ sock'[i].rxq = <<>>
    PROVE  /\ QueuesOK'
           /\ \A i \in Ids, c \in Conns : Has(sock'[i].rxq, c) => Has(sock[i].rxq, c)
           /\ \A c \in Conns : Untouched(c) => Untouched(c)'
<1>0. QueuesOK
  BY DEF ConnInv, StreamInv
<1>1. \A i \in Ids, c \in Conns : Has(sock'[i].rxq, c) => Has(sock[i].rxq, c)
  BY DEF Has
<1>2. \A i \in Ids : Chained(sock[i].rxq)' /\ Together(sock[i].rxq)'
  <2> SUFFICES ASSUME NEW i \in Ids PROVE Chained(sock[i].rxq)' /\ Together(sock[i].rxq)'
    OBVIOUS
  <2>1. CASE sock'[i].rxq = sock[i].rxq
    <3> DEFINE q == sock[i].rxq
    <3>1. Chained(q) /\ Together(q)
      BY <1>0 DEF QueuesOK
    <3>2. Chained(sock[i].rxq)'
      BY ONLY <2>1, <3>1, got' = got DEF Chained
    <3>3. Together(sock[i].rxq)'
      BY ONLY <2>1, <3>1 DEF Together
    <3> QED BY <3>2, <3>3
  <2>2. CASE sock'[i].rxq = <<>>
    BY <2>2 DEF Chained, Together
  <2> QED BY <2>1, <2>2
<1>3. \A c \in Conns : got'[c] \in Seq(Int) /\ \A n \in 1 .. Len(got'[c]) : got'[c][n] = n - 1
  BY <1>0 DEF QueuesOK
<1>4. \A c \in Conns, i, j \in Ids : Has(sock'[i].rxq, c) /\ Has(sock'[j].rxq, c) => i = j
  BY <1>0, <1>1 DEF QueuesOK
<1>5. QueuesOK'
  BY <1>0, <1>2, <1>3, <1>4 DEF QueuesOK
<1>6. \A c \in Conns : Untouched(c) => Untouched(c)'
  BY <1>1 DEF Untouched
<1> QED BY <1>1, <1>5, <1>6

\* What the reading side of a socket keeps when others move.
LEMMA StreamKept ==
    ASSUME ConnInv, NEW i \in Ids, Same(sock'[i], sock[i]), got' = got,
           Opened(i) => /\ peer'[sock[i].conn].acks = peer[sock[i].conn].acks
                        /\ peer'[sock[i].conn].rcv = peer[sock[i].conn].rcv
                        /\ peer[sock[i].conn].snd <= peer'[sock[i].conn].snd,
           \A c \in Conns : peer[c].snd \in Nat /\ peer'[c].snd \in Nat,
           \A j \in Ids, c \in Conns : Has(sock'[j].rxq, c) => Has(sock[j].rxq, c),
           \A c \in Conns : Untouched(c) => Untouched(c)'
    PROVE  StreamOK(i)'
<1>1. CASE ~Opened(i)
  BY <1>1 DEF Opened, Greeting, Synced, StreamOK, Same
<1>2. CASE Opened(i)
  <2>1. /\ sock[i].conn \in Conns /\ (Home(i)' <=> Home(i))
        /\ (Greeting(i)' <=> Greeting(i)) /\ (Synced(i)' <=> Synced(i)) /\ StreamOK(i)
    BY <1>2 DEF ConnInv, StreamInv, OpeningsOK, StreamsOK, Same, Home, Greeting, Synced, Greeted
  <2>2. sock'[i].state = "SYN_RECEIVED" => sock'[i].ack = Plus(PeerIsn, 1)
    BY <2>1 DEF StreamOK, Same
  <2>3. Greeting(i)' /\ Home(i)' => Untouched(sock[i].conn)'
    BY <2>1 DEF StreamOK, Same, Untouched
  <2>4. StreamEnd(sock[i].rxq, sock[i].conn)' = StreamEnd(sock[i].rxq, sock[i].conn)
    BY DEF StreamEnd, Same
  <2>5. ASSUME Synced(i)'
        PROVE  LET c == sock'[i].conn
                   q == sock'[i].rxq
               IN  /\ Has(q, c) => q[Len(q)].conn = c
                   /\ \A j \in Ids : Has(sock'[j].rxq, c) => j = i
                   /\ StreamEnd(sock[i].rxq, sock[i].conn)' \in 0 .. peer'[c].snd
                   /\ sock'[i].ack = Plus(PeerIsn, 1 + StreamEnd(sock[i].rxq, sock[i].conn)')
    <3>1. LET c == sock[i].conn
              q == sock[i].rxq
          IN  /\ Has(q, c) => q[Len(q)].conn = c
              /\ \A j \in Ids : Has(sock[j].rxq, c) => j = i
              /\ StreamEnd(q, c) \in 0 .. peer[c].snd
              /\ sock[i].ack = Plus(PeerIsn, 1 + StreamEnd(q, c))
      BY <2>1, <2>5 DEF StreamOK
    <3> QED BY <1>2, <2>1, <2>4, <3>1 DEF Same
  <2> QED BY <2>2, <2>3, <2>5 DEF StreamOK
<1> QED BY <1>1, <1>2

\* A step in which connections at most end.
LEMMA RestsKept ==
    ASSUME NumbersFit, ConnInv, Rests
    PROVE  StreamInv'
<1> DEFINE W(i) == Same(sock'[i], sock[i])
<1>0. /\ OpeningsOK /\ PeersGreeted /\ SegmentsOK /\ SocketsOK /\ SendsOK /\ QueuesOK /\ StreamsOK
      /\ UNCHANGED <<peer, sent, got, failed, sends, opens>>
      /\ DOMAIN out' = DOMAIN out /\ \A c \in Conns : out'[c] = out[c]
      /\ \A i \in Ids : W(i) \/ Ended(sock'[i], sock[i])
  BY DEF ConnInv, StreamInv, Rests
<1>1. \A i \in Ids : Opened(i)' => W(i) /\ Opened(i)
  BY <1>0 DEF Opened, Ended, Same
<1>2. \A i \in Ids : Greeting(i)' \/ Synced(i)' => Opened(i)'
  BY DEF Greeting, Synced, Opened
<1>3. \A x : Numbered(x)' <=> Numbered(x')
  BY <1>0 DEF Numbered
<1>4. \A c \in Conns : (Greeted(c)' <=> Greeted(c)) /\ Plain(c)' = Plain(c)
  BY <1>0 DEF Greeted, Plain
<1>5. OpeningsOK'
  <2>1. call'.op = "tcpsend" => sends' > 0
    BY <1>0 DEF OpeningsOK, Rests
  <2>2. \A i \in Ids : Opened(i)' => sock'[i].conn \in Conns /\ Numbered(sock[i].seq)'
    BY <1>0, <1>1 DEF OpeningsOK, Same, Numbered
  <2>3. \A i, j \in Ids : Opened(i)' /\ Opened(j)' /\ i # j => Of(sock'[i].seq) # Of(sock'[j].seq)
    BY <1>0, <1>1 DEF OpeningsOK, Same
  <2> QED BY <1>0, <2>1, <2>2, <2>3 DEF OpeningsOK
<1>6. PeersGreeted'
  BY <1>0, <1>4 DEF PeersGreeted, Numbered
<1>7. SegmentsOK'
  BY <1>0 DEF SegmentsOK, Numbered
<1>8. SocketsOK'
  <2> SUFFICES ASSUME NEW i \in Ids, Opened(i)'
               PROVE  /\ Opened(i)' /\ sock'[i].armed => sock'[i].last \in out'[sock'[i].conn]
                      /\ Greeting(i)' => GreetingOK(i)'
                      /\ Synced(i)' => SyncedOK(i)'
    BY <1>2 DEF SocketsOK
  <2>1. Pending(i)' <= Pending(i)
    BY DEF Pending, Rests
  <2>2. sends \in Int /\ sends' \in Int /\ sends <= sends' /\ failed \subseteq failed'
    BY <1>0 DEF OpeningsOK
  <2>3. Same(sock'[i], sock[i]) /\ sock[i].conn \in Conns /\ peer' = peer
    BY <1>0, <1>1 DEF OpeningsOK
  <2>4. Plain(sock[i].conn)' = Plain(sock[i].conn) /\ out'[sock[i].conn] = out[sock[i].conn]
    BY <1>0, <2>3 DEF Plain, Same
  <2> QED BY <2>1, <2>2, <2>3, <2>4, SocketKept
<1>9. SendsOK'
  <2>1. ASSUME NEW c \in Conns, NEW pos, Marks(c, pos) PROVE Marks(c, pos)'
    <3>1. \A i \in Ids : sock'[i].state = "ESTABLISHED" => W(i)
      BY <1>1 DEF Opened
    <3> QED BY <1>0, <1>4, <2>1, <3>1 DEF Marks, Same
  <2> QED BY <1>0, <1>4, <2>1 DEF SendsOK
<1>10. \A i \in Ids : sock'[i].rxq = sock[i].rxq \/ sock'[i].rxq = <<>>
  BY <1>0 DEF Same, Ended
<1>11. /\ QueuesOK' /\ \A i \in Ids, c \in Conns : Has(sock'[i].rxq, c) => Has(sock[i].rxq, c)
       /\ \A c \in Conns : Untouched(c) => Untouched(c)'
  BY <1>0, <1>10, QueuesKept
<1>12. StreamsOK'
  <2>1. \A c \in Conns : peer[c].snd \in Nat
    BY DEF ConnInv, TcpInv, PeersOK
  <2>2. ASSUME NEW i \in Ids PROVE StreamOK(i)'
    <3>1. CASE ~Opened(i)'
      BY <3>1 DEF Opened, Greeting, Synced, StreamOK
    <3>2. CASE Opened(i)'
      <4>1. Same(sock'[i], sock[i]) /\ peer' = peer /\ got' = got
        BY <1>0, <1>1, <3>2
      <4>2. Opened(i) => /\ peer'[sock[i].conn].acks = peer[sock[i].conn].acks
                         /\ peer'[sock[i].conn].rcv = peer[sock[i].conn].rcv
                         /\ peer[sock[i].conn].snd <= peer'[sock[i].conn].snd
        BY <1>0, <2>1, <4>1 DEF OpeningsOK
      <4>3. \A c \in Conns : peer[c].snd \in Nat /\ peer'[c].snd \in Nat
        BY <2>1, <4>1
      <4> QED BY <1>11, <4>1, <4>2, <4>3, StreamKept
    <3> QED BY <3>1, <3>2
  <2>3. \A c \in Conns : peer'[c].snd <= PeerBytes /\ (~Greeted(c)' => Untouched(c)')
    BY <1>0, <1>4, <1>11 DEF StreamsOK
  <2> QED BY <2>2, <2>3 DEF StreamsOK
<1> QED BY <1>5, <1>6, <1>7, <1>8, <1>9, <1>11, <1>12 DEF StreamInv

\* Socket i starts a connection to c with the segment m (a SYN or a SYN|ACK).
Opens(i, c, m) ==
    /\ opens < MaxOpens /\ opens' = opens + 1 /\ UNCHANGED <<peer, sent, got, failed>>
    /\ sends' \in sends .. MaxSends
    /\ call'.op = "tcpsend" => sends' > 0 /\ (i = 0 \/ call.op = "tcpsend")
    /\ \A j \in Ids \ {i} : Same(sock'[j], sock[j])
    /\ sock'[i].state \in {"SYN_SENT", "SYN_RECEIVED"} /\ sock'[i].conn = c
    /\ sock'[i].state = "SYN_RECEIVED" => sock'[i].ack = Plus(PeerIsn, 1)
    /\ sock'[i].seq = Ticks /\ sock'[i].armed /\ sock'[i].last = m
    /\ sock'[i].rxq \in {sock[i].rxq, <<>>}
    /\ "SYN" \in m.flags /\ m.len = 0 /\ m.seq = Ticks
    /\ out' = [out EXCEPT ![c] = @ \cup {m}]

\* A new connection has numbers of its own.
LEMMA OpensKept ==
    ASSUME NumbersFit, ConnInv, NEW i \in Ids, NEW c \in Conns, NEW m, Opens(i, c, m)
    PROVE  StreamInv'
<1>0. /\ OpeningsOK /\ PeersGreeted /\ SegmentsOK /\ SocketsOK /\ SendsOK /\ QueuesOK /\ StreamsOK
      /\ UNCHANGED <<peer, sent, got, failed>> /\ opens' = opens + 1 /\ opens < MaxOpens
      /\ opens \in Nat /\ MaxOpens \in Nat /\ sends \in Nat /\ MaxSends \in Nat
      /\ sends' \in sends .. MaxSends /\ opens' \in 0 .. MaxOpens /\ opens \in 0 .. MaxOpens
  BY TcpAssumption DEF ConnInv, StreamInv, Opens, OpeningsOK
<1>1. \A j \in Ids \ {i} : Same(sock'[j], sock[j])
  BY DEF Opens
<1>2. /\ sock'[i].state \in {"SYN_SENT", "SYN_RECEIVED"} /\ sock'[i].conn = c
      /\ sock'[i].state = "SYN_RECEIVED" => sock'[i].ack = Plus(PeerIsn, 1)
      /\ sock'[i].seq = Ticks /\ sock'[i].armed /\ sock'[i].last = m
      /\ sock'[i].rxq \in {sock[i].rxq, <<>>}
      /\ "SYN" \in m.flags /\ m.len = 0 /\ m.seq = Ticks
      /\ out' = [out EXCEPT ![c] = @ \cup {m}]
  BY DEF Opens
<1> DEFINE t == m.seq
<1>3. t \in Nat /\ Of(t) = opens /\ t = Base(opens) /\ Numbered(t)'
  <2>1. /\ Base(opens) \in Nat /\ Base(opens) + Stride <= Base(MaxOpens) /\ Base(MaxOpens) < SeqMod
        /\ Base(MaxOpens) \in Nat /\ Stride \in Nat /\ SeqMod \in Nat /\ Stride >= 3
    BY <1>0, BaseFact
  <2>2. t = Base(opens)
    <3>1. OurIsn \in Nat /\ Stride * opens \in Nat
      BY <1>0, <2>1, TcpAssumption
    <3>2. OurIsn + Stride * opens < SeqMod
      BY <2>1 DEF Base
    <3> QED BY <1>2, <3>1, <3>2, SumFact DEF Ticks, Base
  <2>3. Within(t, opens)
    BY <2>1, <2>2 DEF Within
  <2>4. Of(t) = opens
    BY <1>0, <2>1, <2>2, <2>3, OfFact
  <2>5. Numbered(t)'
    BY <1>0, <2>1, <2>2, <2>3, <2>4 DEF Numbered
  <2> QED BY <2>1, <2>2, <2>4, <2>5
<1> HIDE DEF t
<1>4. sock'[i].seq = t
  BY <1>2 DEF t
<1>5. \A x : Numbered(x) => Numbered(x)' /\ Of(x) # opens
  BY <1>0 DEF Numbered
<1>6. \A d \in Conns : Plain(d)' = Plain(d) /\ (Greeted(d)' <=> Greeted(d)) /\ out[d] \subseteq out'[d]
  BY <1>0, <1>2 DEF Plain, Greeted, SegmentsOK
<1>7. OpeningsOK'
  <2>1. \A j \in Ids : Opened(j)' => sock'[j].conn \in Conns /\ Numbered(sock[j].seq)'
    <3> SUFFICES ASSUME NEW j \in Ids, Opened(j)'
                 PROVE  sock'[j].conn \in Conns /\ Numbered(sock[j].seq)'
      OBVIOUS
    <3>1. CASE j = i
      BY <1>2, <1>3, <1>4, <3>1 DEF Numbered
    <3>2. CASE j # i
      BY <1>0, <1>1, <1>5, <3>2 DEF OpeningsOK, Opened, Same, Numbered
    <3> QED BY <3>1, <3>2
  <2>2. \A j \in Ids \ {i} : Opened(j)' => Opened(j) /\ sock'[j].seq = sock[j].seq /\ Of(sock[j].seq) # opens
    BY <1>0, <1>1, <1>5 DEF OpeningsOK, Opened, Same
  <2>3. \A j, k \in Ids : Opened(j)' /\ Opened(k)' /\ j # k => Of(sock'[j].seq) # Of(sock'[k].seq)
    BY <1>0, <1>3, <1>4, <2>2 DEF OpeningsOK
  <2>4. call'.op = "tcpsend" => sends' > 0
    BY DEF Opens
  <2> QED BY <1>0, <2>1, <2>3, <2>4 DEF OpeningsOK
<1>8. PeersGreeted'
  <2> SUFFICES ASSUME NEW d \in Conns
        PROVE  /\ peer[d].state \in {"start", "off", "syn", "listen"} => ~Greeted(d)'
               /\ peer[d].state \in {"synrcvd", "est"} => Greeted(d)'
               /\ ~Greeted(d)' => peer[d].in = <<>> /\ sent[d] = <<>> /\ Plain(d)' = {}
               /\ Greeted(d)' => /\ Numbered(peer[d].rcv)'
                        /\ \A a \in peer[d].acks :
                             a \in Nat /\ Base(Of(peer[d].rcv)) < a /\ a <= peer[d].rcv
    BY <1>0 DEF PeersGreeted
  <2>1. Numbered(peer[d].rcv) => Numbered(peer[d].rcv)'
    BY <1>0 DEF Numbered
  <2> QED BY <1>0, <1>6, <2>1 DEF PeersGreeted
<1>9. SegmentsOK'
  <2>1. \A d \in Conns : \A n \in out'[d] : n \in out[d] \/ n = m
    BY <1>0, <1>2 DEF SegmentsOK
  <2>2. /\ m.seq \in Nat /\ m.len \in Nat /\ m.len = 0 /\ Numbered(m.seq)' /\ m.seq = Base(Of(m.seq))
        /\ "SYN" \in m.flags
    BY <1>2, <1>3 DEF t
  <2>3. \A d \in Conns : \A n \in out[d] :
      /\ n.seq \in Nat /\ n.len \in Nat
      /\ "SYN" \in n.flags => n.len = 0 /\ Numbered(n.seq)' /\ n.seq = Base(Of(n.seq))
      /\ "SYN" \notin n.flags =>
           /\ EndOf(n) \in Nat /\ n.seq > Base(Of(peer[d].rcv)) /\ n.seq <= EndOf(n)
           /\ EndOf(n) < Base(Of(peer[d].rcv)) + Stride
    BY <1>0, <1>5 DEF SegmentsOK
  <2>4. DOMAIN out' = Conns
    BY <1>0, <1>2 DEF SegmentsOK
  <2> QED BY <1>0, <2>1, <2>2, <2>3, <2>4 DEF SegmentsOK
<1>10. ~Home(i)' /\ ~Synced(i)' /\ Greeting(i)'
  <2>1. Greeted(c) => Of(peer[c].rcv) # opens
    BY <1>0, <1>5 DEF PeersGreeted
  <2> QED BY <1>0, <1>2, <1>3, <1>4, <1>6, <2>1 DEF Home, Synced, Greeting
<1>11. SocketsOK'
  <2> SUFFICES ASSUME NEW j \in Ids, Opened(j)'
               PROVE  /\ Opened(j)' /\ sock'[j].armed => sock'[j].last \in out'[sock'[j].conn]
                      /\ Greeting(j)' => GreetingOK(j)'
                      /\ Synced(j)' => SyncedOK(j)'
    BY DEF SocketsOK, Greeting, Synced, Opened
  <2>1. CASE j = i
    <3>1. m \in out'[c]
      BY <1>0, <1>2 DEF SegmentsOK
    <3>2. GreetingOK(i)'
      BY <1>2, <1>3, <1>4, <1>10 DEF GreetingOK
    <3> QED BY <1>2, <1>10, <2>1, <3>1, <3>2
  <2>2. CASE j # i
    <3>1. Same(sock'[j], sock[j]) /\ peer' = peer /\ sock[j].conn \in Conns
      BY <1>0, <1>1, <2>2 DEF OpeningsOK, Same, Opened
    <3>2. Pending(j)' <= Pending(j)
      <4>1. j = 0 /\ call'.op = "tcpsend" => call.op = "tcpsend"
        BY <2>2 DEF Opens
      <4> QED BY <4>1 DEF Pending
    <3>3. sends \in Int /\ sends' \in Int /\ sends <= sends' /\ failed \subseteq failed'
      BY <1>0
    <3>4. Plain(sock[j].conn)' = Plain(sock[j].conn)
      BY <1>6, <3>1 DEF Plain, Same
    <3>5. out[sock[j].conn] \subseteq out'[sock[j].conn]
      BY <1>6, <3>1
    <3> QED BY <3>1, <3>2, <3>3, <3>4, <3>5, SocketKept
  <2> QED BY <2>1, <2>2
<1>12. SendsOK'
  <2>1. ASSUME NEW d \in Conns, NEW pos, Marks(d, pos) PROVE Marks(d, pos)'
    <3>1. \A j \in Ids : sock'[j].state = "ESTABLISHED" => Same(sock'[j], sock[j])
      BY <1>1, <1>2
    <3> QED BY <1>0, <1>6, <2>1, <3>1 DEF Marks, Same
  <2> QED BY <1>0, <1>6, <2>1 DEF SendsOK
<1>13. /\ QueuesOK' /\ \A j \in Ids, d \in Conns : Has(sock'[j].rxq, d) => Has(sock[j].rxq, d)
       /\ \A d \in Conns : Untouched(d) => Untouched(d)'
  <2>1. \A j \in Ids : sock'[j].rxq = sock[j].rxq \/ sock'[j].rxq = <<>>
    BY <1>1, <1>2 DEF Same
  <2> QED BY <1>0, <2>1, QueuesKept
<1>14. StreamsOK'
  <2>1. \A d \in Conns : peer[d].snd \in Nat
    BY DEF ConnInv, TcpInv, PeersOK
  <2>2. ASSUME NEW j \in Ids PROVE StreamOK(j)'
    <3>1. CASE j = i
      BY <1>2, <1>10, <3>1 DEF StreamOK
    <3>2. CASE j # i
      <4>1. Same(sock'[j], sock[j]) /\ peer' = peer /\ got' = got
        BY <1>0, <1>1, <3>2
      <4>2. Opened(j) => /\ peer'[sock[j].conn].acks = peer[sock[j].conn].acks
                         /\ peer'[sock[j].conn].rcv = peer[sock[j].conn].rcv
                         /\ peer[sock[j].conn].snd <= peer'[sock[j].conn].snd
        BY <1>0, <2>1, <4>1 DEF OpeningsOK
      <4>3. \A d \in Conns : peer[d].snd \in Nat /\ peer'[d].snd \in Nat
        BY <2>1, <4>1
      <4> QED BY <1>13, <4>1, <4>2, <4>3, StreamKept
    <3> QED BY <3>1, <3>2
  <2>3. \A d \in Conns : peer'[d].snd <= PeerBytes /\ (~Greeted(d)' => Untouched(d)')
    BY <1>0, <1>6, <1>13 DEF StreamsOK
  <2> QED BY <2>2, <2>3 DEF StreamsOK
<1> QED BY <1>7, <1>8, <1>9, <1>11, <1>12, <1>13, <1>14 DEF StreamInv

\* The handshake of socket i is over; the segments S acknowledge that.
Establishes(i, c, S) ==
    /\ c = sock[i].conn /\ UNCHANGED <<call, peer, sent, got, failed, sends, opens>>
    /\ \A j \in Ids \ {i} : Same(sock'[j], sock[j])
    /\ Greeting(i) /\ Plus(sock[i].seq, 1) \in peer[c].acks
    /\ sock'[i].state = "ESTABLISHED" /\ sock'[i].conn = c
    /\ sock'[i].seq = Plus(sock[i].seq, 1) /\ sock'[i].ack = Plus(PeerIsn, 1)
    /\ sock'[i].rxq = sock[i].rxq /\ ~sock'[i].armed
    /\ \A m \in S : /\ "SYN" \notin m.flags /\ m.len = 0
                    /\ m.seq = sock'[i].seq /\ EndOf(m) = m.seq
    /\ DOMAIN out' = DOMAIN out /\ out'[c] = out[c] \cup S
    /\ \A d \in Conns \ {c} : out'[d] = out[d]

\* A handshake ends with the peer of the same opening, which has got its first
\* segment and nothing else.
LEMMA EstablishesHome ==
    ASSUME NumbersFit, ConnInv, NEW i \in Ids, Greeting(i), sock[i].conn \in Conns,
           Plus(sock[i].seq, 1) \in peer[sock[i].conn].acks
    PROVE  /\ Home(i) /\ sock[i].seq \in Nat /\ Plus(sock[i].seq, 1) = sock[i].seq + 1
           /\ peer[sock[i].conn].rcv = sock[i].seq + 1 /\ Plain(sock[i].conn) = {}
           /\ Of(sock[i].seq + 1) = Of(sock[i].seq) /\ Numbered(sock[i].seq + 1)
           /\ sock[i].seq = Base(Of(sock[i].seq))
           /\ sock[i].seq + 1 < Base(Of(sock[i].seq)) + Stride
           /\ Untouched(sock[i].conn)
<1> DEFINE c == sock[i].conn
           q == sock[i].seq
           v == peer[c].rcv
<1>0. OpeningsOK /\ PeersGreeted /\ SocketsOK /\ StreamsOK /\ opens \in 0 .. MaxOpens /\ c \in Conns
  BY DEF ConnInv, StreamInv, OpeningsOK
<1>1. Numbered(q) /\ q = Base(Of(q)) /\ GreetingOK(i)
  BY <1>0 DEF OpeningsOK, SocketsOK, GreetingOK, Greeting, Opened
<1>2. Greeted(c) /\ Numbered(v) /\ Base(Of(v)) < Plus(q, 1) /\ Plus(q, 1) <= v
  BY <1>0 DEF PeersGreeted, Greeted
<1> HIDE DEF c, q, v
<1>3. /\ q \in Nat /\ Base(Of(q)) \in Nat /\ Stride \in Nat /\ Stride >= 3 /\ SeqMod \in Nat
      /\ Base(Of(q)) + Stride < SeqMod
      /\ \A x \in Nat : Base(Of(q)) <= x /\ x < Base(Of(q)) + Stride =>
                Of(x) = Of(q) /\ Numbered(x)
  BY <1>0, <1>1, NumberedFact, BaseFact
<1>4. /\ v \in Nat /\ Base(Of(v)) \in Nat /\ v < Base(Of(v)) + Stride
      /\ \A x \in Nat : Base(Of(v)) <= x /\ x < Base(Of(v)) + Stride => Of(x) = Of(v)
  BY <1>0, <1>2, NumberedFact
<1>5. q + 1 \in Nat /\ q + 1 < Base(Of(q)) + Stride /\ q + 1 < SeqMod
  BY <1>1, <1>3
<1>6. Plus(q, 1) = q + 1
  BY <1>3, <1>5, SumFact
<1>7. Of(q + 1) = Of(q) /\ Numbered(q + 1)
  BY <1>1, <1>3, <1>5
<1>8. Of(q + 1) = Of(v)
  BY <1>2, <1>3, <1>4, <1>5, <1>6
<1>9. Home(i)
  BY <1>2, <1>7, <1>8 DEF Home, c, q, v
<1>10. v = q + 1 /\ Plain(c) = {}
  BY <1>1, <1>9 DEF GreetingOK, c, q, v
<1>11. Untouched(c)
  BY <1>0, <1>9 DEF StreamsOK, StreamOK, c
<1> QED BY <1>1, <1>3, <1>5, <1>6, <1>7, <1>9, <1>10, <1>11 DEF c, q, v

\* What a step of one socket, at home, leaves to the others: none of them is at
\* home with the same peer.
LEMMA OthersAway ==
    ASSUME ConnInv, NEW i \in Ids, Opened(i), Home(i), NEW j \in Ids \ {i}, Opened(j),
           sock[j].conn = sock[i].conn
    PROVE  ~Home(j) /\ ~Synced(j)
<1>1. Of(sock[i].seq) # Of(sock[j].seq)
  BY DEF ConnInv, StreamInv, OpeningsOK
<1>2. ~Home(j)
  BY <1>1 DEF Home
<1>3. ~Synced(j)
  BY <1>2 DEF ConnInv, StreamInv, SocketsOK, SyncedOK
<1> QED BY <1>2, <1>3

\* Segments that carry nothing and end where they start change no mark.
LEMMA BareMarks ==
    ASSUME NEW d, NEW pos, Marks(d, pos), sent'[d] = sent[d],
           peer'[d].in = peer[d].in, peer'[d].rcv = peer[d].rcv,
           Plain(d) \subseteq Plain(d)',
           \A m \in Plain(d)' : m \in Plain(d) \/ (m.len = 0 /\ EndOf(m) = m.seq),
           \A i \in Ids : sock'[i].state = "ESTABLISHED" /\ sock'[i].conn = d =>
               sock'[i].seq = pos[Len(sent[d])]
    PROVE  Marks(d, pos)'
BY DEF Marks

\* The end of a handshake.
LEMMA EstablishesKept ==
    ASSUME NumbersFit, ConnInv, NEW i \in Ids, NEW c, NEW S, Establishes(i, c, S)
    PROVE  StreamInv'
<1> DEFINE q == sock[i].seq
<1>0. /\ OpeningsOK /\ PeersGreeted /\ SegmentsOK /\ SocketsOK /\ SendsOK /\ QueuesOK /\ StreamsOK
      /\ UNCHANGED <<call, peer, sent, got, failed, sends, opens>>
      /\ opens \in Nat /\ sends \in Nat /\ opens \in 0 .. MaxOpens
  BY TcpAssumption DEF ConnInv, StreamInv, Establishes, OpeningsOK
<1>1. \A j \in Ids \ {i} : Same(sock'[j], sock[j])
  BY DEF Establishes
<1>2. Opened(i) /\ Greeting(i) /\ c \in Conns /\ c = sock[i].conn
  BY <1>0 DEF Establishes, Greeting, OpeningsOK, Opened
<1>3. /\ Home(i) /\ q \in Nat /\ Plus(q, 1) = q + 1
      /\ peer[c].rcv = q + 1 /\ Plain(c) = {}
      /\ Of(q + 1) = Of(q) /\ Numbered(q + 1)
      /\ q = Base(Of(q)) /\ q + 1 < Base(Of(q)) + Stride
      /\ Untouched(c)
  BY <1>2, EstablishesHome DEF Establishes
<1>4. /\ sock'[i].state = "ESTABLISHED" /\ sock'[i].conn = c
      /\ sock'[i].seq = q + 1 /\ sock'[i].ack = Plus(PeerIsn, 1)
      /\ sock'[i].rxq = sock[i].rxq /\ ~sock'[i].armed
      /\ \A m \in S : /\ "SYN" \notin m.flags /\ m.len = 0 /\ m.seq = q + 1 /\ EndOf(m) = q + 1
      /\ DOMAIN out' = DOMAIN out /\ out'[c] = out[c] \cup S
      /\ \A d \in Conns \ {c} : out'[d] = out[d]
  BY <1>3 DEF Establishes
<1> HIDE DEF q
<1>5. \A x : Numbered(x)' <=> Numbered(x')
  BY <1>0 DEF Numbered
<1>6. /\ \A d \in Conns : out[d] \subseteq out'[d] /\ Plain(d) \subseteq Plain(d)'
      /\ \A d \in Conns \ {c} : out'[d] = out[d] /\ Plain(d)' = Plain(d)
      /\ \A d \in Conns : \A m \in out'[d] : m \in out[d] \/ (d = c /\ m \in S)
      /\ \A m \in Plain(c)' : m \in S
      /\ \A d \in Conns : Greeted(d)' <=> Greeted(d)
      /\ DOMAIN out' = Conns
  BY <1>0, <1>2, <1>3, <1>4 DEF Plain, Greeted, SegmentsOK
<1>7. OpeningsOK'
  <2>1. \A j \in Ids : Opened(j)' => sock'[j].conn \in Conns /\ Numbered(sock[j].seq)'
    <3> SUFFICES ASSUME NEW j \in Ids, Opened(j)'
                 PROVE  sock'[j].conn \in Conns /\ Numbered(sock[j].seq)'
      OBVIOUS
    <3>1. CASE j = i
      BY <1>0, <1>2, <1>3, <1>4, <3>1 DEF Numbered
    <3>2. CASE j # i
      BY <1>0, <1>1, <3>2 DEF OpeningsOK, Opened, Same, Numbered
    <3> QED BY <3>1, <3>2
  <2>2. \A j \in Ids : Opened(j)' => Opened(j) /\ Of(sock'[j].seq) = Of(sock[j].seq)
    BY <1>1, <1>2, <1>3, <1>4 DEF Opened, Same, q
  <2>3. \A j, k \in Ids : Opened(j)' /\ Opened(k)' /\ j # k => Of(sock'[j].seq) # Of(sock'[k].seq)
    BY <1>0, <2>2 DEF OpeningsOK
  <2> QED BY <1>0, <2>1, <2>3 DEF OpeningsOK
<1>8. PeersGreeted'
  <2>1. Greeted(c)
    BY <1>2, <1>3 DEF Home
  <2> QED BY <1>0, <1>6, <2>1 DEF PeersGreeted, Numbered
<1>9. SegmentsOK'
  <2>1. ASSUME NEW d \in Conns, NEW m \in out'[d]
        PROVE  /\ m.seq \in Nat /\ m.len \in Nat
               /\ "SYN" \in m.flags => m.len = 0 /\ Numbered(m.seq)' /\ m.seq = Base(Of(m.seq))
               /\ "SYN" \notin m.flags =>
                    /\ EndOf(m) \in Nat /\ m.seq > Base(Of(peer[d].rcv)) /\ m.seq <= EndOf(m)
                    /\ EndOf(m) < Base(Of(peer[d].rcv)) + Stride
    <3>1. CASE m \in out[d]
      BY <1>0, <3>1 DEF SegmentsOK, Numbered
    <3>2. CASE d = c /\ m \in S
      <4>1. Base(Of(peer[c].rcv)) = q
        BY <1>3
      <4> QED BY <1>3, <1>4, <3>2, <4>1
    <3> QED BY <1>6, <2>1, <3>1, <3>2
  <2> QED BY <1>0, <1>6, <2>1 DEF SegmentsOK
<1>10. SocketsOK'
  <2> SUFFICES ASSUME NEW j \in Ids, Opened(j)'
               PROVE  /\ Opened(j)' /\ sock'[j].armed => sock'[j].last \in out'[sock'[j].conn]
                      /\ Greeting(j)' => GreetingOK(j)'
                      /\ Synced(j)' => SyncedOK(j)'
    BY DEF SocketsOK, Greeting, Synced, Opened
  <2>1. CASE j = i
    <3>1. Home(i)'
      BY <1>0, <1>2, <1>3, <1>4 DEF Home, Greeted, q
    <3>2. \A m \in Plain(sock[i].conn)' : EndOf(m) <= sock'[i].seq
      <4>1. \A m \in Plain(c)' : EndOf(m) <= q + 1
        BY <1>3, <1>4, <1>6
      <4> QED BY <1>4, <4>1 DEF Plain
    <3>3. q + 1 + Pending(i)' <= Base(Of(q)) + 1 + Longest * sends
      <4>1. Longest * sends \in Nat /\ (sends > 0 => Longest * sends >= 1)
        <5>1. Longest \in Nat /\ Longest >= 1
          BY DEF NumbersFit
        <5>2. sends > 0 => Longest * sends >= Longest * 1
          BY <1>0, <5>1, ProductFact
        <5> QED BY <1>0, <5>1, <5>2
      <4>2. Pending(i)' \in {0, 1} /\ (Pending(i)' = 1 => sends > 0)
        BY <1>0 DEF Pending, OpeningsOK
      <4>3. q = Base(Of(q)) /\ q \in Nat
        BY <1>3
      <4> QED BY <1>0, <4>1, <4>2, <4>3
    <3>4. SyncedOK(i)'
      <4>1. /\ peer'[sock'[i].conn].rcv = q + 1 /\ sock'[i].seq = q + 1 /\ Of(sock'[i].seq) = Of(q)
            /\ sock'[i].armed = FALSE /\ sock'[i].state # "FIN_WAIT" /\ sends' = sends
            /\ q \in Nat /\ q + 1 > Base(Of(q)) /\ q + 1 <= q + 1
        BY <1>0, <1>3, <1>4
      <4>2. Base(Of(sock'[i].seq)) = Base(Of(q))
        BY <4>1
      <4>3. sock'[i].seq + Pending(i)' <= Base(Of(sock'[i].seq)) + 1 + Longest * sends'
                               + (IF sock'[i].state = "FIN_WAIT" THEN 1 ELSE 0)
        <5>1. Base(Of(q)) \in Nat /\ Longest * sends \in Nat /\ Pending(i)' \in Nat
          BY <1>0, <1>3 DEF Pending, NumbersFit
        <5>2. (IF sock'[i].state = "FIN_WAIT" THEN 1 ELSE 0) = 0
          BY <4>1
        <5> QED BY <3>3, <4>1, <4>2, <5>1, <5>2
      <4>4. /\ peer'[sock'[i].conn].rcv <= sock'[i].seq /\ sock'[i].seq > Base(Of(sock'[i].seq))
            /\ sock'[i].armed => EndOf(sock'[i].last) = sock'[i].seq
            /\ ~sock'[i].armed => peer'[sock'[i].conn].rcv = sock'[i].seq
        BY <4>1, <4>2
      <4>5. CurrentOK(i)'
        BY <1>2, <1>4, <3>2, <4>4 DEF CurrentOK
      <4> QED BY <3>1, <4>3, <4>4, <4>5 DEF SyncedOK
    <3>5. ~Greeting(i)'
      BY <1>4 DEF Greeting
    <3> QED BY <1>4, <2>1, <3>4, <3>5
  <2>2. CASE j # i
    <3>1. Same(sock'[j], sock[j]) /\ peer' = peer /\ sock[j].conn \in Conns /\ Opened(j)
      BY <1>0, <1>1, <2>2 DEF OpeningsOK, Same, Opened
    <3>2. Pending(j)' <= Pending(j)
      BY <1>0 DEF Pending
    <3>3. sends \in Int /\ sends' \in Int /\ sends <= sends' /\ failed \subseteq failed'
      BY <1>0
    <3>4. Home(j) => Plain(sock[j].conn)' = Plain(sock[j].conn)
      <4>1. Home(j) => sock[j].conn # c
        BY <1>2, <1>3, <2>2, <3>1, OthersAway
      <4> QED BY <1>6, <3>1, <4>1 DEF Plain, Same
    <3>5. out[sock[j].conn] \subseteq out'[sock[j].conn]
      BY <1>6, <3>1
    <3> QED BY <3>1, <3>2, <3>3, <3>4, <3>5, SocketKept
  <2> QED BY <2>1, <2>2
<1>11. SendsOK'
  <2>1. ASSUME NEW d \in Conns, NEW pos, Marks(d, pos) PROVE Marks(d, pos)'
    <3>1. \A m \in Plain(d)' : m \in Plain(d) \/ (m.len = 0 /\ EndOf(m) = m.seq)
      <4>1. CASE d = c
        BY <1>4, <1>6, <4>1
      <4>2. CASE d # c
        BY <1>6, <4>2
      <4> QED BY <4>1, <4>2
    <3>2. \A j \in Ids : sock'[j].state = "ESTABLISHED" /\ sock'[j].conn = d =>
               sock'[j].seq = pos[Len(sent[d])]
      <4> SUFFICES ASSUME NEW j \in Ids, sock'[j].state = "ESTABLISHED", sock'[j].conn = d
                   PROVE  sock'[j].seq = pos[Len(sent[d])]
        OBVIOUS
      <4>1. CASE j = i
        <5>1. d = c /\ Len(sent[d]) \in Nat
          BY <1>0, <1>4, <4>1, LenProperties DEF SendsOK
        <5>2. pos[0] = q + 1
          BY <1>3, <2>1, <5>1 DEF Marks
        <5>3. Len(sent[d]) = 0
          BY <1>3, <2>1, <5>1 DEF Marks
        <5> QED BY <1>4, <4>1, <5>2, <5>3
      <4>2. CASE j # i
        BY <1>1, <2>1, <4>2 DEF Same, Marks
      <4> QED BY <4>1, <4>2
    <3>3. Plain(d) \subseteq Plain(d)'
      BY <1>6
    <3> QED BY <1>0, <2>1, <3>1, <3>2, <3>3, BareMarks
  <2> QED BY <1>0, <1>6, <2>1 DEF SendsOK
<1>12. /\ QueuesOK' /\ \A j \in Ids, d \in Conns : Has(sock'[j].rxq, d) => Has(sock[j].rxq, d)
       /\ \A d \in Conns : Untouched(d) => Untouched(d)'
  <2>1. \A j \in Ids : sock'[j].rxq = sock[j].rxq \/ sock'[j].rxq = <<>>
    BY <1>1, <1>4 DEF Same
  <2> QED BY <1>0, <2>1, QueuesKept
<1>13. StreamsOK'
  <2>1. \A d \in Conns : peer[d].snd \in Nat
    BY DEF ConnInv, TcpInv, PeersOK
  <2>2. ASSUME NEW j \in Ids PROVE StreamOK(j)'
    <3>1. CASE j = i
      <4>1. got'[c] = <<>> /\ \A k \in Ids : ~Has(sock'[k].rxq, c)
        BY <1>2, <1>3, <1>12 DEF Untouched
      <4>2. StreamEnd(sock[i].rxq, sock[i].conn)' = 0
        <5>1. sock'[i].rxq \in Seq(Packet)
          BY <1>4, TableFacts DEF ConnInv, SocketOK
        <5> DEFINE r == sock'[i].rxq
        <5>2. r # <<>> => Len(r) \in 1 .. Len(r)
          BY <5>1, EmptySeq, LenProperties
        <5>3. r # <<>> => r[Len(r)].conn # c
          BY <4>1, <5>2 DEF Has
        <5> HIDE DEF r
        <5>4. r = <<>> \/ r[Len(r)].conn # sock'[i].conn
          BY <1>4, <5>3
        <5> QED BY <1>4, <4>1, <5>4, EmptySeq DEF StreamEnd, r
      <4>3. ~Greeting(i)' /\ sock'[i].state # "SYN_RECEIVED"
        BY <1>4 DEF Greeting
      <4>4. 0 \in 0 .. peer[c].snd /\ 1 + 0 = 1
        BY <1>2, <2>1
      <4> QED BY <1>0, <1>4, <3>1, <4>1, <4>2, <4>3, <4>4 DEF StreamOK
    <3>2. CASE j # i
      <4>1. Same(sock'[j], sock[j]) /\ peer' = peer /\ got' = got
        BY <1>0, <1>1, <3>2
      <4>2. Opened(j) => /\ peer'[sock[j].conn].acks = peer[sock[j].conn].acks
                         /\ peer'[sock[j].conn].rcv = peer[sock[j].conn].rcv
                         /\ peer[sock[j].conn].snd <= peer'[sock[j].conn].snd
        BY <1>0, <2>1, <4>1 DEF OpeningsOK
      <4>3. \A d \in Conns : peer[d].snd \in Nat /\ peer'[d].snd \in Nat
        BY <2>1, <4>1
      <4> QED BY <1>12, <4>1, <4>2, <4>3, StreamKept
    <3> QED BY <3>1, <3>2
  <2>3. \A d \in Conns : peer'[d].snd <= PeerBytes /\ (~Greeted(d)' => Untouched(d)')
    BY <1>0, <1>6, <1>12 DEF StreamsOK
  <2> QED BY <2>2, <2>3 DEF StreamsOK
<1> QED BY <1>7, <1>8, <1>9, <1>10, <1>11, <1>12, <1>13 DEF StreamInv

-----------------------------------------------------------------------------
\* What the others keep of the invariant when the open socket i, at home, has the
\* segments X sent to its peer.
LEMMA OthersKept ==
    ASSUME NumbersFit, ConnInv, NEW i \in Ids, Synced(i), NEW c, c = sock[i].conn, NEW X,
           peer' = peer, out' = [out EXCEPT ![c] = @ \cup X], sends' \in sends .. MaxSends,
           NEW j \in Ids \ {i}, Same(sock'[j], sock[j]), Pending(j)' <= Pending(j),
           failed \subseteq failed'
    PROVE  /\ Opened(j)' /\ sock'[j].armed => sock'[j].last \in out'[sock'[j].conn]
           /\ Greeting(j)' => GreetingOK(j)'
           /\ Synced(j)' => SyncedOK(j)'
<1>0. OpeningsOK /\ SegmentsOK /\ SocketsOK
  BY DEF ConnInv, StreamInv
<1>1. Opened(i) /\ Home(i) /\ c \in Conns
  BY <1>0 DEF OpeningsOK, SocketsOK, SyncedOK, Opened, Synced
<1>2. CASE ~Opened(j)
  BY <1>2 DEF Opened, Greeting, Synced, Same
<1>3. CASE Opened(j)
  <2>1. sock[j].conn \in Conns
    BY <1>0, <1>3 DEF OpeningsOK
  <2>2. Home(j) => sock[j].conn # c
    BY <1>1, <1>3, OthersAway
  <2>3. out[sock[j].conn] \subseteq out'[sock[j].conn]
    BY <1>0, <1>1, <2>1 DEF SegmentsOK
  <2>4. Home(j) => Plain(sock[j].conn)' = Plain(sock[j].conn)
    <3>1. Home(j) => out'[sock[j].conn] = out[sock[j].conn]
      BY <1>0, <2>1, <2>2 DEF SegmentsOK
    <3> QED BY <3>1 DEF Plain, Same
  <2>5. sends \in Int /\ sends' \in Int /\ sends <= sends' /\ failed \subseteq failed'
    BY <1>0, TcpAssumption DEF OpeningsOK
  <2> QED BY <2>3, <2>4, <2>5, SocketKept
<1> QED BY <1>2, <1>3

\* What the reading side of a socket keeps when the queue of another one grows or
\* shrinks.
LEMMA StreamLeft ==
    ASSUME ConnInv, NEW j \in Ids, Same(sock'[j], sock[j]), peer' = peer,
           Opened(j) /\ (Home(j) \/ Synced(j)) =>
              /\ got'[sock[j].conn] = got[sock[j].conn]
              /\ \A k \in Ids : Has(sock'[k].rxq, sock[j].conn) => Has(sock[k].rxq, sock[j].conn)
    PROVE  StreamOK(j)'
<1> DEFINE d == sock[j].conn
<1>1. CASE ~Opened(j)
  BY <1>1 DEF Opened, Greeting, Synced, StreamOK, Same
<1>2. CASE Opened(j) /\ ~Home(j) /\ ~Synced(j)
  <2>1. ~Home(j)' /\ ~Synced(j)' /\ StreamOK(j)
    BY <1>2 DEF ConnInv, StreamInv, StreamsOK, Same, Home, Greeted, Synced
  <2> QED BY <2>1 DEF StreamOK, Same
<1>3. CASE Opened(j) /\ (Home(j) \/ Synced(j))
  <2>1. /\ (Home(j)' <=> Home(j)) /\ (Greeting(j)' <=> Greeting(j)) /\ (Synced(j)' <=> Synced(j))
        /\ StreamOK(j) /\ got'[d] = got[d] /\ sock'[j].conn = d /\ sock'[j].rxq = sock[j].rxq
        /\ sock'[j].state = sock[j].state /\ sock'[j].ack = sock[j].ack
        /\ \A k \in Ids : Has(sock'[k].rxq, d) => Has(sock[k].rxq, d)
    BY <1>3 DEF ConnInv, StreamInv, StreamsOK, Same, Home, Greeted, Synced, Greeting
  <2>2. Untouched(d) => got'[d] = <<>> /\ \A k \in Ids : ~Has(sock'[k].rxq, d)
    BY <2>1 DEF Untouched
  <2>3. StreamEnd(sock[j].rxq, sock[j].conn)' = StreamEnd(sock[j].rxq, d)
    BY <2>1 DEF StreamEnd
  <2>4. Greeting(j)' /\ Home(j)' => Untouched(sock[j].conn)'
    <3>1. Greeting(j)' /\ Home(j)' => Untouched(d)
      BY <2>1 DEF StreamOK
    <3> QED BY <2>1, <2>2, <3>1 DEF Untouched
  <2>5. ASSUME Synced(j)
        PROVE  /\ Has(sock'[j].rxq, d) => sock'[j].rxq[Len(sock'[j].rxq)].conn = d
               /\ \A k \in Ids : Has(sock'[k].rxq, d) => k = j
               /\ StreamEnd(sock[j].rxq, d) \in 0 .. peer'[d].snd
               /\ sock'[j].ack = Plus(PeerIsn, 1 + StreamEnd(sock[j].rxq, d))
    BY <2>1, <2>5 DEF StreamOK
  <2>6. sock'[j].state = "SYN_RECEIVED" => sock'[j].ack = Plus(PeerIsn, 1)
    BY <2>1 DEF StreamOK
  <2> HIDE DEF d
  <2> QED BY <2>1, <2>3, <2>4, <2>5, <2>6 DEF StreamOK
<1> QED BY <1>1, <1>2, <1>3

\* A step of the open socket i, with the segments X to its peer.
Owns(i, c, X) ==
    /\ Synced(i) /\ c = sock[i].conn /\ UNCHANGED <<peer, opens>>
    /\ sends' \in sends .. MaxSends /\ failed \subseteq failed'
    /\ call'.op = "tcpsend" => call.op = "tcpsend"
    /\ \A j \in Ids \ {i} : Same(sock'[j], sock[j])
    /\ \/ sock'[i].state = "CLOSED"
       \/ /\ sock'[i].state \in {"ESTABLISHED", "FIN_WAIT"} /\ sock'[i].conn = c
          /\ sock'[i].seq \in Nat /\ sock[i].seq <= sock'[i].seq
          /\ sock'[i].seq < Base(Of(sock[i].seq)) + Stride
    /\ \A m \in X : /\ "SYN" \notin m.flags /\ m.len \in Nat /\ m.seq \in Nat /\ EndOf(m) \in Nat
                    /\ sock[i].seq <= m.seq /\ m.seq <= EndOf(m)
                    /\ EndOf(m) < Base(Of(sock[i].seq)) + Stride
    /\ out' = [out EXCEPT ![c] = @ \cup X]
    /\ \A d \in Conns \ {c} : sent'[d] = sent[d]

\* What the numbers of an open socket are.
LEMMA SyncedFact ==
    ASSUME NumbersFit, ConnInv, NEW i \in Ids, Synced(i)
    PROVE  /\ sock[i].seq \in Nat /\ sock[i].seq > Base(Of(sock[i].seq))
           /\ Base(Of(sock[i].seq)) \in Nat /\ Numbered(sock[i].seq)
           /\ sock[i].seq < Base(Of(sock[i].seq)) + Stride
           /\ Base(Of(sock[i].seq)) + Stride < SeqMod /\ SeqMod \in Nat /\ Stride \in Nat
           /\ \A x \in Nat : sock[i].seq <= x /\ x < Base(Of(sock[i].seq)) + Stride =>
                Of(x) = Of(sock[i].seq) /\ Numbered(x)
           /\ sock[i].conn \in Conns /\ Opened(i) /\ Home(i) /\ Greeted(sock[i].conn)
           /\ Of(peer[sock[i].conn].rcv) = Of(sock[i].seq) /\ SyncedOK(i)
<1>1. /\ Opened(i) /\ sock[i].conn \in Conns /\ Numbered(sock[i].seq) /\ SyncedOK(i)
      /\ opens \in 0 .. MaxOpens
  BY DEF ConnInv, StreamInv, OpeningsOK, SocketsOK, Opened, Synced
<1>2. /\ sock[i].seq \in Nat /\ Base(Of(sock[i].seq)) \in Nat /\ Stride \in Nat
      /\ Base(Of(sock[i].seq)) <= sock[i].seq
      /\ sock[i].seq < Base(Of(sock[i].seq)) + Stride
      /\ Base(Of(sock[i].seq)) + Stride < SeqMod /\ SeqMod \in Nat
      /\ \A x \in Nat : Base(Of(sock[i].seq)) <= x /\ x < Base(Of(sock[i].seq)) + Stride =>
                Of(x) = Of(sock[i].seq) /\ Numbered(x)
  BY <1>1, NumberedFact
<1>3. sock[i].seq > Base(Of(sock[i].seq)) /\ Home(i)
  BY <1>1 DEF SyncedOK
<1>4. \A x \in Nat : sock[i].seq <= x /\ x < Base(Of(sock[i].seq)) + Stride =>
                Of(x) = Of(sock[i].seq) /\ Numbered(x)
  BY <1>2
<1>5. Greeted(sock[i].conn) /\ Of(peer[sock[i].conn].rcv) = Of(sock[i].seq)
  BY <1>3 DEF Home
<1> QED BY <1>1, <1>2, <1>3, <1>4, <1>5

\* What such a step keeps of the openings, the peers and the segments.
LEMMA OwnsKept ==
    ASSUME NumbersFit, ConnInv, NEW i \in Ids, NEW c, NEW X, Owns(i, c, X)
    PROVE  /\ OpeningsOK' /\ PeersGreeted' /\ SegmentsOK'
           /\ c \in Conns /\ DOMAIN out' = Conns
           /\ \A d \in Conns : Plain(d) \subseteq Plain(d)'
           /\ \A d \in Conns \ {c} : Plain(d)' = Plain(d)
           /\ \A m \in Plain(c)' : m \in Plain(c) \/ m \in X
           /\ \A d \in Conns : Greeted(d)' <=> Greeted(d)
           /\ sock'[i].state # "CLOSED" => Home(i)' /\ Of(sock'[i].seq) = Of(sock[i].seq)
<1> DEFINE q == sock[i].seq
<1>0. /\ OpeningsOK /\ PeersGreeted /\ SegmentsOK /\ UNCHANGED <<peer, opens>>
      /\ sends \in Nat /\ MaxSends \in Nat /\ sends' \in sends .. MaxSends
  BY TcpAssumption DEF ConnInv, StreamInv, Owns, OpeningsOK
<1>1. \A j \in Ids \ {i} : Same(sock'[j], sock[j])
  BY DEF Owns
<1>2. /\ Opened(i) /\ c \in Conns /\ c = sock[i].conn /\ Greeted(c) /\ q \in Nat
      /\ Base(Of(q)) \in Nat /\ q > Base(Of(q)) /\ Of(peer[c].rcv) = Of(q) /\ Stride \in Nat
      /\ \A x \in Nat : q <= x /\ x < Base(Of(q)) + Stride => Of(x) = Of(q) /\ Numbered(x)
  BY SyncedFact DEF Owns
<1>3. /\ sock'[i].state # "CLOSED" =>
           /\ sock'[i].conn = c /\ sock'[i].seq \in Nat
           /\ q <= sock'[i].seq /\ sock'[i].seq < Base(Of(q)) + Stride
      /\ \A m \in X : /\ "SYN" \notin m.flags /\ m.len \in Nat /\ m.seq \in Nat /\ EndOf(m) \in Nat
                      /\ q <= m.seq /\ m.seq <= EndOf(m) /\ EndOf(m) < Base(Of(q)) + Stride
      /\ out' = [out EXCEPT ![c] = @ \cup X]
      /\ \A d \in Conns \ {c} : sent'[d] = sent[d]
  BY DEF Owns
<1> HIDE DEF q
<1>4. \A x : Numbered(x)' <=> Numbered(x')
  BY <1>0 DEF Numbered
<1>5. sock'[i].state # "CLOSED" => Of(sock'[i].seq) = Of(q) /\ Numbered(sock[i].seq)'
  BY <1>0, <1>2, <1>3 DEF Numbered
<1>6. /\ \A d \in Conns : Plain(d) \subseteq Plain(d)'
      /\ \A d \in Conns \ {c} : out'[d] = out[d] /\ Plain(d)' = Plain(d)
      /\ \A d \in Conns : \A m \in out'[d] : m \in out[d] \/ (d = c /\ m \in X)
      /\ \A m \in Plain(c)' : m \in Plain(c) \/ m \in X
      /\ \A d \in Conns : Greeted(d)' <=> Greeted(d)
      /\ DOMAIN out' = Conns
  BY <1>0, <1>2, <1>3 DEF Plain, Greeted, SegmentsOK
<1>7. OpeningsOK'
  <2>1. \A j \in Ids : Opened(j)' => sock'[j].conn \in Conns /\ Numbered(sock[j].seq)'
    <3> SUFFICES ASSUME NEW j \in Ids, Opened(j)'
                 PROVE  sock'[j].conn \in Conns /\ Numbered(sock[j].seq)'
      OBVIOUS
    <3>1. CASE j = i
      BY <1>2, <1>3, <1>5, <3>1 DEF Opened
    <3>2. CASE j # i
      BY <1>0, <1>1, <3>2 DEF OpeningsOK, Opened, Same, Numbered
    <3> QED BY <3>1, <3>2
  <2>2. \A j \in Ids : Opened(j)' => Opened(j) /\ Of(sock'[j].seq) = Of(sock[j].seq)
    BY <1>1, <1>2, <1>5 DEF Opened, Same, q
  <2>3. \A j, k \in Ids : Opened(j)' /\ Opened(k)' /\ j # k => Of(sock'[j].seq) # Of(sock'[k].seq)
    BY <1>0, <2>2 DEF OpeningsOK
  <2>4. call'.op = "tcpsend" => sends' > 0
    BY <1>0 DEF Owns, OpeningsOK
  <2> QED BY <1>0, <2>1, <2>3, <2>4 DEF OpeningsOK
<1>8. PeersGreeted'
  BY <1>0, <1>2, <1>3, <1>6 DEF PeersGreeted, Numbered
<1>9. SegmentsOK'
  <2>1. ASSUME NEW d \in Conns, NEW m \in out'[d]
        PROVE  /\ m.seq \in Nat /\ m.len \in Nat
               /\ "SYN" \in m.flags => m.len = 0 /\ Numbered(m.seq)' /\ m.seq = Base(Of(m.seq))
               /\ "SYN" \notin m.flags =>
                    /\ EndOf(m) \in Nat /\ m.seq > Base(Of(peer[d].rcv)) /\ m.seq <= EndOf(m)
                    /\ EndOf(m) < Base(Of(peer[d].rcv)) + Stride
    <3>1. CASE m \in out[d]
      BY <1>0, <3>1 DEF SegmentsOK, Numbered
    <3>2. CASE d = c /\ m \in X
      <4>1. Base(Of(peer[c].rcv)) = Base(Of(q))
        BY <1>2
      <4> QED BY <1>2, <1>3, <3>2, <4>1
    <3> QED BY <1>6, <2>1, <3>1, <3>2
  <2> QED BY <1>0, <1>6, <2>1 DEF SegmentsOK
<1>10. sock'[i].state # "CLOSED" => Home(i)' /\ Of(sock'[i].seq) = Of(sock[i].seq)
  BY <1>0, <1>2, <1>3, <1>5 DEF Home, Greeted, q
<1> QED BY <1>2, <1>6, <1>7, <1>8, <1>9, <1>10

-----------------------------------------------------------------------------
\* A sum that wraps at most once.
LEMMA OnceAround ==
    ASSUME NEW a \in Nat, NEW b \in Nat, a + b < 2 * SeqMod
    PROVE  Plus(a, b) = IF a + b < SeqMod THEN a + b ELSE a + b - SeqMod
<1>1. SeqMod \in Nat \ {0}
  BY TcpAssumption
<1>2. CASE a + b < SeqMod
  BY <1>2, SumFact
<1>3. CASE a + b >= SeqMod
  <2> DEFINE x == a + b
             r == x - SeqMod
  <2>1. r \in 0 .. SeqMod - 1 /\ x = SeqMod * 1 + r
    BY <1>1, <1>3
  <2>2. x % SeqMod = r
    BY <1>1, <2>1
  <2>3. ~(a + b < SeqMod) /\ Plus(a, b) = a + b - SeqMod
    BY <1>1, <1>3, <2>2 DEF Plus
  <2> QED BY ONLY <2>3
<1> QED BY <1>1, <1>2, <1>3

\* Offsets of a peer's stream and its sequence numbers go together.
LEMMA OffsetFact ==
    ASSUME NumbersFit, NEW a \in 0 .. PeerBytes, NEW b \in 0 .. PeerBytes
    PROVE  /\ Plus(PeerIsn, 1 + a) = Plus(PeerIsn, 1 + b) => a = b
           /\ a <= b => Plus(Plus(PeerIsn, 1 + a), b - a) = Plus(PeerIsn, 1 + b)
<1>1. /\ SeqMod \in Nat \ {0} /\ PeerIsn \in 0 .. SeqMod - 1 /\ PeerBytes \in Nat
      /\ PeerBytes < SeqMod
  BY TcpAssumption DEF NumbersFit
<1> DEFINE F(x) == IF PeerIsn + (1 + x) < SeqMod THEN PeerIsn + (1 + x)
                                                 ELSE PeerIsn + (1 + x) - SeqMod
<1>2. ASSUME NEW x \in 0 .. PeerBytes PROVE Plus(PeerIsn, 1 + x) = F(x) /\ F(x) \in 0 .. SeqMod - 1
  BY <1>1, OnceAround
<1>3. Plus(PeerIsn, 1 + a) = Plus(PeerIsn, 1 + b) => a = b
  BY <1>1, <1>2
<1>4. ASSUME a <= b PROVE Plus(F(a), b - a) = F(b)
  <2>1. F(a) \in Nat /\ b - a \in Nat /\ F(a) + (b - a) < 2 * SeqMod
    BY <1>1, <1>4
  <2>2. Plus(F(a), b - a) = IF F(a) + (b - a) < SeqMod THEN F(a) + (b - a) ELSE F(a) + (b - a) - SeqMod
    <3> HIDE DEF F
    <3> QED BY <2>1, OnceAround
  <2> QED BY <1>1, <1>4, <2>2
<1> HIDE DEF F
<1> QED BY <1>2, <1>3, <1>4

-----------------------------------------------------------------------------
\* Socket i takes a segment of its peer: the payload of p.len bytes from offset
\* p.data on joins its queue, or nothing does; X acknowledges that.
Receives(i, c, p, X) ==
    /\ Owns(i, c, X) /\ UNCHANGED <<call, sent, got, failed, sends>>
    /\ \A m \in X : m.len = 0 /\ EndOf(m) = m.seq /\ m.seq = sock[i].seq
    /\ sock'[i].state \in {sock[i].state, "CLOSED"} /\ sock'[i].seq = sock[i].seq
    /\ \/ sock'[i].state = "CLOSED"
       \/ sock'[i].armed = sock[i].armed /\ sock'[i].last = sock[i].last
       \/ ~sock'[i].armed /\ (c \notin failed => peer[c].rcv = sock[i].seq)
    /\ \/ /\ sock'[i].rxq = sock[i].rxq
          /\ sock'[i].state # "CLOSED" => sock'[i].ack = sock[i].ack
       \/ /\ p \in [conn : {c}, data : 0 .. peer[c].snd, len : 0 .. peer[c].snd]
          /\ p.data + p.len <= peer[c].snd /\ Plus(PeerIsn, 1 + p.data) = sock[i].ack
          /\ sock'[i].rxq = Append(sock[i].rxq, p)
          /\ sock'[i].state # "CLOSED" => sock'[i].ack = Plus(sock[i].ack, p.len)

\* The queue of a socket is a sequence of packets.
LEMMA QueueFact ==
    ASSUME ConnInv, NEW i \in Ids
    PROVE  /\ sock[i].rxq \in Seq(Packet) /\ Len(sock[i].rxq) \in Nat
           /\ sock[i].rxq # <<>> => Len(sock[i].rxq) \in 1 .. Len(sock[i].rxq)
           /\ \A n \in 1 .. Len(sock[i].rxq) : sock[i].rxq[n] \in Packet
<1>1. sock[i].rxq \in Seq(Packet)
  BY TableFacts DEF ConnInv, SocketOK
<1> QED BY <1>1, EmptySeq, LenProperties, ElementOfSeq

\* The first packet a socket takes goes on where its queue ends.
LEMMA TakenFact ==
    ASSUME NumbersFit, ConnInv, NEW i \in Ids, NEW c, Synced(i), c = sock[i].conn,
           NEW p \in [conn : {c}, data : 0 .. peer[c].snd, len : 0 .. peer[c].snd],
           p.data + p.len <= peer[c].snd, Plus(PeerIsn, 1 + p.data) = sock[i].ack
    PROVE  /\ p.data = StreamEnd(sock[i].rxq, c)
           /\ Plus(sock[i].ack, p.len) = Plus(PeerIsn, 1 + (p.data + p.len))
<1> DEFINE e == StreamEnd(sock[i].rxq, c)
<1>1. c \in Conns
  BY SyncedFact
<1>2. /\ e \in 0 .. peer[c].snd /\ sock[i].ack = Plus(PeerIsn, 1 + e)
      /\ peer[c].snd \in Nat /\ peer[c].snd <= PeerBytes /\ PeerBytes \in Nat
  BY <1>1, TcpAssumption DEF ConnInv, StreamInv, StreamsOK, StreamOK, TcpInv, PeersOK
<1> HIDE DEF e
<1>3. e \in 0 .. PeerBytes /\ p.data \in 0 .. PeerBytes
  BY <1>2
<1>4. p.data = e
  BY <1>2, <1>3, OffsetFact
<1> DEFINE d == p.data + p.len
<1>5. d \in 0 .. PeerBytes /\ p.data <= d /\ d - p.data = p.len
  BY <1>2, <1>3
<1> HIDE DEF d
<1>6. Plus(Plus(PeerIsn, 1 + p.data), d - p.data) = Plus(PeerIsn, 1 + d)
  BY <1>3, <1>5, OffsetFact
<1> QED BY <1>4, <1>5, <1>6 DEF e, d

\* Taking a segment keeps what holds of the queues and of the stream.
LEMMA ReceivesStream ==
    ASSUME NumbersFit, ConnInv, NEW i \in Ids, NEW c, NEW p, NEW X, Receives(i, c, p, X)
    PROVE  QueuesOK' /\ StreamsOK'
<1> DEFINE q == sock[i].rxq
           r == sock'[i].rxq
           n == Len(q)
           e == StreamEnd(q, c)
<1>0. QueuesOK /\ StreamsOK /\ UNCHANGED <<peer, sent, got, failed>>
  BY DEF ConnInv, StreamInv, Receives, Owns
<1>1. \A j \in Ids \ {i} : Same(sock'[j], sock[j])
  BY DEF Receives, Owns
<1>2. /\ Synced(i) /\ c = sock[i].conn /\ c \in Conns /\ Greeted(c)
      /\ sock'[i].state \in {sock[i].state, "CLOSED"}
      /\ sock'[i].state # "CLOSED" => sock'[i].conn = c
  BY SyncedFact DEF Receives, Owns
<1>3. /\ q \in Seq(Packet) /\ n \in Nat /\ (q # <<>> => n \in 1 .. n)
      /\ \A k \in 1 .. n : q[k] \in Packet
  BY QueueFact
<1>4. /\ Has(q, c) => q[n].conn = c
      /\ \A j \in Ids : Has(sock[j].rxq, c) => j = i
      /\ e \in 0 .. peer[c].snd /\ sock[i].ack = Plus(PeerIsn, 1 + e)
  BY <1>0, <1>2 DEF StreamsOK, StreamOK
<1> DEFINE Goal ==
      /\ QueuesOK'
      /\ \A j \in Ids, d \in Conns : Has(sock'[j].rxq, d) => Has(sock[j].rxq, d) \/ (j = i /\ d = c)
      /\ sock'[i].state # "CLOSED" =>
            /\ Has(r, c) => r[Len(r)].conn = c
            /\ StreamEnd(sock[i].rxq, sock[i].conn)' \in 0 .. peer[c].snd
            /\ sock'[i].ack = Plus(PeerIsn, 1 + StreamEnd(sock[i].rxq, sock[i].conn)')
<1>5. ASSUME r = q, sock'[i].state # "CLOSED" => sock'[i].ack = sock[i].ack
      PROVE  Goal
  <2>1. \A j \in Ids : sock'[j].rxq = sock[j].rxq \/ sock'[j].rxq = <<>>
    BY <1>1, <1>5 DEF Same
  <2>2. /\ QueuesOK' /\ \A j \in Ids, d \in Conns : Has(sock'[j].rxq, d) => Has(sock[j].rxq, d)
    BY <1>0, <2>1, QueuesKept
  <2>3. sock'[i].state # "CLOSED" => StreamEnd(sock[i].rxq, sock[i].conn)' = e
    BY <1>0, <1>2, <1>5 DEF StreamEnd
  <2> QED BY <1>4, <1>5, <2>2, <2>3
<1>6. ASSUME p \in [conn : {c}, data : 0 .. peer[c].snd, len : 0 .. peer[c].snd],
             p.data + p.len <= peer[c].snd, Plus(PeerIsn, 1 + p.data) = sock[i].ack,
             r = Append(q, p),
             sock'[i].state # "CLOSED" => sock'[i].ack = Plus(sock[i].ack, p.len)
      PROVE  Goal
  <2>1. p.data = e /\ Plus(sock[i].ack, p.len) = Plus(PeerIsn, 1 + (p.data + p.len)) /\ p.conn = c
    BY <1>2, <1>6, TakenFact
  <2>2. peer[c].snd \in Nat /\ p.data \in Nat /\ p.len \in Nat
    BY <1>2, <1>6 DEF ConnInv, TcpInv, PeersOK
  <2>3. /\ Len(r) = n + 1 /\ r[n + 1] = p /\ \A k \in 1 .. n : r[k] = q[k]
    BY <1>3, <1>6, AppendProperties
  <2>3a. /\ \A k \in 1 .. n : r[k] = q[k] /\ (k > 1 => r[k - 1] = q[k - 1])
         /\ n > 0 => r[n] = q[n]
    <3> HIDE DEF q, r, n
    <3>1. n \in Nat
      BY <1>3
    <3> QED BY <2>3, <3>1
  <2> HIDE DEF e
  <2>4. \A d \in Conns : Has(r, d) => Has(q, d) \/ d = c
    <3> SUFFICES ASSUME NEW d \in Conns, NEW k \in 1 .. Len(r), r[k].conn = d, d # c
                 PROVE  Has(q, d)
      BY DEF Has
    <3> HIDE DEF q, r, n
    <3>1. k \in 1 .. n + 1 /\ n \in Nat
      BY <1>3, <2>3
    <3>2. k # n + 1
      BY <2>1, <2>3
    <3>3. k \in 1 .. n /\ q[k].conn = d
      BY <2>3, <3>1, <3>2
    <3> QED BY <3>3 DEF Has, n
  <2>5. Chained(sock[i].rxq)'
    <3> SUFFICES ASSUME NEW k \in 1 .. Len(r)
                 PROVE  r[k].data = IF k > 1 /\ r[k - 1].conn = r[k].conn
                           THEN r[k - 1].data + r[k - 1].len ELSE Len(got'[r[k].conn])
      BY DEF Chained
    <3>1. CASE k \in 1 .. n
      <4>1. r[k] = q[k] /\ (k > 1 => r[k - 1] = q[k - 1])
        BY <2>3a, <3>1
      <4>2. q[k].data = IF k > 1 /\ q[k - 1].conn = q[k].conn
                           THEN q[k - 1].data + q[k - 1].len ELSE Len(got[q[k].conn])
        BY <1>0, <3>1 DEF QueuesOK, Chained
      <4> QED BY <1>0, <4>1, <4>2
    <3>2. CASE k = n + 1
      <4>1. n > 0 => r[n] = q[n]
        BY <2>3a
      <4>2. e = IF q # <<>> /\ q[n].conn = c THEN q[n].data + q[n].len ELSE Len(got[c])
        BY DEF e, StreamEnd
      <4>3. q # <<>> <=> n > 0
        BY <1>3, EmptySeq
      <4>4. k > 1 <=> n > 0
        BY <1>3, <3>2
      <4>5. k - 1 = n
        BY <1>3, <3>2
      <4> HIDE DEF q, r, n
      <4> QED BY <1>0, <2>1, <2>3, <3>2, <4>1, <4>2, <4>3, <4>4, <4>5
    <3>3. k \in 1 .. n \/ k = n + 1
      <4>1. k \in 1 .. n + 1 /\ n \in Nat
        BY <1>3, <2>3
      <4> QED BY ONLY <4>1
    <3> QED BY ONLY <3>1, <3>2, <3>3
  <2>6. Together(sock[i].rxq)'
    <3> SUFFICES ASSUME NEW a \in 1 .. Len(r), NEW d \in 1 .. Len(r), NEW b \in 1 .. Len(r),
                        a <= d, d <= b, r[a].conn = r[b].conn
                 PROVE  r[d].conn = r[a].conn
      BY DEF Together
    <3>1. Together(q)
      BY <1>0 DEF QueuesOK
    <3> HIDE DEF q, r, n
    <3>2. CASE b \in 1 .. n
      <4>1. a \in 1 .. n /\ d \in 1 .. n /\ r[a] = q[a] /\ r[b] = q[b] /\ r[d] = q[d]
        BY <1>3, <2>3, <3>2
      <4> QED BY <3>1, <3>2, <4>1 DEF Together, n
    <3>3. CASE b = n + 1 /\ a \in 1 .. n /\ d \in 1 .. n
      <4>1. Has(q, c)
        BY <2>1, <2>3, <3>3 DEF Has, n
      <4>2. q[n].conn = c /\ n \in 1 .. n
        BY <1>3, <1>4, <3>3, <4>1
      <4> QED BY <2>1, <2>3, <3>1, <3>3, <4>2 DEF Together, n
    <3>4. CASE d = b \/ d = a
      BY <3>4
    <3> QED BY <1>3, <2>3, <3>2, <3>3, <3>4
  <2>7. \A j \in Ids, d \in Conns : Has(sock'[j].rxq, d) => Has(sock[j].rxq, d) \/ (j = i /\ d = c)
    BY <1>1, <2>4 DEF Same
  <2>8. QueuesOK'
    <3>1. \A j \in Ids \ {i} : sock'[j].rxq = sock[j].rxq
      BY <1>1 DEF Same
    <3>2. ASSUME NEW j \in Ids \ {i} PROVE Chained(sock[j].rxq)' /\ Together(sock[j].rxq)'
      <4>1. Chained(sock[j].rxq) /\ Together(sock[j].rxq)
        BY <1>0 DEF QueuesOK
      <4>2. Chained(sock[j].rxq)'
        BY <1>0, <3>1, <4>1 DEF Chained
      <4>3. Together(sock[j].rxq)'
        BY <3>1, <4>1 DEF Together
      <4> QED BY <4>2, <4>3
    <3>3. \A d \in Conns, j, k \in Ids : Has(sock'[j].rxq, d) /\ Has(sock'[k].rxq, d) => j = k
      BY <1>0, <1>4, <2>7 DEF QueuesOK
    <3> QED BY <1>0, <2>5, <2>6, <3>2, <3>3 DEF QueuesOK
  <2>9. sock'[i].state # "CLOSED" =>
           /\ r[Len(r)].conn = c
           /\ StreamEnd(sock[i].rxq, sock[i].conn)' = p.data + p.len
           /\ p.data + p.len \in 0 .. peer[c].snd
           /\ sock'[i].ack = Plus(PeerIsn, 1 + (p.data + p.len))
    <3>1. r # <<>> /\ r[Len(r)] = p
      BY <1>3, <2>3, EmptySeq
    <3>2. p.data + p.len \in 0 .. peer[c].snd
      BY <1>6, <2>2
    <3> QED BY <1>2, <1>6, <2>1, <3>1, <3>2 DEF StreamEnd
  <2> QED BY <2>7, <2>8, <2>9
<1>7. Goal
  BY <1>5, <1>6 DEF Receives
<1> HIDE DEF q, r, n, e
<1>8. ASSUME NEW d \in Conns, ~Greeted(d)' PROVE Untouched(d)'
  <2>1. ~Greeted(d) /\ d # c
    BY <1>0, <1>2, <1>8 DEF Greeted
  <2>2. Untouched(d)
    BY <1>0, <2>1 DEF StreamsOK
  <2> QED BY <1>0, <1>7, <2>1, <2>2 DEF Untouched
<1>9. ASSUME NEW j \in Ids PROVE StreamOK(j)'
  <2>1. CASE j = i
    <3>1. CASE sock'[i].state = "CLOSED"
      BY <2>1, <3>1 DEF StreamOK, Greeting, Synced
    <3>2. CASE sock'[i].state # "CLOSED"
      <4>1. ~Greeting(i)' /\ sock'[i].state # "SYN_RECEIVED" /\ sock'[i].conn = c
        BY <1>2, <3>2 DEF Greeting, Synced
      <4>2. \A k \in Ids : Has(sock'[k].rxq, c) => k = i
        BY <1>2, <1>4, <1>7
      <4>3. Has(sock'[i].rxq, c) => sock'[i].rxq[Len(sock'[i].rxq)].conn = c
        BY <1>7, <3>2 DEF r
      <4> QED BY <1>0, <1>7, <2>1, <3>2, <4>1, <4>2, <4>3 DEF StreamOK
    <3> QED BY <3>1, <3>2
  <2>2. CASE j # i
    <3>1. Opened(j) /\ (Home(j) \/ Synced(j)) => sock[j].conn \in Conns /\ sock[j].conn # c
      <4>1. Opened(i) /\ Home(i)
        BY <1>2, SyncedFact
      <4> QED BY <1>2, <2>2, <4>1, OthersAway DEF ConnInv, StreamInv, OpeningsOK
    <3> QED BY <1>0, <1>1, <1>7, <2>2, <3>1, StreamLeft
  <2> QED BY <2>1, <2>2
<1> QED BY <1>0, <1>7, <1>8, <1>9 DEF StreamsOK

\* An open socket, with the number v its peer has got to.
LEMMA SyncedNow ==
    ASSUME NEW i \in Ids, Home(i)', NEW b, NEW z, NEW v,
           Base(Of(sock'[i].seq)) = b, sock'[i].seq = z, peer'[sock'[i].conn].rcv = v,
           z > b,
           sock'[i].conn \notin failed' =>
             /\ v <= z /\ \A m \in Plain(sock[i].conn)' : EndOf(m) <= z
             /\ sock'[i].armed => EndOf(sock'[i].last) = z
             /\ ~sock'[i].armed => v = z,
           z + Pending(i)' <= b + 1 + Longest * sends' + (IF sock'[i].state = "FIN_WAIT" THEN 1 ELSE 0)
    PROVE  SyncedOK(i)'
BY DEF SyncedOK, CurrentOK

\* Taking a segment.
LEMMA ReceivesKept ==
    ASSUME NumbersFit, ConnInv, NEW i \in Ids, NEW c, NEW p, NEW X, Receives(i, c, p, X)
    PROVE  StreamInv'
<1> DEFINE q == sock[i].seq
<1>0. /\ SocketsOK /\ SendsOK /\ Owns(i, c, X)
      /\ UNCHANGED <<call, peer, sent, got, failed, sends>> /\ sends' \in sends .. MaxSends
  BY DEF ConnInv, StreamInv, Receives, Owns
<1>1. \A j \in Ids \ {i} : Same(sock'[j], sock[j])
  BY DEF Receives, Owns
<1>2. /\ Synced(i) /\ Opened(i) /\ c = sock[i].conn /\ SyncedOK(i) /\ q \in Nat
      /\ Home(i)
  BY SyncedFact DEF Receives, Owns
<1>3. /\ OpeningsOK' /\ PeersGreeted' /\ SegmentsOK' /\ c \in Conns /\ DOMAIN out' = Conns
      /\ \A d \in Conns : Plain(d) \subseteq Plain(d)'
      /\ \A d \in Conns \ {c} : Plain(d)' = Plain(d)
      /\ \A m \in Plain(c)' : m \in Plain(c) \/ m \in X
      /\ \A d \in Conns : Greeted(d)' <=> Greeted(d)
      /\ sock'[i].state # "CLOSED" => Home(i)' /\ Of(sock'[i].seq) = Of(sock[i].seq)
  BY <1>0, OwnsKept
<1>4. QueuesOK' /\ StreamsOK'
  BY ReceivesStream
<1>5. /\ \A m \in X : m.len = 0 /\ EndOf(m) = m.seq /\ m.seq = q
      /\ sock'[i].seq = q /\ sock'[i].state \in {sock[i].state, "CLOSED"}
      /\ \/ sock'[i].state = "CLOSED"
         \/ sock'[i].armed = sock[i].armed /\ sock'[i].last = sock[i].last
         \/ ~sock'[i].armed /\ (c \notin failed => peer[c].rcv = q)
      /\ sock'[i].state # "CLOSED" => sock'[i].conn = c
      /\ out' = [out EXCEPT ![c] = @ \cup X]
  BY DEF Receives, Owns
<1> HIDE DEF q
<1>6. SocketsOK'
  <2> SUFFICES ASSUME NEW j \in Ids
               PROVE  /\ Opened(j)' /\ sock'[j].armed => sock'[j].last \in out'[sock'[j].conn]
                      /\ Greeting(j)' => GreetingOK(j)'
                      /\ Synced(j)' => SyncedOK(j)'
    BY DEF SocketsOK
  <2>1. CASE j # i
    <3>1. Pending(j)' <= Pending(j)
      BY <1>0 DEF Pending
    <3> QED BY <1>0, <1>1, <1>2, <1>5, <2>1, <3>1, OthersKept
  <2>2. CASE j = i /\ sock'[i].state = "CLOSED"
    BY <2>2 DEF Opened, Greeting, Synced
  <2>3. CASE j = i /\ sock'[i].state # "CLOSED"
    <3>1. sock'[i].state = sock[i].state /\ sock'[i].conn = c /\ Home(i)' /\ ~Greeting(i)'
          /\ Base(Of(sock'[i].seq)) = Base(Of(q))
      BY <1>2, <1>3, <1>5, <2>3 DEF Synced, Greeting, q
    <3>2. sock'[i].armed => sock'[i].last \in out'[c]
      <4>1. sock[i].armed => sock[i].last \in out[c]
        BY <1>0, <1>2 DEF SocketsOK
      <4>2. out[c] \subseteq out'[c]
        BY <1>3, <1>5
      <4> QED BY <1>5, <2>3, <4>1, <4>2
    <3> DEFINE v == peer[c].rcv
    <3>3. /\ q > Base(Of(q))
          /\ c \notin failed => /\ v <= q /\ \A m \in Plain(c) : EndOf(m) <= q
                                /\ sock[i].armed => EndOf(sock[i].last) = q
                                /\ ~sock[i].armed => v = q
          /\ q + Pending(i) <= Base(Of(q)) + 1 + Longest * sends
                + (IF sock[i].state = "FIN_WAIT" THEN 1 ELSE 0)
      BY <1>2 DEF SyncedOK, CurrentOK, q
    <3>4. c \notin failed => /\ sock'[i].armed => EndOf(sock'[i].last) = q
                             /\ ~sock'[i].armed => v = q
      BY <1>5, <2>3, <3>3
    <3>5. c \notin failed => \A m \in Plain(sock[i].conn)' : EndOf(m) <= q
      <4>1. c \notin failed => \A m \in Plain(c)' : EndOf(m) <= q
        BY <1>2, <1>3, <1>5, <3>3
      <4> QED BY <3>1, <4>1 DEF Plain
    <3>6. q + Pending(i)' <= Base(Of(q)) + 1 + Longest * sends'
                + (IF sock'[i].state = "FIN_WAIT" THEN 1 ELSE 0)
      BY <1>0, <3>1, <3>3 DEF Pending
    <3>7. peer'[sock'[i].conn].rcv = v
      BY <1>0, <3>1
    <3>8. SyncedOK(i)'
      <4> HIDE DEF v
      <4>1. sock'[i].conn \notin failed' =>
             /\ v <= q /\ \A m \in Plain(sock[i].conn)' : EndOf(m) <= q
             /\ sock'[i].armed => EndOf(sock'[i].last) = q
             /\ ~sock'[i].armed => v = q
        BY <1>0, <3>1, <3>3, <3>4, <3>5
      <4> QED BY <1>5, <3>1, <3>3, <3>6, <3>7, <4>1, SyncedNow
    <3> QED BY <2>3, <3>1, <3>2, <3>8
  <2> QED BY <2>1, <2>2, <2>3
<1>7. SendsOK'
  <2>1. ASSUME NEW d \in Conns, NEW pos, Marks(d, pos) PROVE Marks(d, pos)'
    <3>1. \A m \in Plain(d)' : m \in Plain(d) \/ (m.len = 0 /\ EndOf(m) = m.seq)
      BY <1>3, <1>5
    <3>2. \A j \in Ids : sock'[j].state = "ESTABLISHED" /\ sock'[j].conn = d =>
               sock'[j].seq = pos[Len(sent[d])]
      <4>1. \A j \in Ids : sock[j].state = "ESTABLISHED" /\ sock[j].conn = d =>
               sock[j].seq = pos[Len(sent[d])]
        BY <2>1 DEF Marks
      <4> QED BY <1>1, <1>2, <1>5, <4>1 DEF Same, q
    <3> QED BY <1>0, <1>3, <2>1, <3>1, <3>2, BareMarks
  <2> QED BY <1>0, <1>3, <2>1 DEF SendsOK
<1> QED BY <1>3, <1>4, <1>6, <1>7 DEF StreamInv

-----------------------------------------------------------------------------
One(f) == IF f THEN 1 ELSE 0

\* Socket i sends a payload d of n bytes, or none, and with f a FIN.
Sends(i, c, n, f, d, X) ==
    /\ sock[i].state = "ESTABLISHED" /\ c = sock[i].conn /\ UNCHANGED <<peer, got, failed, opens>>
    /\ n \in Nat /\ f \in BOOLEAN /\ d \in Int
    /\ call'.op = "tcpsend" => call.op = "tcpsend"
    /\ \/ sends' = sends /\ n + Pending(i)' <= Pending(i)
       \/ sends' = sends + 1 /\ sends < MaxSends /\ n <= Longest /\ Pending(i)' <= Pending(i)
    /\ \A j \in Ids \ {i} : Same(sock'[j], sock[j])
    /\ sock'[i].state = (IF f THEN "FIN_WAIT" ELSE "ESTABLISHED") /\ sock'[i].conn = c
    /\ sock'[i].rxq = sock[i].rxq /\ sock'[i].ack = sock[i].ack
    /\ sock'[i].seq = sock[i].seq + n + One(f) /\ sock'[i].armed
    /\ sock'[i].last \in X /\ EndOf(sock'[i].last) = sock'[i].seq
    /\ sent' = IF n > 0 THEN [sent EXCEPT ![c] = Append(@, d)] ELSE sent
    /\ out' = [out EXCEPT ![c] = @ \cup X]
    /\ \A m \in X :
         /\ "SYN" \notin m.flags
         /\ \/ n > 0 /\ m.len = n /\ m.seq = sock[i].seq /\ EndOf(m) = sock[i].seq + n /\ m.data = d
            \/ f /\ m.len = 0 /\ m.seq = sock[i].seq + n /\ EndOf(m) = sock[i].seq + n + 1

\* There is room for a payload that may still be sent and a FIN.
LEMMA RoomFact ==
    ASSUME NumbersFit, ConnInv, NEW i \in Ids, sock[i].state = "ESTABLISHED", NEW n \in Nat,
           n <= Pending(i) \/ (sends < MaxSends /\ n <= Longest)
    PROVE  sock[i].seq + n + 1 < Base(Of(sock[i].seq)) + Stride
<1> DEFINE q == sock[i].seq
           b == Base(Of(q))
<1>1. Synced(i)
  BY DEF Synced
<1>2. q \in Nat /\ b \in Nat /\ Stride \in Nat /\ SyncedOK(i)
  BY <1>1, SyncedFact
<1>3. q + Pending(i) <= b + 1 + Longest * sends
  <2>1. q + Pending(i) <= b + 1 + Longest * sends + (IF sock[i].state = "FIN_WAIT" THEN 1 ELSE 0)
    BY <1>2 DEF SyncedOK
  <2>2. (IF sock[i].state = "FIN_WAIT" THEN 1 ELSE 0) = 0
    OBVIOUS
  <2>3. Longest * sends \in Nat
    BY TcpAssumption DEF ConnInv, StreamInv, OpeningsOK, NumbersFit
  <2> HIDE DEF q, b
  <2> QED BY <1>2, <2>1, <2>2, <2>3
<1>4. sends \in Nat /\ MaxSends \in Nat /\ sends <= MaxSends /\ Longest \in Nat
      /\ Longest * MaxSends + 3 <= Stride /\ Pending(i) \in Nat
  BY TcpAssumption DEF ConnInv, StreamInv, OpeningsOK, NumbersFit, Pending
<1>5. Longest * sends <= Longest * MaxSends /\ Longest * sends \in Nat /\ Longest * MaxSends \in Nat
  BY <1>4, ProductFact
<1>6. sends < MaxSends => Longest * sends + Longest <= Longest * MaxSends
  <2>1. sends < MaxSends => Longest * (sends + 1) <= Longest * MaxSends
    BY <1>4, ProductFact
  <2>2. Longest * (sends + 1) = Longest * sends + Longest
    BY <1>4
  <2> QED BY <2>1, <2>2
<1> HIDE DEF q, b
<1>7. q + n + 1 < b + Stride
  BY <1>2, <1>3, <1>4, <1>5, <1>6
<1> QED BY <1>7 DEF q, b

\* What a socket may send stays within its opening.
LEMMA BoundFact ==
    ASSUME NumbersFit, ConnInv, NEW i \in Ids, sock[i].state = "ESTABLISHED", NEW n \in Nat,
           \/ sends' = sends /\ n + Pending(i)' <= Pending(i)
           \/ sends' = sends + 1 /\ sends < MaxSends /\ n <= Longest /\ Pending(i)' <= Pending(i)
    PROVE  /\ sends' \in sends .. MaxSends
           /\ sock[i].seq + n + 1 < Base(Of(sock[i].seq)) + Stride
           /\ sock[i].seq + n + Pending(i)' <= Base(Of(sock[i].seq)) + 1 + Longest * sends'
<1> DEFINE q == sock[i].seq
           b == Base(Of(q))
<1>1. Synced(i) /\ sock[i].state = "ESTABLISHED" /\ n \in Nat
  BY DEF Synced
<1>2. q \in Nat /\ b \in Nat /\ Stride \in Nat /\ SyncedOK(i)
  BY <1>1, SyncedFact
<1>3. q + Pending(i) <= b + 1 + Longest * sends
  <2>1. q + Pending(i) <= b + 1 + Longest * sends + (IF sock[i].state = "FIN_WAIT" THEN 1 ELSE 0)
    BY <1>2 DEF SyncedOK
  <2>2. (IF sock[i].state = "FIN_WAIT" THEN 1 ELSE 0) = 0
    BY <1>1
  <2>3. Longest * sends \in Nat
    BY TcpAssumption DEF ConnInv, StreamInv, OpeningsOK, NumbersFit
  <2> HIDE DEF q, b
  <2> QED BY <1>2, <2>1, <2>2, <2>3
<1>4. /\ sends \in Nat /\ MaxSends \in Nat /\ sends <= MaxSends /\ Longest \in Nat
      /\ Pending(i) \in Nat /\ Pending(i)' \in Nat
  BY TcpAssumption DEF ConnInv, StreamInv, OpeningsOK, NumbersFit, Pending
<1>5. \/ sends' = sends /\ n + Pending(i)' <= Pending(i)
      \/ sends' = sends + 1 /\ sends < MaxSends /\ n <= Longest /\ Pending(i)' <= Pending(i)
  OBVIOUS
<1>6. sends' \in sends .. MaxSends
  BY <1>4, <1>5
<1>7. Longest * (sends + 1) = Longest * sends + Longest /\ Longest * sends \in Nat
  BY <1>4
<1>9. q + n + 1 < b + Stride
  BY <1>1, <1>4, <1>5, RoomFact
<1>10. q + n + Pending(i)' <= b + 1 + Longest * sends'
  <2> HIDE DEF q, b
  <2>1. CASE sends' = sends /\ n + Pending(i)' <= Pending(i)
    BY <1>1, <1>2, <1>3, <1>4, <1>7, <2>1
  <2>2. CASE sends' = sends + 1 /\ n <= Longest /\ Pending(i)' <= Pending(i)
    <3>1. Longest * sends' = Longest * sends + Longest
      BY <1>7, <2>2
    <3> QED BY <1>1, <1>2, <1>3, <1>4, <1>7, <2>2, <3>1
  <2> QED BY <1>5, <2>1, <2>2
<1> QED BY <1>6, <1>9, <1>10 DEF q, b

\* A send stays within its opening.
LEMMA SendsBound ==
    ASSUME NumbersFit, ConnInv, NEW i \in Ids, NEW c, NEW n, NEW f, NEW d, NEW X,
           Sends(i, c, n, f, d, X)
    PROVE  /\ Owns(i, c, X) /\ sends' \in sends .. MaxSends
           /\ sock[i].seq + n + One(f) + Pending(i)'
                <= Base(Of(sock[i].seq)) + 1 + Longest * sends' + One(f)
<1> DEFINE q == sock[i].seq
           b == Base(Of(q))
<1>1. Synced(i) /\ sock[i].state = "ESTABLISHED" /\ n \in Nat /\ f \in BOOLEAN
  BY DEF Synced, Sends
<1>2. q \in Nat /\ b \in Nat /\ Stride \in Nat
  BY <1>1, SyncedFact
<1>3. /\ sends' \in sends .. MaxSends /\ q + n + 1 < b + Stride
      /\ q + n + One(f) + Pending(i)' <= b + 1 + Longest * sends' + One(f)
  <2> DEFINE w == Pending(i)'
             L == Longest * sends'
             o == One(f)
  <2>1. \/ sends' = sends /\ n + w <= Pending(i)
        \/ sends' = sends + 1 /\ sends < MaxSends /\ n <= Longest /\ w <= Pending(i)
    BY DEF Sends
  <2>2. sends' \in sends .. MaxSends /\ q + n + 1 < b + Stride /\ q + n + w <= b + 1 + L
    BY <1>1, <2>1, BoundFact
  <2>3. L \in Nat /\ w \in Nat /\ o \in Nat
    <3>1. sends' \in Nat /\ Longest \in Nat
      BY <2>2, TcpAssumption DEF ConnInv, StreamInv, OpeningsOK, NumbersFit
    <3>2. sends' <= sends'
      BY <3>1
    <3>3. L \in Nat
      BY <3>1, <3>2, ProductFact
    <3> QED BY <3>3 DEF Pending, One
  <2> HIDE DEF q, b, w, L, o
  <2>4. q + n + o + w <= b + 1 + L + o
    BY ONLY <1>1, <1>2, <2>2, <2>3
  <2> QED BY <2>2, <2>4 DEF w, L, o
<1>4. Owns(i, c, X)
  <2>1. \A m \in X : /\ "SYN" \notin m.flags /\ m.len \in Nat /\ m.seq \in Nat /\ EndOf(m) \in Nat
                    /\ q <= m.seq /\ m.seq <= EndOf(m)
                    /\ EndOf(m) < b + Stride
    <3> SUFFICES ASSUME NEW m \in X
                 PROVE  /\ "SYN" \notin m.flags /\ m.len \in Nat /\ m.seq \in Nat /\ EndOf(m) \in Nat
                        /\ q <= m.seq /\ m.seq <= EndOf(m)
                        /\ EndOf(m) < b + Stride
      OBVIOUS
    <3>1. /\ "SYN" \notin m.flags
          /\ \/ n > 0 /\ m.len = n /\ m.seq = q /\ EndOf(m) = q + n
             \/ m.len = 0 /\ m.seq = q + n /\ EndOf(m) = q + n + 1
      BY DEF Sends
    <3> HIDE DEF q, b
    <3> QED BY <1>1, <1>2, <1>3, <3>1
  <2>2. sock'[i].seq = q + n + One(f)
    BY DEF Sends
  <2>3. sock'[i].seq \in Nat /\ q <= sock'[i].seq /\ sock'[i].seq < b + Stride
    <3>1. One(f) \in {0, 1}
      BY DEF One
    <3> HIDE DEF q, b
    <3> QED BY <1>1, <1>2, <1>3, <2>2, <3>1
  <2>4. \A e \in Conns \ {c} : sent'[e] = sent[e]
    BY DEF Sends, ConnInv, StreamInv, SendsOK
  <2> HIDE DEF EndOf
  <2>5. sock'[i].state \in {"ESTABLISHED", "FIN_WAIT"} /\ sock'[i].conn = c
    BY DEF Sends
  <2> QED BY <1>1, <1>3, <2>1, <2>3, <2>4, <2>5 DEF Owns, Sends
<1> QED BY <1>3, <1>4

\* The marks of what was sent to a peer after a send.
LEMMA SendsMarks ==
    ASSUME NumbersFit, ConnInv, NEW i \in Ids, NEW c, NEW n, NEW f, NEW d, NEW X,
           Sends(i, c, n, f, d, X), NEW pos, Marks(c, pos), c \notin failed
    PROVE  sent'[c] \in Seq(Int) /\ \E new : Marks(c, new)'
<1> DEFINE q == sock[i].seq
           N == Len(sent[c])
           M == Len(sent'[c])
           e == peer[c]
<1>0. /\ UNCHANGED <<peer, opens>> /\ peer' = peer /\ SendsOK /\ c \in Conns /\ c = sock[i].conn
      /\ Synced(i) /\ Opened(i) /\ Home(i) /\ SyncedOK(i) /\ q \in Nat
      /\ n \in Nat /\ f \in BOOLEAN /\ d \in Int
  BY SyncedFact DEF Sends, ConnInv, StreamInv, Synced
<1>1. /\ sent' = IF n > 0 THEN [sent EXCEPT ![c] = Append(@, d)] ELSE sent
      /\ \A m \in X :
           /\ "SYN" \notin m.flags
           /\ \/ n > 0 /\ m.len = n /\ m.seq = q /\ EndOf(m) = q + n /\ m.data = d
              \/ f /\ m.len = 0 /\ m.seq = q + n /\ EndOf(m) = q + n + 1
      /\ sock[i].state = "ESTABLISHED"
      /\ sock'[i].seq = q + n + One(f) /\ sock'[i].state = (IF f THEN "FIN_WAIT" ELSE "ESTABLISHED")
      /\ X # {} /\ \A j \in Ids \ {i} : Same(sock'[j], sock[j])
  BY DEF Sends
<1>2. /\ \A m \in Plain(c)' : m \in Plain(c) \/ m \in X
      /\ Plain(c) \subseteq Plain(c)'
  BY SendsBound, OwnsKept, <1>0
<1>3. Plain(c)' # {}
  <2>1. \A m \in X : m \in out'[c]
    BY <1>0 DEF Sends, ConnInv, StreamInv, SegmentsOK
  <2> QED BY <1>1, <2>1 DEF Plain
<1>4. sent[c] \in Seq(Int) /\ N \in Nat
  BY <1>0, LenProperties DEF SendsOK
<1>5. /\ sent'[c] \in Seq(Int) /\ M = N + (IF n > 0 THEN 1 ELSE 0)
      /\ \A k \in 1 .. N : sent'[c][k] = sent[c][k]
      /\ n > 0 => sent'[c][N + 1] = d
  <2>1. CASE n = 0
    BY <1>1, <1>4, <2>1
  <2>2. CASE n > 0
    <3>1. sent'[c] = Append(sent[c], d)
      BY <1>0, <1>1, <2>2 DEF SendsOK
    <3> QED BY <1>0, <1>4, <2>2, <3>1, AppendProperties
  <2>3. n = 0 \/ n > 0
    BY <1>0
  <2> QED BY ONLY <2>1, <2>2, <2>3
<1>6. /\ pos \in [0 .. N -> Nat] /\ pos[0] = Base(Of(e.rcv)) + 1
      /\ \A a, b \in 0 .. N : a < b => pos[a] < pos[b]
      /\ \A m \in Plain(c) :
             \/ \E k \in 1 .. N : m.seq = pos[k - 1] /\ EndOf(m) = pos[k] /\ m.len > 0
                                   /\ m.data = sent[c][k]
             \/ m.len = 0 /\ EndOf(m) = m.seq
             \/ m.len = 0 /\ m.seq = pos[N] /\ EndOf(m) = pos[N] + 1
      /\ Len(e.in) <= N /\ \A k \in 1 .. Len(e.in) : e.in[k] = sent[c][k]
      /\ \/ e.rcv = pos[Len(e.in)]
         \/ e.rcv = pos[N] + 1 /\ Len(e.in) = N
      /\ pos[N] = q
  BY <1>0, <1>1 DEF Marks
<1>7. e.rcv <= q /\ \A m \in Plain(c) : EndOf(m) <= q
  BY <1>0 DEF SyncedOK, CurrentOK
<1>8. Len(e.in) \in Nat
  BY <1>0, LenProperties DEF SendsOK
<1> HIDE DEF q, N, M, e
<1>8a. PICK new : new = [k \in 0 .. M |-> IF k <= N THEN pos[k] ELSE q + n]
  OBVIOUS
<1>8b. N \in 0 .. N /\ \A k \in 0 .. N : pos[k] \in Nat
  <2>1. pos \in [0 .. N -> Nat]
    BY ONLY <1>6
  <2> QED BY ONLY <1>4, <2>1
<1>8c. \A a, b \in 0 .. N : a < b => pos[a] < pos[b]
  BY ONLY <1>6
<1>8d. pos[0] = Base(Of(e.rcv)) + 1 /\ pos[N] = q
  BY ONLY <1>6
<1>8e. /\ Len(e.in) <= N /\ \A k \in 1 .. Len(e.in) : e.in[k] = sent[c][k]
       /\ e.rcv = pos[Len(e.in)] \/ (e.rcv = pos[N] + 1 /\ Len(e.in) = N)
  BY ONLY <1>6
<1>8f. \A m \in Plain(c) :
             \/ \E k \in 1 .. N : m.seq = pos[k - 1] /\ EndOf(m) = pos[k] /\ m.len > 0
                                   /\ m.data = sent[c][k]
             \/ m.len = 0 /\ EndOf(m) = m.seq
             \/ m.len = 0 /\ m.seq = pos[N] /\ EndOf(m) = pos[N] + 1
  BY ONLY <1>6
<1>9. /\ new \in [0 .. M -> Nat] /\ new[0] = pos[0] /\ M \in Nat /\ N <= M
      /\ \A k \in 0 .. N : new[k] = pos[k] /\ k \in 0 .. M
      /\ new[M] = q + n
      /\ n > 0 => new[M] = q + n /\ M = N + 1 /\ new[M - 1] = q
      /\ n = 0 => M = N
  <2>1. M \in Nat /\ N \in Nat /\ N <= M /\ (n > 0 => M = N + 1) /\ (n = 0 => M = N)
        /\ n \in Nat /\ q \in Nat
    <3>1. n \in Nat /\ q \in Nat
      BY <1>0, <1>8b, <1>8d
    <3> QED BY <1>4, <1>5, <3>1
  <2>2. \A k \in 0 .. N : pos[k] \in Nat
    BY <1>8b
  <2>3. \A k \in 0 .. M : new[k] = IF k <= N THEN pos[k] ELSE q + n
    BY <1>8a
  <2>4. new \in [0 .. M -> Nat]
    <3>1. \A k \in 0 .. M : (IF k <= N THEN pos[k] ELSE q + n) \in Nat
      BY <2>1, <2>2
    <3> QED BY <1>8a, <3>1
  <2>5. \A k \in 0 .. N : k \in 0 .. M /\ new[k] = pos[k]
    BY <2>1, <2>3
  <2>6. new[M] = q + n
    <3>1. CASE n > 0
      BY <2>1, <2>3, <3>1
    <3>2. CASE n = 0
      BY <1>8d, <2>1, <2>5, <3>2
    <3> QED BY <2>1, <3>1, <3>2
  <2>7. n > 0 => new[M - 1] = q
    BY <1>8d, <2>1, <2>5
  <2>8. new[0] = pos[0]
    BY <2>1, <2>5
  <2> QED BY <2>1, <2>4, <2>5, <2>6, <2>7, <2>8
<1>10. \A a, b \in 0 .. M : a < b => new[a] < new[b]
  <2> SUFFICES ASSUME NEW a \in 0 .. M, NEW b \in 0 .. M, a < b PROVE new[a] < new[b]
    OBVIOUS
  <2>1. CASE b <= N
    <3>1. a \in 0 .. N /\ b \in 0 .. N
      BY <1>4, <2>1
    <3> QED BY <1>9, <1>8c, <3>1
  <2>2. CASE b > N
    <3>1. b = M /\ n > 0 /\ a \in 0 .. N
      BY <1>0, <1>4, <1>9, <2>2
    <3>2. pos[a] \in Nat /\ pos[N] \in Nat
      BY <1>8b, <3>1
    <3>3. pos[a] <= pos[N]
      <4>1. a = N \/ a < N
        BY <1>4, <3>1
      <4> QED BY <1>8b, <1>8c, <3>1, <3>2, <4>1
    <3>4. new[a] = pos[a] /\ new[b] = q + n /\ pos[N] = q
      BY <1>8d, <1>9, <3>1
    <3> QED BY <1>0, <3>1, <3>2, <3>3, <3>4
  <2> QED BY <1>4, <2>1, <2>2
<1>11. ASSUME NEW m \in Plain(c)'
       PROVE  \/ \E k \in 1 .. M : m.seq = new[k - 1] /\ EndOf(m) = new[k] /\ m.len > 0
                                   /\ m.data = sent'[c][k]
              \/ m.len = 0 /\ EndOf(m) = m.seq
              \/ m.len = 0 /\ m.seq = new[M] /\ EndOf(m) = new[M] + 1
  <2>1. CASE m \in Plain(c)
    <3>1. CASE \E k \in 1 .. N : m.seq = pos[k - 1] /\ EndOf(m) = pos[k] /\ m.len > 0
                                   /\ m.data = sent[c][k]
      <4>1. PICK k \in 1 .. N : m.seq = pos[k - 1] /\ EndOf(m) = pos[k] /\ m.len > 0
                                   /\ m.data = sent[c][k]
        BY <3>1
      <4>2. k - 1 \in 0 .. N /\ k \in 0 .. N /\ k \in 1 .. M
        BY <1>4, <1>9
      <4> QED BY <1>5, <1>9, <4>1, <4>2
    <3>2. CASE m.len = 0 /\ m.seq = pos[N] /\ EndOf(m) = pos[N] + 1
      <4>1. EndOf(m) <= q /\ EndOf(m) = q + 1
        BY <1>7, <1>8d, <2>1, <3>2
      <4> QED BY <1>0, <4>1
    <3> QED BY <1>8f, <2>1, <3>1, <3>2
  <2>2. CASE n > 0 /\ m.len = n /\ m.seq = q /\ EndOf(m) = q + n /\ m.data = d
    <3>1. M \in 1 .. M /\ m.seq = new[M - 1] /\ EndOf(m) = new[M] /\ m.len > 0
          /\ m.data = sent'[c][M]
      BY <1>4, <1>5, <1>9, <2>2
    <3> QED BY <3>1
  <2>3. CASE f /\ m.len = 0 /\ m.seq = q + n /\ EndOf(m) = q + n + 1
    BY <1>9, <2>3
  <2> QED BY <1>1, <1>2, <2>1, <2>2, <2>3
<1>12. /\ e.rcv = new[Len(e.in)] /\ Len(e.in) <= M
       /\ \A k \in 1 .. Len(e.in) : e.in[k] = sent'[c][k]
  <2>1. e.rcv = pos[Len(e.in)]
    <3>1. q + 1 > q
      BY <1>0
    <3> QED BY <1>0, <1>7, <1>8d, <1>8e, <3>1
  <2>2. Len(e.in) \in 0 .. N
    BY <1>4, <1>8, <1>8e
  <2>3. Len(e.in) <= M
    BY <1>4, <1>8, <1>9, <2>2
  <2>4. \A k \in 1 .. Len(e.in) : k \in 1 .. N
    BY <1>4, <1>8, <2>2
  <2> QED BY <1>5, <1>8e, <1>9, <2>1, <2>2, <2>3, <2>4
<1>13. ASSUME NEW j \in Ids, sock'[j].state = "ESTABLISHED", sock'[j].conn = c
       PROVE  sock'[j].seq = new[M]
  <2>1. CASE j = i
    <3>1. One(f) = 0
      BY <1>1, <1>13, <2>1 DEF One
    <3> QED BY <1>0, <1>1, <1>9, <2>1, <3>1
  <2>2. CASE j # i
    <3>1. Same(sock'[j], sock[j])
      BY <1>1, <2>2
    <3>2. Synced(j) /\ Opened(j) /\ sock[j].conn = sock[i].conn
      BY <1>0, <1>13, <3>1 DEF Synced, Opened, Same
    <3>3. ~Synced(j)
      BY <1>0, <2>2, <3>2, OthersAway
    <3> QED BY <3>2, <3>3
  <2> QED BY <2>1, <2>2
<1>14. Marks(c, new)'
  <2>1. new[0] = Base(Of(e.rcv)) + 1
    BY ONLY <1>8d, <1>9
  <2>2. /\ M > 0 => Plain(c)' # {}
        /\ \/ e.rcv = new[Len(e.in)]
           \/ e.rcv = new[M] + 1 /\ Len(e.in) = M
    BY <1>3, <1>12
  <2>3. peer'[c] = e /\ Len(sent'[c]) = M
    BY <1>0 DEF M, e
  <2>4. new \in [0 .. M -> Nat]
    BY ONLY <1>9
  <2>5. Len(e.in) <= M /\ \A k \in 1 .. Len(e.in) : e.in[k] = sent'[c][k]
    BY ONLY <1>12
  <2> QED BY ONLY <1>10, <1>11, <1>13, <2>1, <2>2, <2>3, <2>4, <2>5 DEF Marks
<1> QED BY <1>5, <1>14

\* A send leaves what has been received.
LEMMA OwnsStreams ==
    ASSUME NumbersFit, ConnInv, NEW i \in Ids, NEW c, NEW X, Owns(i, c, X), got' = got,
           sock'[i].state \in {"ESTABLISHED", "FIN_WAIT"}, sock'[i].conn = c,
           sock'[i].rxq = sock[i].rxq, sock'[i].ack = sock[i].ack
    PROVE  QueuesOK' /\ StreamsOK'
<1>0. QueuesOK /\ StreamsOK /\ UNCHANGED <<peer, got>>
  BY DEF ConnInv, StreamInv, Owns
<1>1. \A j \in Ids \ {i} : Same(sock'[j], sock[j])
  BY DEF Owns
<1>2. Synced(i) /\ Opened(i) /\ c = sock[i].conn /\ Home(i)
  BY SyncedFact DEF Owns
<1>3. c \in Conns /\ \A e \in Conns : Greeted(e)' <=> Greeted(e)
  BY OwnsKept
<1>4. \A j \in Ids : sock'[j].rxq = sock[j].rxq \/ sock'[j].rxq = <<>>
  BY <1>1 DEF Same
<1>5. /\ sock'[i].state \in {"ESTABLISHED", "FIN_WAIT"} /\ sock'[i].conn = c
      /\ sock'[i].rxq = sock[i].rxq /\ sock'[i].ack = sock[i].ack
  OBVIOUS
<1>6. /\ QueuesOK' /\ \A j \in Ids, e \in Conns : Has(sock'[j].rxq, e) => Has(sock[j].rxq, e)
      /\ \A e \in Conns : Untouched(e) => Untouched(e)'
  BY <1>0, <1>4, QueuesKept
<1>7. StreamsOK'
  <2>1. ASSUME NEW j \in Ids PROVE StreamOK(j)'
    <3>1. CASE j = i
      <4>1. ~Greeting(i)' /\ sock'[i].state # "SYN_RECEIVED"
        BY <1>5 DEF Greeting
      <4>2. StreamEnd(sock[i].rxq, sock[i].conn)' = StreamEnd(sock[i].rxq, c)
        BY <1>0, <1>5 DEF StreamEnd
      <4>3. /\ Has(sock[i].rxq, c) => sock[i].rxq[Len(sock[i].rxq)].conn = c
            /\ \A k \in Ids : Has(sock[k].rxq, c) => k = i
            /\ StreamEnd(sock[i].rxq, c) \in 0 .. peer[c].snd
            /\ sock[i].ack = Plus(PeerIsn, 1 + StreamEnd(sock[i].rxq, c))
        BY <1>0, <1>2 DEF StreamsOK, StreamOK
      <4>4. \A k \in Ids : Has(sock'[k].rxq, c) => k = i
        BY <1>3, <1>6, <4>3
      <4>5. Has(sock'[i].rxq, c) => sock'[i].rxq[Len(sock'[i].rxq)].conn = c
        BY <1>5, <4>3
      <4> QED BY <1>0, <1>5, <3>1, <4>1, <4>2, <4>3, <4>4, <4>5 DEF StreamOK
    <3>2. CASE j # i
      <4>1. Same(sock'[j], sock[j]) /\ peer' = peer /\ got' = got
        BY <1>0, <1>1, <3>2
      <4>2. Opened(j) => sock[j].conn \in Conns
        BY DEF ConnInv, StreamInv, OpeningsOK
      <4> QED BY <1>6, <4>1, <4>2, StreamLeft
    <3> QED BY <3>1, <3>2
  <2>2. \A e \in Conns : peer'[e].snd <= PeerBytes /\ (~Greeted(e)' => Untouched(e)')
    BY <1>0, <1>3, <1>6 DEF StreamsOK
  <2> QED BY <2>1, <2>2 DEF StreamsOK
<1> QED BY <1>6, <1>7

\* A send.
LEMMA SendsKept ==
    ASSUME NumbersFit, ConnInv, NEW i \in Ids, NEW c, NEW n, NEW f, NEW d, NEW X,
           Sends(i, c, n, f, d, X)
    PROVE  StreamInv'
<1> DEFINE q == sock[i].seq
           b == Base(Of(q))
           z == q + n + One(f)
<1>0. /\ SocketsOK /\ SendsOK /\ QueuesOK /\ StreamsOK /\ Owns(i, c, X)
      /\ UNCHANGED <<peer, got, failed>> /\ sends' \in sends .. MaxSends
      /\ z + Pending(i)' <= b + 1 + Longest * sends' + One(f)
  <2>1. /\ Owns(i, c, X) /\ sends' \in sends .. MaxSends
        /\ z + Pending(i)' <= b + 1 + Longest * sends' + One(f)
    BY SendsBound
  <2> HIDE DEF z, q, b
  <2> QED BY <2>1 DEF ConnInv, StreamInv, Sends
<1>1. \A j \in Ids \ {i} : Same(sock'[j], sock[j])
  BY DEF Sends
<1>2. /\ Synced(i) /\ Opened(i) /\ c = sock[i].conn /\ SyncedOK(i) /\ q \in Nat /\ b \in Nat /\ q > b
      /\ Home(i)
  BY SyncedFact DEF Sends, Synced
<1>3. /\ OpeningsOK' /\ PeersGreeted' /\ SegmentsOK' /\ c \in Conns /\ DOMAIN out' = Conns
      /\ \A e \in Conns : Plain(e) \subseteq Plain(e)'
      /\ \A e \in Conns \ {c} : Plain(e)' = Plain(e)
      /\ \A m \in Plain(c)' : m \in Plain(c) \/ m \in X
      /\ \A e \in Conns : Greeted(e)' <=> Greeted(e)
      /\ sock'[i].state # "CLOSED" => Home(i)' /\ Of(sock'[i].seq) = Of(sock[i].seq)
  BY <1>0, OwnsKept
<1>5. /\ n \in Nat /\ f \in BOOLEAN
      /\ sock'[i].state = (IF f THEN "FIN_WAIT" ELSE "ESTABLISHED") /\ sock'[i].conn = c
      /\ sock'[i].rxq = sock[i].rxq /\ sock'[i].ack = sock[i].ack
      /\ sock'[i].seq = z /\ sock'[i].armed
      /\ sock'[i].last \in X /\ EndOf(sock'[i].last) = sock'[i].seq
      /\ sent' = IF n > 0 THEN [sent EXCEPT ![c] = Append(@, d)] ELSE sent
      /\ out' = [out EXCEPT ![c] = @ \cup X]
      /\ \A m \in X : EndOf(m) = q + n \/ (f /\ EndOf(m) = q + n + 1)
      /\ call'.op = "tcpsend" => call.op = "tcpsend"
  BY DEF Sends
<1>6. QueuesOK' /\ StreamsOK'
  BY <1>0, <1>5, OwnsStreams
<1>7. SocketsOK'
  <2> SUFFICES ASSUME NEW j \in Ids
               PROVE  /\ Opened(j)' /\ sock'[j].armed => sock'[j].last \in out'[sock'[j].conn]
                      /\ Greeting(j)' => GreetingOK(j)'
                      /\ Synced(j)' => SyncedOK(j)'
    BY DEF SocketsOK
  <2>1. CASE j # i
    <3>1. Pending(j)' <= Pending(j)
      BY <1>5 DEF Pending
    <3> QED BY <1>0, <1>1, <1>2, <1>5, <2>1, <3>1, OthersKept
  <2>2. CASE j = i
    <3>1. Home(i)' /\ ~Greeting(i)' /\ Base(Of(sock'[i].seq)) = b
      BY <1>3, <1>5 DEF Greeting
    <3>2. sock'[i].last \in out'[c]
      BY <1>3, <1>5 DEF SegmentsOK
    <3>3. One(f) \in Nat /\ (f => One(f) = 1)
      BY <1>5 DEF One
    <3> DEFINE v == peer[c].rcv
    <3>4. c \notin failed => v <= q /\ \A m \in Plain(c) : EndOf(m) <= q
      BY <1>2 DEF SyncedOK, CurrentOK
    <3>5. v \in Nat /\ \A m \in Plain(c) : EndOf(m) \in Nat
      <4>1. Greeted(c)
        BY <1>2 DEF Home
      <4> QED BY <1>2, <1>3, <4>1 DEF ConnInv, StreamInv, PeersGreeted, SegmentsOK, Plain, Numbered
    <3> HIDE DEF q, b, v
    <3>6. (c \notin failed => v <= z) /\ z > b
      BY <1>2, <1>5, <3>3, <3>4, <3>5
    <3>7. c \notin failed => \A m \in Plain(sock[i].conn)' : EndOf(m) <= z
      <4>1. c \notin failed => \A m \in Plain(c)' : EndOf(m) <= z
        BY <1>2, <1>3, <1>5, <3>3, <3>4, <3>5
      <4> QED BY <1>5, <4>1 DEF Plain
    <3>8. z + Pending(i)' <= b + 1 + Longest * sends' + (IF sock'[i].state = "FIN_WAIT" THEN 1 ELSE 0)
      <4>1. One(f) = IF sock'[i].state = "FIN_WAIT" THEN 1 ELSE 0
        BY <1>5 DEF One
      <4> HIDE DEF z
      <4> QED BY <1>0, <4>1
    <3>9. peer'[sock'[i].conn].rcv = v
      BY <1>0, <1>5 DEF v
    <3> HIDE DEF z
    <3>10. SyncedOK(i)'
      <4>1. sock'[i].conn \notin failed' =>
             /\ v <= z /\ \A m \in Plain(sock[i].conn)' : EndOf(m) <= z
             /\ sock'[i].armed => EndOf(sock'[i].last) = z
             /\ ~sock'[i].armed => v = z
        BY <1>0, <1>5, <3>6, <3>7
      <4> QED BY <1>5, <3>1, <3>6, <3>8, <3>9, <4>1, SyncedNow
    <3> QED BY <1>5, <2>2, <3>1, <3>2, <3>10
  <2> QED BY <2>1, <2>2
<1>8. SendsOK'
  <2>1. sent'[c] \in Seq(Int)
    <3>1. sent[c] \in Seq(Int) /\ DOMAIN sent = Conns /\ d \in Int
      BY <1>0, <1>3 DEF SendsOK, Sends
    <3>2. sent'[c] \in {sent[c], Append(sent[c], d)}
      BY <1>3, <1>5, <3>1
    <3>3. Append(sent[c], d) \in Seq(Int)
      BY <3>1, AppendProperties
    <3> QED BY <3>1, <3>2, <3>3
  <2>2. c \notin failed => \E pos : Marks(c, pos)'
    <3>1. c \notin failed => \E pos : Marks(c, pos)
      BY <1>2, <1>3 DEF Home, ConnInv, StreamInv, SendsOK
    <3> QED BY <3>1, SendsMarks
  <2>3. ASSUME NEW e \in Conns \ {c}, NEW pos, Marks(e, pos) PROVE Marks(e, pos)'
    <3>1. sent'[e] = sent[e] /\ peer' = peer /\ Plain(e)' = Plain(e)
      BY <1>0, <1>3 DEF Owns
    <3>2. \A j \in Ids : sock'[j].conn = e => Same(sock'[j], sock[j])
      BY <1>1, <1>5
    <3>3. \A j \in Ids : sock'[j].state = "ESTABLISHED" /\ sock'[j].conn = e =>
               sock'[j].seq = pos[Len(sent[e])]
      BY <2>3, <3>2 DEF Same, Marks
    <3> QED BY <2>3, <3>1, <3>3, BareMarks
  <2>4. DOMAIN sent' = Conns
    BY <1>0, <1>5 DEF SendsOK
  <2>5. /\ \A e \in Conns : sent'[e] \in Seq(Int)
        /\ \A e \in Conns \ failed : peer'[e].in \in Seq(Int)
    BY <1>0, <2>1 DEF SendsOK, Owns
  <2>6. \A e \in Conns \ failed : Greeted(e)' => \E pos : Marks(e, pos)'
    BY <1>0, <1>3, <2>2, <2>3 DEF SendsOK
  <2> QED BY <1>0, <2>4, <2>5, <2>6 DEF SendsOK
<1> QED BY <1>3, <1>6, <1>7, <1>8 DEF StreamInv

\* Socket i sends n bytes, or some of them, and returns an error: the segments X
\* are on their way, the last of them is armed, and the connection has failed.
Fails(i, c, n, X) ==
    /\ sock[i].state = "ESTABLISHED" /\ c = sock[i].conn /\ UNCHANGED <<peer, got, opens>>
    /\ n \in Nat /\ failed' = failed \cup {c}
    /\ call'.op = "tcpsend" => call.op = "tcpsend"
    /\ \/ sends' = sends /\ n + Pending(i)' <= Pending(i)
       \/ sends' = sends + 1 /\ sends < MaxSends /\ n <= Longest /\ Pending(i)' <= Pending(i)
    /\ \A j \in Ids \ {i} : Same(sock'[j], sock[j])
    /\ sock'[i].state = "ESTABLISHED" /\ sock'[i].conn = c
    /\ sock'[i].rxq = sock[i].rxq /\ sock'[i].ack = sock[i].ack
    /\ sock'[i].seq \in sock[i].seq .. sock[i].seq + n /\ sock'[i].last \in X
    /\ DOMAIN sent' = Conns /\ sent'[c] \in Seq(Int)
    /\ \A e \in Conns \ {c} : sent'[e] = sent[e]
    /\ out' = [out EXCEPT ![c] = @ \cup X]
    /\ \A m \in X :
         /\ "SYN" \notin m.flags /\ m.len \in Nat
         /\ m.seq \in sock[i].seq .. EndOf(m) /\ EndOf(m) \in 0 .. sock[i].seq + n + 1

\* A failed send, too, stays within its opening.
LEMMA FailsBound ==
    ASSUME NumbersFit, ConnInv, NEW i \in Ids, NEW c, NEW n, NEW X, Fails(i, c, n, X)
    PROVE  /\ Owns(i, c, X)
           /\ sock'[i].seq + Pending(i)' <= Base(Of(sock[i].seq)) + 1 + Longest * sends'
<1> DEFINE q == sock[i].seq
           b == Base(Of(q))
           L == Longest * sends'
           r == sock'[i].seq
<1>1. Synced(i) /\ sock[i].state = "ESTABLISHED" /\ n \in Nat
  BY DEF Synced, Fails
<1>2. q \in Nat /\ b \in Nat /\ Stride \in Nat
  BY <1>1, SyncedFact
<1> DEFINE w == Pending(i)'
<1>3. sends' \in sends .. MaxSends /\ q + n + 1 < b + Stride /\ q + n + w <= b + 1 + L
  <2>1. \/ sends' = sends /\ n + w <= Pending(i)
        \/ sends' = sends + 1 /\ sends < MaxSends /\ n <= Longest /\ w <= Pending(i)
    BY DEF Fails
  <2> QED BY <1>1, <2>1, BoundFact
<1>4. L \in Nat /\ w \in Nat
  <2>1. sends' \in Nat /\ Longest \in Nat
    BY <1>3, TcpAssumption DEF ConnInv, StreamInv, OpeningsOK, NumbersFit
  <2>2. sends' <= sends'
    BY <2>1
  <2>3. L \in Nat
    BY <2>1, <2>2, ProductFact
  <2> QED BY <2>3 DEF Pending
<1>5. r \in q .. q + n
  BY DEF Fails
<1>6. r \in Nat /\ q <= r /\ r < b + Stride /\ r + w <= b + 1 + L
  <2> HIDE DEF q, b, L, r, w
  <2> QED BY ONLY <1>1, <1>2, <1>3, <1>4, <1>5
<1>7. Owns(i, c, X)
  <2>1. \A m \in X : /\ "SYN" \notin m.flags /\ m.len \in Nat /\ m.seq \in Nat /\ EndOf(m) \in Nat
                    /\ q <= m.seq /\ m.seq <= EndOf(m) /\ EndOf(m) < b + Stride
    <3> SUFFICES ASSUME NEW m \in X
                 PROVE  /\ "SYN" \notin m.flags /\ m.len \in Nat /\ m.seq \in Nat /\ EndOf(m) \in Nat
                        /\ q <= m.seq /\ m.seq <= EndOf(m) /\ EndOf(m) < b + Stride
      OBVIOUS
    <3>1. /\ "SYN" \notin m.flags /\ m.len \in Nat
          /\ m.seq \in q .. EndOf(m) /\ EndOf(m) \in 0 .. q + n + 1
      BY DEF Fails
    <3> HIDE DEF q, b
    <3> QED BY <1>1, <1>2, <1>3, <3>1
  <2> HIDE DEF EndOf
  <2> QED BY <1>1, <1>3, <1>6, <2>1 DEF Owns, Fails
<1> QED BY <1>6, <1>7

\* A failed send.
LEMMA FailsKept ==
    ASSUME NumbersFit, ConnInv, NEW i \in Ids, NEW c, NEW n, NEW X, Fails(i, c, n, X)
    PROVE  StreamInv'
<1> DEFINE b == Base(Of(sock[i].seq))
<1>0. /\ SocketsOK /\ SendsOK /\ Owns(i, c, X) /\ UNCHANGED <<peer, got>>
      /\ sock'[i].seq + Pending(i)' <= b + 1 + Longest * sends'
  BY FailsBound DEF ConnInv, StreamInv, Fails
<1>1. /\ \A j \in Ids \ {i} : Same(sock'[j], sock[j])
      /\ sends' \in sends .. MaxSends /\ failed \subseteq failed'
      /\ call'.op = "tcpsend" => call.op = "tcpsend"
  BY <1>0 DEF Owns
<1>2. /\ Synced(i) /\ Opened(i) /\ c = sock[i].conn /\ Home(i)
      /\ sock[i].seq \in Nat /\ b \in Nat /\ sock[i].seq > b
  BY SyncedFact DEF Fails, Synced
<1>3. /\ OpeningsOK' /\ PeersGreeted' /\ SegmentsOK' /\ c \in Conns /\ DOMAIN out' = Conns
      /\ \A e \in Conns \ {c} : Plain(e)' = Plain(e)
      /\ \A e \in Conns : Greeted(e)' <=> Greeted(e)
      /\ sock'[i].state # "CLOSED" => Home(i)' /\ Of(sock'[i].seq) = Of(sock[i].seq)
  BY <1>0, OwnsKept
<1>4. /\ sock'[i].state = "ESTABLISHED" /\ sock'[i].conn = c /\ c \in failed'
      /\ sock'[i].rxq = sock[i].rxq /\ sock'[i].ack = sock[i].ack
      /\ sock'[i].seq \in Nat /\ sock[i].seq <= sock'[i].seq /\ sock'[i].last \in X
      /\ DOMAIN sent' = Conns /\ sent'[c] \in Seq(Int)
      /\ \A e \in Conns \ {c} : sent'[e] = sent[e]
      /\ out' = [out EXCEPT ![c] = @ \cup X]
  BY <1>0 DEF Fails, Owns
<1>5. QueuesOK' /\ StreamsOK'
  BY <1>0, <1>4, OwnsStreams
<1> HIDE DEF b
<1>6. SocketsOK'
  <2> SUFFICES ASSUME NEW j \in Ids
               PROVE  /\ Opened(j)' /\ sock'[j].armed => sock'[j].last \in out'[sock'[j].conn]
                      /\ Greeting(j)' => GreetingOK(j)'
                      /\ Synced(j)' => SyncedOK(j)'
    BY DEF SocketsOK
  <2>1. CASE j # i
    <3>1. Pending(j)' <= Pending(j)
      BY <1>1 DEF Pending
    <3> QED BY <1>0, <1>1, <1>2, <1>4, <2>1, <3>1, OthersKept
  <2>2. CASE j = i
    <3>1. Home(i)' /\ ~Greeting(i)' /\ Base(Of(sock'[i].seq)) = b
      BY <1>3, <1>4 DEF Greeting, b
    <3>2. sock'[i].last \in out'[c]
      BY <1>3, <1>4 DEF SegmentsOK
    <3>3. (IF sock'[i].state = "FIN_WAIT" THEN 1 ELSE 0) = 0
      BY <1>4
    <3>4. /\ sock'[i].seq > b /\ sock'[i].conn \in failed'
          /\ sock'[i].seq + Pending(i)' <= b + 1 + Longest * sends' + 0
      <4>1. Longest * sends' \in Nat
        <5>1. sends' \in Nat /\ Longest \in Nat
          BY <1>3 DEF OpeningsOK, NumbersFit
        <5>2. sends' <= sends'
          BY <5>1
        <5> QED BY <5>1, <5>2, ProductFact
      <4> QED BY <1>0, <1>2, <1>4, <4>1
    <3>5. SyncedOK(i)'
      BY <3>1, <3>3, <3>4 DEF SyncedOK
    <3> QED BY <1>4, <2>2, <3>1, <3>2, <3>5
  <2> QED BY <2>1, <2>2
<1>7. SendsOK'
  <2>1. ASSUME NEW e \in Conns \ {c}, NEW pos, Marks(e, pos) PROVE Marks(e, pos)'
    <3>1. sent'[e] = sent[e] /\ peer' = peer /\ Plain(e)' = Plain(e)
      BY <1>0, <1>3, <1>4
    <3>2. \A j \in Ids : sock'[j].conn = e => Same(sock'[j], sock[j])
      BY <1>1, <1>4
    <3>3. \A j \in Ids : sock'[j].state = "ESTABLISHED" /\ sock'[j].conn = e =>
               sock'[j].seq = pos[Len(sent[e])]
      BY <2>1, <3>2 DEF Same, Marks
    <3> QED BY <2>1, <3>1, <3>3, BareMarks
  <2>2. \A e \in Conns : sent'[e] \in Seq(Int)
    BY <1>0, <1>4 DEF SendsOK
  <2>3. \A e \in Conns \ failed' : e # c /\ e \in Conns \ failed
    BY <1>1, <1>4
  <2>4. /\ \A e \in Conns \ failed' : peer'[e].in \in Seq(Int)
        /\ \A e \in Conns \ failed' : Greeted(e)' => \E pos : Marks(e, pos)'
    BY <1>0, <1>3, <2>1, <2>3 DEF SendsOK
  <2> QED BY <1>4, <2>2, <2>4 DEF SendsOK
<1> QED BY <1>3, <1>5, <1>6, <1>7 DEF StreamInv

-----------------------------------------------------------------------------
\* A program takes the first packet of socket i.
Delivers(i) ==
    /\ UNCHANGED <<call, out, peer, sent, failed, sends, opens>>
    /\ \A j \in Ids \ {i} : Same(sock'[j], sock[j])
    /\ Like(sock'[i], sock[i])
    /\ sock[i].rxq # <<>> /\ sock'[i].rxq = Tail(sock[i].rxq)
    /\ LET p == Head(sock[i].rxq)
       IN  got' = [got EXCEPT ![p.conn] = @ \o [k \in 1 .. p.len |-> p.data + k - 1]]

\* Offsets that go on where others end.
LEMMA CountingOn ==
    ASSUME NEW g \in Seq(Int), NEW x \in Seq(Int),
           \A k \in 1 .. Len(g) : g[k] = k - 1,
           \A k \in 1 .. Len(x) : x[k] = Len(g) + k - 1
    PROVE  /\ g \o x \in Seq(Int) /\ Len(g \o x) = Len(g) + Len(x)
           /\ \A k \in 1 .. Len(g \o x) : (g \o x)[k] = k - 1
<1> DEFINE d == Len(g)
           n == Len(x)
<1>1. d \in Nat /\ n \in Nat
  BY LenProperties
<1>2. /\ g \o x \in Seq(Int) /\ Len(g \o x) = d + n
      /\ \A k \in 1 .. d + n : (g \o x)[k] = IF k <= d THEN g[k] ELSE x[k - d]
  BY ConcatProperties
<1>3. \A k \in 1 .. n : x[k] = d + k - 1
  OBVIOUS
<1>4. \A k \in 1 .. d : g[k] = k - 1
  OBVIOUS
<1> HIDE DEF d, n
<1>5. ASSUME NEW k \in 1 .. d + n PROVE (g \o x)[k] = k - 1
  <2>1. CASE k <= d
    <3>1. k \in 1 .. d
      BY <1>1, <2>1
    <3> QED BY <1>2, <1>4, <2>1, <3>1
  <2>2. CASE k > d
    <3>1. k - d \in 1 .. n /\ d + (k - d) - 1 = k - 1 /\ ~(k <= d)
      BY <1>1, <2>2
    <3>2. (g \o x)[k] = x[k - d]
      BY <1>2, <3>1
    <3>3. x[k - d] = d + (k - d) - 1
      BY <1>3, <3>1
    <3> QED BY <3>1, <3>2, <3>3
  <2>3. k <= d \/ k > d
    BY ONLY <1>1, k \in 1 .. d + n
  <2> QED BY ONLY <2>1, <2>2, <2>3
<1> QED BY <1>2, <1>5 DEF d, n

\* What is taken goes on where the programs have got to.
LEMMA DeliversQueues ==
    ASSUME NumbersFit, ConnInv, NEW i \in Ids, Delivers(i), NEW e, e = sock[i].rxq[1].conn
    PROVE  /\ QueuesOK' /\ e \in Conns /\ Has(sock[i].rxq, e)
           /\ \A d \in Conns \ {e} : got'[d] = got[d]
           /\ Len(got'[e]) = sock[i].rxq[1].data + sock[i].rxq[1].len
           /\ sock[i].rxq[1].data = Len(got[e])
           /\ \A j \in Ids, d \in Conns : Has(sock'[j].rxq, d) => Has(sock[j].rxq, d)
           /\ Len(sock'[i].rxq) = Len(sock[i].rxq) - 1
           /\ \A k \in 1 .. Len(sock'[i].rxq) : sock'[i].rxq[k] = sock[i].rxq[k + 1]
<1> DEFINE q == sock[i].rxq
           r == sock'[i].rxq
           n == Len(q)
           p == q[1]
           g == got[e]
           x == [k \in 1 .. p.len |-> p.data + k - 1]
<1>0. QueuesOK
  BY DEF ConnInv, StreamInv
<1>1. /\ \A j \in Ids \ {i} : Same(sock'[j], sock[j])
      /\ q # <<>> /\ r = Tail(q) /\ p = Head(q)
      /\ got' = [got EXCEPT ![e] = @ \o x]
  <2>1. \A j \in Ids \ {i} : Same(sock'[j], sock[j])
    BY DEF Delivers
  <2>2. q # <<>> /\ r = Tail(q)
    BY DEF Delivers
  <2>3. p = Head(q)
    <3> HIDE DEF q
    <3> QED BY DEF p
  <2>4. e = p.conn
    OBVIOUS
  <2>5. got' = [got EXCEPT ![Head(q).conn] = @ \o [k \in 1 .. Head(q).len |-> Head(q).data + k - 1]]
    BY DEF Delivers
  <2> HIDE DEF p, q, r
  <2>6. got' = [got EXCEPT ![e] = @ \o x]
    BY <2>3, <2>4, <2>5
  <2> QED BY <2>1, <2>2, <2>3, <2>6
<1>2. /\ q \in Seq(Packet) /\ n \in Nat /\ n > 0
      /\ \A k \in 1 .. n : q[k] \in Packet
  <2>1. q \in Seq(Packet) /\ n \in Nat /\ \A k \in 1 .. n : q[k] \in Packet
    BY QueueFact
  <2> HIDE DEF q
  <2> QED BY <1>1, <2>1, EmptySeq
<1>3. p \in Packet /\ e \in Conns /\ p.conn = e /\ p.data \in Int /\ p.len \in Nat
  <2>1. p \in Packet
    BY <1>2
  <2> QED BY <2>1 DEF Packet
<1>4. Len(r) = n - 1 /\ \A k \in 1 .. n - 1 : r[k] = q[k + 1]
  <2> HIDE DEF q, r
  <2> QED BY <1>1, <1>2, HeadTailProperties
<1>5. Chained(q) /\ Together(q)
  BY <1>0 DEF QueuesOK
<1>6. g \in Seq(Int) /\ Len(g) \in Nat /\ \A k \in 1 .. Len(g) : g[k] = k - 1
  BY <1>0, <1>3, LenProperties DEF QueuesOK
<1>7. p.data = Len(g)
  <2>1. 1 \in 1 .. Len(q) /\ ~(1 > 1)
    BY <1>2
  <2> QED BY <1>3, <1>5, <2>1 DEF Chained
<1>9. /\ got'[e] \in Seq(Int) /\ Len(got'[e]) = Len(g) + p.len
      /\ \A k \in 1 .. Len(got'[e]) : got'[e][k] = k - 1
      /\ \A d \in Conns \ {e} : got'[d] = got[d]
      /\ DOMAIN got' = Conns
  <2>1. got'[e] = g \o x /\ DOMAIN got' = Conns /\ \A d \in Conns \ {e} : got'[d] = got[d]
    BY <1>0, <1>1, <1>3 DEF QueuesOK
  <2>2. /\ g \o x \in Seq(Int) /\ Len(g \o x) = Len(g) + p.len
        /\ \A k \in 1 .. Len(g \o x) : (g \o x)[k] = k - 1
    <3>1. \A k \in 1 .. p.len : p.data + k - 1 \in Int /\ x[k] = p.data + k - 1
      BY <1>3
    <3>2. x \in Seq(Int) /\ Len(x) = p.len
      <4>1. x \in [1 .. p.len -> Int] /\ DOMAIN x = 1 .. p.len
        BY <3>1
      <4>2. x \in Seq(Int)
        BY <1>3, <4>1, SeqDef
      <4> QED BY <1>3, <4>1, <4>2, LenProperties
    <3> HIDE DEF x, g, p
    <3>3. /\ g \o x \in Seq(Int) /\ Len(g \o x) = Len(g) + Len(x)
          /\ \A k \in 1 .. Len(g \o x) : (g \o x)[k] = k - 1
      <4>1. \A k \in 1 .. Len(x) : x[k] = Len(g) + k - 1
        BY <1>7, <3>1, <3>2
      <4> QED BY <1>6, <3>2, <4>1, CountingOn
    <3> QED BY <3>2, <3>3
  <2> HIDE DEF x, g, p
  <2> QED BY <2>1, <2>2
<1> HIDE DEF q, r, n, p, g, x
<1>10. Has(q, e)
  <2>1. 1 \in 1 .. Len(q) /\ q[1].conn = e
    BY <1>2, <1>3 DEF n, p
  <2> QED BY <2>1 DEF Has
<1>11. Chained(sock[i].rxq)'
  <2> SUFFICES ASSUME NEW k \in 1 .. Len(r)
               PROVE  r[k].data = IF k > 1 /\ r[k - 1].conn = r[k].conn
                         THEN r[k - 1].data + r[k - 1].len ELSE Len(got'[r[k].conn])
    BY DEF Chained, r
  <2>1. k \in 1 .. n - 1 /\ k + 1 \in 1 .. n /\ k \in 1 .. n /\ 1 \in 1 .. n /\ (k + 1) - 1 = k
        /\ k + 1 > 1 /\ 1 <= k /\ k <= k + 1
    BY <1>2, <1>4
  <2>2. r[k] = q[k + 1] /\ q[k + 1] \in Packet /\ r[k].conn \in Conns
    BY <1>2, <1>4, <2>1 DEF Packet
  <2>3. q[k + 1].data = IF q[k].conn = q[k + 1].conn
                         THEN q[k].data + q[k].len ELSE Len(got[q[k + 1].conn])
    BY <1>5, <2>1 DEF Chained, n
  <2>4. q[k].conn # q[k + 1].conn => q[k + 1].conn # e
    BY <1>3, <1>5, <2>1 DEF Together, n, p
  <2>5. CASE k > 1
    <3>1. r[k - 1] = q[k]
      <4>1. k - 1 \in 1 .. n - 1 /\ (k - 1) + 1 = k
        BY <1>2, <2>1, <2>5
      <4> QED BY <1>4, <4>1
    <3> QED BY <1>9, <2>2, <2>3, <2>4, <2>5, <3>1
  <2>6. CASE k = 1
    <3>1. q[k] = p
      BY <2>6 DEF p
    <3>2. q[k].conn = q[k + 1].conn => q[k + 1].data = Len(got'[e]) /\ r[k].conn = e
      BY <1>3, <1>7, <1>9, <2>2, <2>3, <3>1
    <3>3. q[k].conn # q[k + 1].conn => q[k + 1].data = Len(got'[r[k].conn])
      BY <1>9, <2>2, <2>3, <2>4
    <3> QED BY <2>2, <2>6, <3>2, <3>3
  <2> QED BY <2>1, <2>5, <2>6
<1>12. Together(sock[i].rxq)'
  <2> SUFFICES ASSUME NEW a \in 1 .. Len(r), NEW d \in 1 .. Len(r), NEW b \in 1 .. Len(r),
                      a <= d, d <= b, r[a].conn = r[b].conn
               PROVE  r[d].conn = r[a].conn
    BY DEF Together, r
  <2>1. a + 1 \in 1 .. n /\ d + 1 \in 1 .. n /\ b + 1 \in 1 .. n /\ a + 1 <= d + 1 /\ d + 1 <= b + 1
        /\ r[a] = q[a + 1] /\ r[d] = q[d + 1] /\ r[b] = q[b + 1]
    BY <1>2, <1>4
  <2> QED BY <1>5, <2>1 DEF Together, n
<1>13. \A j \in Ids, d \in Conns : Has(sock'[j].rxq, d) => Has(sock[j].rxq, d)
  <2>1. \A d \in Conns : Has(r, d) => Has(q, d)
    <3> SUFFICES ASSUME NEW d \in Conns, NEW k \in 1 .. Len(r), r[k].conn = d PROVE Has(q, d)
      BY DEF Has
    <3>1. k + 1 \in 1 .. n /\ q[k + 1].conn = d
      BY <1>2, <1>4
    <3> QED BY <3>1 DEF Has, n
  <2> QED BY <1>1, <2>1 DEF Same, q, r
<1>14. ASSUME NEW j \in Ids \ {i} PROVE Chained(sock[j].rxq)' /\ Together(sock[j].rxq)'
  <2>1. sock'[j].rxq = sock[j].rxq
    BY <1>1 DEF Same
  <2>2. Chained(sock[j].rxq) /\ Together(sock[j].rxq) /\ ~Has(sock[j].rxq, e)
    BY <1>0, <1>3, <1>10 DEF QueuesOK, q
  <2>3. \A k \in 1 .. Len(sock[j].rxq) : sock[j].rxq[k].conn \in Conns \ {e}
    BY <2>2, QueueFact DEF Has, Packet
  <2>4. Chained(sock[j].rxq)'
    <3> DEFINE y == sock[j].rxq
    <3>1. \A k \in 1 .. Len(y) : got'[y[k].conn] = got[y[k].conn]
      BY <1>9, <2>3
    <3>2. Chained(y)
      BY <2>2
    <3>3. \A k \in 1 .. Len(y) : y[k].data = IF k > 1 /\ y[k - 1].conn = y[k].conn
                 THEN y[k - 1].data + y[k - 1].len ELSE Len(got'[y[k].conn])
      BY <3>1, <3>2 DEF Chained
    <3> QED BY <2>1, <3>3 DEF Chained
  <2>5. Together(sock[j].rxq)'
    BY <2>1, <2>2 DEF Together
  <2> QED BY <2>4, <2>5
<1>15. QueuesOK'
  <2>1. \A d \in Conns, j, k \in Ids : Has(sock'[j].rxq, d) /\ Has(sock'[k].rxq, d) => j = k
    BY <1>0, <1>13 DEF QueuesOK
  <2>2. \A d \in Conns : got'[d] \in Seq(Int) /\ \A k \in 1 .. Len(got'[d]) : got'[d][k] = k - 1
    BY <1>0, <1>9 DEF QueuesOK
  <2>3. \A j \in Ids : Chained(sock[j].rxq)' /\ Together(sock[j].rxq)'
    BY <1>11, <1>12, <1>14 DEF r
  <2> QED BY <1>9, <2>1, <2>2, <2>3 DEF QueuesOK
<1> QED BY <1>3, <1>4, <1>7, <1>9, <1>10, <1>13, <1>15 DEF q, r, n, p, g

\* Taking a packet.
LEMMA DeliversKept ==
    ASSUME NumbersFit, ConnInv, NEW i \in Ids, Delivers(i)
    PROVE  StreamInv'
<1> DEFINE q == sock[i].rxq
           r == sock'[i].rxq
           e == q[1].conn
           n == Len(q)
<1>0. /\ OpeningsOK /\ PeersGreeted /\ SegmentsOK /\ SocketsOK /\ SendsOK /\ QueuesOK /\ StreamsOK
      /\ UNCHANGED <<call, out, peer, sent, failed, sends, opens>>
      /\ Like(sock'[i], sock[i]) /\ \A j \in Ids \ {i} : Same(sock'[j], sock[j])
  BY DEF ConnInv, StreamInv, Delivers
<1>1. \A j \in Ids : Like(sock'[j], sock[j])
  BY <1>0 DEF Same, Like
<1>2. /\ QueuesOK' /\ e \in Conns /\ Has(q, e)
      /\ \A d \in Conns \ {e} : got'[d] = got[d]
      /\ Len(got'[e]) = q[1].data + q[1].len
      /\ \A j \in Ids, d \in Conns : Has(sock'[j].rxq, d) => Has(sock[j].rxq, d)
      /\ Len(r) = n - 1 /\ \A k \in 1 .. Len(r) : r[k] = q[k + 1]
  BY DeliversQueues
<1>3. /\ n \in Nat /\ n > 0 /\ (r = <<>> <=> n = 1)
  <2>1. q # <<>> /\ q \in Seq(Packet) /\ n \in Nat /\ (q # <<>> => n \in 1 .. n)
    BY QueueFact DEF Delivers
  <2>2. r \in Seq(Packet)
    BY <2>1, HeadTailProperties DEF Delivers
  <2>3. Len(r) = 0 <=> r = <<>>
    BY <2>2, EmptySeq
  <2>4. n \in Nat /\ n > 0
    BY <2>1
  <2> HIDE DEF r, n
  <2> QED BY <1>2, <2>3, <2>4
<1> HIDE DEF q, r, e, n
<1>4. \A c \in Conns : (Greeted(c)' <=> Greeted(c)) /\ Plain(c)' = Plain(c)
  BY <1>0 DEF Greeted, Plain
<1>5. OpeningsOK'
  <2>1. \A j \in Ids : Opened(j)' => sock'[j].conn \in Conns /\ Numbered(sock[j].seq)'
    BY <1>0, <1>1 DEF OpeningsOK, Like, Opened, Numbered
  <2>2. \A j, k \in Ids : Opened(j)' /\ Opened(k)' /\ j # k => Of(sock'[j].seq) # Of(sock'[k].seq)
    BY <1>0, <1>1 DEF OpeningsOK, Like, Opened
  <2> QED BY <1>0, <2>1, <2>2 DEF OpeningsOK
<1>6. PeersGreeted'
  BY <1>0, <1>4 DEF PeersGreeted, Numbered
<1>7. SegmentsOK'
  BY <1>0 DEF SegmentsOK, Numbered
<1>8. SocketsOK'
  <2> SUFFICES ASSUME NEW j \in Ids
               PROVE  /\ Opened(j)' /\ sock'[j].armed => sock'[j].last \in out'[sock'[j].conn]
                      /\ Greeting(j)' => GreetingOK(j)'
                      /\ Synced(j)' => SyncedOK(j)'
    BY DEF SocketsOK
  <2>1. Pending(j)' <= Pending(j)
    BY <1>0 DEF Pending
  <2>2. sends \in Int /\ sends' \in Int /\ sends <= sends' /\ failed \subseteq failed'
    BY <1>0 DEF OpeningsOK
  <2>3. Like(sock'[j], sock[j]) /\ out' = out /\ peer' = peer
    BY <1>0, <1>1
  <2>4. Plain(sock[j].conn)' = Plain(sock[j].conn)
    BY <2>3 DEF Plain, Like
  <2> QED BY <2>1, <2>2, <2>3, <2>4, SocketAlike
<1>9. SendsOK'
  <2>1. ASSUME NEW c \in Conns, NEW pos, Marks(c, pos) PROVE Marks(c, pos)'
    BY <1>0, <1>1, <1>4, <2>1 DEF Marks, Like
  <2> QED BY <1>0, <1>4, <2>1 DEF SendsOK
<1>10. ASSUME NEW j \in Ids, Opened(j), Home(j) \/ Synced(j), j # i \/ ~Synced(j)
       PROVE  sock[j].conn # e /\ sock[j].conn \in Conns
  <2>1. CASE Synced(j)
    <3>1. \A k \in Ids : Has(sock[k].rxq, sock[j].conn) => k = j
      BY <1>0, <2>1 DEF StreamsOK, StreamOK
    <3> QED BY <1>0, <1>2, <1>10, <2>1, <3>1 DEF q, OpeningsOK
  <2>2. CASE ~Synced(j)
    <3>1. sock[j].state \in States
      BY TableFacts DEF ConnInv, SocketOK
    <3>2. Greeting(j) /\ Home(j)
      BY <1>10, <2>2, <3>1 DEF Greeting, Synced, Opened, States
    <3>3. Untouched(sock[j].conn)
      BY <1>0, <3>2 DEF StreamsOK, StreamOK
    <3> QED BY <1>0, <1>2, <1>10, <3>3 DEF Untouched, q, OpeningsOK
  <2> QED BY <2>1, <2>2
<1>11. StreamsOK'
  <2>1. ASSUME NEW d \in Conns, d # e PROVE Untouched(d) => Untouched(d)'
    BY <1>2, <2>1 DEF Untouched
  <2>2. ASSUME NEW d \in Conns, ~Greeted(d)' PROVE Untouched(d)'
    <3>1. Untouched(d)
      BY <1>0, <1>4, <2>2 DEF StreamsOK
    <3>2. d # e
      BY <1>2, <3>1 DEF Untouched, q
    <3> QED BY <2>1, <3>1, <3>2
  <2>3. ASSUME NEW j \in Ids PROVE StreamOK(j)'
    <3>1. CASE j # i
      <4>1. Opened(j) /\ (Home(j) \/ Synced(j)) => got'[sock[j].conn] = got[sock[j].conn]
        BY <1>2, <1>10, <3>1
      <4>2. Opened(j) => sock[j].conn \in Conns
        BY <1>0 DEF OpeningsOK
      <4> QED BY <1>0, <1>2, <3>1, <4>1, <4>2, StreamLeft
    <3>2. CASE j = i /\ ~Synced(i)
      <4>1. ~Synced(i)' /\ (Greeting(i)' <=> Greeting(i)) /\ (Home(i)' <=> Home(i)) /\ StreamOK(i)
        BY <1>0, <3>2 DEF Synced, Like, Greeting, Home, Greeted, StreamsOK
      <4>2. sock'[i].state = "SYN_RECEIVED" => sock'[i].ack = Plus(PeerIsn, 1)
        BY <1>0, <4>1 DEF StreamOK, Like
      <4>3. Greeting(i) /\ Home(i) => Untouched(sock[i].conn)'
        <5>1. ASSUME Greeting(i), Home(i)
              PROVE  Untouched(sock[i].conn) /\ sock[i].conn \in Conns \ {e} /\ sock'[i].conn = sock[i].conn
          BY <1>0, <1>10, <3>2, <4>1, <5>1 DEF StreamOK, Greeting, Opened, Like
        <5> QED BY <1>2, <5>1 DEF Untouched
      <4> QED BY <3>2, <4>1, <4>2, <4>3 DEF StreamOK
    <3>3. CASE j = i /\ Synced(i)
      <4> DEFINE c == sock[i].conn
      <4>1. /\ sock'[i].conn = c /\ c \in Conns /\ ~Greeting(i)' /\ sock'[i].state # "SYN_RECEIVED"
            /\ sock'[i].ack = sock[i].ack
        BY <1>0, <3>3 DEF Like, Greeting, Synced, OpeningsOK, Opened
      <4>2. /\ Has(q, c) => q[n].conn = c
            /\ \A k \in Ids : Has(sock[k].rxq, c) => k = i
            /\ StreamEnd(q, c) \in 0 .. peer[c].snd
            /\ sock[i].ack = Plus(PeerIsn, 1 + StreamEnd(q, c))
        BY <1>0, <3>3 DEF StreamsOK, StreamOK, q, n
      <4>3. q # <<>>
        BY DEF Delivers, q
      <4> HIDE DEF c
      <4>4. r # <<>> => r[Len(r)] = q[n]
        <5>1. r # <<>> => Len(r) \in 1 .. Len(r) /\ Len(r) + 1 = n
          BY <1>2, <1>3
        <5> QED BY <1>2, <5>1
      <4>5. Has(r, c) => r[Len(r)].conn = c
        <5>1. Has(r, c) => Has(q, c) /\ r # <<>>
          <6>1. Has(r, c) => Len(r) > 0
            BY <1>2, <1>3 DEF Has
          <6> QED BY <1>2, <1>3, <4>1, <6>1 DEF q, r
        <5> QED BY <4>2, <4>4, <5>1
      <4>6. StreamEnd(sock[i].rxq, sock[i].conn)' = StreamEnd(q, c)
        <5>1. StreamEnd(sock[i].rxq, sock[i].conn)'
                = IF r # <<>> /\ r[Len(r)].conn = c THEN r[Len(r)].data + r[Len(r)].len ELSE Len(got'[c])
          BY <4>1 DEF StreamEnd, r
        <5>2. StreamEnd(q, c) = IF q[n].conn = c THEN q[n].data + q[n].len ELSE Len(got[c])
          BY <4>3 DEF StreamEnd, n
        <5>3. CASE r # <<>>
          <6>1. q[n].conn # c => c # e
            BY <1>2, <4>2
          <6>2. q[n].conn # c => got'[c] = got[c]
            BY <1>2, <4>1, <6>1
          <6> QED BY <4>4, <5>1, <5>2, <5>3, <6>2
        <5>4. CASE r = <<>>
          <6>1. n = 1
            BY <1>3, <5>4
          <6>2. CASE c = e
            BY <1>2, <5>1, <5>2, <5>4, <6>1, <6>2 DEF e
          <6>3. CASE c # e
            BY <1>2, <4>1, <5>1, <5>2, <5>4, <6>1, <6>3 DEF e
          <6> QED BY <6>2, <6>3
        <5> QED BY <5>3, <5>4
      <4>7. \A k \in Ids : Has(sock'[k].rxq, c) => k = i
        BY <1>2, <4>1, <4>2
      <4> QED BY <1>0, <3>3, <4>1, <4>2, <4>5, <4>6, <4>7 DEF StreamOK, r
    <3> QED BY <3>1, <3>2, <3>3
  <2> QED BY <1>0, <2>2, <2>3 DEF StreamsOK
<1> QED BY <1>2, <1>5, <1>6, <1>7, <1>8, <1>9, <1>11 DEF StreamInv

-----------------------------------------------------------------------------
\* What a step of the peer c alone leaves of the others.
PeerAlone(c, p) ==
    /\ UNCHANGED <<sock, call, out, sent, got, failed, sends, opens>>
    /\ peer' = [peer EXCEPT ![c] = p]

\* What holds of the sockets and queues when only the peer c moves, and what it
\* acknowledges stays of the opening it has taken part in.
LEMMA PeerAloneKept ==
    ASSUME NumbersFit, ConnInv, NEW c \in Conns, NEW p, PeerAlone(c, p),
           p.snd \in Nat, peer[c].snd <= p.snd, p.snd <= PeerBytes
    PROVE  /\ OpeningsOK' /\ QueuesOK' /\ peer'[c] = p
           /\ \A d \in Conns \ {c} : /\ peer'[d] = peer[d] /\ (Greeted(d)' <=> Greeted(d))
                                     /\ \A pos : Marks(d, pos) => Marks(d, pos)'
           /\ \A d \in Conns : Plain(d)' = Plain(d) /\ (Untouched(d) <=> Untouched(d)')
           /\ \A x : Numbered(x)' <=> Numbered(x')
           /\ \A d \in Conns : peer'[d].snd <= PeerBytes
           /\ \A j \in Ids : sock[j].conn # c =>
                /\ (Opened(j)' /\ sock'[j].armed => sock'[j].last \in out'[sock'[j].conn])
                /\ (Greeting(j)' => GreetingOK(j)') /\ (Synced(j)' => SyncedOK(j)')
                /\ StreamOK(j)'
<1>0. /\ OpeningsOK /\ SocketsOK /\ QueuesOK /\ StreamsOK
      /\ UNCHANGED <<sock, call, out, sent, got, failed, sends, opens>>
      /\ peer' = [peer EXCEPT ![c] = p] /\ \A d \in Conns : peer[d].snd \in Nat
  BY DEF ConnInv, StreamInv, PeerAlone, TcpInv, PeersOK
<1>1. peer'[c] = p /\ \A d \in Conns \ {c} : peer'[d] = peer[d]
  BY <1>0 DEF ConnInv, TcpInv, PeersOK
<1>2. \A x : Numbered(x)' <=> Numbered(x')
  BY <1>0 DEF Numbered
<1>3. OpeningsOK'
  <2>1. \A j \in Ids : Opened(j)' => sock'[j].conn \in Conns /\ Numbered(sock[j].seq)'
    BY <1>0 DEF OpeningsOK, Opened, Numbered
  <2>2. \A j, k \in Ids : Opened(j)' /\ Opened(k)' /\ j # k => Of(sock'[j].seq) # Of(sock'[k].seq)
    BY <1>0 DEF OpeningsOK, Opened
  <2> QED BY <1>0, <2>1, <2>2 DEF OpeningsOK
<1>4. QueuesOK'
  BY <1>0, QueuesKept
<1>5. \A d \in Conns : Plain(d)' = Plain(d) /\ (Untouched(d) <=> Untouched(d)')
  <2>1. \A j \in Ids, d \in Conns : Has(sock'[j].rxq, d) <=> Has(sock[j].rxq, d)
    BY <1>0
  <2> QED BY <1>0, <2>1 DEF Plain, Untouched
<1>6. ASSUME NEW d \in Conns \ {c}, NEW pos, Marks(d, pos) PROVE Marks(d, pos)'
  <2>1. \A j \in Ids : sock'[j].state = "ESTABLISHED" /\ sock'[j].conn = d =>
               sock'[j].seq = pos[Len(sent[d])]
    BY <1>0, <1>6 DEF Marks
  <2>2. /\ sent'[d] = sent[d] /\ peer'[d].in = peer[d].in /\ peer'[d].rcv = peer[d].rcv
        /\ Plain(d)' = Plain(d)
    BY <1>0, <1>1, <1>5
  <2> QED BY <1>6, <2>1, <2>2, BareMarks
<1>7. ASSUME NEW j \in Ids, sock[j].conn # c
      PROVE  /\ Opened(j)' /\ sock'[j].armed => sock'[j].last \in out'[sock'[j].conn]
             /\ Greeting(j)' => GreetingOK(j)'
             /\ Synced(j)' => SyncedOK(j)'
             /\ StreamOK(j)'
  <2>1. CASE ~Opened(j)
    BY <1>0, <2>1 DEF Opened, Greeting, Synced, StreamOK
  <2>2. CASE Opened(j)
    <3> DEFINE d == sock[j].conn
    <3>1. d \in Conns \ {c} /\ peer'[d] = peer[d] /\ Same(sock'[j], sock[j])
      BY <1>0, <1>1, <1>7, <2>2 DEF OpeningsOK, Same
    <3>2. Plain(sock[j].conn)' = Plain(sock[j].conn)
      BY <1>0 DEF Plain
    <3>3. Pending(j)' <= Pending(j) /\ sends \in Int /\ sends' \in Int /\ sends <= sends' /\ failed \subseteq failed'
          /\ out' = out
      BY <1>0 DEF Pending, OpeningsOK
    <3>4. /\ Opened(j)' /\ sock'[j].armed => sock'[j].last \in out'[sock'[j].conn]
          /\ Greeting(j)' => GreetingOK(j)'
          /\ Synced(j)' => SyncedOK(j)'
      BY <3>1, <3>2, <3>3, SocketKept
    <3>5. StreamOK(j)'
      <4>1. /\ peer'[sock[j].conn].acks = peer[sock[j].conn].acks
            /\ peer'[sock[j].conn].rcv = peer[sock[j].conn].rcv
            /\ peer[sock[j].conn].snd <= peer'[sock[j].conn].snd
        BY <1>0, <3>1
      <4>2. /\ \A e \in Conns : peer[e].snd \in Nat /\ peer'[e].snd \in Nat
            /\ \A k \in Ids, e \in Conns : Has(sock'[k].rxq, e) => Has(sock[k].rxq, e)
            /\ \A e \in Conns : Untouched(e) => Untouched(e)'
        BY <1>0, <1>1, <1>5
      <4> QED BY <1>0, <3>1, <4>1, <4>2, StreamKept
    <3> QED BY <3>4, <3>5
  <2> QED BY <2>1, <2>2
<1>8. \A d \in Conns \ {c} : Greeted(d)' <=> Greeted(d)
  BY <1>1 DEF Greeted
<1>9. \A d \in Conns : peer'[d].snd <= PeerBytes
  BY <1>0, <1>1 DEF StreamsOK
<1> QED BY <1>1, <1>2, <1>3, <1>4, <1>5, <1>6, <1>7, <1>8, <1>9

\* A peer goes on, or resets, without taking anything.
LEMMA PeerMovesKept ==
    ASSUME NumbersFit, ConnInv, NEW c \in Conns, NEW p, PeerAlone(c, p),
           p.snd \in Nat, peer[c].snd <= p.snd, p.snd <= PeerBytes,
           p.acks = peer[c].acks, p.rcv = peer[c].rcv, p.in = peer[c].in,
           p.state \in {"start", "off", "syn", "listen"} => ~Greeted(c),
           p.state \in {"synrcvd", "est"} => Greeted(c)
    PROVE  StreamInv'
<1>0. /\ OpeningsOK /\ PeersGreeted /\ SegmentsOK /\ SocketsOK /\ SendsOK /\ QueuesOK /\ StreamsOK
      /\ UNCHANGED <<sock, call, out, sent, got, failed, sends, opens>>
  BY DEF ConnInv, StreamInv, PeerAlone
<1>1. /\ OpeningsOK' /\ QueuesOK' /\ peer'[c] = p
      /\ \A d \in Conns \ {c} : peer'[d] = peer[d] /\ (Greeted(d)' <=> Greeted(d))
      /\ \A d \in Conns : Plain(d)' = Plain(d) /\ (Untouched(d) <=> Untouched(d)')
      /\ \A x : Numbered(x)' <=> Numbered(x')
      /\ \A d \in Conns : peer'[d].snd <= PeerBytes
      /\ \A d \in Conns \ {c} : \A pos : Marks(d, pos) => Marks(d, pos)'
  BY PeerAloneKept
<1>2. \A d \in Conns : /\ peer'[d].acks = peer[d].acks /\ peer'[d].rcv = peer[d].rcv
                       /\ peer'[d].in = peer[d].in
  BY <1>1
<1>3. \A d \in Conns : (Greeted(d)' <=> Greeted(d)) /\ peer[d].snd <= peer'[d].snd
                        /\ peer[d].snd \in Nat /\ peer'[d].snd \in Nat
  BY <1>1, <1>2 DEF Greeted, ConnInv, TcpInv, PeersOK
<1>4. PeersGreeted'
  <2> SUFFICES ASSUME NEW d \in Conns
        PROVE  /\ peer'[d].state \in {"start", "off", "syn", "listen"} => ~Greeted(d)'
               /\ peer'[d].state \in {"synrcvd", "est"} => Greeted(d)'
               /\ ~Greeted(d)' => peer'[d].in = <<>> /\ sent'[d] = <<>> /\ Plain(d)' = {}
               /\ Greeted(d)' => /\ Numbered(peer[d].rcv)'
                        /\ \A a \in peer'[d].acks :
                             a \in Nat /\ Base(Of(peer'[d].rcv)) < a /\ a <= peer'[d].rcv
    BY DEF PeersGreeted
  <2>1. Numbered(peer[d].rcv)' <=> Numbered(peer[d].rcv)
    BY <1>0, <1>2 DEF Numbered
  <2> QED BY <1>0, <1>1, <1>2, <1>3, <2>1 DEF PeersGreeted
<1>5. SegmentsOK'
  BY <1>0, <1>2 DEF SegmentsOK, Numbered
<1>6. SocketsOK'
  <2> SUFFICES ASSUME NEW j \in Ids
               PROVE  /\ Opened(j)' /\ sock'[j].armed => sock'[j].last \in out'[sock'[j].conn]
                      /\ Greeting(j)' => GreetingOK(j)'
                      /\ Synced(j)' => SyncedOK(j)'
    BY DEF SocketsOK
  <2>1. CASE ~Opened(j)
    BY <1>0, <2>1 DEF Opened, Greeting, Synced
  <2>2. CASE Opened(j)
    <3>1. sock[j].conn \in Conns /\ Same(sock'[j], sock[j])
      BY <1>0, <2>2 DEF OpeningsOK, Same
    <3>2. Plain(sock[j].conn)' = Plain(sock[j].conn)
      BY <1>0 DEF Plain
    <3>3. Pending(j)' <= Pending(j) /\ sends \in Int /\ sends' \in Int /\ sends <= sends' /\ failed \subseteq failed'
          /\ out' = out
      BY <1>0 DEF Pending, OpeningsOK
    <3> QED BY <1>2, <3>1, <3>2, <3>3, SocketKept
  <2> QED BY <2>1, <2>2
<1>7. SendsOK'
  <2>1. ASSUME NEW d \in Conns, NEW pos, Marks(d, pos) PROVE Marks(d, pos)'
    <3>1. \A j \in Ids : sock'[j].state = "ESTABLISHED" /\ sock'[j].conn = d =>
               sock'[j].seq = pos[Len(sent[d])]
      BY <1>0, <2>1 DEF Marks
    <3> QED BY <1>0, <1>1, <1>2, <2>1, <3>1, BareMarks
  <2> QED BY <1>0, <1>2, <1>3, <2>1 DEF SendsOK
<1>8. StreamsOK'
  <2>1. ASSUME NEW j \in Ids PROVE StreamOK(j)'
    <3>1. CASE ~Opened(j)
      BY <1>0, <3>1 DEF Opened, Greeting, Synced, StreamOK
    <3>2. CASE Opened(j)
      <4>1. sock[j].conn \in Conns /\ Same(sock'[j], sock[j]) /\ got' = got
        BY <1>0, <3>2 DEF OpeningsOK, Same
      <4>2. /\ \A k \in Ids, e \in Conns : Has(sock'[k].rxq, e) => Has(sock[k].rxq, e)
            /\ \A e \in Conns : Untouched(e) => Untouched(e)'
        BY <1>0, <1>1
      <4> QED BY <1>2, <1>3, <4>1, <4>2, StreamKept
    <3> QED BY <3>1, <3>2
  <2> QED BY <1>0, <1>1, <1>3, <2>1 DEF StreamsOK
<1> QED BY <1>1, <1>4, <1>5, <1>6, <1>7, <1>8 DEF StreamInv

\* A peer takes the first segment of an opening.
LEMMA PeerGreetsKept ==
    ASSUME NumbersFit, ConnInv, NEW c \in Conns, NEW p, PeerAlone(c, p),
           NEW m \in out[c], "SYN" \in m.flags, ~Greeted(c),
           p.snd = peer[c].snd, p.in = peer[c].in, p.rcv = Plus(m.seq, 1),
           p.acks = peer[c].acks \cup {Plus(m.seq, 1)}, p.state \in {"synrcvd", "est"}
    PROVE  StreamInv'
<1> DEFINE k == Of(m.seq)
           v == m.seq + 1
<1>0. /\ OpeningsOK /\ PeersGreeted /\ SegmentsOK /\ SocketsOK /\ SendsOK /\ QueuesOK /\ StreamsOK
      /\ UNCHANGED <<sock, call, out, sent, got, failed, sends, opens>>
  BY DEF ConnInv, StreamInv, PeerAlone
<1>1. peer[c].snd \in Nat /\ peer[c].snd <= PeerBytes
  BY <1>0 DEF ConnInv, TcpInv, PeersOK, StreamsOK
<1>2. /\ OpeningsOK' /\ QueuesOK' /\ peer'[c] = p
      /\ \A d \in Conns \ {c} : peer'[d] = peer[d] /\ (Greeted(d)' <=> Greeted(d))
      /\ \A d \in Conns : Plain(d)' = Plain(d) /\ (Untouched(d) <=> Untouched(d)')
      /\ \A x : Numbered(x)' <=> Numbered(x')
      /\ \A d \in Conns : peer'[d].snd <= PeerBytes
      /\ \A d \in Conns \ {c} : \A pos : Marks(d, pos) => Marks(d, pos)'
      /\ \A j \in Ids : sock[j].conn # c =>
                /\ (Opened(j)' /\ sock'[j].armed => sock'[j].last \in out'[sock'[j].conn])
                /\ (Greeting(j)' => GreetingOK(j)') /\ (Synced(j)' => SyncedOK(j)')
                /\ StreamOK(j)'
  BY <1>1, PeerAloneKept
<1>3. /\ m.seq \in Nat /\ Numbered(m.seq) /\ m.seq = Base(k) /\ v \in Nat
      /\ Plus(m.seq, 1) = v /\ Of(v) = k /\ Numbered(v) /\ Base(k) < v
  <2>1. m.seq \in Nat /\ Numbered(m.seq) /\ m.seq = Base(k)
    BY <1>0 DEF SegmentsOK
  <2>2. opens \in 0 .. MaxOpens
    BY <1>0 DEF OpeningsOK
  <2>3. /\ Base(k) \in Nat /\ Stride \in Nat /\ Stride >= 3 /\ SeqMod \in Nat
        /\ Base(k) + Stride < SeqMod
        /\ \A x \in Nat : Base(k) <= x /\ x < Base(k) + Stride => Of(x) = k /\ Numbered(x)
    BY <2>1, <2>2, NumberedFact, BaseFact
  <2> HIDE DEF k
  <2>4. v \in Nat /\ Base(k) <= v /\ v < Base(k) + Stride /\ m.seq + 1 < SeqMod /\ Base(k) < v
    BY <2>1, <2>3
  <2>5. Plus(m.seq, 1) = v
    BY <2>1, <2>4, SumFact
  <2>6. Of(v) = k /\ Numbered(v)
    BY <2>3, <2>4
  <2> QED BY <2>1, <2>4, <2>5, <2>6
<1>4. peer'[c].rcv = v /\ peer'[c].acks = {v} /\ Greeted(c)' /\ peer'[c].in = <<>>
      /\ sent[c] = <<>> /\ Plain(c) = {} /\ Untouched(c)
  BY <1>0, <1>2, <1>3 DEF Greeted, PeersGreeted, StreamsOK
<1> HIDE DEF k, v
<1>5. ASSUME NEW j \in Ids, sock[j].conn = c PROVE ~Synced(j) /\ ~Home(j)
  <2>1. ~Home(j)
    BY <1>5 DEF Home
  <2> QED BY <1>0, <2>1 DEF SocketsOK, SyncedOK
<1>6. PeersGreeted'
  <2> SUFFICES ASSUME NEW d \in Conns
        PROVE  /\ peer'[d].state \in {"start", "off", "syn", "listen"} => ~Greeted(d)'
               /\ peer'[d].state \in {"synrcvd", "est"} => Greeted(d)'
               /\ ~Greeted(d)' => peer'[d].in = <<>> /\ sent'[d] = <<>> /\ Plain(d)' = {}
               /\ Greeted(d)' => /\ Numbered(peer[d].rcv)'
                        /\ \A a \in peer'[d].acks :
                             a \in Nat /\ Base(Of(peer'[d].rcv)) < a /\ a <= peer'[d].rcv
    BY DEF PeersGreeted
  <2>1. CASE d = c
    <3>1. Numbered(peer[c].rcv)'
      BY <1>0, <1>3, <1>4 DEF Numbered
    <3> QED BY <1>2, <1>3, <1>4, <2>1, <3>1
  <2>2. CASE d # c
    <3>1. Numbered(peer[d].rcv)' <=> Numbered(peer[d].rcv)
      BY <1>0, <1>2, <2>2 DEF Numbered
    <3> QED BY <1>0, <1>2, <2>2, <3>1 DEF PeersGreeted
  <2> QED BY <2>1, <2>2
<1>7. SegmentsOK'
  <2>1. \A n \in out[c] : "SYN" \in n.flags
    BY <1>4 DEF Plain
  <2> QED BY <1>0, <1>2, <2>1 DEF SegmentsOK, Numbered
<1>8. ASSUME NEW j \in Ids
      PROVE  /\ Opened(j)' /\ sock'[j].armed => sock'[j].last \in out'[sock'[j].conn]
             /\ Greeting(j)' => GreetingOK(j)'
             /\ Synced(j)' => SyncedOK(j)'
             /\ StreamOK(j)'
  <2>1. CASE sock[j].conn # c
    BY <1>2, <2>1
  <2>2. CASE sock[j].conn = c
    <3>1. /\ ~Synced(j)' /\ (Greeting(j)' <=> Greeting(j)) /\ (Opened(j)' <=> Opened(j))
      BY <1>0, <1>5, <2>2 DEF Synced, Greeting, Opened
    <3>2. Opened(j)' /\ sock'[j].armed => sock'[j].last \in out'[sock'[j].conn]
      BY <1>0, <3>1 DEF SocketsOK
    <3>3. ASSUME Greeting(j) PROVE GreetingOK(j)'
      <4>1. sock[j].armed /\ sock[j].seq = Base(Of(sock[j].seq))
        BY <1>0, <3>3 DEF SocketsOK, GreetingOK
      <4>2. Home(j)' => Of(sock[j].seq) = k
        BY <1>0, <1>3, <1>4, <2>2 DEF Home
      <4>3. Home(j)' => peer'[c].rcv = sock[j].seq + 1
        BY <1>3, <1>4, <4>1, <4>2 DEF v
      <4>4. Plain(sock[j].conn)' = {}
        BY <1>0, <1>4, <2>2 DEF Plain
      <4> QED BY <1>0, <2>2, <4>1, <4>3, <4>4 DEF GreetingOK
    <3>4. StreamOK(j)'
      <4>1. sock'[j].state = "SYN_RECEIVED" => sock'[j].ack = Plus(PeerIsn, 1)
        BY <1>0 DEF StreamsOK, StreamOK
      <4>2. Untouched(sock[j].conn)'
        BY <1>0, <1>2, <1>4, <2>2 DEF Untouched
      <4> QED BY <3>1, <4>1, <4>2 DEF StreamOK
    <3> QED BY <3>1, <3>2, <3>3, <3>4
  <2> QED BY <2>1, <2>2
<1>9. SendsOK'
  <2>1. PICK pos : pos = [n \in 0 .. 0 |-> v]
    OBVIOUS
  <2>2. Marks(c, pos)'
    <3>1. Len(sent[c]) = 0 /\ Len(peer'[c].in) = 0 /\ sent'[c] = sent[c]
      BY <1>0, <1>4
    <3>2. \A j \in Ids : ~(sock'[j].state = "ESTABLISHED" /\ sock'[j].conn = c)
      BY <1>0, <1>5 DEF Synced
    <3>3. pos \in [0 .. 0 -> Nat] /\ pos[0] = v /\ v = Base(Of(peer'[c].rcv)) + 1
      BY <1>3, <1>4, <2>1 DEF v
    <3>4. Plain(c)' = {}
      BY <1>2, <1>4
    <3>5. \A a, b \in 0 .. 0 : ~(a < b)
      OBVIOUS
    <3> QED BY <1>4, <3>1, <3>2, <3>3, <3>4, <3>5 DEF Marks
  <2>3. /\ \A d \in Conns : sent'[d] \in Seq(Int)
        /\ \A d \in Conns \ failed : peer'[d].in \in Seq(Int)
    BY <1>0, <1>2 DEF SendsOK
  <2>4. \A d \in Conns \ failed : Greeted(d)' => \E z : Marks(d, z)'
    BY <1>0, <1>2, <2>2 DEF SendsOK
  <2> QED BY <1>0, <2>3, <2>4 DEF SendsOK
<1>10. StreamsOK'
  <2>1. \A d \in Conns : ~Greeted(d)' => Untouched(d)'
    BY <1>0, <1>2, <1>4 DEF StreamsOK
  <2> QED BY <1>2, <1>8, <2>1 DEF StreamsOK
<1> QED BY <1>2, <1>6, <1>7, <1>8, <1>9, <1>10 DEF StreamInv, SocketsOK

\* A peer takes a segment that is next for it.
LEMMA PeerGetsKept ==
    ASSUME NumbersFit, ConnInv, NEW c \in Conns, NEW p, PeerAlone(c, p),
           NEW m \in out[c], "SYN" \notin m.flags, Greeted(c), m.seq = peer[c].rcv,
           p.snd = peer[c].snd, p.rcv = EndOf(m), p.acks = peer[c].acks \cup {EndOf(m)},
           p.in = (IF m.len > 0 THEN Append(peer[c].in, m.data) ELSE peer[c].in),
           p.state = "est"
    PROVE  StreamInv'
<1> DEFINE k == Of(peer[c].rcv)
           u == peer[c].rcv
           v == EndOf(m)
<1>0. /\ OpeningsOK /\ PeersGreeted /\ SegmentsOK /\ SocketsOK /\ SendsOK /\ QueuesOK /\ StreamsOK
      /\ UNCHANGED <<sock, call, out, sent, got, failed, sends, opens>>
  BY DEF ConnInv, StreamInv, PeerAlone
<1>1. peer[c].snd \in Nat /\ peer[c].snd <= PeerBytes
  BY <1>0 DEF ConnInv, TcpInv, PeersOK, StreamsOK
<1>2. /\ OpeningsOK' /\ QueuesOK' /\ peer'[c] = p
      /\ \A d \in Conns \ {c} : peer'[d] = peer[d] /\ (Greeted(d)' <=> Greeted(d))
      /\ \A d \in Conns : Plain(d)' = Plain(d) /\ (Untouched(d) <=> Untouched(d)')
      /\ \A x : Numbered(x)' <=> Numbered(x')
      /\ \A d \in Conns : peer'[d].snd <= PeerBytes
      /\ \A d \in Conns \ {c} : \A pos : Marks(d, pos) => Marks(d, pos)'
      /\ \A j \in Ids : sock[j].conn # c =>
                /\ (Opened(j)' /\ sock'[j].armed => sock'[j].last \in out'[sock'[j].conn])
                /\ (Greeting(j)' => GreetingOK(j)') /\ (Synced(j)' => SyncedOK(j)')
                /\ StreamOK(j)'
  BY <1>1, PeerAloneKept
<1>3. /\ m \in Plain(c) /\ u \in Nat /\ v \in Nat /\ Base(k) < u /\ u <= v /\ v < Base(k) + Stride
      /\ Numbered(u) /\ Base(k) \in Nat /\ Of(v) = k /\ Numbered(v)
  <2>1. /\ m \in Plain(c) /\ v \in Nat /\ u > Base(k) /\ u <= v /\ v < Base(k) + Stride
    BY <1>0 DEF SegmentsOK, Plain
  <2>2. Numbered(u) /\ opens \in 0 .. MaxOpens
    BY <1>0 DEF PeersGreeted, OpeningsOK
  <2>3. /\ u \in Nat /\ Base(k) \in Nat /\ Stride \in Nat
        /\ \A x \in Nat : Base(k) <= x /\ x < Base(k) + Stride => Of(x) = k /\ Numbered(x)
    BY <2>2, NumberedFact
  <2> HIDE DEF k, u, v
  <2>4. Base(k) <= v
    BY <2>1, <2>3
  <2> QED BY <2>1, <2>2, <2>3, <2>4
<1>4. /\ peer'[c].rcv = v /\ peer'[c].acks = peer[c].acks \cup {v} /\ Greeted(c)'
      /\ peer'[c].in = (IF m.len > 0 THEN Append(peer[c].in, m.data) ELSE peer[c].in)
      /\ peer'[c].state = "est"
  BY <1>2 DEF Greeted
<1>5. u = peer[c].rcv /\ m.seq = u /\ v = EndOf(m) /\ k = Of(u)
  OBVIOUS
<1> HIDE DEF k, u, v
<1>6. PeersGreeted'
  <2> SUFFICES ASSUME NEW d \in Conns
        PROVE  /\ peer'[d].state \in {"start", "off", "syn", "listen"} => ~Greeted(d)'
               /\ peer'[d].state \in {"synrcvd", "est"} => Greeted(d)'
               /\ ~Greeted(d)' => peer'[d].in = <<>> /\ sent'[d] = <<>> /\ Plain(d)' = {}
               /\ Greeted(d)' => /\ Numbered(peer[d].rcv)'
                        /\ \A a \in peer'[d].acks :
                             a \in Nat /\ Base(Of(peer'[d].rcv)) < a /\ a <= peer'[d].rcv
    BY DEF PeersGreeted
  <2>1. CASE d = c
    <3>1. Numbered(peer[c].rcv)'
      BY <1>0, <1>3, <1>4 DEF Numbered
    <3>2. \A a \in peer[c].acks : a \in Nat /\ Base(k) < a /\ a <= u
      BY <1>0, <1>5 DEF PeersGreeted
    <3>3. \A a \in peer'[c].acks : a \in Nat /\ Base(k) < a /\ a <= v
      BY <1>3, <1>4, <3>2
    <3> QED BY <1>3, <1>4, <2>1, <3>1, <3>3
  <2>2. CASE d # c
    <3>1. Numbered(peer[d].rcv)' <=> Numbered(peer[d].rcv)
      BY <1>0, <1>2, <2>2 DEF Numbered
    <3> QED BY <1>0, <1>2, <2>2, <3>1 DEF PeersGreeted
  <2> QED BY <2>1, <2>2
<1>7. SegmentsOK'
  <2>1. \A d \in Conns : Base(Of(peer'[d].rcv)) = Base(Of(peer[d].rcv))
    BY <1>2, <1>3, <1>4, <1>5
  <2> QED BY <1>0, <2>1 DEF SegmentsOK, Numbered
<1>8. ASSUME NEW j \in Ids
      PROVE  /\ Opened(j)' /\ sock'[j].armed => sock'[j].last \in out'[sock'[j].conn]
             /\ Greeting(j)' => GreetingOK(j)'
             /\ Synced(j)' => SyncedOK(j)'
             /\ StreamOK(j)'
  <2>1. CASE sock[j].conn # c
    BY <1>2, <2>1
  <2>2. CASE sock[j].conn = c
    <3>1. /\ (Synced(j)' <=> Synced(j)) /\ (Greeting(j)' <=> Greeting(j)) /\ (Opened(j)' <=> Opened(j))
          /\ (Home(j)' <=> Home(j))
      BY <1>0, <1>3, <1>4, <1>5, <2>2 DEF Synced, Greeting, Opened, Home
    <3>2. Opened(j)' /\ sock'[j].armed => sock'[j].last \in out'[sock'[j].conn]
      BY <1>0, <3>1 DEF SocketsOK
    <3>3. ASSUME Greeting(j) PROVE GreetingOK(j)' /\ ~Home(j)
      <4>1. sock[j].armed /\ sock[j].seq = Base(Of(sock[j].seq)) /\ ~Home(j)
        BY <1>0, <1>3, <2>2, <3>3 DEF SocketsOK, GreetingOK
      <4> QED BY <1>0, <3>1, <4>1 DEF GreetingOK
    <3>4. ASSUME Synced(j) PROVE SyncedOK(j)'
      <4> DEFINE q == sock[j].seq
      <4>1. /\ Home(j) /\ q > Base(Of(q))
            /\ c \notin failed => /\ u <= q /\ \A n \in Plain(c) : EndOf(n) <= q
                                  /\ sock[j].armed => EndOf(sock[j].last) = q
                                  /\ ~sock[j].armed => u = q
            /\ q + Pending(j) <= Base(Of(q)) + 1 + Longest * sends
                + (IF sock[j].state = "FIN_WAIT" THEN 1 ELSE 0)
        BY <1>0, <1>5, <2>2, <3>4 DEF SocketsOK, SyncedOK, CurrentOK
      <4>2. q \in Nat
        BY <3>4, SyncedFact
      <4> HIDE DEF q
      <4>3. c \notin failed => v <= q /\ (~sock[j].armed => v = q)
        BY <1>3, <1>5, <4>1, <4>2
      <4>4. c \notin failed => \A n \in Plain(sock[j].conn)' : EndOf(n) <= q
        <5>1. c \notin failed => \A n \in Plain(c)' : EndOf(n) <= q
          BY <1>2, <4>1
        <5> QED BY <1>0, <2>2, <5>1 DEF Plain
      <4>5. Pending(j)' = Pending(j)
        BY <1>0 DEF Pending
      <4>6. sock'[j].seq = q /\ peer'[sock'[j].conn].rcv = v /\ sends' = sends /\ Home(j)'
            /\ sock'[j] = sock[j]
        BY <1>0, <1>4, <2>2, <3>1, <4>1 DEF q
      <4>7. sock'[j].conn \notin failed' =>
             /\ v <= q /\ \A n \in Plain(sock[j].conn)' : EndOf(n) <= q
             /\ sock'[j].armed => EndOf(sock'[j].last) = q
             /\ ~sock'[j].armed => v = q
        BY <1>0, <2>2, <4>1, <4>3, <4>4, <4>6
      <4> QED BY <4>1, <4>5, <4>6, <4>7, SyncedNow
    <3>5. StreamOK(j)'
      <4>1. /\ Same(sock'[j], sock[j]) /\ StreamOK(j) /\ peer'[c].snd = peer[c].snd /\ sock' = sock
            /\ got' = got
        BY <1>0, <1>2 DEF Same, StreamsOK
      <4>2. StreamEnd(sock[j].rxq, sock[j].conn)' = StreamEnd(sock[j].rxq, sock[j].conn)
        BY <1>0 DEF StreamEnd
      <4>3. Greeting(j) /\ Home(j) => FALSE
        BY <3>3
      <4> QED BY <2>2, <3>1, <4>1, <4>2, <4>3 DEF StreamOK
    <3> QED BY <3>1, <3>2, <3>3, <3>4, <3>5
  <2> QED BY <2>1, <2>2
<1>9. ASSUME NEW pos, Marks(c, pos), c \notin failed PROVE Marks(c, pos)' /\ peer'[c].in \in Seq(Int)
  <2> DEFINE n == Len(sent[c])
             x == peer[c].in
             l == Len(x)
             y == peer'[c].in
  <2>1. /\ n \in Nat /\ l \in Nat /\ x \in Seq(Int) /\ sent[c] \in Seq(Int)
        /\ pos \in [0 .. n -> Nat] /\ pos[0] = Base(k) + 1
        /\ \A a, b \in 0 .. n : a < b => pos[a] < pos[b]
        /\ \A s \in Plain(c) :
             \/ \E a \in 1 .. n : s.seq = pos[a - 1] /\ EndOf(s) = pos[a] /\ s.len > 0
                                   /\ s.data = sent[c][a]
             \/ s.len = 0 /\ EndOf(s) = s.seq
             \/ s.len = 0 /\ s.seq = pos[n] /\ EndOf(s) = pos[n] + 1
        /\ n > 0 => Plain(c) # {}
        /\ l <= n /\ \A a \in 1 .. l : x[a] = sent[c][a]
        /\ \/ u = pos[l]
           \/ u = pos[n] + 1 /\ l = n
        /\ \A i \in Ids : sock[i].state = "ESTABLISHED" /\ sock[i].conn = c => sock[i].seq = pos[n]
    BY <1>0, <1>5, <1>9, LenProperties DEF Marks, SendsOK
  <2> HIDE DEF n, l, x, y
  <2>2. /\ y \in Seq(Int) /\ Len(y) <= n /\ \A a \in 1 .. Len(y) : y[a] = sent[c][a]
        /\ \/ v = pos[Len(y)]
           \/ v = pos[n] + 1 /\ Len(y) = n
    <3>1. CASE \E a \in 1 .. n : m.seq = pos[a - 1] /\ EndOf(m) = pos[a] /\ m.len > 0
                                   /\ m.data = sent[c][a]
      <4>1. PICK a \in 1 .. n : m.seq = pos[a - 1] /\ EndOf(m) = pos[a] /\ m.len > 0
                                   /\ m.data = sent[c][a]
        BY <3>1
      <4>2. a - 1 \in 0 .. n /\ a \in 0 .. n /\ l \in 0 .. n /\ n \in 0 .. n
            /\ pos[a - 1] \in Nat /\ pos[l] \in Nat /\ pos[n] \in Nat
        BY <2>1
      <4>3. pos[a - 1] < pos[a] /\ (a < n => pos[a] < pos[n]) /\ pos[a] \in Nat
        BY <2>1, <4>2
      <4>4. u # pos[n] + 1
        BY <1>5, <2>1, <4>1, <4>2, <4>3
      <4>5. pos[a - 1] = pos[l]
        BY <1>5, <2>1, <4>1, <4>4
      <4>6. a - 1 = l
        BY <2>1, <4>2, <4>5
      <4>7. sent[c][a] \in Int
        BY <2>1, ElementOfSeq DEF n
      <4>8. y = Append(x, sent[c][a]) /\ v = pos[a]
        BY <1>4, <1>5, <4>1 DEF x, y
      <4>9. /\ y \in Seq(Int) /\ Len(y) = l + 1 /\ y[l + 1] = sent[c][a]
            /\ \A b \in 1 .. l : y[b] = x[b]
        BY <2>1, <4>7, <4>8, AppendProperties DEF l
      <4>10. a = l + 1
        BY <2>1, <4>2, <4>6
      <4>11. ASSUME NEW b \in 1 .. Len(y) PROVE y[b] = sent[c][b]
        <5>1. b \in 1 .. l \/ b = l + 1
          BY <2>1, <4>9
        <5> QED BY <2>1, <4>9, <4>10, <5>1
      <4> QED BY <4>2, <4>8, <4>9, <4>10, <4>11
    <3>2. CASE m.len = 0 /\ EndOf(m) = m.seq
      <4>1. y = x /\ v = u
        BY <1>4, <1>5, <3>2 DEF x, y
      <4> QED BY <2>1, <4>1 DEF l
    <3>3. CASE m.len = 0 /\ m.seq = pos[n] /\ EndOf(m) = pos[n] + 1
      <4>1. y = x /\ v = pos[n] + 1 /\ u = pos[n]
        BY <1>4, <1>5, <3>3 DEF x, y
      <4>2. pos[n] \in Nat /\ n \in 0 .. n /\ l \in 0 .. n
        BY <2>1
      <4>3. pos[l] = pos[n]
        BY <2>1, <4>1, <4>2
      <4>4. l = n
        <5>1. l < n => pos[l] < pos[n]
          BY ONLY <2>1, <4>2
        <5>2. l <= n /\ l \in Nat /\ n \in Nat
          BY <2>1
        <5> QED BY ONLY <4>2, <4>3, <5>1, <5>2
      <4> QED BY <2>1, <4>1, <4>4 DEF l
    <3> QED BY <1>3, <2>1, <3>1, <3>2, <3>3
  <2>3. Base(Of(peer'[c].rcv)) = Base(k)
    BY <1>3, <1>4
  <2>4. peer'[c].rcv = v /\ Plain(c)' = Plain(c) /\ sent'[c] = sent[c] /\ sock' = sock
        /\ pos[0] = Base(Of(peer'[c].rcv)) + 1
    BY <1>0, <1>2, <1>4, <2>1, <2>3
  <2>5. Marks(c, pos)'
    <3>1. \A s \in Plain(c)' :
             \/ \E a \in 1 .. n : s.seq = pos[a - 1] /\ EndOf(s) = pos[a] /\ s.len > 0
                                   /\ s.data = sent'[c][a]
             \/ s.len = 0 /\ EndOf(s) = s.seq
             \/ s.len = 0 /\ s.seq = pos[n] /\ EndOf(s) = pos[n] + 1
      BY <2>1, <2>4
    <3>2. \A i \in Ids : sock'[i].state = "ESTABLISHED" /\ sock'[i].conn = c => sock'[i].seq = pos[n]
      BY <2>1, <2>4
    <3>3. n > 0 => Plain(c)' # {}
      BY <2>1, <2>4
    <3>4. n = Len(sent'[c])
      BY <2>4 DEF n
    <3> QED BY <2>1, <2>2, <2>4, <3>1, <3>2, <3>3, <3>4 DEF Marks, y
  <2> QED BY <2>2, <2>5 DEF y
<1>10. SendsOK'
  <2>1. c \notin failed => \E pos : Marks(c, pos)
    BY <1>0 DEF SendsOK
  <2>2. c \notin failed => peer'[c].in \in Seq(Int) /\ \E pos : Marks(c, pos)'
    BY <1>9, <2>1
  <2>3. /\ \A d \in Conns : sent'[d] \in Seq(Int)
        /\ \A d \in Conns \ failed : peer'[d].in \in Seq(Int)
    BY <1>0, <1>2, <2>2 DEF SendsOK
  <2>4. \A d \in Conns \ failed : Greeted(d)' => \E z : Marks(d, z)'
    BY <1>0, <1>2, <2>2 DEF SendsOK
  <2> QED BY <1>0, <2>3, <2>4 DEF SendsOK
<1>11. StreamsOK'
  <2>1. \A d \in Conns : ~Greeted(d)' => Untouched(d)'
    BY <1>0, <1>2, <1>4 DEF StreamsOK
  <2> QED BY <1>2, <1>8, <2>1 DEF StreamsOK
<1> QED BY <1>2, <1>6, <1>7, <1>8, <1>10, <1>11 DEF StreamInv, SocketsOK

-----------------------------------------------------------------------------
(***************************************************************************)
(* The actions.  An operator on a pair keeps its shape and moves one       *)
(* socket.                                                                 *)
(***************************************************************************)
Shaped(k) ==
    /\ DOMAIN k = {"sock", "timers"} /\ DOMAIN k.sock = Ids
    /\ \A i \in Ids : DOMAIN k.sock[i] = SocketFields

\* The pair a step starts from.
LEMMA BothShaped ==
    ASSUME TcpInv
    PROVE  Shaped(Both) /\ Both.sock = sock
BY DEF TcpInv, TcpOK, PairOK, SocketOK, Shaped, Both

\* Another record for one socket.
LEMMA UpdateTo ==
    ASSUME NEW k, Shaped(k), NEW i \in Ids, NEW s, DOMAIN s = SocketFields
    PROVE  /\ Shaped(Update(k, i, s)) /\ Update(k, i, s).sock[i] = s
           /\ \A j \in Ids \ {i} : Update(k, i, s).sock[j] = k.sock[j]
BY DEF Update, Shaped

\* Cancelling a retransmission.
LEMMA CancelTo ==
    ASSUME NEW k, Shaped(k), NEW i \in Ids
    PROVE  /\ Shaped(RetxCancel(k, i)) /\ SameBody(RetxCancel(k, i).sock[i], k.sock[i])
           /\ ~RetxCancel(k, i).sock[i].armed
           /\ \A j \in Ids \ {i} : RetxCancel(k, i).sock[j] = k.sock[j]
<1> DEFINE r == k.sock[i]
           h == TimerCancel(k, r.timer)
           s == [r EXCEPT !.timer = -1, !.armed = FALSE, !.count = 0, !.last = NoSegment]
<1>1. DOMAIN h = {"sock", "timers"} /\ h.sock = k.sock
  BY DEF TimerCancel, SetTimer, Shaped
<1>2. Shaped(h)
  <2> HIDE DEF h
  <2> QED BY <1>1 DEF Shaped
<1>3. RetxCancel(k, i) = Update(h, i, s)
  BY DEF RetxCancel
<1>4. DOMAIN r = SocketFields
  BY DEF Shaped
<1> HIDE DEF h, r
<1>5. DOMAIN s = SocketFields /\ SameBody(s, r) /\ ~s.armed
  BY <1>4 DEF SocketFields, SameBody
<1> HIDE DEF s
<1>6. /\ Shaped(Update(h, i, s)) /\ Update(h, i, s).sock[i] = s
      /\ \A j \in Ids \ {i} : Update(h, i, s).sock[j] = h.sock[j]
  BY <1>2, <1>5, UpdateTo
<1> QED BY <1>1, <1>3, <1>5, <1>6 DEF r

\* Arming one.
LEMMA ArmTo ==
    ASSUME NEW k, Shaped(k), NEW i \in Ids, NEW m
    PROVE  /\ Shaped(RetxArm(k, i, m)) /\ SameBody(RetxArm(k, i, m).sock[i], k.sock[i])
           /\ RetxArm(k, i, m).sock[i].armed /\ RetxArm(k, i, m).sock[i].last = m
           /\ \A j \in Ids \ {i} : RetxArm(k, i, m).sock[j] = k.sock[j]
<1> DEFINE c == RetxCancel(k, i)
           t == TimerStart(c)
           r == c.sock[i]
           s == [r EXCEPT !.last = m, !.armed = TRUE, !.timer = t]
           h == IF t \in Slots THEN SetTimer(c, t, i) ELSE c
<1>1. Shaped(c) /\ SameBody(r, k.sock[i]) /\ \A j \in Ids \ {i} : c.sock[j] = k.sock[j]
  BY CancelTo
<1>2. RetxArm(k, i, m) = Update(h, i, s)
  BY DEF RetxArm
<1> HIDE DEF c, t
<1>3. DOMAIN h = {"sock", "timers"} /\ h.sock = c.sock
  BY <1>1 DEF SetTimer, Shaped
<1> HIDE DEF h
<1>4. Shaped(h)
  BY <1>1, <1>3 DEF Shaped
<1>5. DOMAIN r = SocketFields
  BY <1>1 DEF Shaped
<1> HIDE DEF r
<1>6. DOMAIN s = SocketFields /\ SameBody(s, r) /\ s.armed = TRUE /\ s.last = m
  BY <1>5 DEF SocketFields, SameBody
<1> HIDE DEF s
<1>7. /\ Shaped(Update(h, i, s)) /\ Update(h, i, s).sock[i] = s
      /\ \A j \in Ids \ {i} : Update(h, i, s).sock[j] = h.sock[j]
  BY <1>4, <1>6, UpdateTo
<1>8. SameBody(s, k.sock[i])
  BY <1>1, <1>6 DEF SameBody
<1> QED BY <1>1, <1>2, <1>3, <1>6, <1>7, <1>8

\* Ending a connection.
LEMMA ClosedTo ==
    ASSUME NEW k, Shaped(k), NEW i \in Ids
    PROVE  /\ Closed(k, i).sock[i].state = "CLOSED" /\ Closed(k, i).sock[i].rxq = k.sock[i].rxq
           /\ Closed(k, i).sock[i].seq = k.sock[i].seq
           /\ Closed(k, i).sock[i].listening = k.sock[i].listening
           /\ \A j \in Ids \ {i} : Closed(k, i).sock[j] = k.sock[j]
<1> DEFINE c == RetxCancel(k, i)
           r == c.sock[i]
           s == [r EXCEPT !.state = "CLOSED"]
<1>1. Shaped(c) /\ SameBody(r, k.sock[i]) /\ \A j \in Ids \ {i} : c.sock[j] = k.sock[j]
  BY CancelTo
<1>2. Closed(k, i) = Update(c, i, s)
  BY DEF Closed
<1> HIDE DEF c
<1>3. DOMAIN r = SocketFields
  BY <1>1 DEF Shaped
<1> HIDE DEF r
<1>4. DOMAIN s = SocketFields /\ s.state = "CLOSED" /\ s.rxq = r.rxq /\ s.seq = r.seq
      /\ s.listening = r.listening
  BY <1>3 DEF SocketFields
<1> HIDE DEF s
<1>5. /\ Update(c, i, s).sock[i] = s
      /\ \A j \in Ids \ {i} : Update(c, i, s).sock[j] = c.sock[j]
  BY <1>1, <1>4, UpdateTo
<1> QED BY <1>1, <1>2, <1>4, <1>5 DEF SameBody

-----------------------------------------------------------------------------
(* Actions that leave connections alone or end them *)

\* One socket keeps its connection or ends it.
LEMMA RestsOne ==
    ASSUME UNCHANGED <<out, peer, sent, got, failed, sends, opens>>,
           call'.op = "tcpsend" => call.op = "tcpsend", NEW i \in Ids,
           \A j \in Ids \ {i} : sock'[j] = sock[j],
           Same(sock'[i], sock[i]) \/ Ended(sock'[i], sock[i])
    PROVE  Rests
BY DEF Rests, Same

\* A slot after memset.
LEMMA ClearedTo ==
    ASSUME NEW s, s \in {Cleared, [Cleared EXCEPT !.inUse = TRUE, !.timer = -1]}
    PROVE  DOMAIN s = SocketFields /\ s.state = "CLOSED" /\ s.rxq = <<>>
<1> DEFINE c == Cleared
<1>1. DOMAIN c = SocketFields /\ c.state = "CLOSED" /\ c.rxq = <<>>
  BY DEF Cleared, SocketFields
<1> HIDE DEF c
<1>2. CASE s = c
  BY <1>1, <1>2
<1>3. CASE s = [c EXCEPT !.inUse = TRUE, !.timer = -1]
  BY <1>1, <1>3 DEF SocketFields
<1> QED BY <1>2, <1>3 DEF c

\* A socket is allocated or bound.
LEMMA TableRests ==
    ASSUME ConnInv, SocketOpen \/ \E i \in Ids : SocketBind(i)
    PROVE  Rests
<1>0. TcpInv
  BY DEF ConnInv
<1>1. CASE SocketOpen
  <2> DEFINE i == FirstOf(Free)
             e == [Cleared EXCEPT !.inUse = TRUE, !.timer = -1]
  <2>1. i \in Ids
    <3>1. Free \subseteq Nat /\ Free \subseteq Ids
      BY NumberFacts DEF Free
    <3> QED BY <1>1, <3>1, FirstOfFact DEF SocketOpen
  <2>2. /\ sock' = [sock EXCEPT ![i] = e]
        /\ UNCHANGED <<call, out, peer, sent, got, failed, sends, opens>>
    BY <1>1 DEF SocketOpen
  <2>3. e.state = "CLOSED" /\ e.rxq = <<>>
    BY ClearedTo
  <2> HIDE DEF i, e
  <2>4. sock'[i] = e /\ \A j \in Ids \ {i} : sock'[j] = sock[j]
    BY <1>0, <2>1, <2>2, BothShaped DEF Shaped
  <2>5. Ended(sock'[i], sock[i])
    BY <2>3, <2>4 DEF Ended
  <2> QED BY <2>1, <2>2, <2>4, <2>5, RestsOne
<1>2. ASSUME NEW i \in Ids, SocketBind(i) PROVE Rests
  <2>1. /\ sock' = [sock EXCEPT ![i].bound = TRUE]
        /\ UNCHANGED <<call, out, peer, sent, got, failed, sends, opens>>
    BY <1>2 DEF SocketBind
  <2>2. /\ sock'[i] = [sock[i] EXCEPT !.bound = TRUE]
        /\ \A j \in Ids \ {i} : sock'[j] = sock[j]
    BY <1>0, <2>1, BothShaped DEF Shaped
  <2>3. DOMAIN sock[i] = SocketFields
    BY <1>0, BothShaped DEF Shaped
  <2>4. Same(sock'[i], sock[i])
    BY <2>2, <2>3 DEF Same, SocketFields
  <2> QED BY <2>1, <2>2, <2>4, RestsOne
<1> QED BY <1>1, <1>2

\* A socket that is made a closed one with nothing queued.
LEMMA ListenTo ==
    ASSUME ConnInv, NEW i \in Ids, NEW s, DOMAIN s = SocketFields, s.state = "CLOSED", s.rxq = <<>>,
           Installed(RetxCancel(Update(Both, i, s), i)),
           UNCHANGED <<call, out, peer, sent, got, failed, sends, opens>>
    PROVE  Rests
<1> DEFINE u == Update(Both, i, s)
           k == RetxCancel(u, i)
<1>0. Shaped(Both) /\ Both.sock = sock
  BY BothShaped DEF ConnInv
<1>1. Shaped(u) /\ u.sock[i] = s /\ \A j \in Ids \ {i} : u.sock[j] = sock[j]
  BY <1>0, UpdateTo
<1> HIDE DEF u
<1>2. SameBody(k.sock[i], s) /\ \A j \in Ids \ {i} : k.sock[j] = sock[j]
  BY <1>1, CancelTo
<1>3. sock' = k.sock
  BY DEF Installed, u
<1> HIDE DEF k
<1>4. Ended(sock'[i], sock[i])
  BY <1>2, <1>3 DEF Ended, SameBody
<1> QED BY <1>2, <1>3, <1>4, RestsOne

\* Listening drops what a socket was doing.
LEMMA ListenRests ==
    ASSUME ConnInv, LegacyListen \/ \E i \in Ids : SocketListen(i)
    PROVE  Rests
<1>0. \A i \in Ids : DOMAIN sock[i] = SocketFields
  BY BothShaped DEF ConnInv, Shaped
<1>1. CASE LegacyListen
  <2> DEFINE s == [sock[0] EXCEPT !.listening = TRUE, !.bound = TRUE, !.state = "CLOSED", !.rxq = <<>>]
  <2>1. /\ Installed(RetxCancel(Update(Both, 0, s), 0))
        /\ UNCHANGED <<call, out, peer, sent, got, failed, sends, opens>> /\ 0 \in Ids
    BY <1>1, NumberFacts DEF LegacyListen
  <2>2. DOMAIN s = SocketFields /\ s.state = "CLOSED" /\ s.rxq = <<>>
    BY <1>0, <2>1 DEF SocketFields
  <2> HIDE DEF s
  <2> QED BY <2>1, <2>2, ListenTo
<1>2. ASSUME NEW i \in Ids, SocketListen(i) PROVE Rests
  <2> DEFINE s == [sock[i] EXCEPT !.listening = TRUE, !.state = "CLOSED", !.backlog = <<>>, !.rxq = <<>>]
  <2>1. /\ Installed(RetxCancel(Update(Both, i, s), i))
        /\ UNCHANGED <<call, out, peer, sent, got, failed, sends, opens>>
    BY ONLY <1>2 DEF SocketListen
  <2>2. DOMAIN s = SocketFields /\ s.state = "CLOSED" /\ s.rxq = <<>>
    BY <1>0 DEF SocketFields
  <2> HIDE DEF s
  <2> QED BY <2>1, <2>2, ListenTo
<1> QED BY <1>1, <1>2

\* Accept, but for the connections that died, and the ends of the blocking calls.
LEMMA AcceptRests ==
    ASSUME ConnInv,
           \/ ConnectReturns \/ CallTimeout \/ \E l \in Ids : AcceptStart(l)
           \/ \E l \in PoolIds, n \in Nat : AcceptReturns(l, n)
    PROVE  Rests
<1>1. CASE ConnectReturns \/ CallTimeout \/ \E l \in Ids : AcceptStart(l)
  <2>1. /\ UNCHANGED <<sock, out, peer, sent, got, failed, sends, opens>> /\ call'.op # "tcpsend"
    BY <1>1 DEF ConnectReturns, CallTimeout, AcceptStart, Idle, None
  <2> QED BY <2>1 DEF Rests, Same
<1>2. ASSUME NEW l \in PoolIds, NEW n \in Nat, AcceptReturns(l, n) PROVE Rests
  <2> DEFINE q == Without(sock[l].backlog, n)
  <2>1. /\ UNCHANGED <<out, peer, sent, got, failed, sends, opens>> /\ call'.op # "tcpsend"
        /\ sock' = [sock EXCEPT ![l].backlog = q] /\ l \in Ids
    BY <1>2, NumberFacts DEF AcceptReturns, Idle, None
  <2> HIDE DEF q
  <2>2. Shaped(Both) /\ Both.sock = sock
    BY BothShaped DEF ConnInv
  <2>3. /\ sock'[l] = [sock[l] EXCEPT !.backlog = q] /\ DOMAIN sock[l] = SocketFields
        /\ \A j \in Ids \ {l} : sock'[j] = sock[j]
    BY <2>1, <2>2 DEF Shaped
  <2>4. Same(sock'[l], sock[l])
    BY <2>3 DEF Same, SocketFields
  <2> QED BY <2>1, <2>3, <2>4, RestsOne
<1> QED BY <1>1, <1>2

\* A queued connection that died gives its slot back.
LEMMA ReclaimsRests ==
    ASSUME ConnInv, NEW l \in PoolIds, NEW n \in DOMAIN sock[l].backlog, AcceptReclaims(l, n)
    PROVE  Rests
<1> DEFINE e == sock[l].backlog[n]
           q == [sock[l] EXCEPT !.backlog = Without(@, n)]
           u == Update(Both, l, q)
           k == MetaClear(u, e)
<1>0. Shaped(Both) /\ Both.sock = sock /\ l \in Ids
  BY BothShaped, NumberFacts DEF ConnInv
<1>1. /\ Installed(k) /\ UNCHANGED <<call, out, peer, sent, got, failed, sends, opens>>
  BY DEF AcceptReclaims
<1>2. e \in Ids
  <2>1. SocketOK(sock[l])
    BY <1>0, TableFacts DEF ConnInv
  <2>2. sock[l].backlog \in Seq(PoolIds)
    BY <2>1 DEF SocketOK
  <2>3. n \in 1 .. Len(sock[l].backlog)
    BY <2>2, LenProperties
  <2> QED BY <2>2, <2>3, ElementOfSeq, NumberFacts
<1> HIDE DEF e
<1>3. DOMAIN q = SocketFields /\ Same(q, sock[l])
  <2>1. DOMAIN sock[l] = SocketFields
    BY <1>0 DEF Shaped
  <2> QED BY <2>1 DEF SocketFields, Same
<1> HIDE DEF q
<1>4. Shaped(u) /\ u.sock[l] = q /\ \A j \in Ids \ {l} : u.sock[j] = sock[j]
  BY <1>0, <1>3, UpdateTo
<1> HIDE DEF u
<1>5. DOMAIN Cleared = SocketFields /\ Cleared.state = "CLOSED" /\ Cleared.rxq = <<>>
  BY ClearedTo
<1>6. k.sock[e] = Cleared /\ \A j \in Ids \ {e} : k.sock[j] = u.sock[j]
  BY <1>2, <1>4, <1>5, UpdateTo DEF MetaClear
<1>7. sock' = k.sock
  BY <1>1 DEF Installed
<1> HIDE DEF k
<1>8. \A j \in Ids : Same(sock'[j], sock[j]) \/ Ended(sock'[j], sock[j])
  <2> SUFFICES ASSUME NEW j \in Ids PROVE Same(sock'[j], sock[j]) \/ Ended(sock'[j], sock[j])
    OBVIOUS
  <2>1. CASE j = e
    BY <1>5, <1>6, <1>7, <2>1 DEF Ended
  <2>2. CASE j # e /\ j = l
    BY <1>3, <1>4, <1>6, <1>7, <2>2
  <2>3. CASE j # e /\ j # l
    BY <1>4, <1>6, <1>7, <2>3 DEF Same
  <2> QED BY <2>1, <2>2, <2>3
<1> QED BY <1>1, <1>8 DEF Rests

\* Close of a socket without an open connection.
LEMMA CloseRests ==
    ASSUME ConnInv, LegacyClose \/ \E i \in Ids : CloseFrees(i)
    PROVE  Rests
<1>0. Shaped(Both) /\ Both.sock = sock
  BY BothShaped DEF ConnInv
<1>1. CASE LegacyClose
  <2> DEFINE k == RetxCancel(Both, 0)
             s == [k.sock[0] EXCEPT !.listening = FALSE, !.state = "CLOSED"]
  <2>1. /\ Installed(Update(k, 0, s)) /\ 0 \in Ids
        /\ UNCHANGED <<call, out, peer, sent, got, failed, sends, opens>>
    BY <1>1, NumberFacts DEF LegacyClose
  <2>2. Shaped(k) /\ SameBody(k.sock[0], sock[0]) /\ \A j \in Ids \ {0} : k.sock[j] = sock[j]
    BY <1>0, <2>1, CancelTo
  <2> HIDE DEF k
  <2>3. DOMAIN s = SocketFields /\ s.state = "CLOSED" /\ s.rxq = sock[0].rxq
    BY <2>1, <2>2 DEF SocketFields, SameBody, Shaped
  <2> HIDE DEF s
  <2>4. sock'[0] = s /\ \A j \in Ids \ {0} : sock'[j] = sock[j]
    BY <2>1, <2>2, <2>3, UpdateTo DEF Installed
  <2>5. Ended(sock'[0], sock[0])
    BY <2>3, <2>4 DEF Ended
  <2> QED BY <2>1, <2>4, <2>5, RestsOne
<1>2. ASSUME NEW i \in Ids, CloseFrees(i) PROVE Rests
  <2> DEFINE k == RetxCancel(Both, i)
             r == ReclaimAll(k, sock[i].backlog)
             w == MetaClear(r, i)
  <2>1. /\ Installed(w) /\ UNCHANGED <<call, out, peer, sent, got, failed, sends, opens>>
    BY <1>2 DEF CloseFrees
  <2>2. Shaped(k) /\ \A j \in Ids \ {i} : k.sock[j] = sock[j]
    BY <1>0, CancelTo
  <2>3. DOMAIN Cleared = SocketFields /\ Cleared.state = "CLOSED" /\ Cleared.rxq = <<>>
    BY ClearedTo
  <2> HIDE DEF k
  <2>4. Shaped(r) /\ \A j \in Ids : r.sock[j] \in {Cleared, k.sock[j]}
    BY <2>2, <2>3 DEF ReclaimAll, Shaped
  <2> HIDE DEF r
  <2>5. w.sock[i] = Cleared /\ \A j \in Ids \ {i} : w.sock[j] = r.sock[j]
    BY <2>3, <2>4, UpdateTo DEF MetaClear
  <2>6. sock' = w.sock
    BY <2>1 DEF Installed
  <2> HIDE DEF w
  <2>7. \A j \in Ids : sock'[j] = Cleared \/ sock'[j] = sock[j]
    BY <2>2, <2>4, <2>5, <2>6
  <2>8. \A j \in Ids : Same(sock'[j], sock[j]) \/ Ended(sock'[j], sock[j])
    BY <2>3, <2>7 DEF Ended, Same
  <2> QED BY <2>1, <2>8 DEF Rests
<1> QED BY <1>1, <1>2
\* A timer repeats a segment that was sent before, or ends the connection.
LEMMA TimerRests ==
    ASSUME ConnInv, NEW t \in Slots, RetxTimer(t)
    PROVE  Rests
<1> DEFINE i == timers[t]
           r == sock[i]
           k == OnTimer(Both, i)
           again == r.armed /\ r.state # "CLOSED" /\ r.count < Attempts /\ r.conn # None
<1>0. Shaped(Both) /\ Both.sock = sock
  BY BothShaped DEF ConnInv
<1>1. /\ i \in Ids /\ Installed(k) /\ UNCHANGED <<call, peer, sent, got, failed, sends, opens>>
      /\ IF again THEN Emit(r.conn, {Repeated(r)}) ELSE UNCHANGED out
  BY DEF RetxTimer
<1> HIDE DEF i
<1>2. DOMAIN out' = DOMAIN out /\ \A c \in Conns : out'[c] = out[c]
  <2>1. CASE ~again
    BY <1>1, <2>1
  <2>2. CASE again
    <3> DEFINE e == r.conn
               S == {m \in {Repeated(r)} : Heeded(e, m)}
    <3>1. out' = [out EXCEPT ![e] = @ \cup S]
      BY <1>1, <2>2 DEF Emit
    <3>2. S \subseteq out[e] /\ e \in Conns /\ DOMAIN out = Conns
      <4>1. /\ Opened(i) => sock[i].conn \in Conns
            /\ Opened(i) /\ sock[i].armed => sock[i].last \in out[sock[i].conn]
            /\ DOMAIN out = Conns
        BY <1>1 DEF ConnInv, StreamInv, OpeningsOK, SocketsOK, SegmentsOK
      <4> QED BY <2>2, <4>1 DEF Opened, Repeated
    <3> HIDE DEF S, e
    <3> QED BY <3>1, <3>2
  <2> QED BY <2>1, <2>2
<1>3. /\ \A j \in Ids \ {i} : k.sock[j] = sock[j]
      /\ Same(k.sock[i], sock[i]) \/ Ended(k.sock[i], sock[i])
  <2>1. CASE ~r.armed
    BY <1>0, <2>1 DEF OnTimer, Same
  <2>2. CASE r.armed /\ r.state = "CLOSED"
    <3>1. k = RetxCancel(Both, i)
      BY <1>0, <2>2 DEF OnTimer
    <3>2. SameBody(k.sock[i], sock[i]) /\ \A j \in Ids \ {i} : k.sock[j] = sock[j]
      <4> HIDE DEF k
      <4> QED BY <1>0, <1>1, <3>1, CancelTo
    <3> QED BY <2>2, <3>2 DEF Ended, SameBody
  <2>3. CASE r.armed /\ r.state # "CLOSED" /\ r.count >= Attempts
    <3>1. k = Closed(Both, i)
      BY <1>0, <2>3 DEF OnTimer, Closed
    <3> HIDE DEF k
    <3> QED BY <1>0, <1>1, <3>1, ClosedTo DEF Ended
  <2>4. CASE r.armed /\ r.state # "CLOSED" /\ ~(r.count >= Attempts)
    <3> DEFINE s == [r EXCEPT !.count = @ + 1]
    <3>1. k = Update(Both, i, s)
      BY <1>0, <2>4 DEF OnTimer
    <3>2. DOMAIN r = SocketFields
      BY <1>0, <1>1 DEF Shaped
    <3> HIDE DEF r, k
    <3>3. DOMAIN s = SocketFields /\ Same(s, r)
      BY <3>2 DEF SocketFields, Same
    <3> HIDE DEF s
    <3> QED BY <1>0, <1>1, <3>1, <3>3, UpdateTo DEF r
  <2> QED BY <2>1, <2>2, <2>3, <2>4
<1>4. sock' = k.sock
  BY <1>1 DEF Installed
<1> HIDE DEF k
<1>5. \A j \in Ids : Same(sock'[j], sock[j]) \/ Ended(sock'[j], sock[j])
  BY <1>3, <1>4 DEF Same
<1> QED BY <1>1, <1>2, <1>5 DEF Rests

\* A reset ends the connection.
LEMMA ResetRests ==
    ASSUME ConnInv, NEW c, NEW m, NEW i \in Ids, ReceiveReset(c, m, i)
    PROVE  Rests
<1>1. Installed(Closed(Both, i)) /\ UNCHANGED <<call, out, peer, sent, got, failed, sends, opens>>
  BY DEF ReceiveReset
<1>2. Shaped(Both) /\ Both.sock = sock
  BY BothShaped DEF ConnInv
<1>3. Ended(sock'[i], sock[i]) /\ \A j \in Ids \ {i} : sock'[j] = sock[j]
  BY <1>1, <1>2, ClosedTo DEF Installed, Ended
<1> QED BY <1>1, <1>3, RestsOne

-----------------------------------------------------------------------------
(* Actions that open a connection *)

\* What is on the wire: first segments with the peer's number, payloads and FINs
\* of its stream and resets; acknowledgements are numbers it has got to.
LEMMA WireForms ==
    ASSUME PeersOK, NEW c \in Conns, NEW m \in Wire(c)
    PROVE  /\ "ACK" \in m.flags => m.ack \in peer[c].acks
           /\ "SYN" \in m.flags => m.seq = PeerIsn /\ m.len = 0
           /\ "SYN" \notin m.flags /\ "RST" \notin m.flags =>
                /\ m.data \in 0 .. peer[c].snd /\ m.len \in 0 .. peer[c].snd
                /\ m.data + m.len <= peer[c].snd /\ m.seq = Plus(PeerIsn, 1 + m.data)
<1> DEFINE p == peer[c]
           handshake == {Segment({"SYN", "ACK"}, PeerIsn, a, 0, 0) : a \in p.acks}
           cuts == {y \in (0 .. p.snd) \X (0 .. p.snd) \X p.acks : y[1] + y[2] <= p.snd}
           payload == {PeerData(x[1], x[2], FALSE, x[3]) : x \in cuts}
           last(k, a) == PeerData(k, p.snd - k, TRUE, a)
           final == {last(k, a) : k \in 0 .. p.snd, a \in p.acks}
           ack == "ACK" \in m.flags => m.ack \in p.acks
           syn == "SYN" \in m.flags => m.seq = PeerIsn /\ m.len = 0
           data == "SYN" \notin m.flags /\ "RST" \notin m.flags =>
                     /\ m.data \in 0 .. p.snd /\ m.len \in 0 .. p.snd
                     /\ m.data + m.len <= p.snd /\ m.seq = Plus(PeerIsn, 1 + m.data)
<1>1. p.snd \in Nat
  BY DEF PeersOK
<1>2. \/ m \in {Segment({"SYN"}, PeerIsn, 0, 0, 0), Segment({"RST"}, PeerIsn, 0, 0, 0)}
      \/ m \in handshake \/ m \in payload \/ m \in final
  <2>1. Wire(c) \subseteq {Segment({"SYN"}, PeerIsn, 0, 0, 0)} \cup handshake \cup payload
                          \cup final \cup {Segment({"RST"}, PeerIsn, 0, 0, 0)}
    <3> HIDE DEF handshake, payload, final
    <3>1. Wire(c) =
            (IF c \in Clients /\ p.state \notin {"start", "off"}
             THEN {Segment({"SYN"}, PeerIsn, 0, 0, 0)} ELSE {})
            \cup (IF c \in Servers THEN handshake ELSE {})
            \cup (IF p.state = "synrcvd" THEN {} ELSE payload)
            \cup (IF p.fin THEN final ELSE {})
            \cup (IF p.state = "reset" THEN {Segment({"RST"}, PeerIsn, 0, 0, 0)} ELSE {})
      BY DEF Wire, handshake, payload, final, cuts
    <3> QED BY <3>1
  <2> HIDE DEF handshake, payload, final
  <2> QED BY <2>1
<1>3. ASSUME NEW x \in 0 .. p.snd, NEW y \in 0 .. p.snd, x + y <= p.snd, NEW f \in BOOLEAN,
             NEW z \in p.acks, m = PeerData(x, y, f, z)
      PROVE  ack /\ syn /\ data
  <2>1. m.seq = Plus(PeerIsn, 1 + x) /\ m.len = y /\ m.data = x /\ m.ack = z
    BY <1>3 DEF PeerData, Segment
  <2>2. "SYN" \notin m.flags
    BY <1>3 DEF PeerData, Segment
  <2> QED BY <1>3, <2>1, <2>2
<1>4. CASE m \in {Segment({"SYN"}, PeerIsn, 0, 0, 0), Segment({"RST"}, PeerIsn, 0, 0, 0)}
  BY <1>4 DEF Segment
<1>5. CASE m \in handshake
  BY <1>5 DEF Segment
<1>6. CASE m \in payload
  <2>1. PICK x \in cuts : m = PeerData(x[1], x[2], FALSE, x[3])
    BY <1>6
  <2>2. x[1] \in 0 .. p.snd /\ x[2] \in 0 .. p.snd /\ x[3] \in p.acks /\ x[1] + x[2] <= p.snd
    BY <2>1
  <2>3. ack /\ syn /\ data
    <3> HIDE DEF p, ack, syn, data
    <3> QED BY <1>3, <2>1, <2>2
  <2> QED BY <2>3
<1>7. CASE m \in final
  <2>1. PICK k \in 0 .. p.snd, a \in p.acks : m = PeerData(k, p.snd - k, TRUE, a)
    <3> HIDE DEF p, last
    <3>1. \E k \in 0 .. p.snd, a \in p.acks : m = last(k, a)
      BY <1>7 DEF final
    <3> QED BY <3>1 DEF last
  <2>2. p.snd - k \in 0 .. p.snd /\ k + (p.snd - k) <= p.snd
    BY <1>1
  <2>3. ack /\ syn /\ data
    <3> HIDE DEF p, ack, syn, data
    <3> QED BY <1>3, <2>1, <2>2
  <2> QED BY <2>3
<1> HIDE DEF handshake, payload, final
<1>8. ack /\ syn /\ data
  <2> HIDE DEF ack, syn, data
  <2>1. CASE m \in {Segment({"SYN"}, PeerIsn, 0, 0, 0), Segment({"RST"}, PeerIsn, 0, 0, 0)}
    BY <1>4, <2>1 DEF ack, syn, data
  <2>2. CASE m \in handshake
    BY <1>5, <2>2 DEF ack, syn, data
  <2>3. CASE m \in payload \/ m \in final
    BY <1>6, <1>7, <2>3 DEF ack, syn, data
  <2> QED BY <1>2, <2>1, <2>2, <2>3
<1> QED BY <1>8

\* A socket that starts a connection and is armed with its first segment.
LEMMA OpensBy ==
    ASSUME ConnInv, NEW i \in Ids, NEW c \in Conns, NEW k, Shaped(k), NEW m,
           \A j \in Ids \ {i} : Same(k.sock[j], sock[j]),
           k.sock[i].state \in {"SYN_SENT", "SYN_RECEIVED"}, k.sock[i].conn = c,
           k.sock[i].state = "SYN_RECEIVED" => k.sock[i].ack = Plus(PeerIsn, 1),
           k.sock[i].seq = Ticks, k.sock[i].rxq \in {sock[i].rxq, <<>>},
           Installed(RetxArm(k, i, m)), Emit(c, {m}),
           "SYN" \in m.flags, m.len = 0, m.seq = Ticks,
           opens < MaxOpens, opens' = opens + 1, UNCHANGED <<peer, sent, got, failed>>,
           sends' \in sends .. MaxSends,
           call'.op = "tcpsend" => sends' > 0 /\ (i = 0 \/ call.op = "tcpsend")
    PROVE  Opens(i, c, m)
<1> DEFINE w == RetxArm(k, i, m)
<1>1. /\ SameBody(w.sock[i], k.sock[i]) /\ w.sock[i].armed /\ w.sock[i].last = m
      /\ \A j \in Ids \ {i} : w.sock[j] = k.sock[j]
  BY ArmTo
<1>2. sock' = w.sock
  BY DEF Installed
<1> HIDE DEF w
<1>3. \A j \in Ids \ {i} : Same(sock'[j], sock[j])
  BY <1>1, <1>2
<1>4. /\ sock'[i].state \in {"SYN_SENT", "SYN_RECEIVED"} /\ sock'[i].conn = c
      /\ sock'[i].state = "SYN_RECEIVED" => sock'[i].ack = Plus(PeerIsn, 1)
      /\ sock'[i].seq = Ticks /\ sock'[i].armed /\ sock'[i].last = m
      /\ sock'[i].rxq \in {sock[i].rxq, <<>>}
  BY <1>1, <1>2 DEF SameBody
<1>5. out' = [out EXCEPT ![c] = @ \cup {m}]
  <2>1. {x \in {m} : Heeded(c, x)} = {m}
    BY DEF Heeded
  <2> HIDE DEF Heeded
  <2> QED BY <2>1 DEF Emit
<1> QED BY <1>3, <1>4, <1>5 DEF Opens

\* connect, and the start of the one-shot send.
LEMMA ConnectOpens ==
    ASSUME NumbersFit, ConnInv, NEW c \in Servers, NEW ok \in Oks,
           OneShotStart(c, ok) \/ \E i \in Ids : ConnectStart(i, c, ok)
    PROVE  \E i \in Ids : Opens(i, c, Syn)
<1>0. /\ Shaped(Both) /\ Both.sock = sock /\ c \in Conns
      /\ sends \in Nat /\ MaxSends \in Nat /\ sends <= MaxSends
  <2>1. Shaped(Both) /\ Both.sock = sock /\ c \in Conns
    BY BothShaped DEF ConnInv, Conns
  <2>2. sends \in Nat /\ MaxSends \in Nat /\ sends <= MaxSends
    BY TcpAssumption DEF ConnInv, StreamInv, OpeningsOK
  <2> QED BY <2>1, <2>2
<1>1. "SYN" \in Syn.flags /\ Syn.len = 0 /\ Syn.seq = Ticks
  BY DEF Syn, Segment
<1>2. ASSUME NEW i \in Ids
      PROVE  LET e == [Cleared EXCEPT !.timer = -1, !.inUse = TRUE, !.conn = c,
                                    !.seq = Ticks, !.state = "SYN_SENT"]
             IN  /\ DOMAIN e = SocketFields /\ e.state = "SYN_SENT" /\ e.conn = c
                 /\ e.seq = Ticks /\ e.rxq = <<>>
  <2> DEFINE d == Cleared
             e == [d EXCEPT !.timer = -1, !.inUse = TRUE, !.conn = c,
                                    !.seq = Ticks, !.state = "SYN_SENT"]
  <2>1. DOMAIN d = SocketFields /\ d.rxq = <<>>
    BY ClearedTo
  <2> HIDE DEF d
  <2>2. /\ DOMAIN e = SocketFields /\ e.state = "SYN_SENT" /\ e.conn = c
        /\ e.seq = Ticks /\ e.rxq = <<>>
    BY <2>1 DEF SocketFields
  <2> QED BY <2>2 DEF d
<1>3. ASSUME NEW i \in Ids
      PROVE  LET k == Connecting(i, c)
             IN  /\ Shaped(k) /\ \A j \in Ids \ {i} : k.sock[j] = sock[j]
                 /\ k.sock[i].state = "SYN_SENT" /\ k.sock[i].conn = c
                 /\ k.sock[i].seq = Ticks /\ k.sock[i].rxq = <<>>
  <2> DEFINE e == [Cleared EXCEPT !.timer = -1, !.inUse = TRUE, !.conn = c,
                                    !.seq = Ticks, !.state = "SYN_SENT"]
  <2>1. /\ DOMAIN e = SocketFields /\ e.state = "SYN_SENT" /\ e.conn = c
        /\ e.seq = Ticks /\ e.rxq = <<>> /\ Connecting(i, c) = Update(Both, i, e)
    BY <1>2 DEF Connecting
  <2> HIDE DEF e
  <2> QED BY <1>0, <2>1, UpdateTo
<1>4. ASSUME NEW i \in Ids, ConnectStart(i, c, ok) PROVE Opens(i, c, Syn)
  <2> DEFINE k == Connecting(i, c)
  <2>1. /\ opens < MaxOpens /\ opens' = opens + 1 /\ UNCHANGED <<peer, sent, got, failed, sends>>
        /\ Installed(RetxArm(k, i, Syn)) /\ Emit(c, {Syn}) /\ call'.op # "tcpsend"
    BY <1>4 DEF ConnectStart, MayConnect, Idle, None
  <2>2. /\ Shaped(k) /\ \A j \in Ids \ {i} : k.sock[j] = sock[j]
        /\ k.sock[i].state = "SYN_SENT" /\ k.sock[i].conn = c
        /\ k.sock[i].seq = Ticks /\ k.sock[i].rxq = <<>>
    BY <1>3
  <2> HIDE DEF k
  <2>3. \A j \in Ids \ {i} : Same(k.sock[j], sock[j])
    BY <2>2 DEF Same
  <2>4. sends' \in sends .. MaxSends
    BY <1>0, <2>1
  <2> QED BY <1>0, <1>1, <2>1, <2>2, <2>3, <2>4, OpensBy
<1>5. CASE OneShotStart(c, ok)
  <2> DEFINE h == Connecting(0, c)
             s == [h.sock[0] EXCEPT !.inUse = FALSE]
             k == Update(Both, 0, s)
  <2>1. /\ opens < MaxOpens /\ opens' = opens + 1 /\ UNCHANGED <<peer, sent, got, failed>>
        /\ sends' = sends + 1 /\ sends < MaxSends /\ 0 \in Ids
        /\ Installed(RetxArm(k, 0, Syn)) /\ Emit(c, {Syn})
    BY <1>0, <1>5, NumberFacts DEF OneShotStart, MayConnect, MaySend
  <2>2. /\ Shaped(h) /\ h.sock[0].state = "SYN_SENT" /\ h.sock[0].conn = c
        /\ h.sock[0].seq = Ticks /\ h.sock[0].rxq = <<>>
    BY <1>3, <2>1
  <2> HIDE DEF h
  <2>3. /\ DOMAIN s = SocketFields /\ s.state = "SYN_SENT" /\ s.conn = c
        /\ s.seq = Ticks /\ s.rxq = <<>>
    BY <2>1, <2>2 DEF SocketFields, Shaped
  <2> HIDE DEF s
  <2>4. Shaped(k) /\ k.sock[0] = s /\ \A j \in Ids \ {0} : k.sock[j] = sock[j]
    BY <1>0, <2>1, <2>3, UpdateTo
  <2> HIDE DEF k
  <2>5. \A j \in Ids \ {0} : Same(k.sock[j], sock[j])
    BY <2>4 DEF Same
  <2>6. sends' \in sends .. MaxSends /\ sends' > 0
    BY <1>0, <2>1
  <2>7. Opens(0, c, Syn)
    BY <1>0, <1>1, <2>1, <2>3, <2>4, <2>5, <2>6, OpensBy
  <2> QED BY <2>1, <2>7
<1> QED BY <1>4, <1>5

\* The socket a first segment of a peer is given.
LEMMA PassiveOpens ==
    ASSUME NumbersFit, ConnInv, NEW i \in Ids, NEW c \in Conns, NEW k, Shaped(k), NEW m,
           \A j \in Ids \ {i} : Same(k.sock[j], sock[j]), k.sock[i].rxq \in {sock[i].rxq, <<>>},
           m.seq = PeerIsn, Passive(k, i, c, m), opens < MaxOpens,
           UNCHANGED <<call, peer, sent, got, failed, sends>>
    PROVE  StreamInv'
<1> DEFINE r == k.sock[i]
           s == [r EXCEPT !.conn = c, !.seq = Ticks, !.ack = Plus(m.seq, 1),
                          !.state = "SYN_RECEIVED"]
           reply == Segment({"SYN", "ACK"}, s.seq, s.ack, 0, 0)
           u == Update(k, i, s)
<1>1. Installed(RetxArm(u, i, reply)) /\ Emit(c, {reply}) /\ opens' = opens + 1
  BY DEF Passive
<1>2. DOMAIN r = SocketFields
  BY DEF Shaped
<1> HIDE DEF r
<1>3. /\ DOMAIN s = SocketFields /\ s.state = "SYN_RECEIVED" /\ s.conn = c /\ s.seq = Ticks
      /\ s.ack = Plus(PeerIsn, 1) /\ s.rxq = r.rxq
  BY <1>2 DEF SocketFields
<1> HIDE DEF s
<1>4. "SYN" \in reply.flags /\ reply.len = 0 /\ reply.seq = Ticks
  BY <1>3 DEF Segment
<1> HIDE DEF reply
<1>5. Shaped(u) /\ u.sock[i] = s /\ \A j \in Ids \ {i} : u.sock[j] = k.sock[j]
  BY <1>3, UpdateTo
<1> HIDE DEF u
<1>6. \A j \in Ids \ {i} : Same(u.sock[j], sock[j])
  BY <1>5
<1>7. /\ u.sock[i].state \in {"SYN_SENT", "SYN_RECEIVED"} /\ u.sock[i].conn = c
      /\ u.sock[i].ack = Plus(PeerIsn, 1) /\ u.sock[i].seq = Ticks
      /\ u.sock[i].rxq \in {sock[i].rxq, <<>>}
  BY <1>3, <1>5 DEF r
<1>8. /\ sends' \in sends .. MaxSends
      /\ call'.op = "tcpsend" => sends' > 0 /\ (i = 0 \/ call.op = "tcpsend")
  BY TcpAssumption DEF ConnInv, StreamInv, OpeningsOK
<1>9. Opens(i, c, reply)
  BY <1>1, <1>4, <1>5, <1>6, <1>7, <1>8, OpensBy
<1> QED BY <1>9, OpensKept

\* A first segment of a peer.
LEMMA SynKept ==
    ASSUME NumbersFit, ConnInv, NEW c \in Conns, NEW m \in Wire(c), ReceiveSyn(c, m)
    PROVE  StreamInv'
<1>0. /\ Shaped(Both) /\ Both.sock = sock /\ 0 \in Ids /\ PassiveOpen(c, m) /\ opens < MaxOpens
      /\ UNCHANGED <<call, peer, sent, got, failed, sends>>
  BY BothShaped, NumberFacts DEF ConnInv, ReceiveSyn
<1>1. m.seq = PeerIsn
  BY WireForms DEF ConnInv, TcpInv, ReceiveSyn
<1>2. CASE LegacyListens /\ Passive(Both, 0, c, m)
  <2>1. \A j \in Ids \ {0} : Same(Both.sock[j], sock[j])
    BY <1>0 DEF Same
  <2>2. Both.sock[0].rxq \in {sock[0].rxq, <<>>}
    BY <1>0
  <2> QED BY <1>0, <1>1, <1>2, <2>1, <2>2, PassiveOpens
<1>3. CASE ~LegacyListens /\ PassiveOpen(c, m)
  <2> DEFINE l == FirstOf(Listeners)
             i == FirstOf(Free)
             e == [Cleared EXCEPT !.inUse = TRUE, !.timer = -1]
             k == Update(Both, i, e)
             q == [k.sock[l] EXCEPT !.backlog = Append(@, i)]
             w == Update(k, l, q)
  <2>1. MayQueue /\ Passive(w, i, c, m)
    BY <1>3 DEF PassiveOpen
  <2>2. l \in Listeners /\ i \in Free
    <3>1. Listeners \subseteq Nat /\ Free \subseteq Nat
      BY NumberFacts DEF Listeners, Free
    <3> QED BY <2>1, <3>1, FirstOfFact DEF MayQueue
  <2>3. l \in Ids /\ i \in Ids /\ i # l
    BY <2>2, NumberFacts DEF Listeners, Free
  <2> HIDE DEF l, i
  <2>4. DOMAIN e = SocketFields /\ e.rxq = <<>>
    BY ClearedTo
  <2> HIDE DEF e
  <2>5. Shaped(k) /\ k.sock[i] = e /\ \A j \in Ids \ {i} : k.sock[j] = sock[j]
    BY <1>0, <2>3, <2>4, UpdateTo
  <2> HIDE DEF k
  <2>6. DOMAIN q = SocketFields /\ Same(q, sock[l])
    <3>1. k.sock[l] = sock[l] /\ DOMAIN k.sock[l] = SocketFields
      BY <2>3, <2>5 DEF Shaped
    <3> QED BY <3>1 DEF SocketFields, Same
  <2> HIDE DEF q
  <2>7. Shaped(w) /\ w.sock[l] = q /\ \A j \in Ids \ {l} : w.sock[j] = k.sock[j]
    BY <2>3, <2>5, <2>6, UpdateTo
  <2> HIDE DEF w
  <2>8. \A j \in Ids \ {i} : Same(w.sock[j], sock[j])
    <3> SUFFICES ASSUME NEW j \in Ids \ {i} PROVE Same(w.sock[j], sock[j])
      OBVIOUS
    <3>1. CASE j = l
      BY <2>6, <2>7, <3>1
    <3>2. CASE j # l
      BY <2>5, <2>7, <3>2 DEF Same
    <3> QED BY <3>1, <3>2
  <2>9. w.sock[i].rxq \in {sock[i].rxq, <<>>}
    BY <2>3, <2>4, <2>5, <2>7
  <2> QED BY <1>0, <1>1, <2>1, <2>3, <2>7, <2>8, <2>9, PassiveOpens
<1> QED BY <1>0, <1>2, <1>3 DEF PassiveOpen

-----------------------------------------------------------------------------
(* The ends of a handshake *)

\* The socket a frame is for belongs to the connection it came on.
LEMMA ReceivingConn ==
    ASSUME NEW c, NEW i, Receiving(c, i)
    PROVE  i \in Ids /\ c = sock[i].conn /\ Opened(i)
<1>1. Matching(c) \subseteq Nat /\ Matching(c) # {}
  BY NumberFacts DEF Matching, Receiving
<1>2. i \in Matching(c)
  BY <1>1, FirstOfFact DEF Receiving
<1> QED BY <1>2 DEF Matching, Opened

\* A socket whose handshake is over, with the acknowledgement it may send.
LEMMA EstablishesBy ==
    ASSUME NumbersFit, ConnInv, NEW i \in Ids, NEW c \in Conns, c = sock[i].conn, Greeting(i),
           Plus(sock[i].seq, 1) \in peer[c].acks,
           NEW s, DOMAIN s = SocketFields, s.state = "ESTABLISHED", s.conn = c,
           s.seq = Plus(sock[i].seq, 1), s.ack = Plus(PeerIsn, 1), s.rxq = sock[i].rxq, ~s.armed,
           Installed(Update(RetxCancel(Both, i), i, s)),
           UNCHANGED <<call, peer, sent, got, failed, sends, opens>>,
           NEW S, S \subseteq {AckNow(s)},
           DOMAIN out' = DOMAIN out, out'[c] = out[c] \cup S,
           \A d \in Conns \ {c} : out'[d] = out[d]
    PROVE  StreamInv'
<1> DEFINE k == RetxCancel(Both, i)
           v == Plus(sock[i].seq, 1)
<1>0. Shaped(Both) /\ Both.sock = sock
  BY BothShaped DEF ConnInv
<1>1. Shaped(k) /\ \A j \in Ids \ {i} : k.sock[j] = sock[j]
  BY <1>0, CancelTo
<1> HIDE DEF k
<1>2. sock'[i] = s /\ \A j \in Ids \ {i} : sock'[j] = sock[j]
  BY <1>1, UpdateTo DEF Installed, k
<1>3. v \in Nat /\ v < SeqMod
  <2>1. opens \in 0 .. MaxOpens
    BY DEF ConnInv, StreamInv, OpeningsOK
  <2>2. v = sock[i].seq + 1 /\ Numbered(sock[i].seq + 1)
    BY EstablishesHome
  <2> HIDE DEF v
  <2>3. v \in Nat /\ v < Base(Of(v)) + Stride /\ Base(Of(v)) + Stride < SeqMod
        /\ SeqMod \in Nat /\ Base(Of(v)) \in Nat /\ Stride \in Nat
    BY <2>1, <2>2, NumberedFact
  <2> QED BY <2>3
<1> HIDE DEF v
<1>4. \A m \in S : "SYN" \notin m.flags /\ m.len = 0 /\ m.seq = s.seq /\ EndOf(m) = m.seq
  <2> DEFINE m == AckNow(s)
  <2>1. "SYN" \notin m.flags /\ m.len = 0 /\ m.seq = v /\ m.flags \cap {"SYN", "FIN"} = {}
    BY DEF AckNow, Segment, v
  <2> HIDE DEF m
  <2>2. EndOf(m) = v
    <3>1. EndOf(m) = Plus(m.seq, 0)
      BY <2>1 DEF EndOf
    <3> QED BY <1>3, <2>1, <3>1, SumFact
  <2> QED BY <2>1, <2>2 DEF m, v
<1>5. \A j \in Ids \ {i} : Same(sock'[j], sock[j])
  BY <1>2 DEF Same
<1>6. Establishes(i, c, S)
  BY <1>2, <1>4, <1>5 DEF Establishes
<1> QED BY <1>6, EstablishesKept

\* SYN|ACK from a server.
LEMMA SynAckKept ==
    ASSUME NumbersFit, ConnInv, NEW c \in Conns, NEW m \in Wire(c), NEW i \in Ids,
           ReceiveSynAck(c, m, i)
    PROVE  StreamInv'
<1> DEFINE k == RetxCancel(Both, i)
           r == k.sock[i]
           s == [r EXCEPT !.seq = Plus(@, 1), !.ack = Plus(m.seq, 1), !.state = "ESTABLISHED"]
           S == {x \in {AckNow(s)} : Heeded(c, x)}
<1>0. /\ Shaped(Both) /\ Both.sock = sock /\ c = sock[i].conn /\ Greeting(i)
      /\ UNCHANGED <<call, peer, sent, got, failed, sends, opens>>
      /\ "SYN" \in m.flags /\ "ACK" \in m.flags /\ m.ack = Plus(sock[i].seq, 1)
      /\ Installed(Update(k, i, s)) /\ Emit(c, {AckNow(s)})
  BY BothShaped, ReceivingConn DEF ConnInv, ReceiveSynAck, Greeting
<1>1. Plus(sock[i].seq, 1) \in peer[c].acks /\ m.seq = PeerIsn
  BY <1>0, WireForms DEF ConnInv, TcpInv
<1>2. Shaped(k) /\ SameBody(r, sock[i]) /\ ~r.armed
  BY <1>0, CancelTo
<1> HIDE DEF k
<1>3. DOMAIN r = SocketFields
  BY <1>2 DEF Shaped
<1>4. /\ DOMAIN s = SocketFields /\ s.state = "ESTABLISHED" /\ s.seq = Plus(r.seq, 1)
      /\ s.ack = Plus(m.seq, 1) /\ s.conn = r.conn /\ s.rxq = r.rxq /\ s.armed = r.armed
  <2> HIDE DEF r
  <2> QED BY <1>3 DEF SocketFields
<1> HIDE DEF r, s
<1>5. DOMAIN out = Conns
  BY DEF ConnInv, StreamInv, SegmentsOK
<1>6. DOMAIN out' = DOMAIN out /\ out'[c] = out[c] \cup S /\ \A d \in Conns \ {c} : out'[d] = out[d]
  <2>1. out' = [out EXCEPT ![c] = @ \cup S]
    BY <1>0 DEF Emit
  <2> HIDE DEF S
  <2> QED BY <1>5, <2>1
<1>7. S \subseteq {AckNow(s)}
  OBVIOUS
<1> HIDE DEF S
<1>8. /\ s.conn = c /\ s.seq = Plus(sock[i].seq, 1) /\ s.ack = Plus(PeerIsn, 1)
      /\ s.rxq = sock[i].rxq /\ ~s.armed
  BY <1>0, <1>1, <1>2, <1>4 DEF SameBody
<1>9. Installed(Update(RetxCancel(Both, i), i, s))
  BY <1>0 DEF k
<1> QED BY <1>0, <1>1, <1>4, <1>6, <1>7, <1>8, <1>9, EstablishesBy

\* The acknowledgement of our SYN|ACK.
LEMMA HandshakeAckKept ==
    ASSUME NumbersFit, ConnInv, NEW c \in Conns, NEW m \in Wire(c), NEW i \in Ids,
           ReceiveHandshakeAck(c, m, i)
    PROVE  StreamInv'
<1> DEFINE k == RetxCancel(Both, i)
           r == k.sock[i]
           s == [r EXCEPT !.seq = Plus(@, 1), !.state = "ESTABLISHED"]
<1>0. /\ Shaped(Both) /\ Both.sock = sock /\ c = sock[i].conn /\ Greeting(i)
      /\ UNCHANGED <<call, out, peer, sent, got, failed, sends, opens>>
      /\ "ACK" \in m.flags /\ m.ack = Plus(sock[i].seq, 1)
      /\ Installed(Update(k, i, s)) /\ sock[i].state = "SYN_RECEIVED"
  BY BothShaped, ReceivingConn DEF ConnInv, ReceiveHandshakeAck, Greeting
<1>1. Plus(sock[i].seq, 1) \in peer[c].acks
  BY <1>0, WireForms DEF ConnInv, TcpInv
<1>2. Shaped(k) /\ SameBody(r, sock[i]) /\ ~r.armed
  BY <1>0, CancelTo
<1> HIDE DEF k
<1>3. DOMAIN r = SocketFields
  BY <1>2 DEF Shaped
<1>4. /\ DOMAIN s = SocketFields /\ s.state = "ESTABLISHED" /\ s.seq = Plus(r.seq, 1)
      /\ s.ack = r.ack /\ s.conn = r.conn /\ s.rxq = r.rxq /\ s.armed = r.armed
  <2> HIDE DEF r
  <2> QED BY <1>3 DEF SocketFields
<1> HIDE DEF r, s
<1>5. sock[i].ack = Plus(PeerIsn, 1)
  BY <1>0 DEF ConnInv, StreamInv, StreamsOK, StreamOK
<1> DEFINE S == {}
<1>6. /\ S \subseteq {AckNow(s)} /\ DOMAIN out' = DOMAIN out /\ out'[c] = out[c] \cup S
      /\ \A d \in Conns \ {c} : out'[d] = out[d]
  BY <1>0
<1> HIDE DEF S
<1>7. /\ s.conn = c /\ s.seq = Plus(sock[i].seq, 1) /\ s.ack = Plus(PeerIsn, 1)
      /\ s.rxq = sock[i].rxq /\ ~s.armed
  BY <1>0, <1>2, <1>4, <1>5 DEF SameBody
<1>8. Installed(Update(RetxCancel(Both, i), i, s))
  BY <1>0 DEF k
<1> QED BY <1>0, <1>1, <1>4, <1>6, <1>7, <1>8, EstablishesBy

-----------------------------------------------------------------------------
(* Data *)

\* What a payload changes of a socket.
LEMMA PayloadTo ==
    ASSUME NEW r, DOMAIN r = SocketFields, NEW c, NEW m
    PROVE  LET s == WithPayload(r, c, m)
               p == [conn |-> c, data |-> m.data, len |-> m.len]
           IN  /\ DOMAIN s = SocketFields /\ s.state = r.state /\ s.conn = r.conn /\ s.seq = r.seq
               /\ s.armed = r.armed /\ s.last = r.last
               /\ \/ s.rxq = r.rxq /\ s.ack = r.ack
                  \/ /\ m.len > 0 /\ m.seq = r.ack
                     /\ s.rxq = Append(r.rxq, p) /\ s.ack = Plus(r.ack, m.len)
<1> DEFINE p == [conn |-> c, data |-> m.data, len |-> m.len]
           b == Append(r.rxq, p)
           n == Plus(r.ack, m.len)
           e == [r EXCEPT !.rxq = b, !.ack = n]
           s == WithPayload(r, c, m)
<1>1. s = r \/ (m.len > 0 /\ m.seq = r.ack /\ s = e)
  <2>1. RxqEnqueue(r, c, m) \in {r, e}
    BY DEF RxqEnqueue
  <2> HIDE DEF e
  <2> QED BY <2>1 DEF WithPayload
<1> HIDE DEF b, n, s
<1>2. /\ DOMAIN e = SocketFields /\ e.state = r.state /\ e.conn = r.conn /\ e.seq = r.seq
      /\ e.armed = r.armed /\ e.last = r.last /\ e.rxq = b /\ e.ack = n
  BY DEF SocketFields
<1> HIDE DEF e
<1>3. /\ DOMAIN s = SocketFields /\ s.state = r.state /\ s.conn = r.conn /\ s.seq = r.seq
      /\ s.armed = r.armed /\ s.last = r.last
      /\ \/ s.rxq = r.rxq /\ s.ack = r.ack
         \/ m.len > 0 /\ m.seq = r.ack /\ s.rxq = b /\ s.ack = n
  BY <1>1, <1>2
<1> QED BY <1>3 DEF b, n, s

\* The acknowledgement that stops a retransmission covers all we sent.
LEMMA AcknowledgedFact ==
    ASSUME NumbersFit, ConnInv, NEW i \in Ids, Synced(i), NEW a \in peer[sock[i].conn].acks,
           sock[i].armed, a >= EndOf(sock[i].last), sock[i].conn \notin failed
    PROVE  peer[sock[i].conn].rcv = sock[i].seq
<1>1. /\ sock[i].seq \in Nat /\ SyncedOK(i) /\ sock[i].conn \in Conns /\ Greeted(sock[i].conn)
  BY SyncedFact
<1>2. EndOf(sock[i].last) = sock[i].seq /\ peer[sock[i].conn].rcv <= sock[i].seq
  BY <1>1 DEF SyncedOK, CurrentOK
<1>3. a \in Nat /\ a <= peer[sock[i].conn].rcv /\ peer[sock[i].conn].rcv \in Nat
  BY <1>1 DEF ConnInv, StreamInv, PeersGreeted, Numbered
<1> QED BY <1>1, <1>2, <1>3

\* A segment for an open connection.
LEMMA DataKept ==
    ASSUME NumbersFit, ConnInv, NEW c \in Conns, NEW m \in Wire(c), NEW i \in Ids,
           ReceiveData(c, m, i)
    PROVE  StreamInv'
<1> DEFINE k == IF "ACK" \in m.flags THEN RetxAckReceived(Both, i, m.ack) ELSE Both
           r == k.sock[i]
           s == WithPayload(r, c, m)
           f == IF FinInOrder(s, m) THEN [s EXCEPT !.ack = Plus(@, 1)] ELSE s
           u == Update(k, i, f)
           ends == \/ FinInOrder(s, m)
                   \/ s.state = "FIN_WAIT" /\ "ACK" \in m.flags /\ "FIN" \notin m.flags
           w == IF ends THEN Closed(u, i) ELSE u
           A == (IF m.len > 0 THEN {AckNow(s)} ELSE {}) \cup
                (IF "FIN" \in m.flags THEN {AckNow(f)} ELSE {})
           X == {x \in A : Heeded(c, x)}
           p == [conn |-> c, data |-> m.data, len |-> m.len]
           q == sock[i].seq
<1>0. /\ Shaped(Both) /\ Both.sock = sock /\ c = sock[i].conn /\ Synced(i)
      /\ UNCHANGED <<call, peer, sent, got, failed, sends, opens>>
      /\ "RST" \notin m.flags /\ Installed(w) /\ Emit(c, A)
  <2>1. Shaped(Both) /\ Both.sock = sock
    BY BothShaped DEF ConnInv
  <2>2. Receiving(c, i) /\ sock[i].state \in {"ESTABLISHED", "FIN_WAIT"} /\ "RST" \notin m.flags
        /\ UNCHANGED <<call, peer, sent, got, failed, sends, opens>>
    BY DEF ReceiveData
  <2>3. c = sock[i].conn /\ Synced(i)
    BY <2>2, ReceivingConn DEF Synced
  <2>4. Installed(w) /\ Emit(c, A)
    BY DEF ReceiveData
  <2> QED BY ONLY <2>1, <2>2, <2>3, <2>4
<1>1. /\ Shaped(k) /\ \A j \in Ids \ {i} : k.sock[j] = sock[j]
      /\ SameBody(r, sock[i])
      /\ \/ r.armed = sock[i].armed /\ r.last = sock[i].last
         \/ ~r.armed /\ (c \notin failed => peer[c].rcv = sock[i].seq)
  <2> DEFINE h == RetxCancel(Both, i)
  <2>1. CASE k = Both
    <3> HIDE DEF k
    <3> QED BY <1>0, <2>1 DEF SameBody
  <2>2. CASE k # Both
    <3>1. k = h /\ "ACK" \in m.flags /\ sock[i].armed /\ m.ack >= EndOf(sock[i].last)
      BY <1>0, <2>2 DEF RetxAckReceived
    <3>2. m.ack \in peer[c].acks
      BY <3>1, WireForms DEF ConnInv, TcpInv
    <3>3. c \notin failed => peer[c].rcv = sock[i].seq
      BY <1>0, <3>1, <3>2, AcknowledgedFact
    <3>4. /\ Shaped(h) /\ SameBody(h.sock[i], sock[i]) /\ ~h.sock[i].armed
          /\ \A j \in Ids \ {i} : h.sock[j] = sock[j]
      BY <1>0, CancelTo
    <3> HIDE DEF k, h
    <3> QED BY <3>1, <3>3, <3>4
  <2> QED BY <2>1, <2>2
<1> HIDE DEF k
<1>2. DOMAIN r = SocketFields
  BY <1>1 DEF Shaped
<1>3. /\ DOMAIN s = SocketFields /\ s.state = r.state /\ s.conn = r.conn /\ s.seq = r.seq
      /\ s.armed = r.armed /\ s.last = r.last
      /\ \/ s.rxq = r.rxq /\ s.ack = r.ack
         \/ m.len > 0 /\ m.seq = r.ack /\ s.rxq = Append(r.rxq, p) /\ s.ack = Plus(r.ack, m.len)
  <2> HIDE DEF r
  <2> QED BY <1>2, PayloadTo
<1> HIDE DEF r, s
<1>4. /\ DOMAIN f = SocketFields /\ f.state = s.state /\ f.conn = s.conn /\ f.seq = s.seq
      /\ f.armed = s.armed /\ f.last = s.last /\ f.rxq = s.rxq
      /\ ~ends => f.ack = s.ack
  <2>1. CASE ~FinInOrder(s, m)
    BY <1>3, <2>1
  <2>2. CASE FinInOrder(s, m)
    <3> DEFINE g == [s EXCEPT !.ack = Plus(@, 1)]
    <3>1. f = g /\ ends
      BY <2>2
    <3>2. /\ DOMAIN g = SocketFields /\ g.state = s.state /\ g.conn = s.conn /\ g.seq = s.seq
          /\ g.armed = s.armed /\ g.last = s.last /\ g.rxq = s.rxq
      BY <1>3 DEF SocketFields
    <3> HIDE DEF g, f, ends
    <3> QED BY <3>1, <3>2
  <2> QED BY <2>1, <2>2
<1> HIDE DEF f, ends
<1>5. Shaped(u) /\ u.sock[i] = f /\ \A j \in Ids \ {i} : u.sock[j] = sock[j]
  BY <1>1, <1>4, UpdateTo
<1> HIDE DEF u
<1>6. /\ \A j \in Ids \ {i} : w.sock[j] = sock[j]
      /\ w.sock[i].rxq = f.rxq /\ w.sock[i].seq = f.seq
      /\ w.sock[i].state = "CLOSED" \/ (w.sock[i] = f /\ ~ends)
  <2>1. CASE ends
    <3>1. w = Closed(u, i)
      BY <2>1
    <3> HIDE DEF w
    <3> QED BY <1>5, <3>1, ClosedTo
  <2>2. CASE ~ends
    BY <1>5, <2>2
  <2> QED BY <2>1, <2>2
<1>7. sock' = w.sock
  BY <1>0 DEF Installed
<1> HIDE DEF w
<1>8. /\ q \in Nat /\ q < SeqMod /\ q < Base(Of(q)) + Stride
  <2>1. /\ q \in Nat /\ Base(Of(q)) \in Nat /\ q < Base(Of(q)) + Stride
        /\ Base(Of(q)) + Stride < SeqMod /\ SeqMod \in Nat /\ Stride \in Nat
    BY <1>0, SyncedFact
  <2> HIDE DEF q
  <2> QED BY <2>1
<1>9. s.seq = q /\ f.seq = q
  BY <1>1, <1>3, <1>4 DEF SameBody
<1>10. out' = [out EXCEPT ![c] = @ \cup X]
  BY <1>0 DEF Emit
<1>11. \A x \in X : "SYN" \notin x.flags /\ x.len = 0 /\ x.seq = q /\ EndOf(x) = q
  <2>1. ASSUME NEW v, v.seq = q
        PROVE  "SYN" \notin AckNow(v).flags /\ AckNow(v).len = 0 /\ AckNow(v).seq = q
               /\ EndOf(AckNow(v)) = q
    <3> DEFINE x == AckNow(v)
    <3>1. "SYN" \notin x.flags /\ x.len = 0 /\ x.seq = q /\ x.flags \cap {"SYN", "FIN"} = {}
      BY <2>1 DEF AckNow, Segment
    <3> HIDE DEF x, q
    <3>2. EndOf(x) = Plus(x.seq, 0)
      BY <3>1 DEF EndOf
    <3>3. EndOf(x) = q
      BY <1>8, <3>1, <3>2, SumFact
    <3> QED BY <3>1, <3>3 DEF x
  <2>2. \A x \in X : x = AckNow(s) \/ x = AckNow(f)
    OBVIOUS
  <2> HIDE DEF X, q
  <2> QED BY <1>9, <2>1, <2>2
<1> HIDE DEF X, A, p
<1>12. \A j \in Ids \ {i} : Same(sock'[j], sock[j])
  BY <1>6, <1>7 DEF Same
<1>13. Owns(i, c, X)
  <2>1. sends' \in sends .. MaxSends
    BY <1>0, TcpAssumption DEF ConnInv, StreamInv, OpeningsOK
  <2>2. \/ sock'[i].state = "CLOSED"
        \/ /\ sock'[i].state \in {"ESTABLISHED", "FIN_WAIT"} /\ sock'[i].conn = c
           /\ sock'[i].seq \in Nat /\ q <= sock'[i].seq
           /\ sock'[i].seq < Base(Of(q)) + Stride
    <3>1. f.state = sock[i].state /\ f.conn = c
      BY <1>0, <1>1, <1>3, <1>4 DEF SameBody
    <3>2. sock[i].state \in {"ESTABLISHED", "FIN_WAIT"}
      BY <1>0 DEF Synced
    <3>3. q <= q
      BY <1>8
    <3> HIDE DEF q
    <3> QED BY <1>6, <1>7, <1>8, <1>9, <3>1, <3>2, <3>3
  <2>3. \A x \in X : /\ "SYN" \notin x.flags /\ x.len \in Nat /\ x.seq \in Nat /\ EndOf(x) \in Nat
                     /\ q <= x.seq /\ x.seq <= EndOf(x) /\ EndOf(x) < Base(Of(q)) + Stride
    <3> HIDE DEF q
    <3> QED BY <1>8, <1>11
  <2> QED BY <1>0, <1>10, <1>12, <2>1, <2>2, <2>3 DEF Owns
<1>14. \/ /\ sock'[i].rxq = sock[i].rxq
          /\ sock'[i].state # "CLOSED" => sock'[i].ack = sock[i].ack
       \/ /\ p \in [conn : {c}, data : 0 .. peer[c].snd, len : 0 .. peer[c].snd]
          /\ p.data + p.len <= peer[c].snd /\ Plus(PeerIsn, 1 + p.data) = sock[i].ack
          /\ sock'[i].rxq = Append(sock[i].rxq, p)
          /\ sock'[i].state # "CLOSED" => sock'[i].ack = Plus(sock[i].ack, p.len)
  <2>1. sock'[i].rxq = s.rxq /\ (sock'[i].state # "CLOSED" => sock'[i].ack = s.ack)
    BY <1>4, <1>6, <1>7
  <2>2. r.rxq = sock[i].rxq /\ r.ack = sock[i].ack
    BY <1>1 DEF SameBody
  <2>3. CASE s.rxq = r.rxq /\ s.ack = r.ack
    BY <2>1, <2>2, <2>3
  <2>4. CASE m.len > 0 /\ m.seq = r.ack /\ s.rxq = Append(r.rxq, p) /\ s.ack = Plus(r.ack, m.len)
    <3>1. "SYN" \notin m.flags
      BY <2>4, WireForms DEF ConnInv, TcpInv
    <3>2. /\ m.data \in 0 .. peer[c].snd /\ m.len \in 0 .. peer[c].snd
          /\ m.data + m.len <= peer[c].snd /\ m.seq = Plus(PeerIsn, 1 + m.data)
      BY <1>0, <3>1, WireForms DEF ConnInv, TcpInv
    <3>3. /\ p \in [conn : {c}, data : 0 .. peer[c].snd, len : 0 .. peer[c].snd]
          /\ p.data = m.data /\ p.len = m.len
      BY <3>2 DEF p
    <3> QED BY <2>1, <2>2, <2>4, <3>2, <3>3
  <2> QED BY <1>3, <2>3, <2>4
<1>15. /\ \/ sock'[i].state = "CLOSED"
          \/ sock'[i].armed = sock[i].armed /\ sock'[i].last = sock[i].last
          \/ ~sock'[i].armed /\ (c \notin failed => peer[c].rcv = sock[i].seq)
       /\ sock'[i].state \in {sock[i].state, "CLOSED"} /\ sock'[i].seq = sock[i].seq
  BY <1>1, <1>3, <1>4, <1>6, <1>7, <1>9 DEF SameBody
<1>16. \A x \in X : x.len = 0 /\ EndOf(x) = x.seq /\ x.seq = sock[i].seq
  BY <1>11
<1>17. Receives(i, c, p, X)
  BY <1>0, <1>13, <1>14, <1>15, <1>16 DEF Receives
<1> QED BY <1>17, ReceivesKept

-----------------------------------------------------------------------------
(* Sending, and taking what was received *)

\* A payload is heard, and ends where it should.
LEMMA PayloadFact ==
    ASSUME NEW q \in Nat, NEW n \in Nat, q + n + 1 < SeqMod, NEW a, NEW d, NEW c
    PROVE  LET m == Segment({"PSH", "ACK"}, q, a, n, d)
           IN  /\ "SYN" \notin m.flags /\ m.len = n /\ m.seq = q /\ m.data = d
               /\ EndOf(m) = q + n /\ Heeded(c, m)
<1> DEFINE m == Segment({"PSH", "ACK"}, q, a, n, d)
<1>1. /\ m.flags = {"PSH", "ACK"} /\ m.len = n /\ m.seq = q /\ m.data = d
  BY DEF Segment
<1> HIDE DEF m
<1>2. m.flags \cap {"SYN", "FIN"} = {} /\ "SYN" \notin m.flags /\ m.flags # {"ACK"}
  BY <1>1
<1>3. EndOf(m) = Plus(q, n + 0)
  BY <1>1, <1>2 DEF EndOf
<1>4. Plus(q, n) = q + n /\ n + 0 = n
  <2>1. q + n < SeqMod
    BY TcpAssumption
  <2> QED BY <2>1, SumFact
<1> QED BY <1>1, <1>2, <1>3, <1>4 DEF Heeded, m

\* So is a FIN.
LEMMA FinFact ==
    ASSUME NEW q \in Nat, q + 1 < SeqMod, NEW a, NEW c
    PROVE  LET m == Segment({"FIN", "ACK"}, q, a, 0, 0)
           IN  /\ "SYN" \notin m.flags /\ m.len = 0 /\ m.seq = q
               /\ EndOf(m) = q + 1 /\ Heeded(c, m)
<1> DEFINE m == Segment({"FIN", "ACK"}, q, a, 0, 0)
<1>1. m.flags = {"FIN", "ACK"} /\ m.len = 0 /\ m.seq = q
  BY DEF Segment
<1> HIDE DEF m
<1>2. m.flags \cap {"SYN", "FIN"} # {} /\ "SYN" \notin m.flags /\ m.flags # {"ACK"}
  <2>1. "FIN" \in m.flags /\ "FIN" \notin {"ACK"} /\ "SYN" \notin m.flags
    BY <1>1
  <2> QED BY <2>1
<1>3. EndOf(m) = Plus(q, 0 + 1)
  BY <1>1, <1>2 DEF EndOf
<1>4. Plus(q, 1) = q + 1 /\ 0 + 1 = 1
  BY SumFact
<1> QED BY <1>1, <1>2, <1>3, <1>4 DEF Heeded, m

\* The room an established socket has for a payload of n bytes and a FIN.
LEMMA SendRoom ==
    ASSUME NumbersFit, ConnInv, NEW i \in Ids, sock[i].state = "ESTABLISHED", NEW n \in Nat,
           n <= Pending(i) \/ (sends < MaxSends /\ n <= Longest)
    PROVE  sock[i].seq \in Nat /\ sock[i].seq + n + 1 < SeqMod /\ sock[i].conn \in Conns
<1>1. Synced(i)
  BY DEF Synced
<1>2. /\ sock[i].seq \in Nat /\ Base(Of(sock[i].seq)) + Stride < SeqMod /\ SeqMod \in Nat
      /\ Base(Of(sock[i].seq)) \in Nat /\ Stride \in Nat /\ sock[i].conn \in Conns
  BY <1>1, SyncedFact
<1>3. sock[i].seq + n + 1 < Base(Of(sock[i].seq)) + Stride
  BY RoomFact
<1> QED BY <1>2, <1>3

\* Sending a payload.
LEMMA SendKept ==
    ASSUME NumbersFit, ConnInv, NEW i \in Ids, NEW n \in SendLens, NEW ok \in Oks,
           SocketSend(i, n, ok)
    PROVE  StreamInv'
<1> DEFINE q == sock[i].seq
           c == sock[i].conn
           m == Segment({"PSH", "ACK"}, q, sock[i].ack, n, sends)
           k == RetxArm(Both, i, m)
           r == k.sock[i]
           s == [r EXCEPT !.seq = EndOf(m)]
<1>0. Shaped(Both) /\ Both.sock = sock /\ n \in Nat /\ n > 0 /\ n <= Longest /\ sends \in Int
  <2>1. n \in 1 .. Longest /\ Longest \in Nat
    BY DEF NumbersFit
  <2>2. sends \in Int
    BY DEF ConnInv, StreamInv, OpeningsOK
  <2>3. n \in Nat /\ n > 0 /\ n <= Longest
    BY <2>1
  <2>4. Shaped(Both) /\ Both.sock = sock
    BY BothShaped DEF ConnInv
  <2> QED BY <2>2, <2>3, <2>4
<1>1. /\ sock[i].state = "ESTABLISHED" /\ sends < MaxSends /\ sends' = sends + 1
      /\ UNCHANGED <<call, peer, got, opens>> /\ Emit(c, {m})
      /\ Installed(IF ok THEN Update(k, i, s) ELSE k)
      /\ sent' = IF ok /\ m.len > 0 THEN [sent EXCEPT ![c] = Append(@, m.data)] ELSE sent
      /\ failed' = IF ok THEN failed ELSE failed \cup {c}
  BY DEF SocketSend, SendSegment, MaySend
<1>2. q \in Nat /\ q + n + 1 < SeqMod /\ c \in Conns
  BY <1>0, <1>1, SendRoom
<1> HIDE DEF q, c
<1>3. /\ "SYN" \notin m.flags /\ m.len = n /\ m.seq = q /\ m.data = sends
      /\ EndOf(m) = q + n /\ Heeded(c, m)
  BY <1>0, <1>2, PayloadFact
<1> HIDE DEF m
<1>4. /\ Shaped(k) /\ SameBody(r, sock[i]) /\ r.armed /\ r.last = m
      /\ \A j \in Ids \ {i} : k.sock[j] = sock[j]
  BY <1>0, ArmTo
<1> HIDE DEF k
<1>5. DOMAIN r = SocketFields
  BY <1>4 DEF Shaped
<1>6. out' = [out EXCEPT ![c] = @ \cup {m}]
  <2>1. {x \in {m} : Heeded(c, x)} = {m}
    BY <1>3
  <2> HIDE DEF Heeded
  <2> QED BY <1>1, <2>1 DEF Emit
<1>7. Pending(i)' <= Pending(i)
  BY <1>1 DEF Pending
<1>8. CASE ok
  <2> HIDE DEF r
  <2>1. /\ DOMAIN s = SocketFields /\ s.seq = q + n /\ s.state = r.state /\ s.conn = r.conn
        /\ s.armed = r.armed /\ s.last = r.last /\ s.rxq = r.rxq /\ s.ack = r.ack
    BY <1>3, <1>5 DEF SocketFields
  <2> HIDE DEF s
  <2>2. sock'[i] = s /\ \A j \in Ids \ {i} : sock'[j] = sock[j]
    BY <1>1, <1>4, <1>8, <2>1, UpdateTo DEF Installed
  <2>3. /\ sock'[i].state = "ESTABLISHED" /\ sock'[i].conn = c /\ sock'[i].rxq = sock[i].rxq
        /\ sock'[i].ack = sock[i].ack /\ sock'[i].seq = q + n /\ sock'[i].armed /\ sock'[i].last = m
    BY <1>1, <1>4, <2>1, <2>2 DEF SameBody, c
  <2>4. \A j \in Ids \ {i} : Same(sock'[j], sock[j])
    BY <2>2 DEF Same
  <2>5. /\ sock'[i].state = (IF FALSE THEN "FIN_WAIT" ELSE "ESTABLISHED")
        /\ sock'[i].seq = sock[i].seq + n + One(FALSE)
        /\ EndOf(sock'[i].last) = sock'[i].seq /\ sock'[i].last \in {m}
    BY <1>0, <1>2, <1>3, <2>3 DEF One, q
  <2>6. sent' = (IF n > 0 THEN [sent EXCEPT ![c] = Append(@, sends)] ELSE sent) /\ failed' = failed
    BY <1>1, <1>3, <1>8
  <2>7. \A x \in {m} : /\ "SYN" \notin x.flags
                        /\ n > 0 /\ x.len = n /\ x.seq = sock[i].seq
                        /\ EndOf(x) = sock[i].seq + n /\ x.data = sends
    BY <1>0, <1>3 DEF q
  <2>8. Sends(i, c, n, FALSE, sends, {m})
    BY <1>0, <1>1, <1>6, <1>7, <2>3, <2>4, <2>5, <2>6, <2>7 DEF Sends, c
  <2> QED BY <2>8, SendsKept
<1>9. CASE ~ok
  <2>1. sock'[i] = r /\ \A j \in Ids \ {i} : sock'[j] = sock[j]
    BY <1>1, <1>4, <1>9 DEF Installed
  <2> HIDE DEF r
  <2>2. /\ sock'[i].state = "ESTABLISHED" /\ sock'[i].conn = c /\ sock'[i].rxq = sock[i].rxq
        /\ sock'[i].ack = sock[i].ack /\ sock'[i].seq = q /\ sock'[i].last = m
    BY <1>1, <1>4, <2>1 DEF SameBody, c, q
  <2>3. \A j \in Ids \ {i} : Same(sock'[j], sock[j])
    BY <2>1 DEF Same
  <2>4. /\ failed' = failed \cup {c} /\ DOMAIN sent' = Conns /\ sent'[c] \in Seq(Int)
        /\ \A e \in Conns \ {c} : sent'[e] = sent[e]
    BY <1>1, <1>2, <1>9 DEF ConnInv, StreamInv, SendsOK
  <2>5. sock'[i].seq \in sock[i].seq .. sock[i].seq + n
    BY <1>0, <1>2, <2>2 DEF q
  <2>6. \A x \in {m} : /\ "SYN" \notin x.flags /\ x.len \in Nat
                        /\ x.seq \in sock[i].seq .. EndOf(x) /\ EndOf(x) \in 0 .. sock[i].seq + n + 1
    BY <1>0, <1>2, <1>3 DEF q
  <2>7. Fails(i, c, n, {m})
    BY <1>0, <1>1, <1>6, <1>7, <2>2, <2>3, <2>4, <2>5, <2>6 DEF Fails, c
  <2> QED BY <2>7, FailsKept
<1> QED BY <1>8, <1>9

\* Closing an established socket sends a FIN.
LEMMA FinKept ==
    ASSUME NumbersFit, ConnInv, NEW i \in Ids, CloseSendsFin(i)
    PROVE  StreamInv'
<1> DEFINE q == sock[i].seq
           c == sock[i].conn
           m == Segment({"FIN", "ACK"}, q, sock[i].ack, 0, 0)
           k == RetxArm(Both, i, m)
           r == k.sock[i]
           s == [r EXCEPT !.seq = Plus(@, 1), !.state = "FIN_WAIT", !.listening = FALSE]
<1>0. Shaped(Both) /\ Both.sock = sock
  BY BothShaped DEF ConnInv
<1>1. /\ sock[i].state = "ESTABLISHED"
      /\ UNCHANGED <<call, peer, sent, got, failed, opens, sends>> /\ Installed(Update(k, i, s))
      /\ Emit(c, {m})
  BY DEF CloseSendsFin
<1>2. q \in Nat /\ q + 0 + 1 < SeqMod /\ c \in Conns
  <2>1. 0 <= Pending(i)
    BY DEF Pending
  <2> QED BY <1>1, <2>1, SendRoom
<1> HIDE DEF q, c
<1>3. "SYN" \notin m.flags /\ m.len = 0 /\ m.seq = q /\ EndOf(m) = q + 1 /\ Heeded(c, m)
  <2>1. q + 1 < SeqMod
    BY <1>2
  <2> QED BY <1>2, <2>1, FinFact
<1> HIDE DEF m
<1>4. /\ Shaped(k) /\ SameBody(r, sock[i]) /\ r.armed /\ r.last = m
      /\ \A j \in Ids \ {i} : k.sock[j] = sock[j]
  BY <1>0, ArmTo
<1> HIDE DEF k
<1>5. DOMAIN r = SocketFields
  BY <1>4 DEF Shaped
<1> HIDE DEF r
<1>6. /\ DOMAIN s = SocketFields /\ s.seq = Plus(r.seq, 1) /\ s.state = "FIN_WAIT"
      /\ s.conn = r.conn
      /\ s.armed = r.armed /\ s.last = r.last /\ s.rxq = r.rxq /\ s.ack = r.ack
  BY <1>5 DEF SocketFields
<1> HIDE DEF s
<1>7. sock'[i] = s /\ \A j \in Ids \ {i} : sock'[j] = sock[j]
  BY <1>1, <1>4, <1>6, UpdateTo DEF Installed
<1>8. /\ sock'[i].state = "FIN_WAIT" /\ sock'[i].conn = c /\ sock'[i].rxq = sock[i].rxq
      /\ sock'[i].ack = sock[i].ack /\ sock'[i].seq = q + 1 /\ sock'[i].armed /\ sock'[i].last = m
  <2>1. Plus(q, 1) = q + 1
    BY <1>2, SumFact
  <2> QED BY <1>1, <1>4, <1>6, <1>7, <2>1 DEF SameBody, c, q
<1>9. \A j \in Ids \ {i} : Same(sock'[j], sock[j])
  BY <1>7 DEF Same
<1>10. sends' = sends /\ 0 + Pending(i)' <= Pending(i)
  BY <1>1 DEF Pending
<1>11. out' = [out EXCEPT ![c] = @ \cup {m}]
  <2>1. {x \in {m} : Heeded(c, x)} = {m}
    BY <1>3
  <2> HIDE DEF Heeded
  <2> QED BY <1>1, <2>1 DEF Emit
<1>12. /\ sock'[i].state = (IF TRUE THEN "FIN_WAIT" ELSE "ESTABLISHED")
       /\ sock'[i].seq = sock[i].seq + 0 + One(TRUE)
       /\ EndOf(sock'[i].last) = sock'[i].seq /\ sock'[i].last \in {m}
  BY <1>2, <1>3, <1>8 DEF One, q
<1>13. sent' = IF 0 > 0 THEN [sent EXCEPT ![c] = Append(@, 0)] ELSE sent
  BY <1>1
<1>14. \A x \in {m} : /\ "SYN" \notin x.flags
                      /\ x.len = 0 /\ x.seq = sock[i].seq + 0 /\ EndOf(x) = sock[i].seq + 0 + 1
  BY <1>2, <1>3 DEF q
<1>15. Sends(i, c, 0, TRUE, 0, {m})
  <2>1. 0 \in Nat /\ 0 \in Int /\ TRUE \in BOOLEAN /\ c = sock[i].conn
    BY DEF c
  <2>2. \A x \in {m} :
          /\ "SYN" \notin x.flags
          /\ \/ 0 > 0 /\ x.len = 0 /\ x.seq = sock[i].seq /\ EndOf(x) = sock[i].seq + 0 /\ x.data = 0
             \/ TRUE /\ x.len = 0 /\ x.seq = sock[i].seq + 0 /\ EndOf(x) = sock[i].seq + 0 + 1
    BY <1>14
  <2> QED BY <1>1, <1>8, <1>9, <1>10, <1>11, <1>12, <1>13, <2>1, <2>2 DEF Sends
<1> QED BY <1>15, SendsKept

\* The one-shot send: a byte and a FIN, or what could be sent of them.
LEMMA OneShotKept ==
    ASSUME NumbersFit, ConnInv, NEW dataOk \in Oks, NEW finOk \in Oks, OneShotSend(dataOk, finOk)
    PROVE  StreamInv'
<1> DEFINE q == sock[0].seq
           c == sock[0].conn
           d == Segment({"PSH", "ACK"}, q, sock[0].ack, 1, sends)
           k == RetxArm(Both, 0, d)
           a == [k.sock[0] EXCEPT !.seq = EndOf(d)]
           u == Update(k, 0, a)
           f == Segment({"FIN", "ACK"}, EndOf(d), sock[0].ack, 0, 0)
           j == RetxArm(u, 0, f)
           r == j.sock[0]
           s == [r EXCEPT !.seq = EndOf(f), !.state = "FIN_WAIT"]
           X == {d} \cup (IF dataOk THEN {f} ELSE {})
<1>0. Shaped(Both) /\ Both.sock = sock /\ 0 \in Ids /\ sends \in Int
  <2>1. sends \in Int
    BY DEF ConnInv, StreamInv, OpeningsOK
  <2>2. Shaped(Both) /\ Both.sock = sock /\ 0 \in Ids
    BY BothShaped, NumberFacts DEF ConnInv
  <2> QED BY <2>1, <2>2
<1>1. /\ call.op = "tcpsend" /\ sock[0].state = "ESTABLISHED" /\ Emit(c, X)
      /\ Installed(IF ~dataOk THEN k ELSE IF ~finOk THEN j ELSE Update(j, 0, s))
      /\ sent' = IF dataOk THEN [sent EXCEPT ![c] = Append(@, d.data)] ELSE sent
      /\ failed' = IF dataOk /\ finOk THEN failed ELSE failed \cup {c}
      /\ call' = Idle /\ UNCHANGED <<peer, got, sends, opens>>
  <2>1. call.op = "tcpsend" /\ sock[0].state = "ESTABLISHED" /\ Emit(c, X)
    BY DEF OneShotSend
  <2>2. Installed(IF ~dataOk THEN k ELSE IF ~finOk THEN j ELSE Update(j, 0, s))
    BY ONLY OneShotSend(dataOk, finOk), Zenon DEF OneShotSend
  <2>3. /\ sent' = IF dataOk THEN [sent EXCEPT ![c] = Append(@, d.data)] ELSE sent
        /\ failed' = IF dataOk /\ finOk THEN failed ELSE failed \cup {c}
    BY DEF OneShotSend
  <2>4. call' = Idle /\ UNCHANGED <<peer, got, sends, opens>>
    BY DEF OneShotSend
  <2> HIDE DEF k, j, s, X, d
  <2> QED BY ONLY <2>1, <2>2, <2>3, <2>4
<1>2. q \in Nat /\ q + 1 + 1 < SeqMod /\ c \in Conns
  <2>1. 1 <= Pending(0)
    <3>1. call.op = "tcpsend"
      BY <1>1
    <3>2. Pending(0) = 1
      BY ONLY <3>1 DEF Pending
    <3> QED BY <3>2
  <2> QED BY <1>0, <1>1, <2>1, SendRoom
<1> HIDE DEF q, c
<1>3. /\ "SYN" \notin d.flags /\ d.len = 1 /\ d.seq = q /\ d.data = sends
      /\ EndOf(d) = q + 1 /\ Heeded(c, d)
  BY <1>2, PayloadFact
<1>4. /\ "SYN" \notin f.flags /\ f.len = 0 /\ f.seq = q + 1
      /\ EndOf(f) = q + 1 + 1 /\ Heeded(c, f)
  <2> HIDE DEF d
  <2>1. f = Segment({"FIN", "ACK"}, q + 1, sock[0].ack, 0, 0)
    BY <1>3
  <2> HIDE DEF f
  <2>2. q + 1 \in Nat
    BY <1>2
  <2> QED BY <1>2, <2>1, <2>2, FinFact
<1> HIDE DEF d, f
<1>5. /\ Shaped(k) /\ SameBody(k.sock[0], sock[0]) /\ k.sock[0].last = d
      /\ \A i \in Ids \ {0} : k.sock[i] = sock[i]
  BY <1>0, ArmTo
<1> HIDE DEF k
<1>6. /\ DOMAIN a = SocketFields /\ a.state = sock[0].state /\ a.conn = sock[0].conn
      /\ a.rxq = sock[0].rxq /\ a.ack = sock[0].ack /\ a.seq = q + 1
  <2> DEFINE e == k.sock[0]
  <2>1. DOMAIN e = SocketFields
    BY <1>0, <1>5 DEF Shaped
  <2>2. SameBody(e, sock[0]) /\ a = [e EXCEPT !.seq = EndOf(d)]
    BY <1>5
  <2> HIDE DEF e, a
  <2> QED BY <1>3, <2>1, <2>2 DEF SocketFields, SameBody
<1> HIDE DEF a
<1>7. Shaped(u) /\ u.sock[0] = a /\ \A i \in Ids \ {0} : u.sock[i] = sock[i]
  BY <1>0, <1>5, <1>6, UpdateTo
<1> HIDE DEF u
<1>8. /\ Shaped(j) /\ SameBody(r, a) /\ r.armed /\ r.last = f
      /\ \A i \in Ids \ {0} : j.sock[i] = sock[i]
  BY <1>0, <1>7, ArmTo
<1> HIDE DEF j
<1>9. DOMAIN r = SocketFields
  BY <1>0, <1>8 DEF Shaped
<1>10. 1 + Pending(0)' <= Pending(0) /\ call'.op # "tcpsend"
  BY <1>1 DEF Pending, Idle, None
<1>11. out' = [out EXCEPT ![c] = @ \cup X]
  <2>1. {x \in X : Heeded(c, x)} = X
    BY <1>3, <1>4
  <2> HIDE DEF Heeded, X
  <2> QED BY <1>1, <2>1 DEF Emit
<1>12. CASE dataOk /\ finOk
  <2>1. X = {d} \cup {f}
    BY <1>12
  <2> HIDE DEF r, X
  <2>2. /\ DOMAIN s = SocketFields /\ s.seq = q + 1 + 1 /\ s.state = "FIN_WAIT" /\ s.conn = r.conn
        /\ s.armed = r.armed /\ s.last = r.last /\ s.rxq = r.rxq /\ s.ack = r.ack
    BY <1>4, <1>9 DEF SocketFields
  <2> HIDE DEF s
  <2>3. sock'[0] = s /\ \A i \in Ids \ {0} : sock'[i] = sock[i]
    BY <1>0, <1>1, <1>8, <1>12, <2>2, UpdateTo DEF Installed
  <2>4. /\ sock'[0].state = "FIN_WAIT" /\ sock'[0].conn = c /\ sock'[0].rxq = sock[0].rxq
        /\ sock'[0].ack = sock[0].ack /\ sock'[0].seq = q + 1 + 1
        /\ sock'[0].armed /\ sock'[0].last = f
    BY <1>6, <1>8, <2>2, <2>3 DEF SameBody, c
  <2>5. \A i \in Ids \ {0} : Same(sock'[i], sock[i])
    BY <2>3 DEF Same
  <2>6. /\ sock'[0].state = (IF TRUE THEN "FIN_WAIT" ELSE "ESTABLISHED")
        /\ sock'[0].seq = sock[0].seq + 1 + One(TRUE)
        /\ EndOf(sock'[0].last) = sock'[0].seq /\ sock'[0].last \in X
    BY <1>4, <2>1, <2>4 DEF One, q
  <2>7. sent' = (IF 1 > 0 THEN [sent EXCEPT ![c] = Append(@, sends)] ELSE sent) /\ failed' = failed
    BY <1>1, <1>3, <1>12
  <2>8. \A x \in X :
          /\ "SYN" \notin x.flags
          /\ \/ 1 > 0 /\ x.len = 1 /\ x.seq = sock[0].seq /\ EndOf(x) = sock[0].seq + 1 /\ x.data = sends
             \/ TRUE /\ x.len = 0 /\ x.seq = sock[0].seq + 1 /\ EndOf(x) = sock[0].seq + 1 + 1
    BY <1>3, <1>4, <2>1 DEF q
  <2>9. Sends(0, c, 1, TRUE, sends, X)
    <3>1. 1 \in Nat /\ TRUE \in BOOLEAN /\ c = sock[0].conn
      BY DEF c
    <3> QED BY <1>0, <1>1, <1>10, <1>11, <2>4, <2>5, <2>6, <2>7, <2>8, <3>1 DEF Sends
  <2> QED BY <1>0, <2>9, SendsKept
<1>13. CASE ~(dataOk /\ finOk)
  <2>1. /\ sock'[0].state = "ESTABLISHED" /\ sock'[0].conn = c /\ sock'[0].rxq = sock[0].rxq
        /\ sock'[0].ack = sock[0].ack /\ sock'[0].seq \in {q, q + 1} /\ sock'[0].last \in X
        /\ \A i \in Ids \ {0} : sock'[i] = sock[i]
    <3>1. CASE ~dataOk
      <4>1. sock' = k.sock
        BY <1>1, <3>1 DEF Installed
      <4> QED BY <1>1, <1>5, <3>1, <4>1 DEF SameBody, c, q
    <3>2. CASE dataOk
      <4>1. sock' = j.sock /\ f \in X
        BY <1>1, <1>13, <3>2 DEF Installed
      <4> HIDE DEF X
      <4> QED BY <1>1, <1>6, <1>8, <4>1 DEF SameBody, c
    <3> QED BY <3>1, <3>2
  <2>2. \A i \in Ids \ {0} : Same(sock'[i], sock[i])
    BY <2>1 DEF Same
  <2>3. /\ failed' = failed \cup {c} /\ DOMAIN sent' = Conns /\ sent'[c] \in Seq(Int)
        /\ \A e \in Conns \ {c} : sent'[e] = sent[e]
    <3>1. DOMAIN sent = Conns /\ sent[c] \in Seq(Int)
      BY <1>2 DEF ConnInv, StreamInv, SendsOK
    <3>2. sent' \in {sent, [sent EXCEPT ![c] = Append(@, sends)]}
      BY <1>1, <1>3
    <3>3. Append(sent[c], sends) \in Seq(Int)
      BY <1>0, <3>1
    <3> QED BY <1>1, <1>2, <1>13, <3>1, <3>2, <3>3
  <2>4. sock'[0].seq \in sock[0].seq .. sock[0].seq + 1
    BY <1>2, <2>1 DEF q
  <2>5. \A x \in X : /\ "SYN" \notin x.flags /\ x.len \in Nat
                     /\ x.seq \in sock[0].seq .. EndOf(x) /\ EndOf(x) \in 0 .. sock[0].seq + 1 + 1
    <3>1. \A x \in X : x = d \/ x = f
      OBVIOUS
    <3> HIDE DEF X
    <3> QED BY <1>2, <1>3, <1>4, <3>1 DEF q
  <2> HIDE DEF X
  <2>6. Fails(0, c, 1, X)
    BY <1>0, <1>1, <1>10, <1>11, <2>1, <2>2, <2>3, <2>4, <2>5 DEF Fails, c
  <2> QED BY <1>0, <2>6, FailsKept
<1> QED BY <1>12, <1>13

\* recv.
LEMMA RecvKept ==
    ASSUME NumbersFit, ConnInv, NEW i \in Ids, SocketRecv(i)
    PROVE  StreamInv'
<1>1. /\ sock[i].rxq # <<>> /\ sock' = [sock EXCEPT ![i].rxq = Tail(@)]
      /\ UNCHANGED <<call, out, peer, sent, failed, sends, opens>>
      /\ LET p == Head(sock[i].rxq)
         IN  got' = [got EXCEPT ![p.conn] = @ \o [j \in 1 .. p.len |-> p.data + j - 1]]
  BY DEF SocketRecv
<1>2. Shaped(Both) /\ Both.sock = sock
  BY BothShaped DEF ConnInv
<1>3. /\ sock'[i] = [sock[i] EXCEPT !.rxq = Tail(sock[i].rxq)] /\ DOMAIN sock[i] = SocketFields
      /\ \A j \in Ids \ {i} : sock'[j] = sock[j]
  BY <1>1, <1>2 DEF Shaped
<1>4. Like(sock'[i], sock[i]) /\ sock'[i].rxq = Tail(sock[i].rxq)
  BY <1>3 DEF Like, SocketFields
<1>5. \A j \in Ids \ {i} : Same(sock'[j], sock[j])
  BY <1>3 DEF Same
<1>6. Delivers(i)
  BY <1>1, <1>4, <1>5 DEF Delivers
<1> QED BY <1>6, DeliversKept

-----------------------------------------------------------------------------
(* The remote hosts *)

\* What the other parts of a peer are when one of them changes.
LEMMA PeerFact ==
    ASSUME ConnInv, NEW c \in Conns
    PROVE  /\ DOMAIN peer[c] = {"state", "snd", "fin", "acks", "rcv", "in"}
           /\ peer[c].snd \in Nat /\ peer[c].snd <= PeerBytes
           /\ peer[c].state \in {"start", "off", "syn", "listen"} => ~Greeted(c)
           /\ peer[c].state \in {"synrcvd", "est"} => Greeted(c)
BY DEF ConnInv, TcpInv, PeersOK, StreamInv, StreamsOK, PeersGreeted

\* A peer connects, writes, ends its stream or resets.
LEMMA PeerMoves ==
    ASSUME NumbersFit, ConnInv, NEW c \in Conns,
           PeerConnects(c) \/ PeerSends(c) \/ PeerFinishes(c) \/ PeerResets(c)
    PROVE  StreamInv'
<1> DEFINE r == peer[c]
<1>0. /\ DOMAIN r = {"state", "snd", "fin", "acks", "rcv", "in"} /\ r.snd \in Nat
      /\ r.snd <= PeerBytes /\ PeerBytes \in Nat
      /\ r.state = "start" => ~Greeted(c)
      /\ r.state = "est" => Greeted(c)
  BY PeerFact, TcpAssumption
<1>1. PICK p :
        /\ PeerAlone(c, p)
        /\ \/ r.state = "start" /\ p = [r EXCEPT !.state = "syn"]
           \/ r.state = "est" /\ r.snd < PeerBytes /\ p = [r EXCEPT !.snd = @ + 1]
           \/ r.state = "est" /\ p = [r EXCEPT !.fin = TRUE]
           \/ p = [r EXCEPT !.state = "reset"]
  <2>1. CASE PeerConnects(c)
    BY <2>1 DEF PeerConnects, PeerBecomes, PeerAlone
  <2>2. CASE PeerSends(c)
    BY <2>2 DEF PeerSends, PeerMaySend, PeerBecomes, PeerAlone
  <2>3. CASE PeerFinishes(c)
    BY <2>3 DEF PeerFinishes, PeerBecomes, PeerAlone
  <2>4. CASE PeerResets(c)
    BY <2>4 DEF PeerResets, PeerBecomes, PeerAlone
  <2> QED BY <2>1, <2>2, <2>3, <2>4
<1> HIDE DEF r
<1>2. /\ p.acks = r.acks /\ p.rcv = r.rcv /\ p.in = r.in
      /\ p.snd \in Nat /\ r.snd <= p.snd /\ p.snd <= PeerBytes
      /\ p.state \in {"start", "off", "syn", "listen"} => ~Greeted(c)
      /\ p.state \in {"synrcvd", "est"} => Greeted(c)
  <2>1. CASE r.state = "start" /\ p = [r EXCEPT !.state = "syn"]
    BY <1>0, <2>1
  <2>2. CASE r.state = "est" /\ r.snd < PeerBytes /\ p = [r EXCEPT !.snd = @ + 1]
    <3>1. /\ p.acks = r.acks /\ p.rcv = r.rcv /\ p.in = r.in /\ p.state = "est"
          /\ p.snd = r.snd + 1
      BY <1>0, <2>2
    <3> QED BY <1>0, <2>2, <3>1
  <2>3. CASE r.state = "est" /\ p = [r EXCEPT !.fin = TRUE]
    BY <1>0, <2>3
  <2>4. CASE p = [r EXCEPT !.state = "reset"]
    BY <1>0, <2>4
  <2> QED BY <1>1, <2>1, <2>2, <2>3, <2>4
<1> QED BY <1>1, <1>2, PeerMovesKept DEF r

\* A peer takes the first segment of an opening.
LEMMA PeerGreets ==
    ASSUME NumbersFit, ConnInv, NEW c \in Conns, NEW m \in out[c], PeerHandshake(c, m)
    PROVE  StreamInv'
<1> DEFINE r == peer[c]
           n == Plus(m.seq, 1)
<1>0. /\ DOMAIN r = {"state", "snd", "fin", "acks", "rcv", "in"} /\ "SYN" \in m.flags
      /\ ~Greeted(c)
  <2>1. r.state \in {"syn", "listen"}
    BY DEF PeerHandshake
  <2> QED BY <2>1, PeerFact DEF PeerHandshake
<1>1. PICK st \in {"synrcvd", "est"} :
        PeerAlone(c, [Acknowledging(r, n) EXCEPT !.state = st])
  BY DEF PeerHandshake, PeerBecomes, PeerAlone
<1> DEFINE p == [Acknowledging(r, n) EXCEPT !.state = st]
<1> HIDE DEF r, n
<1>2. /\ p.snd = r.snd /\ p.in = r.in /\ p.rcv = n /\ p.acks = r.acks \cup {n} /\ p.state = st
  BY <1>0 DEF Acknowledging
<1>3. PeerAlone(c, p)
  BY <1>1
<1> HIDE DEF p
<1> QED BY <1>0, <1>2, <1>3, PeerGreetsKept DEF r, n

\* A peer takes the next segment.
LEMMA PeerGets ==
    ASSUME NumbersFit, ConnInv, NEW c \in Conns, NEW m \in out[c], PeerReceives(c, m)
    PROVE  StreamInv'
<1> DEFINE r == peer[c]
           n == EndOf(m)
           a == Acknowledging(r, n)
           p == [a EXCEPT !.state = "est", !.in = IF m.len > 0 THEN Append(@, m.data) ELSE @]
<1>0. /\ DOMAIN r = {"state", "snd", "fin", "acks", "rcv", "in"} /\ "SYN" \notin m.flags
      /\ Greeted(c) /\ m.seq = r.rcv /\ PeerAlone(c, p)
  <2>1. r.state \in {"synrcvd", "est"}
    BY DEF PeerReceives
  <2> QED BY <2>1, PeerFact DEF PeerReceives, PeerBecomes, PeerAlone
<1> HIDE DEF r, n
<1>1. /\ DOMAIN a = DOMAIN r /\ a.snd = r.snd /\ a.in = r.in /\ a.rcv = n
      /\ a.acks = r.acks \cup {n}
  BY <1>0 DEF Acknowledging
<1> HIDE DEF a
<1>2. /\ p.snd = r.snd /\ p.in = (IF m.len > 0 THEN Append(r.in, m.data) ELSE r.in)
      /\ p.rcv = n /\ p.acks = r.acks \cup {n} /\ p.state = "est"
  BY <1>0, <1>1
<1> HIDE DEF p
<1> QED BY <1>0, <1>2, PeerGetsKept DEF r, n

-----------------------------------------------------------------------------
(* All together *)

\* Frames and timers.
LEMMA PollKept ==
    ASSUME NumbersFit, ConnInv, Poll
    PROVE  StreamInv'
<1>1. ASSUME NEW c \in Conns, NEW m \in Wire(c), ReceiveSyn(c, m) PROVE StreamInv'
  BY <1>1, SynKept
<1>2. ASSUME NEW c \in Conns, NEW m \in Wire(c), NEW i \in Ids, ReceiveReset(c, m, i)
      PROVE  StreamInv'
  BY <1>2, ResetRests, RestsKept
<1>3. ASSUME NEW c \in Conns, NEW m \in Wire(c), NEW i \in Ids,
             ReceiveSynAck(c, m, i) \/ ReceiveHandshakeAck(c, m, i) \/ ReceiveData(c, m, i)
      PROVE  StreamInv'
  BY <1>3, SynAckKept, HandshakeAckKept, DataKept
<1>4. ASSUME NEW t \in Slots, RetxTimer(t) PROVE StreamInv'
  BY <1>4, TimerRests, RestsKept
<1> QED BY <1>1, <1>2, <1>3, <1>4 DEF Poll

\* The calls of the programs.
LEMMA CallsKept ==
    ASSUME NumbersFit, ConnInv, Blocked \/ Program
    PROVE  StreamInv'
<1>1. CASE SocketOpen \/ LegacyListen \/ LegacyClose \/ ConnectReturns \/ CallTimeout
  BY <1>1, TableRests, ListenRests, CloseRests, AcceptRests, RestsKept
<1>2. ASSUME NEW l \in PoolIds, NEW n \in DOMAIN sock[l].backlog,
             AcceptReturns(l, n) \/ AcceptReclaims(l, n)
      PROVE  StreamInv'
  <2>1. n \in Nat
    <3>1. l \in Ids /\ SocketOK(sock[l])
      BY NumberFacts, TableFacts DEF ConnInv
    <3>2. sock[l].backlog \in Seq(PoolIds)
      BY <3>1 DEF SocketOK
    <3> QED BY <3>2, LenProperties
  <2> QED BY <1>2, <2>1, AcceptRests, ReclaimsRests, RestsKept
<1>3. ASSUME NEW d \in Oks, NEW f \in Oks, OneShotSend(d, f) PROVE StreamInv'
  BY <1>3, OneShotKept
<1>4. ASSUME NEW i \in Ids, SocketBind(i) \/ SocketListen(i) \/ AcceptStart(i) \/ CloseFrees(i)
      PROVE  StreamInv'
  BY <1>4, TableRests, ListenRests, AcceptRests, CloseRests, RestsKept
<1>5. ASSUME NEW i \in Ids, SocketRecv(i) PROVE StreamInv'
  BY <1>5, RecvKept
<1>6. ASSUME NEW i \in Ids,
             CloseSendsFin(i) \/ \E ok \in Oks, n \in SendLens : SocketSend(i, n, ok)
      PROVE  StreamInv'
  BY <1>6, FinKept, SendKept
<1>7. ASSUME NEW c \in Servers, NEW ok \in Oks,
             OneShotStart(c, ok) \/ \E i \in Ids : ConnectStart(i, c, ok)
      PROVE  StreamInv'
  <2>1. PICK i \in Ids : Opens(i, c, Syn)
    BY <1>7, ConnectOpens
  <2>2. c \in Conns
    BY DEF Conns
  <2> QED BY <2>1, <2>2, OpensKept
<1>8. CASE Blocked
  BY <1>1, <1>2, <1>3, <1>8 DEF Blocked
<1>9. CASE Program
  BY <1>1, <1>4, <1>5, <1>6, <1>7, <1>9 DEF Program
<1> QED BY <1>8, <1>9

\* The remote hosts.
LEMMA PeersKept ==
    ASSUME NumbersFit, ConnInv, Peers
    PROVE  StreamInv'
<1>1. ASSUME NEW c \in Conns, PeerConnects(c) \/ PeerSends(c) \/ PeerFinishes(c) \/ PeerResets(c)
      PROVE  StreamInv'
  BY <1>1, PeerMoves
<1>2. ASSUME NEW c \in Conns, NEW m \in out[c], PeerHandshake(c, m) \/ PeerReceives(c, m)
      PROVE  StreamInv'
  BY <1>2, PeerGreets, PeerGets
<1> QED BY <1>1, <1>2 DEF Peers

\* Every step.
LEMMA StreamInductive ==
    ASSUME NumbersFit, ConnInv, Next \/ UNCHANGED vars
    PROVE  ConnInv'
<1>1. TcpInv'
  BY TcpInductive DEF ConnInv
<1>2. CASE Next
  BY <1>2, PollKept, CallsKept, PeersKept, <1>1 DEF Next, ConnInv
<1>3. CASE UNCHANGED vars
  <2>1. Rests
    BY <1>3 DEF vars, Rests, Same
  <2> QED BY <1>1, <2>1, RestsKept DEF ConnInv
<1> QED BY <1>2, <1>3

\* At the start nothing is open and nothing was sent.
LEMMA StreamInitially ==
    ASSUME Init
    PROVE  StreamInv
<1>0. /\ \A i \in Ids : sock[i].state = "CLOSED" /\ sock[i].rxq = <<>>
      /\ call.op # "tcpsend" /\ sends = 0 /\ opens = 0
      /\ out = [c \in Conns |-> {}] /\ sent = [c \in Conns |-> <<>>] /\ got = [c \in Conns |-> <<>>]
  <2>1. \A i \in Ids : sock[i].state = "CLOSED" /\ sock[i].rxq = <<>>
    <3> DEFINE d == Cleared
    <3>1. DOMAIN d = SocketFields /\ d.state = "CLOSED" /\ d.rxq = <<>>
      BY ClearedTo
    <3>2. \A i \in Ids : sock[i] = [d EXCEPT !.timer = -1]
      BY DEF Init
    <3> HIDE DEF d
    <3> QED BY <3>1, <3>2 DEF SocketFields
  <2> QED BY <2>1 DEF Init, Idle, None
<1>1. \A c \in Conns : /\ peer[c].state \in {"listen", "start", "off"} /\ peer[c].snd = 0
                       /\ peer[c].acks = {} /\ peer[c].in = <<>>
  BY DEF Init, NewPeer
<1>2. \A c \in Conns : ~Greeted(c) /\ out[c] = {} /\ sent[c] = <<>> /\ got[c] = <<>> /\ Plain(c) = {}
  BY <1>0, <1>1 DEF Greeted, Plain
<1>3. OpeningsOK
  BY <1>0, TcpAssumption DEF OpeningsOK, Opened
<1>4. PeersGreeted
  BY <1>1, <1>2 DEF PeersGreeted
<1>5. SegmentsOK
  BY <1>0, <1>2 DEF SegmentsOK
<1>6. SocketsOK
  BY <1>0 DEF SocketsOK, Opened, Greeting, Synced
<1>7. SendsOK
  BY <1>0, <1>1, <1>2, EmptySeq DEF SendsOK
<1>8. QueuesOK
  BY <1>0, <1>2, EmptySeq DEF QueuesOK, Chained, Together, Has
<1>9. StreamsOK
  BY <1>0, <1>1, <1>2, EmptySeq, TcpAssumption DEF StreamsOK, StreamOK, Untouched, Has, Greeting, Synced
<1> QED BY <1>3, <1>4, <1>5, <1>6, <1>7, <1>8, <1>9 DEF StreamInv

\* Where the queue of an open connection ends.
LEMMA QueueEndFact ==
    ASSUME ConnInv, NEW i \in Ids, Synced(i)
    PROVE  QueueEnd(i, sock[i].conn) = StreamEnd(sock[i].rxq, sock[i].conn)
<1> DEFINE q == sock[i].rxq
           c == sock[i].conn
           own == {n \in DOMAIN q : q[n].conn = c}
           n == CHOOSE x \in own : \A y \in own : y <= x
<1>1. q \in Seq(Packet) /\ Len(q) \in Nat /\ DOMAIN q = 1 .. Len(q)
      /\ (q # <<>> => Len(q) \in 1 .. Len(q))
  BY QueueFact, LenProperties
<1>2. Has(q, c) => q[Len(q)].conn = c
  BY DEF ConnInv, StreamInv, StreamsOK, StreamOK
<1>3. own # {} <=> Has(q, c)
  <2> HIDE DEF q, c
  <2> QED BY <1>1 DEF Has
<1>4. CASE own = {}
  <2>1. QueueEnd(i, c) = Len(got[c])
    BY <1>4 DEF QueueEnd
  <2>2. ~ (q # <<>> /\ q[Len(q)].conn = c)
    BY <1>1, <1>3, <1>4 DEF Has
  <2> QED BY <2>1, <2>2 DEF StreamEnd
<1>5. CASE own # {}
  <2>1. QueueEnd(i, c) = q[n].data + q[n].len
    BY <1>5 DEF QueueEnd
  <2> HIDE DEF q, c
  <2>2. q # <<>> /\ Len(q) \in own
    <3>1. own # {} /\ Has(q, c) /\ q[Len(q)].conn = c
      BY <1>2, <1>3, <1>5
    <3>2. Len(q) >= 1
      BY <1>1, <3>1
    <3> QED BY <1>1, <3>1, <3>2
  <2>3. \A y \in own : y \in Nat /\ y <= Len(q)
    BY <1>1
  <2>4. n \in own /\ \A y \in own : y <= n
    <3> HIDE DEF own
    <3>1. \E x \in own : \A y \in own : y <= x
      BY <2>2, <2>3
    <3> QED BY <3>1
  <2> HIDE DEF n, own
  <2>5. n = Len(q)
    BY <1>1, <2>2, <2>3, <2>4
  <2>6. StreamEnd(q, c) = q[n].data + q[n].len
    BY <1>2, <1>3, <1>5, <2>2, <2>5 DEF StreamEnd
  <2> QED BY <2>1, <2>6 DEF q, c
<1> QED BY <1>4, <1>5

\* What the invariant says of both directions.
LEMMA StreamMeaning ==
    ASSUME ConnInv
    PROVE  UnackedArmed /\ RxPrefix /\ PeerPrefix
<1>0. /\ SocketsOK /\ SendsOK /\ QueuesOK /\ StreamsOK /\ PeersGreeted
  BY DEF ConnInv, StreamInv
<1>1. UnackedArmed
  BY <1>0 DEF UnackedArmed, Unreached, SocketsOK, Greeting, Synced, GreetingOK, SyncedOK, CurrentOK
<1>2. RxPrefix
  <2>1. \A c \in Conns : \A n \in DOMAIN got[c] : got[c][n] = n - 1
    BY <1>0, LenProperties DEF QueuesOK
  <2>2. ASSUME NEW i \in Ids
        PROVE  /\ \A n \in DOMAIN sock[i].rxq :
                    sock[i].rxq[n].data = IF n > 1 /\ sock[i].rxq[n - 1].conn = sock[i].rxq[n].conn
                        THEN sock[i].rxq[n - 1].data + sock[i].rxq[n - 1].len
                        ELSE Len(got[sock[i].rxq[n].conn])
               /\ Synced(i) => sock[i].ack = Plus(PeerIsn, 1 + QueueEnd(i, sock[i].conn))
    <3>1. DOMAIN sock[i].rxq = 1 .. Len(sock[i].rxq) /\ Chained(sock[i].rxq)
      BY <1>0, QueueFact, LenProperties DEF QueuesOK
    <3>2. Synced(i) => sock[i].ack = Plus(PeerIsn, 1 + StreamEnd(sock[i].rxq, sock[i].conn))
      BY <1>0 DEF StreamsOK, StreamOK
    <3> QED BY <3>1, <3>2, QueueEndFact DEF Chained
  <2> QED BY <2>1, <2>2 DEF RxPrefix, Synced
<1>3. PeerPrefix
  <2> SUFFICES ASSUME NEW c \in Conns \ failed
               PROVE  /\ Len(peer[c].in) <= Len(sent[c])
                      /\ \A n \in DOMAIN peer[c].in : peer[c].in[n] = sent[c][n]
    BY DEF PeerPrefix, TakenInOrder
  <2>1. sent[c] \in Seq(Int) /\ peer[c].in \in Seq(Int)
        /\ DOMAIN peer[c].in = 1 .. Len(peer[c].in)
    BY <1>0, LenProperties DEF SendsOK
  <2>2. CASE Greeted(c)
    <3>1. PICK pos : Marks(c, pos)
      BY <1>0, <2>2 DEF SendsOK
    <3> QED BY <2>1, <3>1 DEF Marks
  <2>3. CASE ~Greeted(c)
    <3>1. peer[c].in = <<>> /\ sent[c] = <<>>
      BY <1>0, <2>3 DEF PeersGreeted
    <3> QED BY <3>1, EmptySeq
  <2> QED BY <2>2, <2>3
<1> QED BY <1>1, <1>2, <1>3
=============================================================================
