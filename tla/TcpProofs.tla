----------------------------- MODULE TcpProofs -----------------------------
(***************************************************************************)
(* What is proved about Tcp: who holds the sockets, the timer slots and    *)
(* the places in a backlog, for every number of each.                      *)
(***************************************************************************)
EXTENDS Tcp, Counting, SequenceTheorems

(***************************************************************************)
(* The inductive invariant, in three parts about a pair k = [sock, timers] *)
(* and the set o of the sockets the programs hold.                         *)
(***************************************************************************)
SocketFields ==
    {"state", "inUse", "listening", "bound", "conn", "seq", "ack", "armed", "count", "timer",
     "last", "rxq", "backlog"}

Packet == [conn : Conns, data : Int, len : Nat]

Numbers == 0 .. SeqMod - 1

SocketOK(s) ==
    /\ DOMAIN s = SocketFields
    /\ s.state \in States /\ s.conn \in Conns \cup {None}
    /\ s.inUse \in BOOLEAN /\ s.listening \in BOOLEAN /\ s.armed \in BOOLEAN
    /\ s.seq \in Numbers /\ s.ack \in Numbers
    /\ s.timer \in Slots \cup {-1, -2} /\ s.count \in 0 .. Attempts
    /\ s.rxq \in Seq(Packet) /\ Len(s.rxq) <= RxSlots
    /\ s.backlog \in Seq(PoolIds) /\ Len(s.backlog) <= Backlog

PairOK(k) ==
    /\ DOMAIN k = {"sock", "timers"} /\ DOMAIN k.sock = Ids /\ DOMAIN k.timers = Slots
    /\ \A i \in Ids : SocketOK(k.sock[i])
    /\ \A t \in Slots : k.timers[t] \in Ids \cup {Inactive, ArpAge}

Live(s, i) == i = 0 \/ s.inUse

\* A socket in use and its timer agree; one that is not in use is not armed, so
\* that a timer left to it by connect or accept does nothing.
TimersOK(k) ==
    /\ k.timers[0] = ArpAge
    /\ \A i \in Ids :
         /\ Live(k.sock[i], i) =>
              /\ k.sock[i].timer \in Slots => k.timers[k.sock[i].timer] = i
              /\ k.sock[i].armed <=> k.sock[i].timer # -1
         /\ ~Live(k.sock[i], i) => ~k.sock[i].armed

\* What is on a backlog is in use and nobody's, and only a listener that a
\* program holds has a backlog.
BacklogsOK(k, o) ==
    /\ o \subseteq PoolIds
    /\ \A i \in o : k.sock[i].inUse
    /\ \A i \in PoolIds : k.sock[i].listening => i \in o /\ k.sock[i].state = "CLOSED"
    /\ \A i \in Ids : k.sock[i].backlog # <<>> => i \in o /\ k.sock[i].listening
    /\ \A i \in Ids : \A n \in 1 .. Len(k.sock[i].backlog) :
         k.sock[i].backlog[n] \notin o /\ k.sock[k.sock[i].backlog[n]].inUse
    /\ \A i, j \in Ids :
         \A n \in 1 .. Len(k.sock[i].backlog), m \in 1 .. Len(k.sock[j].backlog) :
           k.sock[i].backlog[n] = k.sock[j].backlog[m] => i = j /\ n = m

TcpOK(k, o) == PairOK(k) /\ TimersOK(k) /\ BacklogsOK(k, o)

PeersOK ==
    /\ DOMAIN peer = Conns
    /\ \A c \in Conns : /\ DOMAIN peer[c] = {"state", "snd", "fin", "acks", "rcv", "in"}
                        /\ peer[c].snd \in Nat

TcpInv == TcpOK(Both, owned) /\ PeersOK /\ opens \in Nat

-----------------------------------------------------------------------------
(* Numbers, slots and pairs *)

\* Sequence numbers are taken modulo SeqMod.
LEMMA PlusFact ==
    ASSUME NEW a \in Int, NEW b \in Int
    PROVE  Plus(a, b) \in Numbers
BY TcpAssumption DEF Plus, Numbers

\* The first of a set of ids or slots is one of them.
LEMMA FirstOfFact ==
    ASSUME NEW S \in SUBSET Nat, S # {}
    PROVE  FirstOf(S) \in S /\ \A y \in S : FirstOf(S) <= y
BY LeastExists DEF FirstOf

\* The constants the ids and the slots are made of.
LEMMA NumberFacts ==
    /\ Ids \subseteq Nat /\ 0 \in Ids /\ PoolIds \subseteq Ids /\ 0 \notin PoolIds
    /\ Slots \subseteq Nat /\ 0 \in Slots /\ 0 \in Numbers /\ Numbers \subseteq Int
    /\ Inactive \notin Ids /\ ArpAge \notin Ids /\ ArpAge # Inactive
BY TcpAssumption DEF Ids, PoolIds, Slots, Numbers, Inactive, ArpAge

\* Update changes one socket.
LEMMA UpdateFact ==
    ASSUME NEW k, PairOK(k), NEW i \in Ids, NEW s
    PROVE  /\ DOMAIN Update(k, i, s) = {"sock", "timers"}
           /\ DOMAIN Update(k, i, s).sock = Ids /\ Update(k, i, s).timers = k.timers
           /\ Update(k, i, s).sock[i] = s
           /\ \A j \in Ids \ {i} : Update(k, i, s).sock[j] = k.sock[j]
BY DEF Update, PairOK

\* SetTimer changes one slot.
LEMMA SetTimerFact ==
    ASSUME NEW k, PairOK(k), NEW t \in Slots, NEW n
    PROVE  /\ DOMAIN SetTimer(k, t, n) = {"sock", "timers"}
           /\ DOMAIN SetTimer(k, t, n).timers = Slots /\ SetTimer(k, t, n).sock = k.sock
           /\ SetTimer(k, t, n).timers[t] = n
           /\ \A u \in Slots \ {t} : SetTimer(k, t, n).timers[u] = k.timers[u]
BY DEF SetTimer, PairOK

\* What is written to the tables is what the next state holds.
LEMMA InstalledOK ==
    ASSUME NEW k, NEW o, TcpOK(k, o), Installed(k)
    PROVE  TcpOK(Both, o)'
BY DEF TcpOK, PairOK, TimersOK, BacklogsOK, Installed, Both

\* A slot after memset, with any of the fields the code then sets.
LEMMA ClearedOK ==
    ASSUME NEW s,
           \/ s = Cleared
           \/ s = [Cleared EXCEPT !.timer = -1]
           \/ s = [Cleared EXCEPT !.inUse = TRUE, !.timer = -1]
    PROVE  /\ SocketOK(s) /\ s.state = "CLOSED" /\ s.backlog = <<>> /\ ~s.armed /\ ~s.listening
           /\ s = Cleared => ~s.inUse
           /\ s = [Cleared EXCEPT !.timer = -1] => ~s.inUse /\ s.timer = -1
           /\ s = [Cleared EXCEPT !.inUse = TRUE, !.timer = -1] => s.inUse /\ s.timer = -1
<1> DEFINE c == Cleared
<1>1. <<>> \in Seq(Packet) /\ Len(<<>>) = 0 /\ <<>> \in Seq(PoolIds)
  BY EmptySeq
<1>2. 0 \in Numbers /\ 0 \in Slots /\ Attempts \in Nat /\ RxSlots \in Nat /\ Backlog \in Nat
  BY NumberFacts, TcpAssumption
<1>3. /\ DOMAIN c = SocketFields /\ c.state = "CLOSED" /\ c.conn = None
      /\ c.inUse = FALSE /\ c.listening = FALSE /\ c.armed = FALSE /\ c.seq = 0 /\ c.ack = 0
      /\ c.timer = 0 /\ c.count = 0 /\ c.rxq = <<>> /\ c.backlog = <<>>
  BY DEF Cleared, SocketFields
<1> HIDE DEF c
<1>4. /\ DOMAIN s = SocketFields /\ s.state = "CLOSED" /\ s.conn = None
      /\ s.listening = FALSE /\ s.armed = FALSE /\ s.seq = 0 /\ s.ack = 0
      /\ s.count = 0 /\ s.rxq = <<>> /\ s.backlog = <<>>
      /\ \/ s = c /\ s.inUse = FALSE /\ s.timer = 0
         \/ s = [c EXCEPT !.timer = -1] /\ s.inUse = FALSE /\ s.timer = -1
         \/ s = [c EXCEPT !.inUse = TRUE, !.timer = -1] /\ s.inUse = TRUE /\ s.timer = -1
  <2>1. CASE s = c
    BY <1>3, <2>1
  <2>2. CASE s = [c EXCEPT !.timer = -1]
    BY <1>3, <2>2 DEF SocketFields
  <2>3. CASE s = [c EXCEPT !.inUse = TRUE, !.timer = -1]
    BY <1>3, <2>3 DEF SocketFields
  <2> QED BY <2>1, <2>2, <2>3 DEF c
<1>5. SocketOK(s)
  <2>1. s.state \in States /\ s.conn \in Conns \cup {None}
    BY <1>4 DEF States
  <2>2. s.inUse \in BOOLEAN /\ s.listening \in BOOLEAN /\ s.armed \in BOOLEAN
    BY <1>4
  <2>3. s.seq \in Numbers /\ s.ack \in Numbers /\ s.timer \in Slots \cup {-1, -2}
        /\ s.count \in 0 .. Attempts
    BY <1>2, <1>4
  <2>4. /\ s.rxq \in Seq(Packet) /\ Len(s.rxq) <= RxSlots
        /\ s.backlog \in Seq(PoolIds) /\ Len(s.backlog) <= Backlog
    BY <1>1, <1>2, <1>4
  <2> QED BY <1>4, <2>1, <2>2, <2>3, <2>4 DEF SocketOK
<1>6. /\ s = c => s.inUse = FALSE
      /\ s = [c EXCEPT !.timer = -1] => s.inUse = FALSE /\ s.timer = -1
      /\ s = [c EXCEPT !.inUse = TRUE, !.timer = -1] => s.inUse = TRUE /\ s.timer = -1
  BY <1>3 DEF SocketFields
<1> QED BY <1>4, <1>5, <1>6 DEF c

-----------------------------------------------------------------------------
(* What the operators on a pair keep *)

\* A socket whose new record agrees with its timer, its owner and its backlog.
LEMMA ReplaceOK ==
    ASSUME NEW k, NEW o, TcpOK(k, o), NEW i \in Ids, NEW s, SocketOK(s),
           Live(s, i) => /\ s.timer \in Slots => k.timers[s.timer] = i
                         /\ s.armed <=> s.timer # -1,
           ~Live(s, i) => ~s.armed,
           k.sock[i].inUse => s.inUse \/ (i \notin o /\ \A j \in Ids :
                \A n \in 1 .. Len(k.sock[j].backlog) : k.sock[j].backlog[n] # i),
           i \in PoolIds /\ s.listening => i \in o /\ s.state = "CLOSED",
           s.backlog = <<>> \/ (s.backlog = k.sock[i].backlog /\ s.listening)
    PROVE  TcpOK(Update(k, i, s), o)
<1> DEFINE w == Update(k, i, s)
<1>1. /\ DOMAIN w = {"sock", "timers"} /\ DOMAIN w.sock = Ids /\ w.timers = k.timers
      /\ w.sock[i] = s /\ \A j \in Ids \ {i} : w.sock[j] = k.sock[j]
  BY UpdateFact DEF TcpOK
<1> HIDE DEF w
<1>2. PairOK(w)
  BY <1>1 DEF PairOK, TcpOK
<1>3. TimersOK(w)
  BY <1>1 DEF TimersOK, TcpOK
<1>4. BacklogsOK(w, o)
  <2>0. BacklogsOK(k, o)
    BY DEF TcpOK
  <2>1. \A j \in Ids : w.sock[j].backlog = <<>> \/ w.sock[j].backlog = k.sock[j].backlog
    BY <1>1
  <2>2. \A j \in Ids : \A n \in 1 .. Len(w.sock[j].backlog) :
          n \in 1 .. Len(k.sock[j].backlog) /\ w.sock[j].backlog[n] = k.sock[j].backlog[n]
    BY <2>1, EmptySeq
  <2>3. o \subseteq PoolIds /\ \A j \in o : w.sock[j].inUse
    BY <1>1, <2>0, NumberFacts DEF BacklogsOK
  <2>4. \A j \in PoolIds : w.sock[j].listening => j \in o /\ w.sock[j].state = "CLOSED"
    BY <1>1, <2>0, NumberFacts DEF BacklogsOK
  <2>5. \A j \in Ids : w.sock[j].backlog # <<>> => j \in o /\ w.sock[j].listening
    BY <1>1, <2>0 DEF BacklogsOK
  <2>6. \A j \in Ids : \A n \in 1 .. Len(w.sock[j].backlog) :
          w.sock[j].backlog[n] \notin o /\ w.sock[w.sock[j].backlog[n]].inUse
    <3> SUFFICES ASSUME NEW j \in Ids, NEW n \in 1 .. Len(w.sock[j].backlog)
                 PROVE  w.sock[j].backlog[n] \notin o /\ w.sock[w.sock[j].backlog[n]].inUse
      OBVIOUS
    <3> DEFINE e == k.sock[j].backlog[n]
    <3>1. n \in 1 .. Len(k.sock[j].backlog) /\ w.sock[j].backlog[n] = e
      BY <2>2
    <3>2. e \in PoolIds
      <4>1. k.sock[j].backlog \in Seq(PoolIds)
        BY DEF TcpOK, PairOK, SocketOK
      <4> QED BY <3>1, <4>1, ElementOfSeq
    <3>3. e \notin o /\ k.sock[e].inUse
      BY <2>0, <3>1 DEF BacklogsOK
    <3> HIDE DEF e
    <3>4. w.sock[e].inUse
      <4>1. CASE e = i
        <5>1. k.sock[j].backlog[n] = i /\ k.sock[i].inUse
          BY <3>3, <4>1 DEF e
        <5> QED BY <1>1, <3>1, <4>1, <5>1
      <4>2. CASE e # i
        BY <1>1, <3>2, <3>3, <4>2, NumberFacts
      <4> QED BY <4>1, <4>2
    <3> QED BY <3>1, <3>3, <3>4
  <2>7. \A a, b \in Ids :
          \A n \in 1 .. Len(w.sock[a].backlog), m \in 1 .. Len(w.sock[b].backlog) :
            w.sock[a].backlog[n] = w.sock[b].backlog[m] => a = b /\ n = m
    <3> SUFFICES ASSUME NEW a \in Ids, NEW b \in Ids, NEW n \in 1 .. Len(w.sock[a].backlog),
                        NEW m \in 1 .. Len(w.sock[b].backlog),
                        w.sock[a].backlog[n] = w.sock[b].backlog[m]
                 PROVE  a = b /\ n = m
      OBVIOUS
    <3>1. /\ n \in 1 .. Len(k.sock[a].backlog) /\ m \in 1 .. Len(k.sock[b].backlog)
          /\ k.sock[a].backlog[n] = k.sock[b].backlog[m]
      BY <2>2
    <3> QED BY <2>0, <3>1 DEF BacklogsOK
  <2> QED BY <2>3, <2>4, <2>5, <2>6, <2>7 DEF BacklogsOK
<1> QED BY <1>2, <1>3, <1>4 DEF TcpOK, w

\* The fields of a socket that the retransmission leaves alone.
SameBody(s, r) ==
    /\ s.state = r.state /\ s.inUse = r.inUse /\ s.listening = r.listening /\ s.conn = r.conn
    /\ s.seq = r.seq /\ s.ack = r.ack /\ s.rxq = r.rxq /\ s.backlog = r.backlog

\* Another value in a slot that no socket in use calls its own.
LEMMA SetTimerOK ==
    ASSUME NEW k, NEW o, PairOK(k), BacklogsOK(k, o), NEW t \in Slots,
           NEW n \in Ids \cup {Inactive, ArpAge}
    PROVE  PairOK(SetTimer(k, t, n)) /\ BacklogsOK(SetTimer(k, t, n), o)
<1> DEFINE w == SetTimer(k, t, n)
<1>1. /\ DOMAIN w = {"sock", "timers"} /\ DOMAIN w.timers = Slots /\ w.sock = k.sock
      /\ w.timers[t] = n /\ \A u \in Slots \ {t} : w.timers[u] = k.timers[u]
  BY SetTimerFact
<1> HIDE DEF w
<1>2. PairOK(w) /\ BacklogsOK(w, o)
  BY <1>1 DEF PairOK, BacklogsOK
<1> QED BY <1>2 DEF w

\* An entry of a backlog is the id of a socket.
LEMMA EntryFact ==
    ASSUME NEW k, PairOK(k), NEW i \in Ids, NEW n \in 1 .. Len(k.sock[i].backlog)
    PROVE  k.sock[i].backlog[n] \in PoolIds /\ k.sock[i].backlog[n] \in Ids
<1>1. k.sock[i].backlog \in Seq(PoolIds)
  BY DEF PairOK, SocketOK
<1> QED BY <1>1, ElementOfSeq, NumberFacts

\* Backlogs look at four fields of the sockets.
LEMMA BacklogsSame ==
    ASSUME NEW k, NEW c, NEW o, PairOK(k), BacklogsOK(k, o),
           \A j \in Ids : /\ c.sock[j].backlog = k.sock[j].backlog
                          /\ c.sock[j].inUse = k.sock[j].inUse
                          /\ c.sock[j].listening = k.sock[j].listening
                          /\ c.sock[j].state = k.sock[j].state
    PROVE  BacklogsOK(c, o)
<1>1. o \subseteq PoolIds /\ \A j \in o : c.sock[j].inUse
  BY NumberFacts DEF BacklogsOK
<1>2. /\ \A j \in PoolIds : c.sock[j].listening => j \in o /\ c.sock[j].state = "CLOSED"
      /\ \A j \in Ids : c.sock[j].backlog # <<>> => j \in o /\ c.sock[j].listening
  BY NumberFacts DEF BacklogsOK
<1>3. \A j \in Ids : \A n \in 1 .. Len(c.sock[j].backlog) :
        c.sock[j].backlog[n] \notin o /\ c.sock[c.sock[j].backlog[n]].inUse
  <2> SUFFICES ASSUME NEW j \in Ids, NEW n \in 1 .. Len(k.sock[j].backlog)
               PROVE  k.sock[j].backlog[n] \notin o /\ c.sock[k.sock[j].backlog[n]].inUse
    OBVIOUS
  <2> QED BY EntryFact DEF BacklogsOK
<1>4. \A a, b \in Ids :
        \A n \in 1 .. Len(c.sock[a].backlog), m \in 1 .. Len(c.sock[b].backlog) :
          c.sock[a].backlog[n] = c.sock[b].backlog[m] => a = b /\ n = m
  <2> SUFFICES ASSUME NEW a \in Ids, NEW b \in Ids, NEW n \in 1 .. Len(c.sock[a].backlog),
                      NEW m \in 1 .. Len(c.sock[b].backlog),
                      c.sock[a].backlog[n] = c.sock[b].backlog[m]
               PROVE  a = b /\ n = m
    OBVIOUS
  <2>1. /\ n \in 1 .. Len(k.sock[a].backlog) /\ m \in 1 .. Len(k.sock[b].backlog)
        /\ k.sock[a].backlog[n] = k.sock[b].backlog[m]
    OBVIOUS
  <2> QED BY <2>1 DEF BacklogsOK
<1> QED BY <1>1, <1>2, <1>3, <1>4 DEF BacklogsOK

\* Cancelling the retransmission of a socket in use frees its timer only.
LEMMA CancelOK ==
    ASSUME NEW k, NEW o, TcpOK(k, o), NEW i \in Ids, Live(k.sock[i], i)
    PROVE  LET c == RetxCancel(k, i)
           IN  /\ TcpOK(c, o)
               /\ SameBody(c.sock[i], k.sock[i]) /\ ~c.sock[i].armed /\ c.sock[i].timer = -1
               /\ \A j \in Ids \ {i} : c.sock[j] = k.sock[j]
<1> DEFINE r == k.sock[i]
           u == r.timer
           h == TimerCancel(k, u)
           s == [r EXCEPT !.timer = -1, !.armed = FALSE, !.count = 0, !.last = NoSegment]
           c == RetxCancel(k, i)
<1>0. SocketOK(r) /\ PairOK(k) /\ TimersOK(k) /\ BacklogsOK(k, o)
  BY DEF TcpOK, PairOK
<1>1. /\ PairOK(h) /\ BacklogsOK(h, o) /\ h.sock = k.sock
      /\ \A v \in Slots : h.timers[v] = IF v = u THEN Inactive ELSE k.timers[v]
  <2>1. CASE u \in Slots
    <3>1. h = SetTimer(k, u, Inactive)
      BY <2>1 DEF TimerCancel
    <3> HIDE DEF h, u, r
    <3>2. h.sock = k.sock /\ h.timers[u] = Inactive
          /\ \A v \in Slots \ {u} : h.timers[v] = k.timers[v]
      BY <1>0, <2>1, <3>1, SetTimerFact
    <3>3. PairOK(h) /\ BacklogsOK(h, o)
      BY <1>0, <2>1, <3>1, SetTimerOK
    <3> QED BY <2>1, <3>2, <3>3
  <2>2. CASE u \notin Slots
    <3>1. h = k
      BY <2>2 DEF TimerCancel
    <3> HIDE DEF h
    <3> QED BY <1>0, <2>2, <3>1
  <2> QED BY <2>1, <2>2
<1>2. /\ SocketOK(s) /\ SameBody(s, r) /\ ~s.armed /\ s.timer = -1
  <2> HIDE DEF r
  <2>1. /\ DOMAIN s = SocketFields /\ SameBody(s, r) /\ s.armed = FALSE /\ s.timer = -1
        /\ s.count = 0
    BY <1>0 DEF SocketOK, SocketFields, SameBody
  <2> HIDE DEF s
  <2>2. s.timer \in Slots \cup {-1, -2} /\ s.count \in 0 .. Attempts /\ s.armed \in BOOLEAN
    <3>1. Attempts \in Nat
      BY TcpAssumption
    <3>2. s.armed \in BOOLEAN
      BY <2>1
    <3>3. s.timer \in Slots \cup {-1, -2}
      BY <2>1
    <3>4. s.count \in 0 .. Attempts
      BY <2>1, <3>1
    <3> QED BY <3>2, <3>3, <3>4
  <2>3. SocketOK(s)
    BY <1>0, <2>1, <2>2 DEF SocketOK, SameBody
  <2> QED BY <2>1, <2>3
<1>3. c = Update(h, i, s)
  BY DEF RetxCancel
<1>4. \A j \in Ids : Live(k.sock[j], j) /\ k.sock[j].timer \in Slots /\ k.sock[j].timer = u => j = i
  BY <1>0 DEF TimersOK
<1>5. h.timers[0] = ArpAge
  <2>1. u \in Slots => k.timers[u] = i
    BY <1>0 DEF TimersOK
  <2>2. u # 0
    BY <1>0, <2>1, NumberFacts DEF TimersOK
  <2> HIDE DEF u, h
  <2> QED BY <1>0, <1>1, <2>2, NumberFacts DEF TimersOK
<1> HIDE DEF r, u, h, s, c
<1>6. /\ DOMAIN c = {"sock", "timers"} /\ DOMAIN c.sock = Ids /\ c.timers = h.timers
      /\ c.sock[i] = s /\ \A j \in Ids \ {i} : c.sock[j] = k.sock[j]
  BY <1>1, <1>3, UpdateFact
<1>7. PairOK(c)
  BY <1>1, <1>2, <1>6 DEF PairOK
<1>8. TimersOK(c)
  <2>1. \A j \in Ids \ {i} : Live(c.sock[j], j) =>
           /\ c.sock[j].timer \in Slots => c.timers[c.sock[j].timer] = j
           /\ c.sock[j].armed <=> c.sock[j].timer # -1
    BY <1>0, <1>1, <1>4, <1>6 DEF TimersOK
  <2>2. \A j \in Ids \ {i} : ~Live(c.sock[j], j) => ~c.sock[j].armed
    BY <1>0, <1>6 DEF TimersOK
  <2>3. -1 \notin Slots
    BY NumberFacts
  <2> QED BY <1>2, <1>5, <1>6, <2>1, <2>2, <2>3 DEF TimersOK
<1>9. BacklogsOK(c, o)
  <2>1. \A j \in Ids : /\ c.sock[j].backlog = k.sock[j].backlog
                       /\ c.sock[j].inUse = k.sock[j].inUse
                       /\ c.sock[j].listening = k.sock[j].listening
                       /\ c.sock[j].state = k.sock[j].state
    BY <1>2, <1>6 DEF SameBody, r
  <2> QED BY <1>0, <2>1, BacklogsSame
<1> QED BY <1>2, <1>6, <1>7, <1>8, <1>9 DEF TcpOK, c, r

\* A socket that stays in use, on its timer and on its backlog.
LEMMA EditOK ==
    ASSUME NEW k, NEW o, TcpOK(k, o), NEW i \in Ids, NEW s, SocketOK(s),
           s.inUse = k.sock[i].inUse, s.armed = k.sock[i].armed, s.timer = k.sock[i].timer,
           s.backlog = k.sock[i].backlog, s.listening = k.sock[i].listening,
           i \in PoolIds /\ s.listening => s.state = "CLOSED"
    PROVE  TcpOK(Update(k, i, s), o)
<1>1. /\ Live(s, i) => /\ s.timer \in Slots => k.timers[s.timer] = i
                       /\ s.armed <=> s.timer # -1
      /\ ~Live(s, i) => ~s.armed
  <2>1. TimersOK(k)
    BY DEF TcpOK
  <2> QED BY <2>1 DEF TimersOK, Live
<1>2. /\ i \in PoolIds /\ s.listening => i \in o /\ s.state = "CLOSED"
      /\ s.backlog = <<>> \/ (s.backlog = k.sock[i].backlog /\ s.listening)
  BY DEF TcpOK, BacklogsOK
<1>3. k.sock[i].inUse => s.inUse \/ (i \notin o /\ \A j \in Ids :
                \A n \in 1 .. Len(k.sock[j].backlog) : k.sock[j].backlog[n] # i)
  OBVIOUS
<1> QED BY ONLY <1>1, <1>2, <1>3, ReplaceOK, TcpOK(k, o), i \in Ids, SocketOK(s)

\* Arming the retransmission of a socket in use takes a free slot, or none.
LEMMA ArmOK ==
    ASSUME NEW k, NEW o, TcpOK(k, o), NEW i \in Ids, Live(k.sock[i], i), NEW m
    PROVE  /\ TcpOK(RetxArm(k, i, m), o)
           /\ SameBody(RetxArm(k, i, m).sock[i], k.sock[i])
           /\ \A j \in Ids \ {i} : RetxArm(k, i, m).sock[j] = k.sock[j]
<1> DEFINE c == RetxCancel(k, i)
           r == c.sock[i]
           t == TimerStart(c)
           s == [r EXCEPT !.last = m, !.armed = TRUE, !.timer = t]
           h == IF t \in Slots THEN SetTimer(c, t, i) ELSE c
<1>1. /\ TcpOK(c, o) /\ SameBody(r, k.sock[i]) /\ r.armed = FALSE /\ r.timer = -1
      /\ \A j \in Ids \ {i} : c.sock[j] = k.sock[j]
  BY CancelOK
<1>2. RetxArm(k, i, m) = Update(h, i, s)
  BY DEF RetxArm
<1> HIDE DEF c
<1>3. SocketOK(r) /\ PairOK(c) /\ TimersOK(c) /\ BacklogsOK(c, o)
  BY <1>1 DEF TcpOK, PairOK
<1>4. t = -2 \/ (t \in Slots /\ c.timers[t] = Inactive)
  <2>1. FreeSlots(c) \subseteq Nat
    BY NumberFacts DEF FreeSlots
  <2>2. FreeSlots(c) # {} => FirstOf(FreeSlots(c)) \in FreeSlots(c)
    BY <2>1, FirstOfFact
  <2> QED BY <2>2 DEF TimerStart, FreeSlots
<1> HIDE DEF t
<1>5. /\ SocketOK(s) /\ SameBody(s, r) /\ s.armed = TRUE /\ s.timer = t
  <2> HIDE DEF r
  <2>1. /\ DOMAIN s = SocketFields /\ SameBody(s, r) /\ s.armed = TRUE /\ s.timer = t
        /\ s.count = r.count
    BY <1>3 DEF SocketOK, SocketFields, SameBody
  <2> HIDE DEF s
  <2>2. s.armed \in BOOLEAN
    BY <2>1
  <2>3. s.timer \in Slots \cup {-1, -2}
    BY <1>4, <2>1
  <2>4. SocketOK(s)
    BY <1>3, <2>1, <2>2, <2>3 DEF SocketOK, SameBody
  <2> QED BY <2>1, <2>4
<1>6. /\ PairOK(h) /\ BacklogsOK(h, o) /\ h.sock = c.sock
      /\ \A v \in Slots : h.timers[v] = IF v = t THEN i ELSE c.timers[v]
  <2>1. CASE t \in Slots
    <3>1. h = SetTimer(c, t, i)
      BY <2>1
    <3> HIDE DEF h
    <3> QED BY <1>3, <2>1, <3>1, SetTimerFact, SetTimerOK
  <2>2. CASE t \notin Slots
    BY <1>3, <2>2
  <2> QED BY <2>1, <2>2
<1> HIDE DEF s, h
<1> DEFINE w == Update(h, i, s)
<1>7. /\ DOMAIN w = {"sock", "timers"} /\ DOMAIN w.sock = Ids /\ w.timers = h.timers
      /\ w.sock[i] = s /\ \A j \in Ids \ {i} : w.sock[j] = c.sock[j]
  BY <1>6, UpdateFact
<1> HIDE DEF w
<1>8. PairOK(w)
  BY <1>5, <1>6, <1>7 DEF PairOK
<1>9. TimersOK(w)
  <2>1. t # 0 /\ w.timers[0] = ArpAge
    BY <1>3, <1>4, <1>6, <1>7, NumberFacts DEF TimersOK
  <2>2. \A j \in Ids \ {i} : Live(w.sock[j], j) =>
           /\ w.sock[j].timer \in Slots => w.timers[w.sock[j].timer] = j
           /\ w.sock[j].armed <=> w.sock[j].timer # -1
    <3> SUFFICES ASSUME NEW j \in Ids \ {i}, Live(c.sock[j], j)
                 PROVE  /\ c.sock[j].timer \in Slots => w.timers[c.sock[j].timer] = j
                        /\ c.sock[j].armed <=> c.sock[j].timer # -1
      BY <1>7
    <3>1. /\ c.sock[j].timer \in Slots => c.timers[c.sock[j].timer] = j
          /\ c.sock[j].armed <=> c.sock[j].timer # -1
      BY <1>3 DEF TimersOK
    <3>2. c.sock[j].timer \in Slots => c.sock[j].timer # t
      BY <1>4, <3>1, NumberFacts
    <3> QED BY <1>6, <1>7, <3>1, <3>2
  <2>3. \A j \in Ids \ {i} : ~Live(w.sock[j], j) => ~w.sock[j].armed
    BY <1>3, <1>7 DEF TimersOK
  <2>4. Live(w.sock[i], i)
    BY <1>1, <1>5, <1>7 DEF Live, SameBody
  <2>5. /\ w.sock[i].timer \in Slots => w.timers[w.sock[i].timer] = i
        /\ w.sock[i].armed /\ w.sock[i].timer # -1
    <3>1. t # -1
      BY <1>4, NumberFacts
    <3> QED BY <1>5, <1>6, <1>7, <3>1
  <2> QED BY <2>1, <2>2, <2>3, <2>4, <2>5 DEF TimersOK
<1>10. BacklogsOK(w, o)
  <2>1. \A j \in Ids : /\ w.sock[j].backlog = c.sock[j].backlog
                       /\ w.sock[j].inUse = c.sock[j].inUse
                       /\ w.sock[j].listening = c.sock[j].listening
                       /\ w.sock[j].state = c.sock[j].state
    BY <1>5, <1>7 DEF SameBody
  <2> QED BY <1>3, <2>1, BacklogsSame
<1>11. SameBody(w.sock[i], k.sock[i])
  BY <1>1, <1>5, <1>7 DEF SameBody
<1> QED BY <1>1, <1>2, <1>7, <1>8, <1>9, <1>10, <1>11 DEF TcpOK, w

\* What another state, sequence number or willingness to listen leaves alone.
SameHold(s, r) ==
    /\ s.inUse = r.inUse /\ s.armed = r.armed /\ s.timer = r.timer /\ s.count = r.count
    /\ s.conn = r.conn /\ s.rxq = r.rxq /\ s.backlog = r.backlog /\ s.ack = r.ack

\* A socket changes its state or sequence number, or ends listening without a
\* backlog.
LEMMA ChangeOK ==
    ASSUME NEW k, NEW o, TcpOK(k, o), NEW i \in Ids, NEW s, DOMAIN s = SocketFields,
           s.state \in States, s.seq \in Numbers, s.listening \in BOOLEAN,
           SameHold(s, k.sock[i]),
           i \in PoolIds /\ s.listening =>
             k.sock[i].listening /\ s.state = k.sock[i].state,
           s.listening \/ k.sock[i].backlog = <<>>
    PROVE  TcpOK(Update(k, i, s), o)
<1> DEFINE r == k.sock[i]
<1>1. SocketOK(r) /\ BacklogsOK(k, o) /\ TimersOK(k)
  BY DEF TcpOK, PairOK
<1>2. SocketOK(s)
  BY <1>1 DEF SocketOK, SameHold
<1>3. /\ Live(s, i) => /\ s.timer \in Slots => k.timers[s.timer] = i
                       /\ s.armed <=> s.timer # -1
      /\ ~Live(s, i) => ~s.armed
  BY <1>1 DEF TimersOK, Live, SameHold
<1>4. /\ i \in PoolIds /\ s.listening => i \in o /\ s.state = "CLOSED"
      /\ s.backlog = <<>> \/ (s.backlog = k.sock[i].backlog /\ s.listening)
  BY <1>1 DEF BacklogsOK, SameHold
<1>5. k.sock[i].inUse => s.inUse \/ (i \notin o /\ \A j \in Ids :
                \A n \in 1 .. Len(k.sock[j].backlog) : k.sock[j].backlog[n] # i)
  BY DEF SameHold
<1> QED BY ONLY <1>2, <1>3, <1>4, <1>5, ReplaceOK, TcpOK(k, o), i \in Ids

\* Giving up a connection leaves its slot in use.
LEMMA ClosedOK ==
    ASSUME NEW k, NEW o, TcpOK(k, o), NEW i \in Ids, Live(k.sock[i], i)
    PROVE  TcpOK(Closed(k, i), o)
<1> DEFINE c == RetxCancel(k, i)
           r == c.sock[i]
           s == [r EXCEPT !.state = "CLOSED"]
<1>1. TcpOK(c, o) /\ Closed(k, i) = Update(c, i, s)
  BY CancelOK DEF Closed
<1> HIDE DEF c
<1>2. SocketOK(r)
  BY <1>1 DEF TcpOK, PairOK
<1> HIDE DEF r
<1>3. /\ DOMAIN s = SocketFields /\ s.state = "CLOSED" /\ s.listening = r.listening
      /\ s.inUse = r.inUse /\ s.armed = r.armed /\ s.timer = r.timer /\ s.count = r.count
      /\ s.conn = r.conn /\ s.rxq = r.rxq /\ s.backlog = r.backlog /\ s.seq = r.seq
      /\ s.ack = r.ack
  BY <1>2 DEF SocketOK, SocketFields
<1> HIDE DEF s
<1>4. SocketOK(s)
  BY <1>2, <1>3 DEF SocketOK, States
<1>5. TcpOK(Update(c, i, s), o)
  BY <1>1, <1>3, <1>4, EditOK DEF r
<1> QED BY <1>1, <1>5

\* A new connection goes to the end of the backlog of a listener with room.
LEMMA QueueOK ==
    ASSUME NEW k, NEW o, TcpOK(k, o), NEW l \in PoolIds, k.sock[l].listening,
           Len(k.sock[l].backlog) < Backlog,
           NEW i \in PoolIds, i \notin o, k.sock[i].inUse,
           \A j \in Ids : \A n \in 1 .. Len(k.sock[j].backlog) : k.sock[j].backlog[n] # i
    PROVE  LET q == [k.sock[l] EXCEPT !.backlog = Append(@, i)]
           IN  TcpOK(Update(k, l, q), o)
<1> DEFINE r == k.sock[l]
           b == Append(r.backlog, i)
           q == [r EXCEPT !.backlog = b]
           w == Update(k, l, q)
<1>0. /\ PairOK(k) /\ TimersOK(k) /\ BacklogsOK(k, o) /\ l \in Ids
      /\ SocketOK(r) /\ r.backlog \in Seq(PoolIds)
  BY NumberFacts DEF TcpOK, PairOK, SocketOK
<1>1. /\ b \in Seq(PoolIds) /\ Len(b) = Len(r.backlog) + 1 /\ Len(r.backlog) \in Nat
      /\ b[Len(r.backlog) + 1] = i /\ \A n \in 1 .. Len(r.backlog) : b[n] = r.backlog[n]
  <2> HIDE DEF r
  <2> QED BY <1>0, AppendProperties, LenProperties
<1> HIDE DEF r, b
<1>2. /\ DOMAIN q = SocketFields /\ q.backlog = b /\ q.state = r.state /\ q.conn = r.conn
      /\ q.inUse = r.inUse /\ q.listening = r.listening /\ q.armed = r.armed /\ q.seq = r.seq
      /\ q.ack = r.ack /\ q.timer = r.timer /\ q.count = r.count /\ q.rxq = r.rxq
  BY <1>0 DEF SocketOK, SocketFields
<1> HIDE DEF q
<1>3. SocketOK(q)
  <2>1. Len(b) <= Backlog
    BY <1>1, TcpAssumption DEF r
  <2> QED BY <1>0, <1>1, <1>2, <2>1 DEF SocketOK
<1>4. /\ DOMAIN w = {"sock", "timers"} /\ DOMAIN w.sock = Ids /\ w.timers = k.timers
      /\ w.sock[l] = q /\ \A j \in Ids \ {l} : w.sock[j] = k.sock[j]
  BY <1>0, UpdateFact
<1>5. w = Update(k, l, [k.sock[l] EXCEPT !.backlog = Append(@, i)])
  BY DEF r, b, q
<1> HIDE DEF w
<1>6. PairOK(w)
  BY <1>0, <1>3, <1>4 DEF PairOK
<1>7. TimersOK(w)
  BY <1>0, <1>2, <1>4 DEF TimersOK, Live, r
<1>8. BacklogsOK(w, o)
  <2>1. \A j \in Ids : /\ w.sock[j].inUse = k.sock[j].inUse
                       /\ w.sock[j].listening = k.sock[j].listening
                       /\ w.sock[j].state = k.sock[j].state
                       /\ j # l => w.sock[j].backlog = k.sock[j].backlog
    BY <1>2, <1>4 DEF r
  <2>2. w.sock[l].backlog = b
    BY <1>2, <1>4
  <2>3. /\ o \subseteq PoolIds /\ \A j \in o : w.sock[j].inUse
        /\ \A j \in PoolIds : w.sock[j].listening => j \in o /\ w.sock[j].state = "CLOSED"
    BY <1>0, <2>1, NumberFacts DEF BacklogsOK
  <2>4. \A j \in Ids : w.sock[j].backlog # <<>> => j \in o /\ w.sock[j].listening
    BY <1>0, <2>1 DEF BacklogsOK
  <2>5. \A j \in Ids : \A n \in 1 .. Len(w.sock[j].backlog) :
          \/ j = l /\ n = Len(r.backlog) + 1 /\ w.sock[j].backlog[n] = i
          \/ /\ n \in 1 .. Len(k.sock[j].backlog) /\ w.sock[j].backlog[n] = k.sock[j].backlog[n]
             /\ k.sock[j].backlog[n] # i
    <3> SUFFICES ASSUME NEW j \in Ids, NEW n \in 1 .. Len(w.sock[j].backlog)
                 PROVE  \/ j = l /\ n = Len(r.backlog) + 1 /\ w.sock[j].backlog[n] = i
                        \/ /\ n \in 1 .. Len(k.sock[j].backlog)
                           /\ w.sock[j].backlog[n] = k.sock[j].backlog[n]
                           /\ k.sock[j].backlog[n] # i
      OBVIOUS
    <3>1. CASE j = l
      <4>1. n \in 1 .. Len(b)
        BY <2>2, <3>1
      <4>2. n = Len(r.backlog) + 1 \/ n \in 1 .. Len(r.backlog)
        BY <1>1, <4>1
      <4> QED BY <1>1, <2>2, <3>1, <4>2 DEF r
    <3>2. CASE j # l
      BY <2>1, <3>2
    <3> QED BY <3>1, <3>2
  <2>6. \A j \in Ids : \A n \in 1 .. Len(w.sock[j].backlog) :
          w.sock[j].backlog[n] \notin o /\ w.sock[w.sock[j].backlog[n]].inUse
    <3> SUFFICES ASSUME NEW j \in Ids, NEW n \in 1 .. Len(w.sock[j].backlog)
                 PROVE  w.sock[j].backlog[n] \notin o /\ w.sock[w.sock[j].backlog[n]].inUse
      OBVIOUS
    <3>1. CASE w.sock[j].backlog[n] = i
      BY <2>1, <3>1, NumberFacts
    <3>2. CASE w.sock[j].backlog[n] # i
      <4>1. n \in 1 .. Len(k.sock[j].backlog) /\ w.sock[j].backlog[n] = k.sock[j].backlog[n]
        BY <2>5, <3>2
      <4>2. k.sock[j].backlog[n] \notin o /\ k.sock[k.sock[j].backlog[n]].inUse
        BY <1>0, <4>1 DEF BacklogsOK
      <4>3. k.sock[j].backlog[n] \in Ids
        BY <1>0, <4>1, EntryFact
      <4> QED BY <2>1, <4>1, <4>2, <4>3
    <3> QED BY <3>1, <3>2
  <2>7. \A a, c \in Ids :
          \A n \in 1 .. Len(w.sock[a].backlog), m \in 1 .. Len(w.sock[c].backlog) :
            w.sock[a].backlog[n] = w.sock[c].backlog[m] => a = c /\ n = m
    <3> SUFFICES ASSUME NEW a \in Ids, NEW c \in Ids, NEW n \in 1 .. Len(w.sock[a].backlog),
                        NEW m \in 1 .. Len(w.sock[c].backlog),
                        w.sock[a].backlog[n] = w.sock[c].backlog[m]
                 PROVE  a = c /\ n = m
      OBVIOUS
    <3>1. CASE w.sock[a].backlog[n] = i
      <4>1. a = l /\ n = Len(r.backlog) + 1
        BY <2>5, <3>1
      <4>2. w.sock[c].backlog[m] = i
        BY <3>1
      <4>3. c = l /\ m = Len(r.backlog) + 1
        BY <2>5, <4>2
      <4> QED BY <4>1, <4>3
    <3>2. CASE w.sock[a].backlog[n] # i
      <4>1. /\ n \in 1 .. Len(k.sock[a].backlog) /\ m \in 1 .. Len(k.sock[c].backlog)
            /\ k.sock[a].backlog[n] = k.sock[c].backlog[m]
        BY <2>5, <3>2
      <4> QED BY <1>0, <4>1 DEF BacklogsOK
    <3> QED BY <3>1, <3>2
  <2> QED BY <2>3, <2>4, <2>6, <2>7 DEF BacklogsOK
<1> QED BY <1>5, <1>6, <1>7, <1>8 DEF TcpOK

-----------------------------------------------------------------------------
(* net_poll: a timer or a frame *)

\* What is on the wire has numbers, whatever the peers do.
LEMMA WireFact ==
    ASSUME PeersOK, NEW c \in Conns, NEW m \in Wire(c)
    PROVE  m.seq \in Int /\ m.len \in Nat /\ m.data \in Int
<1>1. peer[c].snd \in Nat /\ PeerIsn \in Int /\ 0 \in Nat
  BY TcpAssumption DEF PeersOK
<1>2. PeerIsn \in Int /\ \A x \in Int : Plus(PeerIsn, 1 + x) \in Int
  <2>1. \A y \in Int : Plus(PeerIsn, y) \in Int
    BY <1>1, PlusFact, NumberFacts
  <2>2. \A x \in Int : 1 + x \in Int
    OBVIOUS
  <2> QED BY ONLY <1>1, <2>1, <2>2
<1> DEFINE p == peer[c]
           handshake == {Segment({"SYN", "ACK"}, PeerIsn, a, 0, 0) : a \in p.acks}
           cuts == {y \in (0 .. p.snd) \X (0 .. p.snd) \X p.acks : y[1] + y[2] <= p.snd}
           payload == {PeerData(x[1], x[2], FALSE, x[3]) : x \in cuts}
           last(k, a) == PeerData(k, p.snd - k, TRUE, a)
           final == {last(k, a) : k \in 0 .. p.snd, a \in p.acks}
<1>3. \/ m \in {Segment({"SYN"}, PeerIsn, 0, 0, 0), Segment({"RST"}, PeerIsn, 0, 0, 0)}
      \/ m \in handshake \/ m \in payload \/ m \in final
  <2>1. Wire(c) \subseteq {Segment({"SYN"}, PeerIsn, 0, 0, 0)} \cup handshake \cup payload
                          \cup final \cup {Segment({"RST"}, PeerIsn, 0, 0, 0)}
    <3> HIDE DEF handshake, payload, final
    <3>1. Wire(c) =
            (IF c \in Clients /\ p.state \notin {"start", "off"}
             THEN {Segment({"SYN"}, PeerIsn, 0, 0, 0)} ELSE {})
            \cup (IF c \in Servers THEN handshake ELSE {})
            \cup (IF p.state = "synrcvd" THEN {} ELSE payload)
            \cup (IF p.fin THEN final ELSE {})
            \cup (IF p.state = "reset" THEN {Segment({"RST"}, PeerIsn, 0, 0, 0)} ELSE {})
      BY DEF Wire, handshake, payload, final, cuts
    <3> QED BY <3>1
  <2> HIDE DEF handshake, payload, final
  <2> QED BY <2>1
<1>4. ASSUME NEW x \in Int, NEW y \in Nat, NEW f, NEW z, m = PeerData(x, y, f, z)
      PROVE  m.seq \in Int /\ m.len \in Nat /\ m.data \in Int
  <2>1. m.seq = Plus(PeerIsn, 1 + x) /\ m.len = y /\ m.data = x
    BY <1>4 DEF PeerData, Segment
  <2> QED BY <1>2, <2>1
<1>5. \A x \in 0 .. p.snd : x \in Int /\ x \in Nat /\ p.snd - x \in Nat
  BY <1>1
<1>6. CASE m \in {Segment({"SYN"}, PeerIsn, 0, 0, 0), Segment({"RST"}, PeerIsn, 0, 0, 0)}
  BY <1>2, <1>6 DEF Segment
<1>7. CASE m \in handshake
  BY <1>2, <1>7 DEF Segment
<1>8. CASE m \in payload
  <2>1. PICK x \in cuts : m = PeerData(x[1], x[2], FALSE, x[3])
    BY <1>8
  <2>2. x[1] \in 0 .. p.snd /\ x[2] \in 0 .. p.snd
    BY <2>1
  <2> HIDE DEF p
  <2> QED BY <1>4, <1>5, <2>1, <2>2
<1>9. CASE m \in final
  <2>1. PICK k \in 0 .. p.snd, a \in p.acks : m = PeerData(k, p.snd - k, TRUE, a)
    <3> HIDE DEF p, last
    <3>1. \E k \in 0 .. p.snd, a \in p.acks : m = last(k, a)
      BY <1>9 DEF final
    <3> QED BY <3>1 DEF last
  <2> HIDE DEF p
  <2> QED BY <1>4, <1>5, <2>1
<1> HIDE DEF handshake, payload, final
<1> QED BY <1>3, <1>6, <1>7, <1>8, <1>9

\* A frame is for a socket in use that is no listener.
LEMMA ReceivingFact ==
    ASSUME TcpInv, NEW c, NEW i, Receiving(c, i)
    PROVE  /\ i \in Ids /\ Live(sock[i], i) /\ sock[i].state # "CLOSED"
           /\ i \in PoolIds => ~sock[i].listening
<1>1. i \in Matching(c)
  <2>1. Matching(c) \subseteq Nat
    BY NumberFacts DEF Matching
  <2> QED BY <2>1, FirstOfFact DEF Receiving
<1>2. BacklogsOK(Both, owned)
  BY DEF TcpInv, TcpOK
<1> QED BY <1>1, <1>2 DEF Matching, Live, BacklogsOK, Both

\* The timer callback repeats, gives up or finds nothing to do.
LEMMA RetxTimerStep ==
    ASSUME TcpInv, NEW t \in Slots, RetxTimer(t)
    PROVE  TcpInv'
<1> DEFINE i == timers[t]
           k == Both
           r == k.sock[i]
<1>1. /\ i \in Ids /\ Installed(OnTimer(k, i)) /\ UNCHANGED <<owned, peer, opens>>
      /\ TcpOK(k, owned) /\ PeersOK /\ opens \in Nat
  BY DEF RetxTimer, TcpInv
<1> HIDE DEF i, k
<1>2. TcpOK(OnTimer(k, i), owned)
  <2>1. CASE ~r.armed
    BY <1>1, <2>1 DEF OnTimer
  <2>2. CASE r.armed
    <3>1. Live(r, i) /\ SocketOK(r)
      BY <1>1, <2>2 DEF TcpOK, TimersOK, PairOK
    <3>2. TcpOK(RetxCancel(k, i), owned) /\ TcpOK(Closed(k, i), owned)
      BY <1>1, <3>1, CancelOK, ClosedOK
    <3>3. CASE r.state = "CLOSED"
      BY <2>2, <3>2, <3>3 DEF OnTimer
    <3>4. CASE r.state # "CLOSED" /\ r.count >= Attempts
      BY <2>2, <3>2, <3>4 DEF OnTimer, Closed
    <3>5. CASE r.state # "CLOSED" /\ ~ (r.count >= Attempts)
      <4> DEFINE s == [r EXCEPT !.count = @ + 1]
      <4>1. OnTimer(k, i) = Update(k, i, s)
        BY <2>2, <3>5 DEF OnTimer
      <4> HIDE DEF r
      <4>2. /\ DOMAIN s = SocketFields /\ s.count = r.count + 1 /\ s.state = r.state
            /\ s.inUse = r.inUse /\ s.listening = r.listening /\ s.armed = r.armed
            /\ s.timer = r.timer /\ s.backlog = r.backlog /\ s.conn = r.conn /\ s.seq = r.seq
            /\ s.ack = r.ack /\ s.rxq = r.rxq
        BY <3>1 DEF SocketOK, SocketFields
      <4> HIDE DEF s
      <4>3. s.count \in 0 .. Attempts
        BY <3>1, <3>5, <4>2, TcpAssumption DEF SocketOK
      <4>4. SocketOK(s)
        BY <3>1, <4>2, <4>3 DEF SocketOK
      <4>5. i \in PoolIds /\ s.listening => s.state = "CLOSED"
        BY <1>1, <4>2 DEF TcpOK, BacklogsOK, r
      <4>6. TcpOK(Update(k, i, s), owned)
        BY <1>1, <4>2, <4>4, <4>5, EditOK DEF r
      <4> QED BY <4>1, <4>6
    <3> QED BY <3>3, <3>4, <3>5
  <2> QED BY <2>1, <2>2
<1>3. TcpOK(Both, owned)'
  BY <1>1, <1>2, InstalledOK
<1> QED BY <1>1, <1>3 DEF TcpInv, PeersOK

\* The socket a new SYN is given is armed with the reply.
LEMMA PassiveOK ==
    ASSUME TcpOK(Both, owned), NEW k, TcpOK(k, owned), opens \in Nat, NEW i \in Ids, Live(k.sock[i], i),
           i \in PoolIds => ~k.sock[i].listening,
           NEW c \in Conns, NEW m, m.seq \in Int, Passive(k, i, c, m), UNCHANGED owned
    PROVE  TcpOK(Both, owned)' /\ opens' \in Nat
<1> DEFINE r == k.sock[i]
           s == [r EXCEPT !.conn = c, !.seq = Ticks, !.ack = Plus(m.seq, 1),
                          !.state = "SYN_RECEIVED"]
           reply == Segment({"SYN", "ACK"}, s.seq, s.ack, 0, 0)
           u == Update(k, i, s)
<1>1. Installed(RetxArm(u, i, reply)) /\ opens' = opens + 1
  BY DEF Passive
<1> HIDE DEF reply
<1>2. SocketOK(r)
  BY DEF TcpOK, PairOK
<1>3. Ticks \in Numbers /\ Plus(m.seq, 1) \in Numbers
  <2>1. OurIsn \in Int /\ Stride * opens \in Int
    BY TcpAssumption
  <2> QED BY <2>1, PlusFact DEF Ticks
<1> HIDE DEF r
<1>4. /\ DOMAIN s = SocketFields /\ s.state = "SYN_RECEIVED" /\ s.listening = r.listening
      /\ s.inUse = r.inUse /\ s.armed = r.armed /\ s.timer = r.timer /\ s.count = r.count
      /\ s.conn = c /\ s.rxq = r.rxq /\ s.backlog = r.backlog /\ s.seq = Ticks
      /\ s.ack = Plus(m.seq, 1)
  BY <1>2 DEF SocketOK, SocketFields
<1> HIDE DEF s
<1>5. SocketOK(s)
  <2>1. s.state \in States
    BY <1>4 DEF States
  <2> QED BY <1>2, <1>3, <1>4, <2>1 DEF SocketOK
<1>6. TcpOK(u, owned)
  BY <1>4, <1>5, EditOK DEF r
<1>7. Live(u.sock[i], i)
  <2>1. u.sock[i] = s
    BY UpdateFact DEF TcpOK
  <2> QED BY <1>4, <2>1 DEF Live, r
<1> HIDE DEF u
<1>8. TcpOK(RetxArm(u, i, reply), owned)
  BY <1>6, <1>7, ArmOK
<1> QED BY <1>1, <1>8, InstalledOK

\* A SYN takes the legacy socket or a free slot that goes on a backlog.
LEMMA ReceiveSynStep ==
    ASSUME TcpInv, NEW c \in Conns, NEW m \in Wire(c), ReceiveSyn(c, m)
    PROVE  TcpInv'
<1>1. /\ TcpOK(Both, owned) /\ PeersOK /\ opens \in Nat /\ PassiveOpen(c, m)
      /\ UNCHANGED <<owned, peer>>
  BY DEF TcpInv, ReceiveSyn
<1>2. m.seq \in Int
  BY <1>1, WireFact
<1>3. TcpOK(Both, owned)' /\ opens' \in Nat
  <2>1. CASE LegacyListens /\ Passive(Both, 0, c, m)
    <3>1. 0 \in Ids /\ 0 \notin PoolIds /\ Live(Both.sock[0], 0)
      BY NumberFacts DEF Live
    <3> QED BY <1>1, <1>2, <2>1, <3>1, PassiveOK
  <2>2. CASE ~LegacyListens /\ PassiveOpen(c, m)
    <3> DEFINE l == FirstOf(Listeners)
               i == FirstOf(Free)
               e == [Cleared EXCEPT !.inUse = TRUE, !.timer = -1]
               k == Update(Both, i, e)
               q == [k.sock[l] EXCEPT !.backlog = Append(@, i)]
               w == Update(k, l, q)
    <3>1. MayQueue /\ Passive(w, i, c, m)
      BY <2>2 DEF PassiveOpen
    <3>2. l \in Listeners /\ i \in Free
      <4>1. Listeners \subseteq Nat /\ Free \subseteq Nat
        BY NumberFacts DEF Listeners, Free
      <4> QED BY <3>1, <4>1, FirstOfFact DEF MayQueue
    <3>3. /\ l \in PoolIds /\ sock[l].inUse /\ sock[l].listening /\ Len(sock[l].backlog) < Backlog
          /\ i \in PoolIds /\ ~sock[i].inUse
      BY <3>1, <3>2 DEF MayQueue, Listeners, Free
    <3> HIDE DEF l, i
    <3>4. Both.sock = sock /\ l \in Ids /\ i \in Ids /\ l # i
      BY <3>3, NumberFacts DEF Both
    <3>5. SocketOK(e) /\ e.backlog = <<>> /\ ~e.armed /\ ~e.listening /\ e.inUse /\ e.timer = -1
      BY ClearedOK
    <3> HIDE DEF e
    <3>6. /\ i \notin owned
          /\ \A j \in Ids : \A n \in 1 .. Len(sock[j].backlog) : sock[j].backlog[n] # i
      BY <1>1, <3>3, <3>4 DEF TcpOK, BacklogsOK
    <3>7. TcpOK(k, owned)
      <4>1. -1 \notin Slots
        BY NumberFacts
      <4> QED BY <1>1, <3>4, <3>5, <4>1, ReplaceOK
    <3>8. k.sock[i] = e /\ \A j \in Ids \ {i} : k.sock[j] = sock[j]
      BY <1>1, <3>4, UpdateFact DEF TcpOK
    <3> HIDE DEF k
    <3>9. TcpOK(w, owned)
      <4>1. /\ k.sock[l].listening /\ Len(k.sock[l].backlog) < Backlog /\ k.sock[i].inUse
        BY <3>3, <3>4, <3>5, <3>8
      <4>2. \A j \in Ids : \A n \in 1 .. Len(k.sock[j].backlog) : k.sock[j].backlog[n] # i
        BY <3>5, <3>6, <3>8, EmptySeq
      <4> QED BY <3>3, <3>6, <3>7, <4>1, <4>2, QueueOK
    <3>10. w.sock[i] = e
      <4>1. \A j \in Ids \ {l} : w.sock[j] = k.sock[j]
        BY <3>4, <3>7, UpdateFact DEF TcpOK
      <4> QED BY <3>4, <3>8, <4>1
    <3>11. Live(w.sock[i], i) /\ ~w.sock[i].listening
      BY <3>5, <3>10 DEF Live
    <3> HIDE DEF w
    <3> QED BY <1>1, <1>2, <3>1, <3>4, <3>9, <3>11, PassiveOK
  <2> QED BY <1>1, <2>1, <2>2 DEF PassiveOpen
<1> QED BY <1>1, <1>3 DEF TcpInv, PeersOK

\* A reset, and the segment that completes a handshake.
LEMMA HandshakeStep ==
    ASSUME TcpInv, NEW c \in Conns, NEW m \in Wire(c), NEW i \in Ids,
           ReceiveReset(c, m, i) \/ ReceiveSynAck(c, m, i) \/ ReceiveHandshakeAck(c, m, i)
    PROVE  TcpInv'
<1> DEFINE k == RetxCancel(Both, i)
           r == k.sock[i]
<1>1. /\ TcpOK(Both, owned) /\ PeersOK /\ opens \in Nat /\ Receiving(c, i) /\ Both.sock = sock
      /\ UNCHANGED <<owned, peer, opens>>
  BY DEF TcpInv, ReceiveReset, ReceiveSynAck, ReceiveHandshakeAck, Both
<1>2. Live(Both.sock[i], i) /\ (i \in PoolIds => ~sock[i].listening)
  BY <1>1, ReceivingFact
<1>3. /\ TcpOK(k, owned) /\ SameBody(r, sock[i])
  BY <1>1, <1>2, CancelOK
<1>4. TcpOK(Closed(Both, i), owned)
  BY <1>1, <1>2, ClosedOK
<1>5. m.seq \in Int
  BY <1>1, WireFact
<1>6. TcpOK(Both, owned)'
  <2>1. CASE ReceiveReset(c, m, i)
    BY <1>1, <1>4, <2>1, InstalledOK DEF ReceiveReset
  <2>2. CASE ReceiveSynAck(c, m, i) \/ ReceiveHandshakeAck(c, m, i)
    <3> DEFINE a == [r EXCEPT !.seq = Plus(@, 1), !.ack = Plus(m.seq, 1), !.state = "ESTABLISHED"]
               b == [r EXCEPT !.seq = Plus(@, 1), !.state = "ESTABLISHED"]
    <3>1. \E s \in {a, b} : Installed(Update(k, i, s))
      BY <2>2 DEF ReceiveSynAck, ReceiveHandshakeAck
    <3>2. PICK s \in {a, b} : Installed(Update(k, i, s))
      BY <3>1
    <3> HIDE DEF k
    <3>3. SocketOK(r)
      BY <1>3 DEF TcpOK, PairOK
    <3> HIDE DEF r
    <3>4. /\ DOMAIN s = SocketFields /\ s.state = "ESTABLISHED" /\ s.listening = r.listening
          /\ s.inUse = r.inUse /\ s.armed = r.armed /\ s.timer = r.timer /\ s.count = r.count
          /\ s.conn = r.conn /\ s.rxq = r.rxq /\ s.backlog = r.backlog
          /\ s.seq = Plus(r.seq, 1) /\ (s.ack = Plus(m.seq, 1) \/ s.ack = r.ack)
      BY <3>3 DEF SocketOK, SocketFields
    <3> HIDE DEF a, b
    <3>5. s.seq \in Numbers /\ s.ack \in Numbers
      <4>1. r.seq \in Numbers /\ r.ack \in Numbers /\ r.seq \in Int
        BY <3>3, NumberFacts DEF SocketOK
      <4>2. Plus(r.seq, 1) \in Numbers /\ Plus(m.seq, 1) \in Numbers
        BY <1>5, <4>1, PlusFact
      <4> QED BY <3>4, <4>1, <4>2
    <3>6. s.state \in States
      BY <3>4 DEF States
    <3>7. SocketOK(s)
      BY <3>3, <3>4, <3>5, <3>6 DEF SocketOK
    <3>8. i \in PoolIds => ~s.listening
      BY <1>2, <1>3, <3>4 DEF SameBody
    <3>9. TcpOK(Update(k, i, s), owned)
      BY <1>3, <3>4, <3>7, <3>8, EditOK DEF r
    <3> QED BY <1>1, <3>2, <3>9, InstalledOK
  <2> QED BY <2>1, <2>2
<1> QED BY <1>1, <1>6 DEF TcpInv, PeersOK

\* What a payload leaves alone.
SameHolder(s, r) ==
    /\ s.inUse = r.inUse /\ s.armed = r.armed /\ s.timer = r.timer
    /\ s.backlog = r.backlog /\ s.listening = r.listening /\ s.state = r.state

\* A payload is queued when there is room.
LEMMA PayloadOK ==
    ASSUME NEW r, SocketOK(r), NEW c \in Conns, NEW m, m.seq \in Int, m.len \in Nat, m.data \in Int
    PROVE  SocketOK(WithPayload(r, c, m)) /\ SameHolder(WithPayload(r, c, m), r)
<1> DEFINE e == [conn |-> c, data |-> m.data, len |-> m.len]
           b == Append(r.rxq, e)
           n == Plus(r.ack, m.len)
           s == [r EXCEPT !.rxq = b, !.ack = n]
<1>1. CASE WithPayload(r, c, m) = r
  BY <1>1 DEF SameHolder
<1>2. CASE WithPayload(r, c, m) # r
  <2>1. Len(r.rxq) < RxSlots /\ WithPayload(r, c, m) = s
    <3>1. ~ (Len(r.rxq) >= RxSlots) /\ WithPayload(r, c, m) = s
      BY <1>2 DEF WithPayload, RxqEnqueue
    <3>2. Len(r.rxq) \in Nat /\ RxSlots \in Nat
      BY LenProperties, TcpAssumption DEF SocketOK
    <3> QED BY <3>1, <3>2
  <2>2. b \in Seq(Packet) /\ Len(b) = Len(r.rxq) + 1 /\ Len(r.rxq) \in Nat
    <3>1. e \in Packet /\ r.rxq \in Seq(Packet)
      BY DEF Packet, SocketOK
    <3> HIDE DEF e
    <3> QED BY <3>1, AppendProperties, LenProperties
  <2>3. n \in Numbers
    <3>1. r.ack \in Numbers
      BY DEF SocketOK
    <3>2. r.ack \in Int
      BY <3>1, NumberFacts
    <3>3. m.len \in Int
      OBVIOUS
    <3> QED BY ONLY <3>2, <3>3, PlusFact
  <2> HIDE DEF b, n
  <2>4. /\ DOMAIN s = SocketFields /\ s.rxq = b /\ s.ack = n /\ s.seq = r.seq /\ s.conn = r.conn
        /\ s.count = r.count /\ SameHolder(s, r)
    BY DEF SocketOK, SocketFields, SameHolder
  <2> HIDE DEF s
  <2>5. Len(b) <= RxSlots
    BY <2>1, <2>2, TcpAssumption
  <2>6. SocketOK(s)
    BY <2>2, <2>3, <2>4, <2>5 DEF SocketOK, SameHolder
  <2> QED BY <2>1, <2>4, <2>6
<1> QED BY <1>1, <1>2

\* Acknowledgement, payload and FIN keep a socket on its slot and timer.
LEMMA ReceiveDataStep ==
    ASSUME TcpInv, NEW c \in Conns, NEW m \in Wire(c), NEW i \in Ids, ReceiveData(c, m, i)
    PROVE  TcpInv'
<1> DEFINE k == IF "ACK" \in m.flags THEN RetxAckReceived(Both, i, m.ack) ELSE Both
           r == k.sock[i]
           s == WithPayload(r, c, m)
           f == IF FinInOrder(s, m) THEN [s EXCEPT !.ack = Plus(@, 1)] ELSE s
           u == Update(k, i, f)
<1>1. /\ TcpOK(Both, owned) /\ PeersOK /\ opens \in Nat /\ Receiving(c, i) /\ Both.sock = sock
      /\ UNCHANGED <<owned, peer, opens>>
      /\ Installed(Closed(u, i)) \/ Installed(u)
  BY DEF TcpInv, ReceiveData, Both
<1>2. Live(sock[i], i) /\ (i \in PoolIds => ~sock[i].listening)
  BY <1>1, ReceivingFact
<1>3. m.seq \in Int /\ m.len \in Nat /\ m.data \in Int
  BY <1>1, WireFact
<1>4. TcpOK(k, owned) /\ SameBody(r, sock[i])
  <2>1. k = Both \/ k = RetxCancel(Both, i)
    BY DEF RetxAckReceived
  <2>2. TcpOK(RetxCancel(Both, i), owned) /\ SameBody(RetxCancel(Both, i).sock[i], sock[i])
    BY <1>1, <1>2, CancelOK
  <2>3. SameBody(Both.sock[i], sock[i])
    BY <1>1 DEF SameBody
  <2> HIDE DEF k
  <2> QED BY <1>1, <2>1, <2>2, <2>3
<1> HIDE DEF k
<1>5. SocketOK(r)
  BY <1>4 DEF TcpOK, PairOK
<1>6. SocketOK(s) /\ SameHolder(s, r)
  <2> HIDE DEF r
  <2> QED BY <1>3, <1>5, PayloadOK
<1> HIDE DEF s
<1>7. SocketOK(f) /\ SameHolder(f, s)
  <2>1. CASE FinInOrder(s, m)
    <3> DEFINE g == [s EXCEPT !.ack = Plus(@, 1)]
    <3>1. f = g
      BY <2>1
    <3>2. /\ DOMAIN g = SocketFields /\ g.ack = Plus(s.ack, 1) /\ g.seq = s.seq
          /\ g.conn = s.conn /\ g.count = s.count /\ g.rxq = s.rxq /\ SameHolder(g, s)
      BY <1>6 DEF SocketOK, SocketFields, SameHolder
    <3> HIDE DEF g, f
    <3>3. g.ack \in Numbers
      <4>1. s.ack \in Int
        BY <1>6, NumberFacts DEF SocketOK
      <4> QED BY <3>2, <4>1, PlusFact
    <3>4. SocketOK(g)
      BY <1>6, <3>2, <3>3 DEF SocketOK, SameHolder
    <3> QED BY <3>1, <3>2, <3>4
  <2>2. CASE ~FinInOrder(s, m)
    BY <1>6, <2>2 DEF SameHolder
  <2> QED BY <2>1, <2>2
<1> HIDE DEF f
<1>8. SameHolder(f, r) /\ (i \in PoolIds => ~f.listening) /\ Live(f, i)
  BY <1>2, <1>4, <1>6, <1>7 DEF SameHolder, SameBody, Live
<1>9. TcpOK(u, owned)
  BY <1>4, <1>7, <1>8, EditOK DEF SameHolder
<1>10. Live(u.sock[i], i)
  BY <1>4, <1>8, UpdateFact DEF TcpOK
<1> HIDE DEF u
<1>11. TcpOK(Closed(u, i), owned)
  BY <1>9, <1>10, ClosedOK
<1>12. TcpOK(Both, owned)'
  BY <1>1, <1>9, <1>11, InstalledOK
<1> QED BY <1>1, <1>12 DEF TcpInv, PeersOK

\* A frame, or a timer.
LEMMA TcpPollStep ==
    ASSUME TcpInv, Poll
    PROVE  TcpInv'
BY RetxTimerStep, ReceiveSynStep, HandshakeStep, ReceiveDataStep DEF Poll

-----------------------------------------------------------------------------
(* The programs: who holds what *)

\* A socket in use that nobody holds and no backlog names is given to a program.
LEMMA GiveOK ==
    ASSUME NEW k, NEW o, TcpOK(k, o), NEW i \in PoolIds, k.sock[i].inUse,
           \A j \in Ids : \A n \in 1 .. Len(k.sock[j].backlog) : k.sock[j].backlog[n] # i
    PROVE  TcpOK(k, o \cup {i})
<1>1. BacklogsOK(k, o)
  BY DEF TcpOK
<1>2. BacklogsOK(k, o \cup {i})
  <2>1. /\ o \cup {i} \subseteq PoolIds /\ \A j \in o \cup {i} : k.sock[j].inUse
        /\ \A j \in PoolIds : k.sock[j].listening => j \in o \cup {i} /\ k.sock[j].state = "CLOSED"
        /\ \A j \in Ids : k.sock[j].backlog # <<>> => j \in o \cup {i} /\ k.sock[j].listening
    BY <1>1 DEF BacklogsOK
  <2>2. \A j \in Ids : \A n \in 1 .. Len(k.sock[j].backlog) :
          k.sock[j].backlog[n] \notin o \cup {i} /\ k.sock[k.sock[j].backlog[n]].inUse
    BY <1>1 DEF BacklogsOK
  <2>3. \A j, l \in Ids :
          \A n \in 1 .. Len(k.sock[j].backlog), m \in 1 .. Len(k.sock[l].backlog) :
            k.sock[j].backlog[n] = k.sock[l].backlog[m] => j = l /\ n = m
    BY <1>1 DEF BacklogsOK
  <2> QED BY <2>1, <2>2, <2>3 DEF BacklogsOK
<1> QED BY <1>2 DEF TcpOK

\* A program gives up a socket that is no listener.
LEMMA DropOK ==
    ASSUME NEW k, NEW o, TcpOK(k, o), NEW i, i \in PoolIds => ~k.sock[i].listening
    PROVE  TcpOK(k, o \ {i})
<1>1. BacklogsOK(k, o)
  BY DEF TcpOK
<1>2. \A j \in Ids : k.sock[j].backlog # <<>> => j \in o /\ j # i /\ k.sock[j].listening
  BY <1>1 DEF BacklogsOK
<1>3. BacklogsOK(k, o \ {i})
  <2>1. /\ o \ {i} \subseteq PoolIds /\ \A j \in o \ {i} : k.sock[j].inUse
        /\ \A j \in PoolIds : k.sock[j].listening => j \in o \ {i} /\ k.sock[j].state = "CLOSED"
        /\ \A j \in Ids : k.sock[j].backlog # <<>> => j \in o \ {i} /\ k.sock[j].listening
    BY <1>1, <1>2 DEF BacklogsOK
  <2>2. \A j \in Ids : \A n \in 1 .. Len(k.sock[j].backlog) :
          k.sock[j].backlog[n] \notin o \ {i} /\ k.sock[k.sock[j].backlog[n]].inUse
    BY <1>1 DEF BacklogsOK
  <2>3. \A j, l \in Ids :
          \A n \in 1 .. Len(k.sock[j].backlog), m \in 1 .. Len(k.sock[l].backlog) :
            k.sock[j].backlog[n] = k.sock[l].backlog[m] => j = l /\ n = m
    BY <1>1 DEF BacklogsOK
  <2> QED BY <2>1, <2>2, <2>3 DEF BacklogsOK
<1> QED BY <1>3 DEF TcpOK

\* Without(q, n) is q without its n-th element.
LEMMA WithoutFact ==
    ASSUME NEW S, NEW q \in Seq(S), NEW n \in 1 .. Len(q)
    PROVE  /\ Without(q, n) \in Seq(S) /\ Len(Without(q, n)) = Len(q) - 1
           /\ \A m \in 1 .. Len(q) - 1 : Without(q, n)[m] = IF m < n THEN q[m] ELSE q[m + 1]
<1> DEFINE a == SubSeq(q, 1, n - 1)
           b == SubSeq(q, n + 1, Len(q))
<1>1. Len(q) \in Nat
  BY LenProperties
<1>2. /\ a \in Seq(S) /\ Len(a) = n - 1 /\ \A m \in 1 .. n - 1 : a[m] = q[m]
  <2>1. \A m \in 1 .. n - 1 : m \in 1 .. Len(q) /\ 1 + m - 1 = m
    BY <1>1
  <2>2. 1 \in Int /\ n - 1 \in Int /\ \A m \in 1 .. n - 1 : m \in 1 .. Len(q)
    BY <1>1
  <2>3. a \in Seq(S)
    BY <2>2, ElementOfSeq, SubSeqProperties, <1>1
  <2>4. Len(a) = n - 1
    BY <1>1, SubSeqProperties
  <2>5. \A m \in 1 .. n - 1 : a[m] = q[m]
    BY <1>1, <2>1, SubSeqProperties
  <2> QED BY <2>3, <2>4, <2>5
<1>3. /\ b \in Seq(S) /\ Len(b) = Len(q) - n
      /\ \A m \in 1 .. Len(q) - n : b[m] = q[n + m]
  <2>1. b \in Seq(S)
    BY <1>1, SubSeqProperties
  <2>2. Len(b) = Len(q) - n
    BY <1>1, SubSeqProperties
  <2>3. \A m \in 1 .. Len(q) - n : b[m] = q[n + m]
    BY <1>1, SubSeqProperties
  <2> QED BY <2>1, <2>2, <2>3
<1>4. Without(q, n) = a \o b
  BY DEF Without
<1> HIDE DEF a, b
<1>5. /\ a \o b \in Seq(S) /\ Len(a \o b) = Len(a) + Len(b)
      /\ \A m \in 1 .. Len(a) + Len(b) :
           (a \o b)[m] = IF m <= Len(a) THEN a[m] ELSE b[m - Len(a)]
  BY <1>2, <1>3, ConcatProperties
<1>6. \A m \in 1 .. Len(q) - 1 : (a \o b)[m] = IF m < n THEN q[m] ELSE q[m + 1]
  <2> SUFFICES ASSUME NEW m \in 1 .. Len(q) - 1
               PROVE  (a \o b)[m] = IF m < n THEN q[m] ELSE q[m + 1]
    OBVIOUS
  <2>1. m \in 1 .. Len(a) + Len(b)
    BY <1>1, <1>2, <1>3
  <2>2. CASE m < n
    BY <1>1, <1>2, <1>5, <2>1, <2>2
  <2>3. CASE ~ (m < n)
    <3>1. /\ m - Len(a) \in 1 .. Len(q) - n /\ ~ (m <= Len(a)) /\ n + (m - Len(a)) = m + 1
      BY <1>1, <1>2, <2>3
    <3> QED BY <1>3, <1>5, <2>1, <2>3, <3>1
  <2> QED BY <2>2, <2>3
<1>7. Len(a \o b) = Len(q) - 1
  BY <1>1, <1>2, <1>3, <1>5
<1> QED BY <1>4, <1>5, <1>6, <1>7

Dequeued(r, n) == [r EXCEPT !.backlog = Without(@, n)]

\* Position n of the backlog of l is taken off it.
LEMMA DequeueOK ==
    ASSUME NEW k, NEW o, TcpOK(k, o), NEW l \in Ids, NEW n \in 1 .. Len(k.sock[l].backlog)
    PROVE  LET w == Update(k, l, Dequeued(k.sock[l], n))
               e == k.sock[l].backlog[n]
           IN  /\ TcpOK(w, o)
               /\ e \in PoolIds /\ e \notin o /\ e # l /\ w.sock[e] = k.sock[e] /\ w.sock[e].inUse
               /\ \A j \in Ids : \A m \in 1 .. Len(w.sock[j].backlog) : w.sock[j].backlog[m] # e
<1> DEFINE r == k.sock[l]
           b == Without(r.backlog, n)
           q == [r EXCEPT !.backlog = b]
           w == Update(k, l, q)
           e == r.backlog[n]
<1>0. /\ PairOK(k) /\ TimersOK(k) /\ BacklogsOK(k, o) /\ SocketOK(r) /\ r.backlog \in Seq(PoolIds)
      /\ w = Update(k, l, Dequeued(k.sock[l], n))
  BY DEF TcpOK, PairOK, SocketOK, Dequeued
<1>1. Len(r.backlog) \in Nat /\ n \in 1 .. Len(r.backlog) /\ e \in PoolIds /\ e \in Ids
  BY <1>0, LenProperties, ElementOfSeq, NumberFacts
<1>2. /\ b \in Seq(PoolIds) /\ Len(b) = Len(r.backlog) - 1
      /\ \A m \in 1 .. Len(r.backlog) - 1 :
           b[m] = IF m < n THEN r.backlog[m] ELSE r.backlog[m + 1]
  <2> HIDE DEF r
  <2> QED BY <1>0, <1>1, WithoutFact
<1>3. /\ l \in o /\ e \notin o /\ k.sock[e].inUse /\ r.listening
      /\ \A j \in Ids : \A m \in 1 .. Len(k.sock[j].backlog) :
           k.sock[j].backlog[m] = e => j = l /\ m = n
  <2>1. r.backlog # <<>>
    BY <1>1, EmptySeq
  <2> QED BY <1>0, <1>1, <2>1 DEF BacklogsOK
<1> HIDE DEF b, e, r
<1>4. /\ DOMAIN q = SocketFields /\ q.backlog = b /\ q.state = r.state /\ q.conn = r.conn
      /\ q.inUse = r.inUse /\ q.listening = r.listening /\ q.armed = r.armed /\ q.seq = r.seq
      /\ q.ack = r.ack /\ q.timer = r.timer /\ q.count = r.count /\ q.rxq = r.rxq
  BY <1>0 DEF SocketOK, SocketFields
<1> HIDE DEF q
<1>5. SocketOK(q)
  <2>1. Len(r.backlog) <= Backlog
    BY <1>0 DEF SocketOK
  <2>2. Len(b) <= Backlog
    BY <1>1, <1>2, <2>1, TcpAssumption
  <2> QED BY <1>0, <1>2, <1>4, <2>2 DEF SocketOK
<1>6. /\ DOMAIN w = {"sock", "timers"} /\ DOMAIN w.sock = Ids /\ w.timers = k.timers
      /\ w.sock[l] = q /\ \A j \in Ids \ {l} : w.sock[j] = k.sock[j]
  BY <1>0, UpdateFact
<1> HIDE DEF w
<1>7. PairOK(w)
  BY <1>0, <1>5, <1>6 DEF PairOK
<1>8. TimersOK(w)
  <2>1. \A j \in Ids : /\ w.sock[j].inUse = k.sock[j].inUse /\ w.sock[j].armed = k.sock[j].armed
                       /\ w.sock[j].timer = k.sock[j].timer
    BY <1>4, <1>6 DEF r
  <2>2. /\ w.timers = k.timers /\ k.timers[0] = ArpAge
        /\ \A j \in Ids : Live(w.sock[j], j) <=> Live(k.sock[j], j)
    BY <1>0, <1>6, <2>1 DEF TimersOK, Live
  <2>3. ASSUME NEW j \in Ids
        PROVE  /\ Live(w.sock[j], j) =>
                    /\ w.sock[j].timer \in Slots => w.timers[w.sock[j].timer] = j
                    /\ w.sock[j].armed <=> w.sock[j].timer # -1
               /\ ~Live(w.sock[j], j) => ~w.sock[j].armed
    BY <1>0, <2>1, <2>2 DEF TimersOK
  <2> QED BY <2>2, <2>3 DEF TimersOK
<1>9. \A j \in Ids : /\ w.sock[j].inUse = k.sock[j].inUse
                     /\ w.sock[j].listening = k.sock[j].listening
                     /\ w.sock[j].state = k.sock[j].state
                     /\ j # l => w.sock[j].backlog = k.sock[j].backlog
  BY <1>4, <1>6 DEF r
<1>10. w.sock[l].backlog = b
  BY <1>4, <1>6
<1> DEFINE old(j, m) == IF j = l /\ ~ (m < n) THEN m + 1 ELSE m
<1>11. \A j \in Ids : \A m \in 1 .. Len(w.sock[j].backlog) :
         /\ m \in Int /\ old(j, m) \in 1 .. Len(k.sock[j].backlog)
         /\ w.sock[j].backlog[m] = k.sock[j].backlog[old(j, m)]
         /\ j = l => old(j, m) # n
  <2> SUFFICES ASSUME NEW j \in Ids, NEW m \in 1 .. Len(w.sock[j].backlog)
               PROVE  /\ m \in Int /\ old(j, m) \in 1 .. Len(k.sock[j].backlog)
                      /\ w.sock[j].backlog[m] = k.sock[j].backlog[old(j, m)]
                      /\ j = l => old(j, m) # n
    OBVIOUS
  <2>1. CASE j = l
    <3>1. m \in 1 .. Len(r.backlog) - 1
      BY <1>2, <1>10, <2>1
    <3>2. b[m] = IF m < n THEN r.backlog[m] ELSE r.backlog[m + 1]
      BY <1>2, <3>1
    <3>3. old(j, m) = IF m < n THEN m ELSE m + 1
      BY <2>1
    <3>4. m \in Int /\ old(j, m) \in 1 .. Len(r.backlog) /\ old(j, m) # n
      BY <1>1, <3>1, <3>3
    <3>5. b[m] = r.backlog[old(j, m)]
      BY <3>2, <3>3
    <3> QED BY <1>10, <2>1, <3>4, <3>5 DEF r
  <2>2. CASE j # l
    BY <1>9, <2>2
  <2> QED BY <2>1, <2>2
<1>12. \A j \in Ids : \A m \in 1 .. Len(w.sock[j].backlog) : w.sock[j].backlog[m] # e
  <2> SUFFICES ASSUME NEW j \in Ids, NEW m \in 1 .. Len(w.sock[j].backlog)
               PROVE  w.sock[j].backlog[m] # e
    OBVIOUS
  <2> DEFINE p == old(j, m)
  <2>1. /\ p \in 1 .. Len(k.sock[j].backlog) /\ w.sock[j].backlog[m] = k.sock[j].backlog[p]
        /\ j = l => p # n
    BY <1>11
  <2> HIDE DEF p
  <2> QED BY <1>3, <2>1
<1>13. BacklogsOK(w, o)
  <2>1. /\ o \subseteq PoolIds /\ \A j \in o : w.sock[j].inUse
        /\ \A j \in PoolIds : w.sock[j].listening => j \in o /\ w.sock[j].state = "CLOSED"
    BY <1>0, <1>9, NumberFacts DEF BacklogsOK
  <2>2. \A j \in Ids : w.sock[j].backlog # <<>> => j \in o /\ w.sock[j].listening
    <3>1. w.sock[l].listening
      BY <1>3, <1>9 DEF r
    <3> QED BY <1>0, <1>3, <1>9, <3>1 DEF BacklogsOK
  <2>3. \A j \in Ids : \A m \in 1 .. Len(w.sock[j].backlog) :
          w.sock[j].backlog[m] \notin o /\ w.sock[w.sock[j].backlog[m]].inUse
    <3> SUFFICES ASSUME NEW j \in Ids, NEW m \in 1 .. Len(w.sock[j].backlog)
                 PROVE  w.sock[j].backlog[m] \notin o /\ w.sock[w.sock[j].backlog[m]].inUse
      OBVIOUS
    <3> DEFINE p == old(j, m)
    <3>1. p \in 1 .. Len(k.sock[j].backlog) /\ w.sock[j].backlog[m] = k.sock[j].backlog[p]
      BY <1>11
    <3> HIDE DEF p
    <3>2. k.sock[j].backlog[p] \notin o /\ k.sock[k.sock[j].backlog[p]].inUse
      BY <1>0, <3>1 DEF BacklogsOK
    <3>3. k.sock[j].backlog[p] \in Ids
      BY <1>0, <3>1, EntryFact
    <3> QED BY <1>9, <3>1, <3>2, <3>3
  <2>4. \A a, c \in Ids :
          \A m \in 1 .. Len(w.sock[a].backlog), h \in 1 .. Len(w.sock[c].backlog) :
            w.sock[a].backlog[m] = w.sock[c].backlog[h] => a = c /\ m = h
    <3> SUFFICES ASSUME NEW a \in Ids, NEW c \in Ids, NEW m \in 1 .. Len(w.sock[a].backlog),
                        NEW h \in 1 .. Len(w.sock[c].backlog),
                        w.sock[a].backlog[m] = w.sock[c].backlog[h]
                 PROVE  a = c /\ m = h
      OBVIOUS
    <3>1. /\ old(a, m) \in 1 .. Len(k.sock[a].backlog) /\ old(c, h) \in 1 .. Len(k.sock[c].backlog)
          /\ k.sock[a].backlog[old(a, m)] = k.sock[c].backlog[old(c, h)]
          /\ m \in Int /\ h \in Int
      BY <1>11
    <3>2. a = c /\ old(a, m) = old(c, h)
      <4> DEFINE p == old(a, m)
                 g == old(c, h)
      <4>1. /\ p \in 1 .. Len(k.sock[a].backlog) /\ g \in 1 .. Len(k.sock[c].backlog)
            /\ k.sock[a].backlog[p] = k.sock[c].backlog[g] /\ a \in Ids /\ c \in Ids
        BY <3>1
      <4> HIDE DEF p, g
      <4>2. \A x, y \in Ids :
              \A u \in 1 .. Len(k.sock[x].backlog), v \in 1 .. Len(k.sock[y].backlog) :
                k.sock[x].backlog[u] = k.sock[y].backlog[v] => x = y /\ u = v
        BY <1>0 DEF BacklogsOK
      <4>3. \A u \in 1 .. Len(k.sock[a].backlog), v \in 1 .. Len(k.sock[c].backlog) :
                k.sock[a].backlog[u] = k.sock[c].backlog[v] => a = c /\ u = v
        BY ONLY <4>1, <4>2
      <4>4. a = c /\ p = g
        BY ONLY <4>1, <4>3
      <4> QED BY <4>4 DEF p, g
    <3>3. n \in Int
      BY <1>1
    <3> QED BY <3>1, <3>2, <3>3
  <2> QED BY <2>1, <2>2, <2>3, <2>4 DEF BacklogsOK
<1>14. w.sock[e] = k.sock[e] /\ e # l
  BY <1>1, <1>3, <1>6
<1>15. TcpOK(w, o) /\ w.sock[e].inUse
  BY <1>3, <1>7, <1>8, <1>13, <1>14 DEF TcpOK
<1> QED BY <1>0, <1>1, <1>3, <1>12, <1>14, <1>15 DEF e, r

\* Closing a socket of a program frees its slot and those of its backlog, and
\* stops their timers.
LEMMA ReclaimOK ==
    ASSUME NEW k, NEW o, TcpOK(k, o), NEW i \in o
    PROVE  TcpOK(MetaClear(ReclaimAll(k, k.sock[i].backlog), i), o \ {i})
<1> DEFINE b == k.sock[i].backlog
           ids == {b[n] : n \in DOMAIN b}
           cancelled == {k.sock[b[n]].timer : n \in DOMAIN b}
           h == ReclaimAll(k, b)
           w == Update(h, i, Cleared)
<1>0. /\ PairOK(k) /\ TimersOK(k) /\ BacklogsOK(k, o) /\ i \in Ids /\ i \in PoolIds
      /\ SocketOK(k.sock[i]) /\ b \in Seq(PoolIds) /\ DOMAIN b = 1 .. Len(b)
  <2>1. /\ PairOK(k) /\ TimersOK(k) /\ BacklogsOK(k, o)
    BY DEF TcpOK
  <2>2. i \in PoolIds /\ i \in Ids
    BY <2>1, NumberFacts DEF BacklogsOK
  <2>3. SocketOK(k.sock[i])
    BY <2>1, <2>2 DEF PairOK
  <2>4. b \in Seq(PoolIds)
    BY <2>3 DEF SocketOK
  <2> HIDE DEF b
  <2>5. DOMAIN b = 1 .. Len(b)
    BY <2>4, LenProperties
  <2> QED BY <2>1, <2>2, <2>3, <2>4, <2>5
<1>1. /\ DOMAIN h = {"sock", "timers"} /\ DOMAIN h.sock = Ids /\ DOMAIN h.timers = Slots
      /\ \A j \in Ids : h.sock[j] = IF j \in ids THEN Cleared ELSE k.sock[j]
      /\ \A t \in Slots : h.timers[t] = IF t \in cancelled THEN Inactive ELSE k.timers[t]
  BY DEF ReclaimAll
<1>2. \A j \in ids : j \in Ids /\ j \in PoolIds /\ j \notin o /\ k.sock[j].inUse
  BY <1>0, EntryFact DEF BacklogsOK
<1>3. \A t \in cancelled : \E j \in ids : t = k.sock[j].timer
  OBVIOUS
<1>4. \A t \in cancelled : t \in Slots => \E j \in ids : k.timers[t] = j
  BY <1>0, <1>2, <1>3 DEF TimersOK, Live
<1>5. \A a \in Ids : \A m \in 1 .. Len(k.sock[a].backlog) :
        a # i => k.sock[a].backlog[m] \notin ids
  <2>1. \A x, y \in Ids :
          \A u \in 1 .. Len(k.sock[x].backlog), v \in 1 .. Len(k.sock[y].backlog) :
            k.sock[x].backlog[u] = k.sock[y].backlog[v] => x = y
    BY <1>0 DEF BacklogsOK
  <2>2. \A a \in Ids : \A m \in 1 .. Len(k.sock[a].backlog), n \in 1 .. Len(k.sock[i].backlog) :
          k.sock[a].backlog[m] = k.sock[i].backlog[n] => a = i
    BY <1>0, <2>1
  <2> QED BY <1>0, <2>2
<1> HIDE DEF h, b, ids, cancelled
<1>6. SocketOK(Cleared) /\ Cleared.inUse = FALSE /\ Cleared.armed = FALSE
      /\ Cleared.listening = FALSE /\ Cleared.backlog = <<>>
  <2>1. SocketOK(Cleared) /\ Cleared.backlog = <<>>
    BY ClearedOK
  <2> QED BY <2>1 DEF Cleared
<1>7. PairOK(h)
  <2>1. \A j \in Ids : SocketOK(h.sock[j])
    BY <1>0, <1>1, <1>6 DEF PairOK
  <2>2. \A t \in Slots : h.timers[t] \in Ids \cup {Inactive, ArpAge}
    BY <1>0, <1>1 DEF PairOK
  <2> QED BY <1>1, <2>1, <2>2 DEF PairOK
<1>8. MetaClear(h, i) = w
  BY DEF MetaClear
<1>9. /\ DOMAIN w = {"sock", "timers"} /\ DOMAIN w.sock = Ids /\ w.timers = h.timers
      /\ \A j \in Ids : w.sock[j] = IF j \in ids \cup {i} THEN Cleared ELSE k.sock[j]
  BY <1>0, <1>1, <1>7, UpdateFact
<1> HIDE DEF w
<1>10. PairOK(w)
  BY <1>6, <1>7, <1>9, <1>0 DEF PairOK
<1>11. TimersOK(w)
  <2>1. \A t \in Slots : w.timers[t] = k.timers[t] \/ k.timers[t] \in ids
    BY <1>1, <1>4, <1>9
  <2>2. w.timers[0] = ArpAge
    BY <1>0, <1>2, <2>1, NumberFacts DEF TimersOK
  <2>3. 0 \notin ids \cup {i}
    BY <1>0, <1>2, NumberFacts
  <2>4. \A j \in Ids : ~Live(w.sock[j], j) => ~w.sock[j].armed
    BY <1>0, <1>6, <1>9 DEF TimersOK
  <2>5. ASSUME NEW j \in Ids, Live(w.sock[j], j)
        PROVE  /\ w.sock[j].timer \in Slots => w.timers[w.sock[j].timer] = j
               /\ w.sock[j].armed <=> w.sock[j].timer # -1
    <3>1. j \notin ids \cup {i} /\ w.sock[j] = k.sock[j]
      BY <1>6, <1>9, <2>3, <2>5 DEF Live
    <3>2. /\ k.sock[j].timer \in Slots => k.timers[k.sock[j].timer] = j
          /\ k.sock[j].armed <=> k.sock[j].timer # -1
      BY <1>0, <2>5, <3>1 DEF TimersOK
    <3> QED BY <2>1, <3>1, <3>2
  <2> QED BY <2>2, <2>4, <2>5 DEF TimersOK
<1>12. BacklogsOK(w, o \ {i})
  <2>1. \A j \in Ids : w.sock[j].backlog = <<>> \/
                       (j \notin ids \cup {i} /\ w.sock[j].backlog = k.sock[j].backlog)
    BY <1>6, <1>9
  <2>2. \A j \in Ids : \A n \in 1 .. Len(w.sock[j].backlog) :
          /\ n \in 1 .. Len(k.sock[j].backlog) /\ w.sock[j].backlog[n] = k.sock[j].backlog[n]
          /\ j # i
    BY <2>1, EmptySeq
  <2>3. o \ {i} \subseteq PoolIds /\ \A j \in o \ {i} : w.sock[j].inUse
    BY <1>0, <1>2, <1>9, NumberFacts DEF BacklogsOK
  <2>4. \A j \in PoolIds : w.sock[j].listening => j \in o \ {i} /\ w.sock[j].state = "CLOSED"
    BY <1>0, <1>6, <1>9, NumberFacts DEF BacklogsOK
  <2>5. \A j \in Ids : w.sock[j].backlog # <<>> => j \in o \ {i} /\ w.sock[j].listening
    BY <1>0, <1>6, <1>9, <2>1 DEF BacklogsOK
  <2>6. \A j \in Ids : \A n \in 1 .. Len(w.sock[j].backlog) :
          w.sock[j].backlog[n] \notin o \ {i} /\ w.sock[w.sock[j].backlog[n]].inUse
    <3> SUFFICES ASSUME NEW j \in Ids, NEW n \in 1 .. Len(w.sock[j].backlog)
                 PROVE  w.sock[j].backlog[n] \notin o \ {i} /\ w.sock[w.sock[j].backlog[n]].inUse
      OBVIOUS
    <3> DEFINE e == k.sock[j].backlog[n]
    <3>1. n \in 1 .. Len(k.sock[j].backlog) /\ w.sock[j].backlog[n] = e /\ j # i
      BY <2>2
    <3>2. e \notin o /\ k.sock[e].inUse /\ e \notin ids /\ e \in Ids
      BY <1>0, <1>5, <3>1, EntryFact DEF BacklogsOK
    <3> HIDE DEF e
    <3>3. w.sock[e] = k.sock[e]
      BY <1>9, <3>2
    <3> QED BY <3>1, <3>2, <3>3
  <2>7. \A a, c \in Ids :
          \A n \in 1 .. Len(w.sock[a].backlog), m \in 1 .. Len(w.sock[c].backlog) :
            w.sock[a].backlog[n] = w.sock[c].backlog[m] => a = c /\ n = m
    <3> SUFFICES ASSUME NEW a \in Ids, NEW c \in Ids, NEW n \in 1 .. Len(w.sock[a].backlog),
                        NEW m \in 1 .. Len(w.sock[c].backlog),
                        w.sock[a].backlog[n] = w.sock[c].backlog[m]
                 PROVE  a = c /\ n = m
      OBVIOUS
    <3>1. /\ n \in 1 .. Len(k.sock[a].backlog) /\ m \in 1 .. Len(k.sock[c].backlog)
          /\ k.sock[a].backlog[n] = k.sock[c].backlog[m]
      BY <2>2
    <3> QED BY <1>0, <3>1 DEF BacklogsOK
  <2> QED BY <2>3, <2>4, <2>5, <2>6, <2>7 DEF BacklogsOK
<1> QED BY <1>8, <1>10, <1>11, <1>12 DEF TcpOK, b, h

-----------------------------------------------------------------------------
(* The calls of the programs, one by one *)

\* The invariant of the next state, from its tables.
LEMMA NextTables ==
    ASSUME TcpInv, NEW k, NEW o, TcpOK(k, o), Installed(k), owned' = o, peer' = peer, opens' \in Nat
    PROVE  TcpInv'
<1>1. TcpOK(Both, o)'
  BY InstalledOK
<1>2. TcpOK(Both, owned)'
  BY <1>1
<1>3. PeersOK'
  BY DEF TcpInv, PeersOK
<1> QED BY <1>2, <1>3 DEF TcpInv

\* Calls that only wait or end leave the tables alone.
LEMMA SameTables ==
    ASSUME TcpInv, sock' = sock, timers' = timers, owned' = owned, peer' = peer, opens' = opens
    PROVE  TcpInv'
<1>1. Installed(Both)
  BY DEF Installed, Both
<1> QED BY <1>1, NextTables DEF TcpInv

\* The number after a segment is a sequence number.
LEMMA EndOfFact ==
    ASSUME NEW m, m.seq \in Int, m.len \in Int
    PROVE  EndOf(m) \in Numbers
<1> DEFINE d == m.len + (IF m.flags \cap {"SYN", "FIN"} # {} THEN 1 ELSE 0)
<1>1. d \in Int
  OBVIOUS
<1>2. EndOf(m) = Plus(m.seq, d)
  BY DEF EndOf
<1> HIDE DEF d
<1> QED BY <1>1, <1>2, PlusFact

\* What holds of the tables between two calls.
LEMMA TableFacts ==
    ASSUME TcpInv
    PROVE  /\ Both.sock = sock /\ Both.timers = timers
           /\ TcpOK(Both, owned) /\ opens \in Nat /\ PeersOK /\ owned \subseteq PoolIds
           /\ \A i \in owned : sock[i].inUse
           /\ \A i \in Ids : SocketOK(sock[i]) /\ (i \in owned \cup {0} => Live(sock[i], i))
           /\ \A i \in PoolIds : sock[i].listening => i \in owned /\ sock[i].state = "CLOSED"
           /\ \A i \in Ids : sock[i].backlog # <<>> => i \in owned /\ sock[i].listening
           /\ \A i \in Ids : \A n \in 1 .. Len(sock[i].backlog) : sock[i].backlog[n] \notin owned
           /\ \A i \in Ids : \A n \in 1 .. Len(sock[i].backlog) : sock[sock[i].backlog[n]].inUse
<1>1. Both.sock = sock /\ Both.timers = timers /\ TcpOK(Both, owned) /\ opens \in Nat /\ PeersOK
  BY DEF TcpInv, Both
<1>2. BacklogsOK(Both, owned) /\ PairOK(Both)
  BY <1>1 DEF TcpOK
<1>3. \A i \in Ids : SocketOK(sock[i])
  BY <1>1, <1>2 DEF PairOK
<1>4. owned \subseteq PoolIds /\ \A i \in owned : sock[i].inUse
  BY <1>1, <1>2 DEF BacklogsOK
<1>5. /\ \A i \in PoolIds : sock[i].listening => i \in owned /\ sock[i].state = "CLOSED"
      /\ \A i \in Ids : sock[i].backlog # <<>> => i \in owned /\ sock[i].listening
  BY <1>1, <1>2 DEF BacklogsOK
<1>6. \A i \in Ids : \A n \in 1 .. Len(sock[i].backlog) :
        sock[i].backlog[n] \notin owned /\ sock[sock[i].backlog[n]].inUse
  BY <1>1, <1>2 DEF BacklogsOK
<1> QED BY <1>1, <1>3, <1>4, <1>5, <1>6 DEF Live

\* socket() takes the first free slot.
LEMMA SocketOpenStep ==
    ASSUME TcpInv, SocketOpen
    PROVE  TcpInv'
<1> DEFINE i == FirstOf(Free)
           e == [Cleared EXCEPT !.inUse = TRUE, !.timer = -1]
           k == Update(Both, i, e)
<1>1. i \in PoolIds /\ i \in Ids /\ ~sock[i].inUse
  <2>1. Free \subseteq Nat /\ Free # {}
    BY NumberFacts DEF Free, SocketOpen
  <2>2. i \in Free
    BY <2>1, FirstOfFact
  <2> QED BY <2>2, NumberFacts DEF Free
<1>2. /\ owned' = owned \cup {i} /\ peer' = peer /\ opens' = opens
      /\ sock' = [sock EXCEPT ![i] = e] /\ timers' = timers
  BY DEF SocketOpen
<1>3. k.sock = [sock EXCEPT ![i] = e] /\ k.timers = timers
  BY DEF Update, Both
<1>4. SocketOK(e) /\ e.backlog = <<>> /\ ~e.armed /\ ~e.listening /\ e.inUse /\ e.timer = -1
  BY ClearedOK
<1> HIDE DEF i, e
<1>5. TcpOK(k, owned)
  <2>1. -1 \notin Slots
    BY NumberFacts
  <2> QED BY <1>1, <1>4, <2>1, TableFacts, ReplaceOK
<1>6. /\ k.sock[i] = e /\ \A j \in Ids \ {i} : k.sock[j] = sock[j]
  BY <1>1, TableFacts, UpdateFact DEF TcpOK
<1> HIDE DEF k
<1>7. \A j \in Ids : \A n \in 1 .. Len(k.sock[j].backlog) : k.sock[j].backlog[n] # i
  BY <1>1, <1>4, <1>6, TableFacts, EmptySeq
<1>8. TcpOK(k, owned \cup {i})
  BY <1>1, <1>4, <1>5, <1>6, <1>7, GiveOK
<1>9. Installed(k)
  BY <1>2, <1>3 DEF Installed
<1> QED BY <1>2, <1>8, <1>9, NextTables, TableFacts

\* bind marks the socket.
LEMMA SocketBindStep ==
    ASSUME TcpInv, NEW i \in Ids, SocketBind(i)
    PROVE  TcpInv'
<1> DEFINE r == sock[i]
           s == [r EXCEPT !.bound = TRUE]
           k == Update(Both, i, s)
<1>1. /\ owned' = owned /\ peer' = peer /\ opens' = opens
      /\ sock' = [sock EXCEPT ![i].bound = TRUE] /\ timers' = timers
  BY DEF SocketBind
<1>2. k.sock = [sock EXCEPT ![i] = s] /\ k.timers = timers
  BY DEF Update, Both
<1>3. SocketOK(r)
  BY TableFacts
<1>4. Installed(k)
  BY <1>1, <1>2 DEF Installed
<1> HIDE DEF r
<1>5. DOMAIN s = SocketFields /\ SameHold(s, r) /\ s.seq = r.seq /\ s.state = r.state
      /\ s.listening = r.listening
  BY <1>3 DEF SocketOK, SocketFields, SameHold
<1> HIDE DEF s
<1>6. s.state \in States /\ s.seq \in Numbers /\ s.listening \in BOOLEAN
  BY <1>3, <1>5 DEF SocketOK
<1>7. SameHold(s, Both.sock[i]) /\ s.state = Both.sock[i].state
      /\ s.listening = Both.sock[i].listening /\ (s.listening \/ Both.sock[i].backlog = <<>>)
  BY <1>5, TableFacts DEF r
<1>8. TcpOK(k, owned)
  BY <1>5, <1>6, <1>7, TableFacts, ChangeOK
<1> QED BY <1>1, <1>4, <1>8, NextTables, TableFacts

\* listen, on a socket of the pool or on the legacy one: what was queued and
\* armed is dropped.
LEMMA ListenStep ==
    ASSUME TcpInv, NEW i \in Ids, SocketListen(i) \/ (i = 0 /\ LegacyListen)
    PROVE  TcpInv'
<1> DEFINE r == sock[i]
           a == [r EXCEPT !.listening = TRUE, !.state = "CLOSED", !.backlog = <<>>, !.rxq = <<>>]
           b == [r EXCEPT !.listening = TRUE, !.bound = TRUE, !.state = "CLOSED", !.rxq = <<>>]
<1>1. /\ owned' = owned /\ peer' = peer /\ opens' = opens /\ i \in owned \cup {0}
      /\ \/ Installed(RetxCancel(Update(Both, i, a), i))
         \/ Installed(RetxCancel(Update(Both, i, b), i)) /\ i = 0
  BY DEF SocketListen, LegacyListen
<1>2. PICK s \in {a, b} : Installed(RetxCancel(Update(Both, i, s), i)) /\ (s = b => s = a \/ i = 0)
  BY <1>1
<1> DEFINE k == Update(Both, i, s)
<1>3. SocketOK(r) /\ Live(r, i) /\ (i = 0 => r.backlog = <<>>)
  BY <1>1, TableFacts, NumberFacts
<1> HIDE DEF r
<1>4. /\ DOMAIN s = SocketFields /\ s.state = "CLOSED" /\ s.listening = TRUE /\ s.rxq = <<>>
      /\ s.backlog \in {<<>>, r.backlog} /\ s.inUse = r.inUse /\ s.armed = r.armed
      /\ s.timer = r.timer /\ s.count = r.count /\ s.conn = r.conn /\ s.seq = r.seq
      /\ s.ack = r.ack /\ (s = a => s.backlog = <<>>) /\ (i = 0 => s.backlog = <<>>)
  BY <1>3 DEF SocketOK, SocketFields
<1>5. s.backlog = <<>>
  BY <1>2, <1>4
<1> HIDE DEF a, b
<1>6. SocketOK(s)
  <2>1. <<>> \in Seq(Packet) /\ Len(<<>>) = 0 /\ <<>> \in Seq(PoolIds)
    BY EmptySeq
  <2>2. s.state \in States /\ RxSlots \in Nat /\ Backlog \in Nat
    BY <1>4, TcpAssumption DEF States
  <2>3. s.rxq \in Seq(Packet) /\ Len(s.rxq) <= RxSlots
    BY <1>4, <2>1, <2>2
  <2>4. s.backlog \in Seq(PoolIds) /\ Len(s.backlog) <= Backlog
    BY <1>5, <2>1, <2>2
  <2> QED BY <1>3, <1>4, <2>2, <2>3, <2>4 DEF SocketOK
<1>7. TcpOK(k, owned)
  <2>1. /\ Live(s, i) => /\ s.timer \in Slots => timers[s.timer] = i
                         /\ s.armed <=> s.timer # -1
        /\ ~Live(s, i) => ~s.armed
    <3>1. TimersOK(Both) /\ Both.sock = sock /\ Both.timers = timers
      BY TableFacts DEF TcpOK
    <3>2. r = sock[i]
      BY DEF r
    <3> QED BY <1>4, <3>1, <3>2 DEF TimersOK, Live
  <2>2. i \in PoolIds => i \in owned
    BY <1>1, NumberFacts
  <2>3. Both.sock[i].inUse => s.inUse
    BY <1>4, TableFacts DEF r
  <2> QED BY <1>4, <1>5, <1>6, <2>1, <2>2, <2>3, TableFacts, ReplaceOK
<1>8. Live(k.sock[i], i)
  <2>1. k.sock[i] = s
    BY TableFacts, UpdateFact DEF TcpOK
  <2> QED BY <1>3, <1>4, <2>1 DEF Live
<1>9. Installed(RetxCancel(k, i))
  BY <1>2
<1> HIDE DEF k
<1>10. TcpOK(RetxCancel(k, i), owned)
  BY <1>7, <1>8, CancelOK
<1> QED BY <1>1, <1>9, <1>10, NextTables, TableFacts

\* accept returns a connection to the program, or clears the slot of a dead one.
LEMMA AcceptStep ==
    ASSUME TcpInv, NEW l \in PoolIds, NEW n \in DOMAIN sock[l].backlog,
           AcceptReturns(l, n) \/ AcceptReclaims(l, n)
    PROVE  TcpInv'
<1> DEFINE e == sock[l].backlog[n]
           w == Update(Both, l, Dequeued(sock[l], n))
<1>1. n \in 1 .. Len(Both.sock[l].backlog) /\ l \in Ids /\ Both.sock = sock
  <2>1. sock[l].backlog \in Seq(PoolIds) /\ l \in Ids
    BY TableFacts, NumberFacts DEF SocketOK
  <2> QED BY <2>1, LenProperties, TableFacts
<1>2. /\ TcpOK(w, owned)
      /\ e \in PoolIds /\ e \notin owned /\ e # l /\ w.sock[e] = sock[e] /\ w.sock[e].inUse
      /\ \A j \in Ids : \A m \in 1 .. Len(w.sock[j].backlog) : w.sock[j].backlog[m] # e
  <2> DEFINE k == Both
  <2>1. TcpOK(k, owned) /\ l \in Ids /\ n \in 1 .. Len(k.sock[l].backlog)
    BY <1>1, TableFacts
  <2> HIDE DEF k
  <2>2. LET v == Update(k, l, Dequeued(k.sock[l], n))
            d == k.sock[l].backlog[n]
        IN  /\ TcpOK(v, owned)
            /\ d \in PoolIds /\ d \notin owned /\ d # l /\ v.sock[d] = k.sock[d]
            /\ v.sock[d].inUse
            /\ \A j \in Ids : \A m \in 1 .. Len(v.sock[j].backlog) : v.sock[j].backlog[m] # d
    BY ONLY <2>1, DequeueOK, SMTT(30)
  <2>3. k.sock = sock
    BY <1>1 DEF k
  <2> QED BY <2>2, <2>3 DEF k
<1>3. CASE AcceptReturns(l, n)
  <2>1. /\ owned' = owned \cup {e} /\ peer' = peer /\ opens' = opens
        /\ sock' = [sock EXCEPT ![l].backlog = Without(@, n)] /\ timers' = timers
    BY <1>3 DEF AcceptReturns
  <2>2. w.sock = [sock EXCEPT ![l].backlog = Without(@, n)] /\ w.timers = timers
    BY DEF Update, Both, Dequeued
  <2>3. Installed(w)
    BY <2>1, <2>2 DEF Installed
  <2> HIDE DEF w, e
  <2>4. TcpOK(w, owned \cup {e})
    BY <1>2, GiveOK
  <2> QED BY <2>1, <2>3, <2>4, NextTables, TableFacts
<1>4. CASE AcceptReclaims(l, n)
  <2>1. /\ owned' = owned /\ peer' = peer /\ opens' = opens
        /\ Installed(MetaClear(w, e))
    BY <1>1, <1>4 DEF AcceptReclaims, Dequeued
  <2> HIDE DEF w, e
  <2>2. SocketOK(Cleared) /\ Cleared.inUse = FALSE /\ ~Cleared.armed /\ ~Cleared.listening
        /\ Cleared.backlog = <<>>
    <3>1. SocketOK(Cleared) /\ Cleared.backlog = <<>>
      BY ClearedOK
    <3> QED BY <3>1 DEF Cleared
  <2>3. e # 0 /\ e \in Ids
    BY <1>2, NumberFacts
  <2>4. TcpOK(Update(w, e, Cleared), owned)
    BY <1>2, <2>2, <2>3, ReplaceOK DEF Live
  <2> QED BY <2>1, <2>4, NextTables, TableFacts DEF MetaClear
<1> QED BY <1>3, <1>4

\* connect, and the one-shot send, start a connection on a cleared slot.
LEMMA ConnectingOK ==
    ASSUME TcpInv, NEW i \in owned \cup {0}, NEW c \in Servers, NEW b \in BOOLEAN,
           NEW s, s = [Connecting(i, c).sock[i] EXCEPT !.inUse = b], i = 0 \/ b, NEW m
    PROVE  TcpOK(RetxArm(Update(Both, i, s), i, m), owned)
<1> DEFINE g == [Cleared EXCEPT !.timer = -1]
           e == [Cleared EXCEPT !.timer = -1, !.inUse = TRUE, !.conn = c,
                                !.seq = Ticks, !.state = "SYN_SENT"]
           k == Update(Both, i, s)
<1>0. i \in Ids /\ (i \in PoolIds => i \in owned)
  BY TableFacts, NumberFacts
<1>1. s = [e EXCEPT !.inUse = b]
  <2>1. PairOK(Both) /\ Connecting(i, c) = Update(Both, i, e)
    BY TableFacts DEF TcpOK, Connecting
  <2> HIDE DEF e
  <2>2. Connecting(i, c).sock[i] = e
    BY <1>0, <2>1, UpdateFact
  <2> QED BY <2>2
<1>2. SocketOK(g) /\ g.timer = -1 /\ g.armed = FALSE /\ g.listening = FALSE /\ g.backlog = <<>>
  <2>1. SocketOK(g) /\ g.backlog = <<>>
    BY ClearedOK
  <2> QED BY <2>1 DEF Cleared
<1>3. e = [g EXCEPT !.inUse = TRUE, !.conn = c, !.seq = Ticks, !.state = "SYN_SENT"]
  BY DEF Cleared
<1> HIDE DEF g, e
<1>4. /\ DOMAIN s = SocketFields /\ s.state = "SYN_SENT" /\ s.listening = FALSE /\ s.inUse = b
      /\ s.armed = FALSE /\ s.timer = -1 /\ s.count = g.count /\ s.conn = c /\ s.rxq = g.rxq
      /\ s.backlog = <<>> /\ s.seq = Ticks /\ s.ack = g.ack
  BY <1>1, <1>2, <1>3 DEF SocketOK, SocketFields
<1>5. SocketOK(s)
  <2>1. s.state \in States /\ s.conn \in Conns \cup {None}
    BY <1>4 DEF States, Conns
  <2>2. Ticks \in Numbers
    <3>1. OurIsn \in Int /\ Stride * opens \in Int
      BY TableFacts, TcpAssumption
    <3> QED BY <3>1, PlusFact DEF Ticks
  <2>3. s.inUse \in BOOLEAN /\ s.listening \in BOOLEAN /\ s.armed \in BOOLEAN
    BY <1>4
  <2>4. s.seq \in Numbers /\ s.ack \in Numbers
    BY <1>2, <1>4, <2>2 DEF SocketOK
  <2>5. s.timer \in Slots \cup {-1, -2} /\ s.count \in 0 .. Attempts
    BY <1>2, <1>4 DEF SocketOK
  <2>6. /\ s.rxq \in Seq(Packet) /\ Len(s.rxq) <= RxSlots
        /\ s.backlog \in Seq(PoolIds) /\ Len(s.backlog) <= Backlog
    BY <1>2, <1>4 DEF SocketOK
  <2> QED BY <1>4, <2>1, <2>3, <2>4, <2>5, <2>6 DEF SocketOK
<1>6. TcpOK(k, owned)
  <2>1. -1 \notin Slots
    BY NumberFacts
  <2>2. Both.sock[i].inUse =>
          s.inUse \/ (i \notin owned /\ \A j \in Ids :
            \A n \in 1 .. Len(Both.sock[j].backlog) : Both.sock[j].backlog[n] # i)
    <3>1. CASE i = 0
      <4>1. \A j \in Ids : \A n \in 1 .. Len(sock[j].backlog) : sock[j].backlog[n] \in PoolIds
        BY TableFacts, EntryFact DEF TcpOK
      <4> QED BY <3>1, <4>1, TableFacts, NumberFacts
    <3>2. CASE b
      BY <1>4, <3>2
    <3> QED BY <3>1, <3>2
  <2>3. /\ Live(s, i) => /\ s.timer \in Slots => Both.timers[s.timer] = i
                         /\ s.armed <=> s.timer # -1
        /\ ~Live(s, i) => ~s.armed
    BY <1>4, <2>1
  <2>4. /\ i \in PoolIds /\ s.listening => i \in owned /\ s.state = "CLOSED"
        /\ s.backlog = <<>> \/ (s.backlog = Both.sock[i].backlog /\ s.listening)
    BY <1>4
  <2>5. TcpOK(Both, owned) /\ i \in Ids
    BY <1>0, TableFacts
  <2> QED BY ONLY <1>5, <2>2, <2>3, <2>4, <2>5, ReplaceOK
<1>7. Live(k.sock[i], i)
  <2>1. k.sock[i] = s
    BY <1>0, TableFacts, UpdateFact DEF TcpOK
  <2> QED BY <1>4, <2>1 DEF Live
<1> HIDE DEF k
<1>8. TcpOK(RetxArm(k, i, m), owned)
  BY <1>0, <1>6, <1>7, ArmOK
<1> QED BY <1>8 DEF k

\* connect on a socket a program may connect.
LEMMA ConnectStep ==
    ASSUME TcpInv, NEW i \in Ids, NEW c \in Servers, NEW ok \in Oks,
           ConnectStart(i, c, ok) \/ (i = 0 /\ OneShotStart(c, ok))
    PROVE  TcpInv'
<1>1. owned' = owned /\ peer' = peer /\ opens' = opens + 1 /\ i \in owned \cup {0}
  BY DEF ConnectStart, OneShotStart
<1>2. opens' \in Nat
  BY <1>1, TableFacts
<1> DEFINE e == [Cleared EXCEPT !.timer = -1, !.inUse = TRUE, !.conn = c,
                                !.seq = Ticks, !.state = "SYN_SENT"]
<1>3. Connecting(i, c) = Update(Both, i, e) /\ e.inUse = TRUE /\ DOMAIN e = SocketFields
  BY DEF Connecting, Cleared, SocketFields
<1>0. e = [e EXCEPT !.inUse = TRUE]
  BY DEF Cleared
<1> HIDE DEF e
<1>4. Connecting(i, c).sock[i] = e
  BY <1>3, TableFacts, UpdateFact DEF TcpOK
<1>5. CASE ConnectStart(i, c, ok)
  <2>1. Installed(RetxArm(Update(Both, i, e), i, Syn))
    BY <1>3, <1>5 DEF ConnectStart
  <2>2. e = [Connecting(i, c).sock[i] EXCEPT !.inUse = TRUE]
    BY <1>0, <1>4
  <2>3. TcpOK(RetxArm(Update(Both, i, e), i, Syn), owned)
    BY <1>1, <2>2, ConnectingOK
  <2> QED BY <1>1, <1>2, <2>1, <2>3, NextTables
<1>6. CASE i = 0 /\ OneShotStart(c, ok)
  <2> DEFINE s == [Connecting(0, c).sock[0] EXCEPT !.inUse = FALSE]
  <2>1. Installed(RetxArm(Update(Both, i, s), i, Syn))
    BY <1>6 DEF OneShotStart
  <2>2. s = [Connecting(i, c).sock[i] EXCEPT !.inUse = FALSE]
    BY <1>6
  <2> HIDE DEF s
  <2>3. TcpOK(RetxArm(Update(Both, i, s), i, Syn), owned)
    BY <1>1, <1>6, <2>2, ConnectingOK
  <2> QED BY <1>1, <1>2, <2>1, <2>3, NextTables
<1> QED BY <1>5, <1>6

\* A socket that is no listener of the pool changes its state or number.
LEMMA AdvanceOK ==
    ASSUME NEW k, NEW o, TcpOK(k, o), NEW i \in Ids, i \in PoolIds => ~k.sock[i].listening,
           NEW s, DOMAIN s = SocketFields, SameHold(s, k.sock[i]),
           s.seq \in Numbers, s.state \in States, s.listening \in BOOLEAN,
           s.listening => k.sock[i].listening
    PROVE  TcpOK(Update(k, i, s), o)
<1>1. k.sock[i].backlog = <<>>
  BY NumberFacts DEF TcpOK, BacklogsOK
<1> QED BY <1>1, ChangeOK

\* send on an open connection.
LEMMA SocketSendStep ==
    ASSUME TcpInv, NEW i \in Ids, NEW n \in SendLens, NEW ok \in Oks, SocketSend(i, n, ok)
    PROVE  TcpInv'
<1> DEFINE m == Segment({"PSH", "ACK"}, sock[i].seq, sock[i].ack, n, sends)
           k == RetxArm(Both, i, m)
           s == [k.sock[i] EXCEPT !.seq = EndOf(m)]
<1>1. /\ owned' = owned /\ peer' = peer /\ opens' = opens /\ i \in owned \cup {0}
      /\ sock[i].state = "ESTABLISHED"
      /\ Installed(Update(k, i, s)) \/ Installed(k)
  BY DEF SocketSend, SendSegment
<1>2. EndOf(m) \in Numbers
  <2>1. sock[i].seq \in Numbers /\ n \in Int
    BY TableFacts, TcpAssumption DEF SocketOK
  <2>2. m.seq = sock[i].seq /\ m.len = n
    BY DEF Segment
  <2> QED BY <2>1, <2>2, NumberFacts, EndOfFact
<1> HIDE DEF m
<1>3. TcpOK(k, owned) /\ SameBody(k.sock[i], sock[i])
  BY <1>1, TableFacts, ArmOK
<1> HIDE DEF k
<1>4. i \in PoolIds => ~k.sock[i].listening
  BY <1>1, <1>3, TableFacts DEF SameBody
<1> DEFINE r == k.sock[i]
<1>5. SocketOK(r)
  BY <1>3 DEF TcpOK, PairOK
<1> HIDE DEF r
<1>7. /\ DOMAIN s = SocketFields /\ SameHold(s, r) /\ s.seq = EndOf(m)
      /\ s.state = r.state /\ s.listening = r.listening
  <2>1. s = [r EXCEPT !.seq = EndOf(m)]
    BY DEF r
  <2> QED BY <1>5, <2>1 DEF SocketOK, SocketFields, SameHold
<1> HIDE DEF s
<1>8. s.state \in States /\ s.listening \in BOOLEAN
  BY <1>5, <1>7 DEF SocketOK
<1>6. TcpOK(Update(k, i, s), owned)
  BY <1>2, <1>3, <1>4, <1>7, <1>8, AdvanceOK DEF r
<1> QED BY <1>1, <1>3, <1>6, NextTables, TableFacts

\* recv takes the oldest packet.
LEMMA SocketRecvStep ==
    ASSUME TcpInv, NEW i \in Ids, SocketRecv(i)
    PROVE  TcpInv'
<1> DEFINE r == sock[i]
           s == [r EXCEPT !.rxq = Tail(@)]
           k == Update(Both, i, s)
<1>1. /\ owned' = owned /\ peer' = peer /\ opens' = opens /\ r.rxq # <<>>
      /\ sock' = [sock EXCEPT ![i].rxq = Tail(@)] /\ timers' = timers
  BY DEF SocketRecv
<1>2. k.sock = [sock EXCEPT ![i] = s] /\ k.timers = timers
  BY DEF Update, Both
<1>3. Installed(k)
  BY <1>1, <1>2 DEF Installed
<1>4. SocketOK(r) /\ (i \in PoolIds /\ r.listening => r.state = "CLOSED")
  BY TableFacts
<1>5. r = Both.sock[i]
  BY TableFacts
<1> HIDE DEF r
<1>6. Tail(r.rxq) \in Seq(Packet) /\ Len(Tail(r.rxq)) <= RxSlots
  <2>1. r.rxq \in Seq(Packet) /\ Len(r.rxq) <= RxSlots
    BY <1>4 DEF SocketOK
  <2>2. Tail(r.rxq) \in Seq(Packet) /\ Len(Tail(r.rxq)) = Len(r.rxq) - 1
    BY <1>1, <2>1, HeadTailProperties
  <2> QED BY <2>1, <2>2, LenProperties, TcpAssumption
<1>7. /\ DOMAIN s = SocketFields /\ s.rxq = Tail(r.rxq) /\ SameHolder(s, r)
      /\ s.count = r.count /\ s.conn = r.conn /\ s.seq = r.seq /\ s.ack = r.ack
  BY <1>4 DEF SocketOK, SocketFields, SameHolder
<1> HIDE DEF s
<1>8. SocketOK(s)
  BY <1>4, <1>6, <1>7 DEF SocketOK, SameHolder
<1>9. TcpOK(k, owned)
  <2>1. /\ s.inUse = Both.sock[i].inUse /\ s.armed = Both.sock[i].armed
        /\ s.timer = Both.sock[i].timer /\ s.backlog = Both.sock[i].backlog
        /\ s.listening = Both.sock[i].listening
        /\ i \in PoolIds /\ s.listening => s.state = "CLOSED"
    BY <1>4, <1>5, <1>7 DEF SameHolder
  <2> QED BY <1>8, <2>1, TableFacts, EditOK
<1> QED BY <1>1, <1>3, <1>9, NextTables, TableFacts

\* close of an open connection sends a FIN; its slot stays in use without a holder.
LEMMA CloseSendsFinStep ==
    ASSUME TcpInv, NEW i \in Ids, CloseSendsFin(i)
    PROVE  TcpInv'
<1> DEFINE m == Segment({"FIN", "ACK"}, sock[i].seq, sock[i].ack, 0, 0)
           k == RetxArm(Both, i, m)
           r == k.sock[i]
           s == [r EXCEPT !.seq = Plus(@, 1), !.state = "FIN_WAIT", !.listening = FALSE]
           w == Update(k, i, s)
<1>1. /\ owned' = owned \ {i} /\ peer' = peer /\ opens' = opens /\ i \in owned \cup {0}
      /\ sock[i].state = "ESTABLISHED" /\ Installed(w)
  BY DEF CloseSendsFin
<1> HIDE DEF m
<1>2. TcpOK(k, owned) /\ SameBody(r, sock[i])
  BY <1>1, TableFacts, ArmOK
<1> HIDE DEF k
<1>3. (i \in PoolIds => ~r.listening) /\ SocketOK(r)
  BY <1>1, <1>2, TableFacts DEF SameBody, TcpOK, PairOK
<1> HIDE DEF r
<1>4. /\ DOMAIN s = SocketFields /\ SameHold(s, r) /\ s.seq = Plus(r.seq, 1)
      /\ s.state = "FIN_WAIT" /\ s.listening = FALSE
  BY <1>3 DEF SocketOK, SocketFields, SameHold
<1> HIDE DEF s
<1>5. s.seq \in Numbers /\ s.state \in States
  <2>1. r.seq \in Numbers
    BY <1>3 DEF SocketOK
  <2>2. r.seq \in Int /\ 1 \in Int
    BY <2>1 DEF Numbers
  <2>3. Plus(r.seq, 1) \in Numbers
    BY ONLY <2>2, PlusFact
  <2> QED BY <1>4, <2>3 DEF States
<1>6. TcpOK(w, owned)
  BY <1>2, <1>3, <1>4, <1>5, AdvanceOK DEF r
<1>7. w.sock[i] = s
  BY <1>2, UpdateFact DEF TcpOK
<1> HIDE DEF w
<1>8. TcpOK(w, owned \ {i})
  BY <1>4, <1>6, <1>7, DropOK
<1> QED BY <1>1, <1>8, NextTables, TableFacts

\* close of any other socket frees its slot, and those of its backlog.
LEMMA CloseFreesStep ==
    ASSUME TcpInv, NEW i \in Ids, CloseFrees(i)
    PROVE  TcpInv'
<1> DEFINE k == RetxCancel(Both, i)
<1>1. /\ owned' = owned \ {i} /\ peer' = peer /\ opens' = opens /\ i \in owned
      /\ Installed(MetaClear(ReclaimAll(k, sock[i].backlog), i))
  BY DEF CloseFrees
<1>2. TcpOK(k, owned) /\ SameBody(k.sock[i], sock[i])
  BY <1>1, TableFacts, CancelOK
<1> HIDE DEF k
<1>3. k.sock[i].backlog = sock[i].backlog
  BY <1>2 DEF SameBody
<1>4. TcpOK(MetaClear(ReclaimAll(k, sock[i].backlog), i), owned \ {i})
  BY <1>1, <1>2, <1>3, ReclaimOK
<1> QED BY <1>1, <1>4, NextTables, TableFacts

\* net_tcp_close puts the legacy socket back.
LEMMA LegacyCloseStep ==
    ASSUME TcpInv, LegacyClose
    PROVE  TcpInv'
<1> DEFINE k == RetxCancel(Both, 0)
           r == k.sock[0]
           s == [r EXCEPT !.listening = FALSE, !.state = "CLOSED"]
<1>1. /\ owned' = owned /\ peer' = peer /\ opens' = opens /\ Installed(Update(k, 0, s))
  BY DEF LegacyClose
<1>2. TcpOK(k, owned) /\ 0 \in Ids /\ 0 \notin PoolIds
  BY NumberFacts, TableFacts, CancelOK
<1> HIDE DEF k
<1>3. SocketOK(r)
  BY <1>2 DEF TcpOK, PairOK
<1> HIDE DEF r
<1>4. /\ DOMAIN s = SocketFields /\ SameHold(s, r) /\ s.seq = r.seq
      /\ s.state = "CLOSED" /\ s.listening = FALSE
  BY <1>3 DEF SocketOK, SocketFields, SameHold
<1> HIDE DEF s
<1>5. s.seq \in Numbers /\ s.state \in States
  BY <1>3, <1>4 DEF States, SocketOK
<1>6. TcpOK(Update(k, 0, s), owned)
  BY <1>2, <1>4, <1>5, AdvanceOK DEF r
<1> QED BY <1>1, <1>6, NextTables, TableFacts

\* The one-shot send: the payload and the FIN, one after the other.
LEMMA OneShotSendStep ==
    ASSUME TcpInv, NEW d \in Oks, NEW f \in Oks, OneShotSend(d, f)
    PROVE  TcpInv'
<1> DEFINE pay == Segment({"PSH", "ACK"}, sock[0].seq, sock[0].ack, 1, sends)
           k == RetxArm(Both, 0, pay)
           r == k.sock[0]
           s == [r EXCEPT !.seq = EndOf(pay)]
           u == Update(k, 0, s)
           fin == Segment({"FIN", "ACK"}, EndOf(pay), sock[0].ack, 0, 0)
           j == RetxArm(u, 0, fin)
           v == j.sock[0]
           e == [v EXCEPT !.seq = EndOf(fin), !.state = "FIN_WAIT"]
<1>1. /\ owned' = owned /\ peer' = peer /\ opens' = opens
      /\ Installed(k) \/ Installed(j) \/ Installed(Update(j, 0, e))
  BY DEF OneShotSend
<1>2. 0 \in Ids /\ 0 \notin PoolIds
  BY NumberFacts
<1>3. EndOf(pay) \in Numbers
  <2>1. sock[0].seq \in Numbers
    BY <1>2, TableFacts DEF SocketOK
  <2>2. pay.seq = sock[0].seq /\ pay.len = 1
    BY DEF Segment
  <2> HIDE DEF pay
  <2>3. pay.seq \in Int /\ pay.len \in Int
    BY <2>1, <2>2 DEF Numbers
  <2> QED BY ONLY <2>3, EndOfFact
<1>4. EndOf(fin) \in Numbers
  <2>1. fin.seq = EndOf(pay) /\ fin.len = 0
    BY DEF Segment
  <2> HIDE DEF fin, pay
  <2> QED BY <1>3, <2>1, NumberFacts, EndOfFact
<1> HIDE DEF pay, fin
<1>5. TcpOK(k, owned)
  BY <1>2, TableFacts, ArmOK
<1> HIDE DEF k
<1>6. TcpOK(u, owned)
  <2>1. SocketOK(r)
    BY <1>2, <1>5 DEF TcpOK, PairOK
  <2> HIDE DEF r
  <2>2. /\ DOMAIN s = SocketFields /\ SameHold(s, r) /\ s.seq = EndOf(pay)
        /\ s.state = r.state /\ s.listening = r.listening
    BY <2>1 DEF SocketOK, SocketFields, SameHold
  <2> HIDE DEF s
  <2>3. s.state \in States /\ s.listening \in BOOLEAN
    BY <2>1, <2>2 DEF SocketOK
  <2> QED BY <1>2, <1>3, <1>5, <2>2, <2>3, AdvanceOK DEF r
<1> HIDE DEF u
<1>7. TcpOK(j, owned)
  BY <1>2, <1>6, ArmOK DEF Live
<1> HIDE DEF j
<1>8. TcpOK(Update(j, 0, e), owned)
  <2>1. SocketOK(v)
    BY <1>2, <1>7 DEF TcpOK, PairOK
  <2> HIDE DEF v
  <2>2. /\ DOMAIN e = SocketFields /\ SameHold(e, v) /\ e.seq = EndOf(fin)
        /\ e.state = "FIN_WAIT" /\ e.listening = v.listening
    BY <2>1 DEF SocketOK, SocketFields, SameHold
  <2> HIDE DEF e
  <2>3. e.state \in States /\ e.listening \in BOOLEAN
    BY <2>1, <2>2 DEF SocketOK, States
  <2> QED BY <1>2, <1>4, <1>7, <2>2, <2>3, AdvanceOK DEF v
<1> QED BY <1>1, <1>5, <1>7, <1>8, NextTables, TableFacts

\* Every call of a program.
LEMMA TcpCallStep ==
    ASSUME TcpInv, Program \/ Blocked
    PROVE  TcpInv'
<1>1. 0 \in Ids
  BY NumberFacts
<1>2. CASE SocketOpen \/ LegacyListen \/ LegacyClose
  BY <1>1, <1>2, SocketOpenStep, ListenStep, LegacyCloseStep
<1>3. CASE \E i \in Ids : \/ SocketBind(i) \/ SocketListen(i) \/ SocketRecv(i)
                           \/ CloseFrees(i) \/ CloseSendsFin(i)
  BY <1>3, SocketBindStep, ListenStep, SocketRecvStep, CloseFreesStep, CloseSendsFinStep
<1>4. CASE ConnectReturns \/ CallTimeout
  BY <1>4, SameTables DEF ConnectReturns, CallTimeout
<1>11. CASE \E i \in Ids : AcceptStart(i)
  BY <1>11, SameTables DEF AcceptStart
<1>5. CASE \E i \in Ids : \E ok \in Oks : \/ \E c \in Servers : ConnectStart(i, c, ok)
                                          \/ \E n \in SendLens : SocketSend(i, n, ok)
  BY <1>5, ConnectStep, SocketSendStep
<1>6. CASE \E c \in Servers, ok \in Oks : OneShotStart(c, ok)
  BY <1>1, <1>6, ConnectStep
<1>7. CASE \E l \in PoolIds : \E n \in DOMAIN sock[l].backlog :
             AcceptReturns(l, n) \/ AcceptReclaims(l, n)
  BY <1>7, AcceptStep
<1>8. CASE \E d \in Oks, f \in Oks : OneShotSend(d, f)
  BY <1>8, OneShotSendStep
<1>9. CASE Program
  <2>1. \/ SocketOpen \/ LegacyListen \/ LegacyClose
        \/ \E i \in Ids : \/ SocketBind(i) \/ SocketListen(i) \/ SocketRecv(i)
                           \/ CloseFrees(i) \/ CloseSendsFin(i)
        \/ \E i \in Ids : AcceptStart(i)
        \/ \E i \in Ids : \E ok \in Oks : \/ \E c \in Servers : ConnectStart(i, c, ok)
                                          \/ \E n \in SendLens : SocketSend(i, n, ok)
        \/ \E c \in Servers, ok \in Oks : OneShotStart(c, ok)
    BY <1>9 DEF Program
  <2> QED BY <1>2, <1>3, <1>11, <1>5, <1>6, <2>1
<1>10. CASE Blocked
  BY <1>4, <1>7, <1>8, <1>10 DEF Blocked
<1> QED BY <1>9, <1>10

\* What the remote hosts do changes only what they have sent.
LEMMA PeersStep ==
    ASSUME TcpInv, Peers
    PROVE  TcpInv'
<1>1. PICK c \in Conns : \/ PeerConnects(c) \/ PeerSends(c) \/ PeerFinishes(c) \/ PeerResets(c)
                         \/ \E m \in out[c] : PeerHandshake(c, m) \/ PeerReceives(c, m)
  BY DEF Peers
<1> DEFINE p == peer[c]
           fields == {"state", "snd", "fin", "acks", "rcv", "in"}
<1>2. DOMAIN peer = Conns /\ DOMAIN p = fields /\ p.snd \in Nat
  BY DEF TcpInv, PeersOK
<1>3. ASSUME NEW q, PeerBecomes(c, q), DOMAIN q = fields, q.snd \in Nat
      PROVE  TcpInv'
  <2>1. /\ peer' = [peer EXCEPT ![c] = q] /\ Installed(Both)
        /\ owned' = owned /\ opens' = opens
    BY <1>3 DEF PeerBecomes, Installed, Both
  <2>2. TcpOK(Both, owned)'
    BY <2>1, InstalledOK DEF TcpInv
  <2>3. PeersOK'
    BY <1>2, <1>3, <2>1 DEF TcpInv, PeersOK
  <2> QED BY <2>1, <2>2, <2>3 DEF TcpInv
<1>4. ASSUME NEW n
      PROVE  DOMAIN Acknowledging(p, n) = fields /\ Acknowledging(p, n).snd = p.snd
  <2> HIDE DEF p
  <2> QED BY <1>2 DEF Acknowledging
<1>5. CASE PeerConnects(c) \/ PeerResets(c)
  <2>1. \E x : PeerBecomes(c, [p EXCEPT !.state = x])
    BY <1>5 DEF PeerConnects, PeerResets
  <2>2. PICK x : PeerBecomes(c, [p EXCEPT !.state = x])
    BY <2>1
  <2> DEFINE q == [p EXCEPT !.state = x]
  <2> HIDE DEF p
  <2>3. DOMAIN q = fields /\ q.snd = p.snd
    BY <1>2
  <2> HIDE DEF q
  <2> QED BY <1>2, <1>3, <2>2, <2>3 DEF q
<1>6. CASE PeerSends(c)
  <2> DEFINE q == [p EXCEPT !.snd = @ + 1]
  <2>1. PeerBecomes(c, q)
    BY <1>6 DEF PeerSends
  <2> HIDE DEF p
  <2>2. DOMAIN q = fields /\ q.snd = p.snd + 1
    BY <1>2
  <2> HIDE DEF q
  <2> QED BY <1>2, <1>3, <2>1, <2>2
<1>7. CASE PeerFinishes(c)
  <2> DEFINE q == [p EXCEPT !.fin = TRUE]
  <2>1. PeerBecomes(c, q)
    BY <1>7 DEF PeerFinishes
  <2> HIDE DEF p
  <2>2. DOMAIN q = fields /\ q.snd = p.snd
    BY <1>2
  <2> HIDE DEF q
  <2> QED BY <1>2, <1>3, <2>1, <2>2
<1>8. CASE \E m \in out[c] : PeerHandshake(c, m) \/ PeerReceives(c, m)
  <2>1. PICK m \in out[c] : PeerHandshake(c, m) \/ PeerReceives(c, m)
    BY <1>8
  <2>2. CASE PeerHandshake(c, m)
    <3> DEFINE a == Acknowledging(p, Plus(m.seq, 1))
    <3>1. \E x : PeerBecomes(c, [a EXCEPT !.state = x])
      BY <2>2 DEF PeerHandshake
    <3>2. PICK x : PeerBecomes(c, [a EXCEPT !.state = x])
      BY <3>1
    <3> DEFINE q == [a EXCEPT !.state = x]
    <3>3. DOMAIN a = fields /\ a.snd = p.snd
      BY <1>4
    <3> HIDE DEF p, a
    <3>4. DOMAIN q = fields /\ q.snd = p.snd
      BY <3>3
    <3>5. PeerBecomes(c, q)
      BY <3>2
    <3> HIDE DEF q
    <3> QED BY <1>2, <1>3, <3>4, <3>5
  <2>3. CASE PeerReceives(c, m)
    <3> DEFINE a == Acknowledging(p, EndOf(m))
               q == [a EXCEPT !.state = "est",
                              !.in = IF m.len > 0 THEN Append(@, m.data) ELSE @]
    <3>1. PeerBecomes(c, q)
      BY <2>3 DEF PeerReceives
    <3>2. DOMAIN a = fields /\ a.snd = p.snd
      BY <1>4
    <3> HIDE DEF p, a
    <3>3. DOMAIN q = fields /\ q.snd = p.snd
      BY <3>2
    <3> HIDE DEF q
    <3> QED BY <1>2, <1>3, <3>1, <3>3
  <2> QED BY <2>1, <2>2, <2>3
<1> QED BY <1>1, <1>5, <1>6, <1>7, <1>8

-----------------------------------------------------------------------------
(* The invariant *)

\* net_init leaves no socket in use and one timer running.
LEMMA TcpInitially == Init => TcpInv
<1> SUFFICES ASSUME Init PROVE TcpInv
  OBVIOUS
<1> DEFINE e == [Cleared EXCEPT !.timer = -1]
<1>1. /\ SocketOK(e) /\ e.backlog = <<>> /\ ~e.armed /\ ~e.listening /\ ~e.inUse /\ e.timer = -1
  BY ClearedOK
<1>2. /\ Both.sock = [i \in Ids |-> e] /\ owned = {} /\ opens = 0
      /\ Both.timers = [t \in Slots |-> IF t = 0 THEN ArpAge ELSE Inactive]
      /\ DOMAIN Both = {"sock", "timers"}
  BY DEF Init, Both
<1> HIDE DEF e
<1>3. PairOK(Both)
  BY <1>1, <1>2 DEF PairOK
<1>4. TimersOK(Both)
  BY <1>1, <1>2, NumberFacts DEF TimersOK
<1>5. BacklogsOK(Both, owned)
  BY <1>1, <1>2, NumberFacts, EmptySeq DEF BacklogsOK
<1>6. PeersOK
  <2>1. peer = [c \in Conns |-> NewPeer(c)]
    BY DEF Init
  <2> QED BY <2>1 DEF PeersOK, NewPeer
<1> QED BY <1>2, <1>3, <1>4, <1>5, <1>6 DEF TcpInv, TcpOK

\* Every step, and a stutter, keep it.
LEMMA TcpInductive == TcpInv /\ (Next \/ UNCHANGED vars) => TcpInv'
<1>1. TcpInv /\ UNCHANGED vars => TcpInv'
  BY SameTables DEF vars
<1> QED BY <1>1, TcpPollStep, TcpCallStep, PeersStep DEF Next

\* The three properties the run checks of the sockets.
LEMMA TcpMeaning == TcpInv => TypeOK /\ TimerSound /\ BacklogSound
<1> SUFFICES ASSUME TcpInv PROVE TypeOK /\ TimerSound /\ BacklogSound
  OBVIOUS
<1>1. /\ PairOK(Both) /\ TimersOK(Both) /\ BacklogsOK(Both, owned)
      /\ Both.sock = sock /\ Both.timers = timers
  BY DEF TcpInv, TcpOK, Both
<1>2. TypeOK
  <2>1. \A t \in Slots : timers[t] \in Ids \cup {Inactive, ArpAge}
    BY <1>1 DEF PairOK
  <2>2. owned \subseteq PoolIds
    BY <1>1 DEF BacklogsOK
  <2>3. \A i \in Ids : SocketOK(sock[i])
    BY <1>1 DEF PairOK
  <2> QED BY <2>1, <2>2, <2>3 DEF TypeOK, SocketOK, Numbers
<1>3. TimerSound
  BY <1>1 DEF TimerSound, TimersOK, Live
<1>4. BacklogSound
  <2> SUFFICES ASSUME NEW l \in Ids, NEW n \in 1 .. Backlog, n <= Len(sock[l].backlog)
               PROVE  LET i == sock[l].backlog[n] IN
                      /\ i # l /\ i \in PoolIds \ owned /\ sock[i].inUse /\ l \in owned
                      /\ \A k \in Ids, j \in 1 .. Backlog :
                           j <= Len(sock[k].backlog) /\ sock[k].backlog[j] = i => k = l /\ j = n
    BY DEF BacklogSound
  <2> DEFINE i == sock[l].backlog[n]
  <2>1. /\ \A k \in Ids : sock[k].backlog \in Seq(PoolIds) /\ Len(sock[k].backlog) \in Nat
        /\ Backlog \in Nat
    <3>1. \A k \in Ids : sock[k].backlog \in Seq(PoolIds)
      BY <1>1 DEF PairOK, SocketOK
    <3> QED BY <3>1, LenProperties, TcpAssumption
  <2>2. \A k \in Ids, j \in 1 .. Backlog : j <= Len(sock[k].backlog) => j \in 1 .. Len(sock[k].backlog)
    BY <2>1
  <2>3. n \in 1 .. Len(sock[l].backlog)
    BY <2>2
  <2>4. i \in PoolIds
    BY <1>1, <2>3, EntryFact
  <2>5. i \notin owned /\ sock[i].inUse
    BY <1>1, <2>3 DEF BacklogsOK
  <2>6. l \in owned
    <3>1. sock[l].backlog # <<>>
      BY <2>3, EmptySeq
    <3> QED BY <1>1, <3>1 DEF BacklogsOK
  <2>7. \A k \in Ids, j \in 1 .. Backlog :
          j <= Len(sock[k].backlog) /\ sock[k].backlog[j] = i => k = l /\ j = n
    <3> SUFFICES ASSUME NEW k \in Ids, NEW j \in 1 .. Backlog, j <= Len(sock[k].backlog),
                        sock[k].backlog[j] = i
                 PROVE  k = l /\ j = n
      OBVIOUS
    <3>1. j \in 1 .. Len(sock[k].backlog) /\ sock[k].backlog[j] = sock[l].backlog[n]
      BY <2>2
    <3> QED BY <1>1, <2>3, <3>1 DEF BacklogsOK
  <2> QED BY <2>4, <2>5, <2>6, <2>7
<1> QED BY <1>2, <1>3, <1>4
=============================================================================
