---------------------------- MODULE UserFdProofs ----------------------------
(***************************************************************************)
(* What is proved about UserFd and the rings it is built on, for every     *)
(* number of descriptors, pipes, PTYs and tasks, every buffer size, and    *)
(* all strings and read lengths.                                           *)
(***************************************************************************)
EXTENDS UserFd, Counting, SequenceTheorems

(***************************************************************************)
(* Rings.  CopyInFact and CopyOutFact say what the copy loops do to the    *)
(* content of a ring, wherever its positions are.                          *)
(***************************************************************************)

\* The smallest of three numbers.
LEMMA LeastOfThree ==
    ASSUME NEW a \in Int, NEW b \in Int, NEW c \in Int
    PROVE  /\ Least({a, b, c}) \in {a, b, c}
           /\ Least({a, b, c}) <= a /\ Least({a, b, c}) <= b /\ Least({a, b, c}) <= c
<1>1. \E x \in {a, b, c} : \A y \in {a, b, c} : x <= y
  OBVIOUS
<1> QED BY <1>1 DEF Least

\* A position that has wrapped once at most.
LEMMA Wrapped ==
    ASSUME NEW cap \in Nat \ {0}, NEW x \in Nat, x < cap + cap
    PROVE  x % cap = IF x < cap THEN x ELSE x - cap
<1>1. CASE x < cap
  BY <1>1
<1>2. CASE x >= cap
  BY <1>2
<1> QED BY <1>1, <1>2

\* A function on an initial segment is a sequence.
LEMMA SeqOfFunction ==
    ASSUME NEW S, NEW n \in Nat, NEW f \in [1 .. n -> S]
    PROVE  f \in Seq(S) /\ Len(f) = n /\ DOMAIN f = 1 .. n
OBVIOUS

\* The write position is where the bytes in use end.
Aligned(r, cap) == r.rpos + r.used = r.wpos \/ r.rpos + r.used = r.wpos + cap

RingOK(r, cap) == r \in Rings(cap) /\ Aligned(r, cap)

\* The fields of a ring, and that they make one.
LEMMA RingFields ==
    ASSUME NEW cap \in Nat \ {0}, NEW r
    PROVE  r \in Rings(cap) <=>
             /\ r = [cells |-> r.cells, rpos |-> r.rpos, wpos |-> r.wpos, used |-> r.used]
             /\ r.cells \in [1 .. cap -> Bytes] /\ r.rpos \in 0 .. cap - 1
             /\ r.wpos \in 0 .. cap - 1 /\ r.used \in 0 .. cap
BY DEF Rings

\* The content of a ring is a sequence of as many bytes as are in use.
LEMMA ContentFact ==
    ASSUME NEW cap \in Nat \ {0}, NEW r \in Rings(cap)
    PROVE  /\ Cap(r) = cap /\ Content(r) \in Seq(Bytes) /\ Len(Content(r)) = r.used
           /\ \A i \in 1 .. r.used :
                /\ (r.rpos + i - 1) % cap \in 0 .. cap - 1
                /\ Content(r)[i] = r.cells[((r.rpos + i - 1) % cap) + 1]
<1>1. Cap(r) = cap
  BY RingFields DEF Cap
<1>2. \A i \in 1 .. r.used : (r.rpos + i - 1) % cap \in 0 .. cap - 1
  BY RingFields
<1>3. Content(r) \in [1 .. r.used -> Bytes]
  BY <1>1, <1>2, RingFields DEF Content, Cell
<1>4. r.used \in Nat
  BY RingFields
<1> QED BY <1>1, <1>2, <1>3, <1>4, SeqOfFunction DEF Content, Cell

InPlace(cap, rp, wp, us, n) ==
    /\ (wp + n) % cap \in 0 .. cap - 1 /\ us + n \in 0 .. cap
    /\ rp + us + n = (wp + n) % cap \/ rp + us + n = ((wp + n) % cap) + cap
    /\ \A i \in 1 .. us : (rp + i - 1) % cap \notin wp .. wp + n - 1
    /\ \A i \in us + 1 .. us + n : (rp + i - 1) % cap = wp + (i - us) - 1

\* Where a pass that copies n bytes in leaves the positions, and where the i-th
\* byte is kept before and after it.
LEMMA InPositions ==
    ASSUME NEW cap \in Nat \ {0}, NEW rp \in 0 .. cap - 1, NEW wp \in 0 .. cap - 1,
           NEW us \in 0 .. cap, rp + us = wp \/ rp + us = wp + cap,
           NEW n \in Nat, n <= cap - wp, n <= cap - us
    PROVE  InPlace(cap, rp, wp, us, n)
<1>1. (wp + n) % cap = IF wp + n < cap THEN wp + n ELSE wp + n - cap
  <2>1. wp + n \in Nat /\ wp + n < cap + cap
    OBVIOUS
  <2> QED BY <2>1, Wrapped
<1>2. ASSUME NEW i \in 1 .. us + n
      PROVE  (rp + i - 1) % cap = IF rp + i - 1 < cap THEN rp + i - 1 ELSE rp + i - 1 - cap
  <2> DEFINE x == rp + i - 1
  <2>1. x \in Nat /\ x < cap + cap
    OBVIOUS
  <2> HIDE DEF x
  <2>2. x % cap = IF x < cap THEN x ELSE x - cap
    BY <2>1, Wrapped
  <2> QED BY <2>2 DEF x
<1>3. ASSUME NEW i \in 1 .. us PROVE (rp + i - 1) % cap \notin wp .. wp + n - 1
  <2>1. (rp + i - 1) % cap = IF rp + i - 1 < cap THEN rp + i - 1 ELSE rp + i - 1 - cap
    BY <1>2
  <2> QED BY <2>1
<1>4. ASSUME NEW i \in us + 1 .. us + n PROVE (rp + i - 1) % cap = wp + (i - us) - 1
  <2>1. (rp + i - 1) % cap = IF rp + i - 1 < cap THEN rp + i - 1 ELSE rp + i - 1 - cap
    BY <1>2
  <2> QED BY <2>1
<1> QED BY <1>1, <1>3, <1>4 DEF InPlace

\* A prefix of s is appended to r, the rest is left.
CopiedIn(r, s, st, cap) ==
    \E n \in 0 .. Len(s) :
      /\ RingOK(st.ring, cap)
      /\ st.left = SubSeq(s, n + 1, Len(s))
      /\ Content(st.ring) = Content(r) \o SubSeq(s, 1, n)

\* One pass of the copy-in loop appends what it copies.
LEMMA InPassFact ==
    ASSUME NEW cap \in Nat \ {0}, NEW r, RingOK(r, cap), NEW s \in Seq(Bytes),
           NEW st, st = InPass([ring |-> r, left |-> s])
    PROVE  CopiedIn(r, s, st, cap)
<1> DEFINE n == Least({cap - r.wpos, cap - r.used, Len(s)})
           w == st.ring
           rp == r.rpos
           wp == r.wpos
           us == r.used
<1>1. /\ r.cells \in [1 .. cap -> Bytes] /\ rp \in 0 .. cap - 1
      /\ wp \in 0 .. cap - 1 /\ us \in 0 .. cap
  BY RingFields DEF RingOK
<1>a. /\ r = [cells |-> r.cells, rpos |-> r.rpos, wpos |-> r.wpos, used |-> r.used]
      /\ DOMAIN r = {"cells", "rpos", "wpos", "used"} /\ r \in Rings(cap)
  <2>1. r = [cells |-> r.cells, rpos |-> r.rpos, wpos |-> r.wpos, used |-> r.used]
    BY RingFields DEF RingOK
  <2> QED BY <2>1 DEF RingOK
<1>b. /\ Cap(r) = cap /\ Len(s) \in Nat /\ Content(r) \in Seq(Bytes) /\ Len(Content(r)) = us
      /\ \A i \in 1 .. us : Content(r)[i] = r.cells[((rp + i - 1) % cap) + 1]
  BY <1>a, ContentFact, LenProperties
<1>c. rp + us = wp \/ rp + us = wp + cap
  BY DEF RingOK, Aligned
<1>2. n \in Nat /\ n <= Len(s) /\ n <= cap - wp /\ n <= cap - us
  <2>1. /\ cap - wp \in Int /\ cap - us \in Int /\ Len(s) \in Int
        /\ cap - wp \in Nat /\ cap - us \in Nat
    BY <1>1, <1>b
  <2>2. n \in {cap - wp, cap - us, Len(s)} /\ n <= Len(s) /\ n <= cap - wp /\ n <= cap - us
    BY <2>1, LeastOfThree
  <2> QED BY <1>b, <2>1, <2>2
<1>3. /\ w = [r EXCEPT !.cells = Filled(r, s, n), !.wpos = (wp + n) % cap, !.used = us + n]
      /\ st.left = SubSeq(s, n + 1, Len(s))
  BY <1>b DEF InPass
<1>f. Filled(r, s, n) = [j \in 1 .. cap |-> IF j - 1 \in wp .. wp + n - 1 THEN s[j - wp]
                                            ELSE r.cells[j]]
  BY <1>1 DEF Filled
<1> HIDE DEF n, w
<1>4. /\ w = [cells |-> w.cells, rpos |-> w.rpos, wpos |-> w.wpos, used |-> w.used]
      /\ w.cells = Filled(r, s, n) /\ w.rpos = rp /\ w.wpos = (wp + n) % cap
      /\ w.used = us + n
  BY <1>3, <1>a
<1> HIDE DEF rp, wp, us
<1>5. /\ (wp + n) % cap \in 0 .. cap - 1 /\ us + n \in 0 .. cap
      /\ rp + us + n = (wp + n) % cap \/ rp + us + n = ((wp + n) % cap) + cap
      /\ \A i \in 1 .. us : (rp + i - 1) % cap \notin wp .. wp + n - 1
      /\ \A i \in us + 1 .. us + n : (rp + i - 1) % cap = wp + (i - us) - 1
  <2>1. InPlace(cap, rp, wp, us, n)
    BY <1>1, <1>c, <1>2, InPositions
  <2> QED BY <2>1 DEF InPlace
<1>6. /\ w.cells \in [1 .. cap -> Bytes]
      /\ \A j \in 1 .. cap : w.cells[j] = IF j - 1 \in wp .. wp + n - 1
                                          THEN s[j - wp] ELSE r.cells[j]
  <2>1. \A j \in 1 .. n : s[j] \in Bytes
    BY <1>2, <1>b, ElementOfSeq
  <2>2. \A j \in 1 .. cap : j - 1 \in wp .. wp + n - 1 => j - wp \in 1 .. n
    <3> TAKE j \in 1 .. cap
    <3> HAVE j - 1 \in wp .. wp + n - 1
    <3>1. j \in Int /\ wp \in Int /\ n \in Int
      BY <1>1, <1>2
    <3> QED BY ONLY <3>1, j - 1 \in wp .. wp + n - 1
  <2>3. \A j \in 1 .. cap : (IF j - 1 \in wp .. wp + n - 1 THEN s[j - wp] ELSE r.cells[j]) \in Bytes
    BY <1>1, <2>1, <2>2
  <2> QED BY <1>4, <1>f, <2>3
<1>7. w \in Rings(cap)
  <2>1. w.rpos \in 0 .. cap - 1 /\ w.wpos \in 0 .. cap - 1 /\ w.used \in 0 .. cap
    BY <1>1, <1>4, <1>5
  <2> QED BY <1>4, <1>6, <2>1, RingFields
<1>8. Aligned(w, cap)
  <2> DEFINE z == (wp + n) % cap
  <2>1. rp + us + n = z \/ rp + us + n = z + cap
    BY <1>5
  <2>2. rp \in Int /\ us \in Int /\ n \in Int
    BY <1>1, <1>2
  <2>3. w.wpos = z /\ w.rpos = rp /\ w.used = us + n
    BY <1>4
  <2> HIDE DEF z, rp, us, wp
  <2>4. rp + (us + n) = rp + us + n
    BY ONLY <2>2
  <2> QED BY ONLY <2>1, <2>3, <2>4 DEF Aligned
<1>9. Content(w) = Content(r) \o SubSeq(s, 1, n)
  <2> DEFINE t == SubSeq(s, 1, n)
  <2>1. t \in Seq(Bytes) /\ Len(t) = n /\ \A i \in 1 .. n : t[i] = s[i]
    <3>1. \A i \in 1 .. n : s[i] \in Bytes
      BY <1>2, <1>b, ElementOfSeq
    <3>2. /\ t \in Seq(Bytes) /\ Len(t) = (IF 1 <= n THEN n - 1 + 1 ELSE 0)
          /\ \A i \in 1 .. n - 1 + 1 : t[i] = s[1 + i - 1]
      BY <1>2, <3>1, SubSeqProperties
    <3> QED BY <1>2, <3>2
  <2> HIDE DEF t
  <2>2. /\ Content(w) \in Seq(Bytes) /\ Len(Content(w)) = us + n
        /\ \A i \in 1 .. us + n : /\ (rp + i - 1) % cap \in 0 .. cap - 1
                                  /\ Content(w)[i] = w.cells[((rp + i - 1) % cap) + 1]
    BY <1>4, <1>7, ContentFact
  <2>3. /\ Content(r) \o t \in Seq(Bytes) /\ Len(Content(r) \o t) = us + n
        /\ \A i \in 1 .. us + n :
             (Content(r) \o t)[i] = IF i <= us THEN Content(r)[i] ELSE t[i - us]
    <3> DEFINE x == Content(r)
    <3>1. x \in Seq(Bytes) /\ t \in Seq(Bytes) /\ Len(x) = us /\ Len(t) = n
      BY <1>b, <2>1
    <3> HIDE DEF x, us
    <3>2. /\ x \o t \in Seq(Bytes) /\ Len(x \o t) = us + n
          /\ \A i \in 1 .. us + n : (x \o t)[i] = IF i <= us THEN x[i] ELSE t[i - us]
      BY ONLY <3>1, ConcatProperties
    <3> QED BY <3>2 DEF x, us
  <2>4. ASSUME NEW i \in 1 .. us + n PROVE Content(w)[i] = (Content(r) \o t)[i]
    <3> DEFINE c == (rp + i - 1) % cap
    <3>2. c \in 0 .. cap - 1 /\ Content(w)[i] = w.cells[c + 1]
      BY <2>2
    <3>3. (Content(r) \o t)[i] = IF i <= us THEN Content(r)[i] ELSE t[i - us]
      BY <2>3
    <3>4. CASE i <= us
      <4>1. i \in 1 .. us
        BY <1>1, <1>2, <3>4
      <4>2. c \notin wp .. wp + n - 1 /\ Content(r)[i] = r.cells[c + 1]
        BY <1>5, <1>b, <4>1 DEF rp, us
      <4> HIDE DEF c
      <4>3. c + 1 \in 1 .. cap /\ (c + 1) - 1 = c
        BY <3>2
      <4>4. w.cells[c + 1] = r.cells[c + 1]
        BY <1>6, <4>2, <4>3
      <4> QED BY <3>2, <3>3, <3>4, <4>2, <4>4
    <3>5. CASE ~ (i <= us)
      <4>1. i \in us + 1 .. us + n /\ i - us \in 1 .. n
        BY <1>1, <1>2, <3>5
      <4>2. c = wp + (i - us) - 1
        BY <1>5, <4>1
      <4> HIDE DEF c
      <4>3. c + 1 \in 1 .. cap /\ (c + 1) - 1 \in wp .. wp + n - 1 /\ (c + 1) - wp = i - us
        BY <1>1, <1>2, <3>2, <4>1, <4>2
      <4>4. w.cells[c + 1] = s[i - us]
        BY <1>6, <4>3
      <4> QED BY <2>1, <3>2, <3>3, <3>5, <4>1, <4>4
    <3> QED BY <3>4, <3>5
  <2>5. us + n \in Nat
    BY <1>1, <1>2
  <2> QED BY <2>2, <2>3, <2>4, <2>5, SeqEqual DEF t
<1>10. n \in 0 .. Len(s)
  BY <1>2, <1>b
<1> QED BY <1>3, <1>7, <1>8, <1>9, <1>10 DEF RingOK, CopiedIn, w

IsSlice(S, s, m, hi) ==
    /\ SubSeq(s, m, hi) \in Seq(S) /\ Len(SubSeq(s, m, hi)) = hi - m + 1
    /\ \A i \in 1 .. hi - m + 1 : SubSeq(s, m, hi)[i] = s[m + i - 1]

\* A slice of a sequence, which may be empty.
LEMMA SliceFact ==
    ASSUME NEW S, NEW s \in Seq(S), NEW m \in Nat \ {0}, NEW hi \in Nat, m <= hi + 1,
           hi <= Len(s)
    PROVE  IsSlice(S, s, m, hi)
<1> DEFINE t == SubSeq(s, m, hi)
<1>1. Len(s) \in Nat /\ \A i \in 1 .. Len(s) : s[i] \in S
  BY LenProperties, ElementOfSeq
<1>2. \A i \in m .. hi : s[i] \in S
  BY <1>1
<1>3. /\ t \in Seq(S) /\ Len(t) = (IF m <= hi THEN hi - m + 1 ELSE 0)
      /\ \A i \in 1 .. hi - m + 1 : t[i] = s[m + i - 1]
  <2>1. m \in Int /\ hi \in Int
    OBVIOUS
  <2> QED BY <1>2, <2>1, SubSeqProperties
<1> HIDE DEF t
<1>4. Len(t) = hi - m + 1
  BY <1>3
<1> QED BY <1>3, <1>4 DEF IsSlice, t

\* A prefix of a sequence.
LEMMA PrefixFact ==
    ASSUME NEW S, NEW s \in Seq(S), NEW n \in Nat, n <= Len(s),
           NEW t, t = SubSeq(s, 1, n)
    PROVE  t \in Seq(S) /\ Len(t) = n /\ \A i \in 1 .. n : t[i] = s[i]
<1>1. 1 \in Nat \ {0} /\ 1 <= n + 1
  OBVIOUS
<1>2. IsSlice(S, s, 1, n)
  BY <1>1, SliceFact
<1>3. t \in Seq(S) /\ Len(t) = n - 1 + 1 /\ \A i \in 1 .. n - 1 + 1 : t[i] = s[1 + i - 1]
  BY <1>2 DEF IsSlice
<1> QED BY <1>3

CutAgain(S, s, n, t, k) ==
    /\ t \in Seq(S) /\ Len(t) = Len(s) - n /\ n + k \in 0 .. Len(s)
    /\ SubSeq(t, k + 1, Len(t)) = SubSeq(s, n + k + 1, Len(s))
    /\ SubSeq(s, 1, n) \o SubSeq(t, 1, k) = SubSeq(s, 1, n + k)

\* A sequence cut after n bytes and then after k more.
LEMMA CutTwice ==
    ASSUME NEW S, NEW s \in Seq(S), NEW n \in 0 .. Len(s),
           NEW t, t = SubSeq(s, n + 1, Len(s)), NEW k \in 0 .. Len(t)
    PROVE  CutAgain(S, s, n, t, k)
<1> DEFINE L == Len(s)
           a == SubSeq(s, 1, n)
           b == SubSeq(t, 1, k)
           c == SubSeq(s, 1, n + k)
           d == SubSeq(t, k + 1, Len(t))
           e == SubSeq(s, n + k + 1, L)
<1>1. L \in Nat /\ n \in Nat /\ n <= L
  BY LenProperties
<1> HIDE DEF L
<1>2. t \in Seq(S) /\ Len(t) = L - n /\ \A i \in 1 .. L - n : t[i] = s[n + i]
  <2> DEFINE m == n + 1
  <2>1. m \in Nat \ {0} /\ m <= L + 1 /\ m = n + 1
    BY <1>1
  <2>2. t = SubSeq(s, m, L)
    BY DEF L
  <2> HIDE DEF m
  <2>3. IsSlice(S, s, m, L)
    BY <1>1, <2>1, SliceFact DEF L
  <2>4. t \in Seq(S) /\ Len(t) = L - m + 1 /\ \A i \in 1 .. L - m + 1 : t[i] = s[m + i - 1]
    BY <2>2, <2>3 DEF IsSlice
  <2>5. \A i \in 1 .. L - n : i \in 1 .. L - m + 1 /\ m + i - 1 = n + i
    BY <1>1, <2>1
  <2>6. L - m + 1 = L - n
    BY <1>1, <2>1
  <2>7. \A i \in 1 .. L - n : t[i] = s[n + i]
    BY ONLY <2>4, <2>5
  <2> QED BY ONLY <2>4, <2>6, <2>7
<1>3. k \in Nat /\ n + k \in Nat /\ n + k <= L /\ k <= L - n /\ L - n \in Nat
  BY <1>1, <1>2
<1> HIDE DEF a, b, c, d, e
<1>4. a \in Seq(S) /\ Len(a) = n /\ \A i \in 1 .. n : a[i] = s[i]
  <2>1. n \in Nat /\ n <= Len(s) /\ a = SubSeq(s, 1, n)
    BY <1>1 DEF a, L
  <2> QED BY <2>1, PrefixFact
<1>5. b \in Seq(S) /\ Len(b) = k /\ \A i \in 1 .. k : b[i] = s[n + i]
  <2>1. b \in Seq(S) /\ Len(b) = k /\ \A i \in 1 .. k : b[i] = t[i]
    <3>1. t \in Seq(S) /\ k \in Nat /\ k <= Len(t) /\ b = SubSeq(t, 1, k)
      BY <1>2, <1>3 DEF b
    <3> QED BY ONLY <3>1, PrefixFact
  <2>2. \A i \in 1 .. k : i \in 1 .. L - n
    BY <1>3, <1>1
  <2>3. \A i \in 1 .. L - n : t[i] = s[n + i]
    BY <1>2
  <2>4. \A i \in 1 .. k : b[i] = s[n + i]
    BY ONLY <2>1, <2>2, <2>3
  <2> QED BY ONLY <2>1, <2>4
<1>6. c \in Seq(S) /\ Len(c) = n + k /\ \A i \in 1 .. n + k : c[i] = s[i]
  <2>1. n + k \in Nat /\ n + k <= Len(s) /\ c = SubSeq(s, 1, n + k)
    BY <1>1, <1>3 DEF c, L
  <2> QED BY <2>1, PrefixFact
<1>7. d \in Seq(S) /\ Len(d) = L - n - k /\ \A i \in 1 .. L - n - k : d[i] = s[n + k + i]
  <2> DEFINE M == Len(t)
             m == k + 1
  <2>1. M \in Nat /\ m \in Nat \ {0} /\ m <= M + 1 /\ M = L - n /\ m = k + 1
    BY <1>2, <1>3
  <2>2. d = SubSeq(t, m, M)
    BY DEF d
  <2> HIDE DEF M, m
  <2>3. IsSlice(S, t, m, M)
    <3>1. t \in Seq(S) /\ M <= Len(t)
      BY <1>2, <2>1 DEF M
    <3> QED BY ONLY <2>1, <3>1, SliceFact
  <2>4. d \in Seq(S) /\ Len(d) = M - m + 1 /\ \A i \in 1 .. M - m + 1 : d[i] = t[m + i - 1]
    BY <2>2, <2>3 DEF IsSlice
  <2>5. \A i \in 1 .. L - n - k :
          i \in 1 .. M - m + 1 /\ m + i - 1 \in 1 .. L - n /\ n + (m + i - 1) = n + k + i
    BY <1>1, <1>3, <2>1
  <2>6. M - m + 1 = L - n - k
    BY <1>1, <1>3, <2>1
  <2>7. ASSUME NEW i \in 1 .. L - n - k PROVE d[i] = s[n + k + i]
    <3>1. d[i] = t[m + i - 1]
      BY <2>4, <2>5
    <3>2. t[m + i - 1] = s[n + (m + i - 1)]
      BY <1>2, <2>5
    <3> QED BY <2>5, <3>1, <3>2
  <2> QED BY <2>4, <2>6, <2>7
<1>8. e \in Seq(S) /\ Len(e) = L - n - k /\ \A i \in 1 .. L - n - k : e[i] = s[n + k + i]
  <2> DEFINE m == n + k + 1
  <2>1. m \in Nat \ {0} /\ m <= L + 1 /\ m = n + k + 1
    BY <1>1, <1>3
  <2>2. e = SubSeq(s, m, L)
    BY DEF e
  <2> HIDE DEF m
  <2>3. IsSlice(S, s, m, L)
    BY <1>1, <2>1, SliceFact DEF L
  <2>4. e \in Seq(S) /\ Len(e) = L - m + 1 /\ \A i \in 1 .. L - m + 1 : e[i] = s[m + i - 1]
    BY <2>2, <2>3 DEF IsSlice
  <2>5. \A i \in 1 .. L - n - k : i \in 1 .. L - m + 1 /\ m + i - 1 = n + k + i
    BY <1>1, <1>3, <2>1
  <2>6. L - m + 1 = L - n - k
    BY <1>1, <1>3, <2>1
  <2> QED BY <2>4, <2>5, <2>6
<1>9. d = e
  BY <1>7, <1>8, SeqEqual
<1>10. a \o b = c
  <2>1. /\ a \o b \in Seq(S) /\ Len(a \o b) = n + k
        /\ \A i \in 1 .. n + k : (a \o b)[i] = IF i <= n THEN a[i] ELSE b[i - n]
    <3>1. a \in Seq(S) /\ b \in Seq(S) /\ Len(a) = n /\ Len(b) = k
      BY <1>4, <1>5
    <3> QED BY ONLY <3>1, ConcatProperties
  <2>2. ASSUME NEW i \in 1 .. n + k PROVE (a \o b)[i] = c[i]
    <3>1. CASE i <= n
      <4>1. i \in 1 .. n
        BY <1>1, <3>1
      <4> QED BY <1>4, <1>6, <2>1, <3>1, <4>1
    <3>2. CASE ~ (i <= n)
      <4>1. i - n \in 1 .. k /\ n + (i - n) = i
        BY <1>1, <1>3, <3>2
      <4> QED BY <1>5, <1>6, <2>1, <3>2, <4>1
    <3> QED BY <3>1, <3>2
  <2> QED BY <1>6, <2>1, <2>2, SeqEqual
<1> QED BY <1>2, <1>1, <1>3, <1>9, <1>10 DEF CutAgain, a, b, c, d, e, L

\* The copy-in loop appends what it copies, and leaves the rest.
LEMMA CopyInFact ==
    ASSUME NEW cap \in Nat \ {0}, NEW r, RingOK(r, cap), NEW s \in Seq(Bytes)
    PROVE  CopiedIn(r, s, CopyIn(r, s), cap)
<1> DEFINE u == InPass([ring |-> r, left |-> s])
           x == u.ring
           y == u.left
           v == InPass([ring |-> x, left |-> y])
<1>1. u = [ring |-> x, left |-> y]
  BY DEF InPass
<1>2. CopyIn(r, s) = v
  BY <1>1 DEF CopyIn
<1>3. PICK n \in 0 .. Len(s) :
         /\ RingOK(x, cap) /\ y = SubSeq(s, n + 1, Len(s))
         /\ Content(x) = Content(r) \o SubSeq(s, 1, n)
  <2>1. u = InPass([ring |-> r, left |-> s])
    OBVIOUS
  <2> HIDE DEF u
  <2>2. CopiedIn(r, s, u, cap)
    BY <2>1, InPassFact
  <2> QED BY <2>2 DEF CopiedIn
<1> HIDE DEF x, y, u
<1>4. y \in Seq(Bytes) /\ n \in Nat /\ Len(s) \in Nat
  <2>1. Len(s) \in Nat /\ n \in Nat /\ n <= Len(s)
    BY LenProperties
  <2>2. 0 \in 0 .. Len(y)
    <3>1. Len(y) \in Nat
      BY <1>3
    <3> QED BY <3>1
  <2>3. CutAgain(Bytes, s, n, y, 0)
    BY <1>3, <2>2, CutTwice
  <2> QED BY <2>1, <2>3 DEF CutAgain
<1>5. PICK k \in 0 .. Len(y) :
         /\ RingOK(v.ring, cap) /\ v.left = SubSeq(y, k + 1, Len(y))
         /\ Content(v.ring) = Content(x) \o SubSeq(y, 1, k)
  <2>1. v = InPass([ring |-> x, left |-> y])
    OBVIOUS
  <2> HIDE DEF v
  <2>2. CopiedIn(x, y, v, cap)
    BY <1>3, <1>4, <2>1, InPassFact
  <2> QED BY <2>2 DEF CopiedIn
<1> HIDE DEF v
<1>6. /\ n + k \in 0 .. Len(s) /\ SubSeq(y, k + 1, Len(y)) = SubSeq(s, n + k + 1, Len(s))
      /\ SubSeq(s, 1, n) \o SubSeq(y, 1, k) = SubSeq(s, 1, n + k)
  <2>1. CutAgain(Bytes, s, n, y, k)
    BY <1>3, CutTwice
  <2> QED BY <2>1 DEF CutAgain
<1>7. Content(v.ring) = Content(r) \o SubSeq(s, 1, n + k)
  <2> DEFINE a == SubSeq(s, 1, n)
             b == SubSeq(y, 1, k)
  <2>1. Content(r) \in Seq(Bytes)
    BY ContentFact DEF RingOK
  <2>2. a \in Seq(Bytes)
    <3>1. n <= Len(s)
      BY <1>4
    <3> QED BY <1>4, <3>1, PrefixFact
  <2>3. b \in Seq(Bytes)
    <3>1. k \in Nat /\ k <= Len(y)
      BY <1>4, LenProperties
    <3> QED BY <1>4, <3>1, PrefixFact
  <2> HIDE DEF a, b
  <2>4. (Content(r) \o a) \o b = Content(r) \o (a \o b)
    <3> DEFINE c == Content(r)
    <3>1. c \in Seq(Bytes)
      BY <2>1
    <3> HIDE DEF c
    <3>2. (c \o a) \o b = c \o (a \o b)
      BY ONLY <2>2, <2>3, <3>1, ConcatAssociative, SMTT(30)
    <3> QED BY <3>2 DEF c
  <2> QED BY <1>3, <1>5, <1>6, <2>4 DEF a, b
<1> QED BY <1>2, <1>5, <1>6, <1>7 DEF CopiedIn

OutPlace(cap, rp, wp, us, n) ==
    /\ (rp + n) % cap \in 0 .. cap - 1 /\ us - n \in 0 .. cap
    /\ ((rp + n) % cap) + (us - n) = wp \/ ((rp + n) % cap) + (us - n) = wp + cap
    /\ \A i \in 1 .. n : (rp + i - 1) % cap = rp + i - 1
    /\ \A i \in 1 .. us - n : (((rp + n) % cap) + i - 1) % cap = (rp + (n + i) - 1) % cap

\* Where a pass that copies n bytes out leaves the positions, and where the bytes
\* that stay are counted from then on.
LEMMA OutPositions ==
    ASSUME NEW cap \in Nat \ {0}, NEW rp \in 0 .. cap - 1, NEW wp \in 0 .. cap - 1,
           NEW us \in 0 .. cap, rp + us = wp \/ rp + us = wp + cap,
           NEW n \in Nat, n <= cap - rp, n <= us
    PROVE  OutPlace(cap, rp, wp, us, n)
<1> DEFINE z == (rp + n) % cap
<1>1. z = IF rp + n < cap THEN rp + n ELSE rp + n - cap
  <2> DEFINE x == rp + n
  <2>1. x \in Nat /\ x < cap + cap
    OBVIOUS
  <2> HIDE DEF x
  <2>2. x % cap = IF x < cap THEN x ELSE x - cap
    BY <2>1, Wrapped
  <2> QED BY <2>2 DEF x
<1> HIDE DEF z
<1>2. z \in 0 .. cap - 1 /\ us - n \in 0 .. cap
      /\ (z + (us - n) = wp \/ z + (us - n) = wp + cap)
  BY <1>1
<1>3. ASSUME NEW i \in 1 .. n PROVE (rp + i - 1) % cap = rp + i - 1
  <2> DEFINE x == rp + i - 1
  <2>1. x \in Nat /\ x < cap + cap /\ x < cap
    OBVIOUS
  <2> HIDE DEF x
  <2>2. x % cap = x
    BY <2>1, Wrapped
  <2> QED BY <2>2 DEF x
<1>4. ASSUME NEW i \in 1 .. us - n PROVE (z + i - 1) % cap = (rp + (n + i) - 1) % cap
  <2> DEFINE x == z + i - 1
             y == rp + (n + i) - 1
  <2>1. x \in Nat /\ x < cap + cap /\ y \in Nat /\ y < cap + cap
        /\ (x = y \/ (x = y - cap /\ y >= cap))
    BY <1>1
  <2> HIDE DEF x, y
  <2>2. /\ x % cap = IF x < cap THEN x ELSE x - cap
        /\ y % cap = IF y < cap THEN y ELSE y - cap
    BY <2>1, Wrapped
  <2>3. x % cap = y % cap
    BY <2>1, <2>2
  <2> QED BY <2>3 DEF x, y
<1> QED BY <1>2, <1>3, <1>4 DEF OutPlace, z

\* Some bytes g go from the front of r to the end of what the reader has.
CopiedOut(r, got, st, cap, maxlen) ==
    \E g \in Seq(Bytes) :
      /\ RingOK(st.ring, cap)
      /\ st.got = got \o g /\ Len(got) + Len(g) <= maxlen
      /\ Content(r) = g \o Content(st.ring)

\* One pass of the copy-out loop takes from the front what it copies.
LEMMA OutPassFact ==
    ASSUME NEW cap \in Nat \ {0}, NEW r, RingOK(r, cap), NEW got \in Seq(Bytes),
           NEW maxlen \in Nat, Len(got) <= maxlen,
           NEW st, st = OutPass([ring |-> r, got |-> got], maxlen)
    PROVE  CopiedOut(r, got, st, cap, maxlen)
<1> DEFINE n == Least({cap - r.rpos, r.used, maxlen - Len(got)})
           w == st.ring
           g == [i \in 1 .. n |-> Cell(r, r.rpos + i - 1)]
           rp == r.rpos
           wp == r.wpos
           us == r.used
<1>1. /\ r.cells \in [1 .. cap -> Bytes] /\ rp \in 0 .. cap - 1
      /\ wp \in 0 .. cap - 1 /\ us \in 0 .. cap
  BY RingFields DEF RingOK
<1>a. /\ r = [cells |-> r.cells, rpos |-> r.rpos, wpos |-> r.wpos, used |-> r.used]
      /\ DOMAIN r = {"cells", "rpos", "wpos", "used"} /\ r \in Rings(cap)
  <2>1. r = [cells |-> r.cells, rpos |-> r.rpos, wpos |-> r.wpos, used |-> r.used]
    BY RingFields DEF RingOK
  <2> QED BY <2>1 DEF RingOK
<1>b. /\ Cap(r) = cap /\ Content(r) \in Seq(Bytes) /\ Len(Content(r)) = us /\ Len(got) \in Nat
      /\ \A i \in 1 .. us : Content(r)[i] = r.cells[((rp + i - 1) % cap) + 1]
  BY <1>a, ContentFact, LenProperties
<1>c. rp + us = wp \/ rp + us = wp + cap
  BY DEF RingOK, Aligned
<1>2. n \in Nat /\ n <= cap - rp /\ n <= us /\ Len(got) + n <= maxlen
  <2> DEFINE m == maxlen - Len(got)
             l == cap - rp
  <2>1. l \in Int /\ us \in Int /\ m \in Int /\ l \in Nat /\ us \in Nat /\ m \in Nat
    BY <1>1, <1>b
  <2>2. n \in {l, us, m} /\ n <= l /\ n <= us /\ n <= m
    <3> HIDE DEF l, m
    <3> QED BY <2>1, LeastOfThree DEF l, m
  <2> HIDE DEF n
  <2> QED BY <1>b, <2>1, <2>2
<1>3. /\ w = [r EXCEPT !.rpos = (rp + n) % cap, !.used = us - n]
      /\ st.got = got \o g
  BY <1>b DEF OutPass
<1> HIDE DEF n, w
<1>4. /\ w = [cells |-> w.cells, rpos |-> w.rpos, wpos |-> w.wpos, used |-> w.used]
      /\ w.cells = r.cells /\ w.rpos = (rp + n) % cap /\ w.wpos = wp /\ w.used = us - n
  BY <1>3, <1>a
<1>g. /\ g \in Seq(Bytes) /\ Len(g) = n
      /\ \A i \in 1 .. n : g[i] = r.cells[rp + i - 1 + 1]
  <2>1. ASSUME NEW i \in 1 .. n PROVE rp + i - 1 + 1 \in 1 .. cap
    <3>1. rp \in Nat /\ n \in Nat /\ rp + n <= cap /\ i \in Int /\ cap \in Int
      BY <1>1, <1>2
    <3> HIDE DEF rp
    <3> QED BY <3>1
  <2>2. g \in [1 .. n -> Bytes]
    BY <1>1, <2>1 DEF Cell
  <2>3. g \in Seq(Bytes) /\ Len(g) = n
    <3> HIDE DEF g
    <3> QED BY <1>2, <2>2, SeqOfFunction
  <2> QED BY <2>3 DEF Cell
<1> HIDE DEF rp, wp, us, g
<1>5. /\ (rp + n) % cap \in 0 .. cap - 1 /\ us - n \in 0 .. cap
      /\ ((rp + n) % cap) + (us - n) = wp \/ ((rp + n) % cap) + (us - n) = wp + cap
      /\ \A i \in 1 .. n : (rp + i - 1) % cap = rp + i - 1
      /\ \A i \in 1 .. us - n : (((rp + n) % cap) + i - 1) % cap = (rp + (n + i) - 1) % cap
  <2>1. OutPlace(cap, rp, wp, us, n)
    BY <1>1, <1>c, <1>2, OutPositions
  <2> QED BY <2>1 DEF OutPlace
<1>7. w \in Rings(cap)
  <2>1. w.rpos \in 0 .. cap - 1 /\ w.wpos \in 0 .. cap - 1 /\ w.used \in 0 .. cap
    BY <1>1, <1>4, <1>5
  <2> QED BY <1>1, <1>4, <2>1, RingFields
<1>8. Aligned(w, cap)
  BY <1>4, <1>5 DEF Aligned
<1>9. Content(r) = g \o Content(w)
  <2>2. /\ Content(w) \in Seq(Bytes) /\ Len(Content(w)) = us - n
        /\ \A i \in 1 .. us - n : Content(w)[i] = r.cells[((((rp + n) % cap) + i - 1) % cap) + 1]
    BY <1>4, <1>7, ContentFact
  <2>3. /\ g \o Content(w) \in Seq(Bytes) /\ Len(g \o Content(w)) = n + (us - n)
        /\ \A i \in 1 .. n + (us - n) :
             (g \o Content(w))[i] = IF i <= n THEN g[i] ELSE Content(w)[i - n]
    <3> DEFINE t == Content(w)
               k == us - n
    <3>1. g \in Seq(Bytes) /\ t \in Seq(Bytes) /\ Len(g) = n /\ Len(t) = k
      BY <1>g, <2>2
    <3> HIDE DEF t, k
    <3>2. /\ g \o t \in Seq(Bytes) /\ Len(g \o t) = n + k
          /\ \A i \in 1 .. n + k : (g \o t)[i] = IF i <= n THEN g[i] ELSE t[i - n]
      BY <3>1, ConcatProperties
    <3> QED BY <3>2 DEF t, k
  <2>4. n + (us - n) = us /\ us \in Nat
    BY <1>1, <1>2
  <2>5. ASSUME NEW i \in 1 .. us PROVE Content(r)[i] = (g \o Content(w))[i]
    <3>1. (g \o Content(w))[i] = IF i <= n THEN g[i] ELSE Content(w)[i - n]
      BY <2>3, <2>4
    <3>2. Content(r)[i] = r.cells[((rp + i - 1) % cap) + 1]
      BY <1>b DEF rp, us
    <3>3. CASE i <= n
      <4>1. i \in 1 .. n
        BY <1>2, <2>4, <3>3
      <4> QED BY <1>5, <1>g, <3>1, <3>2, <3>3, <4>1
    <3>4. CASE ~ (i <= n)
      <4> DEFINE j == i - n
      <4>1. j \in 1 .. us - n /\ n + j = i
        BY <1>2, <2>4, <3>4
      <4> HIDE DEF j
      <4>2. Content(w)[j] = r.cells[((rp + (n + j) - 1) % cap) + 1]
        BY <1>5, <2>2, <4>1
      <4> QED BY <3>1, <3>2, <3>4, <4>1, <4>2 DEF j
    <3> QED BY <3>3, <3>4
  <2>6. Content(r) \in Seq(Bytes) /\ Len(Content(r)) = us
    BY <1>b DEF us
  <2> QED BY <2>3, <2>4, <2>5, <2>6, SeqEqual
<1> QED BY <1>2, <1>3, <1>7, <1>8, <1>9, <1>g DEF RingOK, CopiedOut, w

\* The copy-out loop returns the front of the content and leaves the rest.
LEMMA CopyOutFact ==
    ASSUME NEW cap \in Nat \ {0}, NEW r, RingOK(r, cap), NEW maxlen \in Nat
    PROVE  LET st == CopyOut(r, maxlen) IN
           /\ RingOK(st.ring, cap) /\ st.got \in Seq(Bytes) /\ Len(st.got) <= maxlen
           /\ Content(r) = st.got \o Content(st.ring)
<1> DEFINE u == OutPass([ring |-> r, got |-> <<>>], maxlen)
           x == u.ring
           y == u.got
           v == OutPass([ring |-> x, got |-> y], maxlen)
<1>1. u = [ring |-> x, got |-> y]
  BY DEF OutPass
<1>2. CopyOut(r, maxlen) = v
  BY <1>1 DEF CopyOut
<1>3. PICK g \in Seq(Bytes) :
         /\ RingOK(x, cap) /\ y = <<>> \o g /\ Len(<<>>) + Len(g) <= maxlen
         /\ Content(r) = g \o Content(x)
  <2>1. u = OutPass([ring |-> r, got |-> <<>>], maxlen)
    OBVIOUS
  <2>2. <<>> \in Seq(Bytes) /\ Len(<<>>) <= maxlen
    BY EmptySeq
  <2> HIDE DEF u
  <2>3. CopiedOut(r, <<>>, u, cap, maxlen)
    BY <2>1, <2>2, OutPassFact
  <2> QED BY <2>3 DEF CopiedOut
<1> HIDE DEF x, y, u
<1>4. y = g /\ Len(y) <= maxlen /\ Len(y) \in Nat
  BY <1>3, EmptySeq, ConcatEmptySeq, LenProperties
<1>5. PICK h \in Seq(Bytes) :
         /\ RingOK(v.ring, cap) /\ v.got = y \o h /\ Len(y) + Len(h) <= maxlen
         /\ Content(x) = h \o Content(v.ring)
  <2>1. v = OutPass([ring |-> x, got |-> y], maxlen)
    OBVIOUS
  <2> HIDE DEF v
  <2>2. CopiedOut(x, y, v, cap, maxlen)
    BY <1>3, <1>4, <2>1, OutPassFact
  <2> QED BY <2>2 DEF CopiedOut
<1> HIDE DEF v
<1>6. v.got \in Seq(Bytes) /\ Len(v.got) <= maxlen
  BY <1>4, <1>5, ConcatProperties
<1>7. Content(r) = v.got \o Content(v.ring)
  <2>1. Content(v.ring) \in Seq(Bytes)
    BY <1>5, ContentFact DEF RingOK
  <2>2. (y \o h) \o Content(v.ring) = y \o (h \o Content(v.ring))
    <3> DEFINE c == Content(v.ring)
    <3>1. y \in Seq(Bytes) /\ h \in Seq(Bytes) /\ c \in Seq(Bytes)
      BY <1>4, <1>5, <2>1
    <3> HIDE DEF c, y
    <3>2. (y \o h) \o c = y \o (h \o c)
      BY ONLY <3>1, ConcatAssociative, SMTT(30)
    <3> QED BY <3>2 DEF c, y
  <2> QED BY <1>3, <1>4, <1>5, <2>2
<1> QED BY <1>2, <1>5, <1>6, <1>7

-----------------------------------------------------------------------------
(***************************************************************************)
(* The invariant of the kernel tables, as predicates of their parts.  F is *)
(* a descriptor table, P the pipes, Y the PTYs.                            *)
(***************************************************************************)
HoldersOf(F, k, o, e) == {f \in Fds : F[f].kind = k /\ F[f].obj = o /\ F[f].end = e}
Count(F, k, o, e) == Cardinality(HoldersOf(F, k, o, e))

FdOK(d) ==
    /\ d \in FdRecords
    /\ d.kind = "pipe" => d.obj \in Pipes /\ d.end \in {"r", "w"}
    /\ d.kind = "pty" => d.obj \in Ptys /\ d.end \in {"m", "s"}
FdsOK(F) == F \in [Fds -> FdRecords] /\ DOMAIN F = Fds /\ \A f \in Fds : FdOK(F[f])

\* A pipe without a spool returns what was written, in the order of the writes.
InStep(q) ==
    IF q.spooling THEN TRUE \in SpoolOutcomes
    ELSE Content(q.spool) = <<>> /\ Content(q.buf) = q.sent

PipeOK(q) ==
    /\ q \in PipeRecords /\ InStep(q)
    /\ Aligned(q.buf, BUFFER_BYTES) /\ Aligned(q.spool, SPOOL_BYTES)
PtyOK(y) == y \in PtyRecords /\ \A e \in {"m", "s"} : Aligned(y.ring[e], BUFFER_BYTES)

\* The counts of a pipe or a PTY are r and w descriptors of its two ends.
PipeHeld(q, r, w) ==
    /\ q.refs["r"] = r /\ q.refs["w"] = w
    /\ r > 0 \/ w > 0 => q.used
    /\ q.used /\ q.fifo = NoPath => r > 0 \/ w > 0
PtyHeld(y, m, s) ==
    /\ y.refs["m"] = m /\ y.refs["s"] = s
    /\ y.used <=> m > 0 \/ s > 0

PipesOK(F, P) ==
    /\ P \in [Pipes -> PipeRecords] /\ DOMAIN P = Pipes
    /\ \A p \in Pipes : /\ PipeOK(P[p])
                        /\ PipeHeld(P[p], Count(F, "pipe", p, "r"), Count(F, "pipe", p, "w"))
    /\ \A p, q \in Pipes :
         P[p].used /\ P[q].used /\ P[p].fifo = P[q].fifo /\ P[p].fifo # NoPath => p = q
PtysOK(F, Y) ==
    /\ Y \in [Ptys -> PtyRecords] /\ DOMAIN Y = Ptys
    /\ \A t \in Ptys : /\ PtyOK(Y[t])
                       /\ PtyHeld(Y[t], Count(F, "pty", t, "m"), Count(F, "pty", t, "s"))

\* No capability is of a later epoch than its descriptor, and that of a closed
\* one is of an earlier epoch, however often the number is used again.
CapsOK(reg, caps) ==
    /\ reg \in [Fds -> 0 .. MaxEpoch + 1]
    /\ caps \subseteq Caps
    /\ \A c \in caps : c.epoch <= reg[c.fd] /\ (~c.live => c.epoch < reg[c.fd])

TableNames == {"fd", "pipe", "pty", "reg", "caps"}
TablesOK(T) ==
    /\ DOMAIN T = TableNames
    /\ FdsOK(T.fd) /\ PipesOK(T.fd, T.pipe) /\ PtysOK(T.fd, T.pty) /\ CapsOK(T.reg, T.caps)

-----------------------------------------------------------------------------
(* Records and counts *)

\* The descriptor numbers.
LEMMA FdsFact ==
    /\ Fds \subseteq Nat /\ Fds \subseteq FdNumbers /\ 0 \notin Fds /\ IsFiniteSet(Fds)
    /\ 0 \in FdNumbers /\ 1 \in FdNumbers /\ 2 \in FdNumbers
    /\ \A n \in FdNumbers : n \in Streams \/ n \in Fds
    /\ Pipes \subseteq Nat /\ Ptys \subseteq Nat
<1>1. 3 \in Int /\ USER_FD_MAX - 1 \in Int
  BY UserFdAssumption
<1>2. IsFiniteSet(Fds)
  BY <1>1, FS_Interval DEF Fds
<1> QED BY <1>2, UserFdAssumption DEF Fds, FdNumbers, Streams, Pipes, Ptys

\* The fields of a pipe, and that they make one.
LEMMA PipeFields ==
    ASSUME NEW q
    PROVE  q \in PipeRecords <=>
             /\ q = [used |-> q.used, fifo |-> q.fifo, refs |-> q.refs, spooling |-> q.spooling,
                     buf |-> q.buf, spool |-> q.spool, sent |-> q.sent]
             /\ q.used \in BOOLEAN /\ q.fifo \in Paths \cup {NoPath}
             /\ q.refs \in [{"r", "w"} -> Nat] /\ q.spooling \in BOOLEAN
             /\ q.buf \in Rings(BUFFER_BYTES) /\ q.spool \in Rings(SPOOL_BYTES)
             /\ q.sent \in Seq(Bytes)
BY DEF PipeRecords

\* The fields of a PTY, and that they make one.
LEMMA PtyFields ==
    ASSUME NEW y
    PROVE  y \in PtyRecords <=>
             /\ y = [used |-> y.used, refs |-> y.refs, ring |-> y.ring]
             /\ y.used \in BOOLEAN /\ y.refs \in [{"m", "s"} -> Nat]
             /\ y.ring \in [{"m", "s"} -> Rings(BUFFER_BYTES)]
BY DEF PtyRecords

\* The fields of a descriptor, and that they make one.
LEMMA FdFields ==
    ASSUME NEW d
    PROVE  d \in FdRecords <=>
             /\ d = [kind |-> d.kind, obj |-> d.obj, end |-> d.end, nonblock |-> d.nonblock]
             /\ d.kind \in {"none", "file", "pipe", "pty"} /\ d.obj \in {0} \cup Pipes \cup Ptys
             /\ d.end \in {"none", "r", "w", "m", "s"} /\ d.nonblock \in BOOLEAN
BY DEF FdRecords

\* A ring that nothing was written to.
LEMMA EmptyRingFact ==
    ASSUME NEW cap \in Nat \ {0}
    PROVE  RingOK(EmptyRing(cap), cap) /\ Content(EmptyRing(cap)) = <<>>
<1> DEFINE r == EmptyRing(cap)
<1>1. /\ r = [cells |-> r.cells, rpos |-> r.rpos, wpos |-> r.wpos, used |-> r.used]
      /\ r.cells = [i \in 1 .. cap |-> 0] /\ r.rpos = 0 /\ r.wpos = 0 /\ r.used = 0
  BY DEF EmptyRing
<1> HIDE DEF r
<1>2. r.cells \in [1 .. cap -> Bytes]
  BY <1>1 DEF Bytes
<1>3. r \in Rings(cap)
  BY <1>1, <1>2, RingFields
<1>4. Content(r) \in Seq(Bytes) /\ Len(Content(r)) = 0
  BY <1>1, <1>3, ContentFact
<1>5. Content(r) = <<>>
  BY <1>4, EmptySeq
<1> QED BY <1>1, <1>3, <1>5 DEF RingOK, Aligned, r

\* A ring whose positions are cleared.
LEMMA RewoundFact ==
    ASSUME NEW cap \in Nat \ {0}, NEW r, r \in Rings(cap)
    PROVE  RingOK(Rewound(r), cap) /\ Content(Rewound(r)) = <<>>
<1> DEFINE w == Rewound(r)
<1>1. /\ r.cells \in [1 .. cap -> Bytes]
      /\ r = [cells |-> r.cells, rpos |-> r.rpos, wpos |-> r.wpos, used |-> r.used]
  BY RingFields
<1>a. DOMAIN r = {"cells", "rpos", "wpos", "used"}
  BY <1>1
<1>b. w = [r EXCEPT !.rpos = 0, !.wpos = 0, !.used = 0]
  BY DEF Rewound
<1> HIDE DEF w
<1>2. /\ w = [cells |-> w.cells, rpos |-> w.rpos, wpos |-> w.wpos, used |-> w.used]
      /\ w.cells = r.cells /\ w.rpos = 0 /\ w.wpos = 0 /\ w.used = 0
  BY <1>1, <1>a, <1>b
<1>3. w \in Rings(cap)
  <2>1. /\ w.cells \in [1 .. cap -> Bytes] /\ w.rpos \in 0 .. cap - 1
        /\ w.wpos \in 0 .. cap - 1 /\ w.used \in 0 .. cap
    BY <1>1, <1>2
  <2> QED BY <1>2, <2>1, RingFields
<1>4. Content(w) \in Seq(Bytes) /\ Len(Content(w)) = 0
  BY <1>2, <1>3, ContentFact
<1>5. Content(w) = <<>>
  BY <1>4, EmptySeq
<1> QED BY <1>2, <1>3, <1>5 DEF RingOK, Aligned, w

\* A pipe and a PTY that are not in use.
LEMMA FreeFact ==
    /\ PipeOK(FreePipe) /\ PipeHeld(FreePipe, 0, 0) /\ ~FreePipe.used /\ FreePipe.fifo = NoPath
    /\ FreePipe.spooling = FALSE /\ FreePipe.sent = <<>>
    /\ FreePipe.buf = EmptyRing(BUFFER_BYTES) /\ FreePipe.spool = EmptyRing(SPOOL_BYTES)
    /\ PtyOK(FreePty) /\ PtyHeld(FreePty, 0, 0) /\ ~FreePty.used
<1> DEFINE q == FreePipe
           y == FreePty
           b == EmptyRing(BUFFER_BYTES)
           s == EmptyRing(SPOOL_BYTES)
<1>1. /\ RingOK(b, BUFFER_BYTES) /\ RingOK(s, SPOOL_BYTES) /\ <<>> \in Seq(Bytes)
      /\ Content(b) = <<>> /\ Content(s) = <<>>
  BY EmptyRingFact, UserFdAssumption, EmptySeq
<1>2. /\ q = [used |-> q.used, fifo |-> q.fifo, refs |-> q.refs, spooling |-> q.spooling,
              buf |-> q.buf, spool |-> q.spool, sent |-> q.sent]
      /\ q.used = FALSE /\ q.fifo = NoPath /\ q.refs = [r |-> 0, w |-> 0] /\ q.spooling = FALSE
      /\ q.buf = b /\ q.spool = s /\ q.sent = <<>>
  BY DEF FreePipe
<1>3. /\ y = [used |-> y.used, refs |-> y.refs, ring |-> y.ring]
      /\ y.used = FALSE /\ y.refs = [m |-> 0, s |-> 0] /\ y.ring = [e \in {"m", "s"} |-> b]
  BY DEF FreePty
<1> HIDE DEF b, s, q, y
<1>4. PipeOK(q)
  <2>1. q.refs \in [{"r", "w"} -> Nat]
    BY <1>2
  <2> QED BY <1>1, <1>2, <2>1, PipeFields DEF PipeOK, InStep, RingOK
<1>5. PtyOK(y)
  <2>1. y.refs \in [{"m", "s"} -> Nat] /\ y.ring \in [{"m", "s"} -> Rings(BUFFER_BYTES)]
    BY <1>1, <1>3 DEF RingOK
  <2> QED BY <1>1, <1>3, <2>1, PtyFields DEF PtyOK, RingOK
<1>6. PipeHeld(q, 0, 0) /\ PtyHeld(y, 0, 0)
  BY <1>2, <1>3 DEF PipeHeld, PtyHeld
<1> QED BY <1>2, <1>3, <1>4, <1>5, <1>6 DEF q, y, b, s

\* A count is a number.
LEMMA CountType ==
    ASSUME NEW F, NEW k, NEW o, NEW e
    PROVE  IsFiniteSet(HoldersOf(F, k, o, e)) /\ Count(F, k, o, e) \in Nat
<1>1. HoldersOf(F, k, o, e) \subseteq Fds
  BY DEF HoldersOf
<1>2. IsFiniteSet(HoldersOf(F, k, o, e))
  BY <1>1, FdsFact, FS_Subset
<1> QED BY <1>2, FS_CardinalityType DEF Count

Hit(d, k, o, e) == IF d.kind = k /\ d.obj = o /\ d.end = e THEN 1 ELSE 0

\* What becomes of a count when a descriptor `was' is replaced by `is'.
Recounted(F, G, was, is, k, o, e) ==
    /\ Count(F, k, o, e) \in Nat /\ Hit(was, k, o, e) <= Count(F, k, o, e)
    /\ Count(G, k, o, e) = Count(F, k, o, e) - Hit(was, k, o, e) + Hit(is, k, o, e)

\* How the counts change when descriptor f becomes d.
LEMMA CountChanged ==
    ASSUME NEW F, DOMAIN F = Fds, NEW f \in Fds, NEW d, NEW k, NEW o, NEW e,
           NEW G, G = [F EXCEPT ![f] = d]
    PROVE  Recounted(F, G, F[f], d, k, o, e)
<1> DEFINE H == HoldersOf(F, k, o, e)
           K == HoldersOf(G, k, o, e)
           was == F[f].kind = k /\ F[f].obj = o /\ F[f].end = e
           is == d.kind = k /\ d.obj = o /\ d.end = e
<1>1. IsFiniteSet(H) /\ Cardinality(H) \in Nat
  BY CountType DEF Count
<1>2. /\ K \ {f} = H \ {f} /\ (f \in H <=> was) /\ (f \in K <=> is)
  BY DEF HoldersOf
<1>3. /\ Count(F, k, o, e) = Cardinality(H) /\ Count(G, k, o, e) = Cardinality(K)
      /\ Hit(F[f], k, o, e) = IF f \in H THEN 1 ELSE 0
      /\ Hit(d, k, o, e) = IF f \in K THEN 1 ELSE 0
  BY <1>2 DEF Count, Hit
<1> HIDE DEF H, K, was, is
<1> DEFINE R == H \ {f}
<1>4. IsFiniteSet(R) /\ f \notin R /\ Cardinality(R) \in Nat
  BY <1>1, FS_Difference, FS_CardinalityType
<1>5. Cardinality(H) = Cardinality(R) + (IF f \in H THEN 1 ELSE 0)
  <2>1. CASE f \in H
    <3>1. H = R \cup {f}
      BY <2>1
    <3> HIDE DEF R
    <3>2. Cardinality(R \cup {f}) = Cardinality(R) + 1
      BY <1>4, FS_AddElement
    <3> QED BY <2>1, <3>1, <3>2
  <2>2. CASE f \notin H
    <3>1. H = R
      BY <2>2
    <3> HIDE DEF R
    <3> QED BY <1>4, <2>2, <3>1
  <2> QED BY <2>1, <2>2
<1>6. Cardinality(K) = Cardinality(R) + (IF f \in K THEN 1 ELSE 0)
  <2>1. CASE f \in K
    <3>1. K = R \cup {f}
      BY <1>2, <2>1
    <3> HIDE DEF R
    <3>2. Cardinality(R \cup {f}) = Cardinality(R) + 1
      BY <1>4, FS_AddElement
    <3> QED BY <2>1, <3>1, <3>2
  <2>2. CASE f \notin K
    <3>1. K = R
      BY <1>2, <2>2
    <3> HIDE DEF R
    <3> QED BY <1>4, <2>2, <3>1
  <2> QED BY <2>1, <2>2
<1> HIDE DEF R
<1> QED BY <1>1, <1>3, <1>4, <1>5, <1>6 DEF Recounted

\* No descriptor is open.
LEMMA CountClosed ==
    ASSUME NEW F, DOMAIN F = Fds, \A f \in Fds : F[f].kind = "none", NEW k, k # "none",
           NEW o, NEW e
    PROVE  Count(F, k, o, e) = 0
<1>1. HoldersOf(F, k, o, e) = {}
  BY DEF HoldersOf
<1> QED BY <1>1, FS_EmptySet DEF Count

\* A table in which descriptor f is replaced by a well-formed one.
LEMMA FdReplaced ==
    ASSUME NEW F, FdsOK(F), NEW f \in Fds, NEW d, FdOK(d), NEW G, G = [F EXCEPT ![f] = d]
    PROVE  FdsOK(G)
BY DEF FdsOK, FdOK

\* The descriptors that the calls make.
LEMMA NewFds ==
    /\ FdOK(ClosedFd) /\ ClosedFd.kind = "none"
    /\ FdOK(FileFd) /\ FileFd.kind = "file"
    /\ \A p \in Pipes, e \in {"r", "w"}, nb \in BOOLEAN :
         /\ FdOK(PipeFd(p, e, nb)) /\ PipeFd(p, e, nb).kind = "pipe"
         /\ PipeFd(p, e, nb).obj = p /\ PipeFd(p, e, nb).end = e
    /\ \A t \in Ptys, e \in {"m", "s"} :
         /\ FdOK(PtyFd(t, e)) /\ PtyFd(t, e).kind = "pty"
         /\ PtyFd(t, e).obj = t /\ PtyFd(t, e).end = e
<1>1. FileFd = [kind |-> "file", obj |-> 0, end |-> "none", nonblock |-> FALSE]
  <2> DEFINE c == ClosedFd
             d == FileFd
  <2>1. /\ DOMAIN c = {"kind", "obj", "end", "nonblock"}
        /\ c.kind = "none" /\ c.obj = 0 /\ c.end = "none" /\ c.nonblock = FALSE
    BY DEF ClosedFd
  <2>2. d = [c EXCEPT !.kind = "file"]
    BY DEF FileFd
  <2> HIDE DEF c, d
  <2>3. d = [kind |-> "file", obj |-> 0, end |-> "none", nonblock |-> FALSE]
    BY <2>1, <2>2
  <2> QED BY <2>3 DEF d
<1> QED BY <1>1 DEF FdOK, ClosedFd, PipeFd, PtyFd, FdRecords

\* A pipe one end of which is dropped.
LEMMA PipeDropped ==
    ASSUME NEW q, PipeOK(q), q.used, NEW e \in {"r", "w"}, q.refs[e] > 0,
           NEW z, z = PipeMaybeDestroyed(EndDropped(q, e))
    PROVE  /\ PipeOK(z)
           /\ PipeHeld(z, q.refs["r"] - (IF e = "r" THEN 1 ELSE 0),
                          q.refs["w"] - (IF e = "w" THEN 1 ELSE 0))
           /\ z.used => z.fifo = q.fifo
           /\ z.spooling => q.spooling
<1> DEFINE y == [q EXCEPT !.refs[e] = Pred(@)]
           c == [y EXCEPT !.buf = Rewound(@), !.spool = Rewound(@), !.sent = <<>>]
           nr == q.refs["r"] - (IF e = "r" THEN 1 ELSE 0)
           nw == q.refs["w"] - (IF e = "w" THEN 1 ELSE 0)
<1>1. /\ q \in PipeRecords /\ Aligned(q.buf, BUFFER_BYTES) /\ Aligned(q.spool, SPOOL_BYTES)
      /\ q = [used |-> q.used, fifo |-> q.fifo, refs |-> q.refs, spooling |-> q.spooling,
              buf |-> q.buf, spool |-> q.spool, sent |-> q.sent]
      /\ q.used \in BOOLEAN /\ q.fifo \in Paths \cup {NoPath}
      /\ q.refs \in [{"r", "w"} -> Nat] /\ q.spooling \in BOOLEAN
      /\ q.buf \in Rings(BUFFER_BYTES) /\ q.spool \in Rings(SPOOL_BYTES)
      /\ q.sent \in Seq(Bytes)
  BY PipeFields DEF PipeOK, InStep
<1>2. /\ DOMAIN q = {"used", "fifo", "refs", "spooling", "buf", "spool", "sent"}
      /\ y = [q EXCEPT !.refs = [q.refs EXCEPT ![e] = Pred(q.refs[e])]]
  BY <1>1
<1>z. z = PipeMaybeDestroyed(y)
  BY DEF EndDropped
<1> HIDE DEF y
<1>3. /\ y = [used |-> y.used, fifo |-> y.fifo, refs |-> y.refs, spooling |-> y.spooling,
              buf |-> y.buf, spool |-> y.spool, sent |-> y.sent]
      /\ y.used = q.used /\ y.fifo = q.fifo /\ y.spooling = q.spooling /\ y.buf = q.buf
      /\ y.spool = q.spool /\ y.sent = q.sent
      /\ y.refs = [q.refs EXCEPT ![e] = Pred(q.refs[e])]
  BY <1>1, <1>2
<1>4. nr \in Nat /\ nw \in Nat
  BY <1>1
<1>5. y.refs \in [{"r", "w"} -> Nat] /\ y.refs["r"] = nr /\ y.refs["w"] = nw
  BY <1>1, <1>3 DEF Pred
<1> HIDE DEF nr, nw
<1>6. PipeOK(y)
  BY <1>1, <1>3, <1>5, PipeFields DEF PipeOK, InStep
<1>7. CASE y.refs["r"] > 0 \/ y.refs["w"] > 0
  <2>1. z = y
    BY <1>7, <1>z DEF PipeMaybeDestroyed
  <2> QED BY <1>3, <1>5, <1>6, <1>7, <2>1 DEF PipeHeld, nr, nw
<1>8. CASE ~ (y.refs["r"] > 0 \/ y.refs["w"] > 0) /\ y.fifo # NoPath
  <2>1. z = c
    BY <1>8, <1>z DEF PipeMaybeDestroyed
  <2>2. DOMAIN y = {"used", "fifo", "refs", "spooling", "buf", "spool", "sent"}
    BY <1>3
  <2>3. c = [y EXCEPT !.buf = Rewound(y.buf), !.spool = Rewound(y.spool), !.sent = <<>>]
    OBVIOUS
  <2> HIDE DEF c
  <2>4. /\ c = [used |-> c.used, fifo |-> c.fifo, refs |-> c.refs, spooling |-> c.spooling,
                buf |-> c.buf, spool |-> c.spool, sent |-> c.sent]
        /\ c.used = y.used /\ c.fifo = y.fifo /\ c.refs = y.refs /\ c.spooling = y.spooling
        /\ c.buf = Rewound(y.buf) /\ c.spool = Rewound(y.spool) /\ c.sent = <<>>
    BY <1>3, <2>2, <2>3
  <2>5. /\ RingOK(Rewound(y.buf), BUFFER_BYTES) /\ RingOK(Rewound(y.spool), SPOOL_BYTES)
        /\ <<>> \in Seq(Bytes)
        /\ Content(Rewound(y.buf)) = <<>> /\ Content(Rewound(y.spool)) = <<>>
    BY <1>1, <1>3, RewoundFact, UserFdAssumption, EmptySeq
  <2>6. PipeOK(c)
    <3>1. /\ c.buf \in Rings(BUFFER_BYTES) /\ Aligned(c.buf, BUFFER_BYTES)
          /\ c.spool \in Rings(SPOOL_BYTES) /\ Aligned(c.spool, SPOOL_BYTES)
          /\ c.sent \in Seq(Bytes)
      BY <2>4, <2>5 DEF RingOK
    <3>2. /\ c.used \in BOOLEAN /\ c.fifo \in Paths \cup {NoPath}
          /\ c.refs \in [{"r", "w"} -> Nat] /\ c.spooling \in BOOLEAN
      BY <1>1, <1>3, <1>5, <2>4
    <3>3. c \in PipeRecords
      BY <2>4, <3>1, <3>2, PipeFields
    <3>4. InStep(c)
      <4>1. c.spooling = q.spooling /\ Content(c.buf) = <<>> /\ Content(c.spool) = <<>>
            /\ (q.spooling => TRUE \in SpoolOutcomes)
        BY <1>3, <2>4, <2>5 DEF PipeOK, InStep
      <4> QED BY <2>4, <4>1 DEF InStep
    <3> QED BY <3>1, <3>3, <3>4 DEF PipeOK
  <2> QED BY <1>3, <1>5, <1>8, <2>1, <2>4, <2>6 DEF PipeHeld, nr, nw
<1>9. CASE ~ (y.refs["r"] > 0 \/ y.refs["w"] > 0) /\ y.fifo = NoPath
  <2>1. z = FreePipe
    BY <1>9, <1>z DEF PipeMaybeDestroyed
  <2>2. nr = 0 /\ nw = 0
    BY <1>4, <1>5, <1>9
  <2> QED BY <2>1, <2>2, FreeFact DEF nr, nw
<1> QED BY <1>7, <1>8, <1>9

\* A PTY one end of which is dropped.
LEMMA PtyDropped ==
    ASSUME NEW q, PtyOK(q), q.used, NEW e \in {"m", "s"}, q.refs[e] > 0,
           NEW z, z = PtyMaybeDestroyed(EndDropped(q, e))
    PROVE  /\ PtyOK(z)
           /\ PtyHeld(z, q.refs["m"] - (IF e = "m" THEN 1 ELSE 0),
                         q.refs["s"] - (IF e = "s" THEN 1 ELSE 0))
<1> DEFINE y == [q EXCEPT !.refs[e] = Pred(@)]
           nm == q.refs["m"] - (IF e = "m" THEN 1 ELSE 0)
           ns == q.refs["s"] - (IF e = "s" THEN 1 ELSE 0)
<1>1. /\ q \in PtyRecords /\ \A x \in {"m", "s"} : Aligned(q.ring[x], BUFFER_BYTES)
      /\ q = [used |-> q.used, refs |-> q.refs, ring |-> q.ring]
      /\ q.refs \in [{"m", "s"} -> Nat] /\ q.ring \in [{"m", "s"} -> Rings(BUFFER_BYTES)]
  BY PtyFields DEF PtyOK
<1>2. /\ DOMAIN q = {"used", "refs", "ring"}
      /\ y = [q EXCEPT !.refs = [q.refs EXCEPT ![e] = Pred(q.refs[e])]]
  BY <1>1
<1>z. z = PtyMaybeDestroyed(y)
  BY DEF EndDropped
<1> HIDE DEF y
<1>3. /\ y = [used |-> y.used, refs |-> y.refs, ring |-> y.ring]
      /\ y.used = q.used /\ y.ring = q.ring
      /\ y.refs = [q.refs EXCEPT ![e] = Pred(q.refs[e])]
  BY <1>1, <1>2
<1>4. nm \in Nat /\ ns \in Nat
  BY <1>1
<1>5. y.refs \in [{"m", "s"} -> Nat] /\ y.refs["m"] = nm /\ y.refs["s"] = ns
  BY <1>1, <1>3 DEF Pred
<1> HIDE DEF nm, ns
<1>6. PtyOK(y)
  BY <1>1, <1>3, <1>5, PtyFields DEF PtyOK
<1>7. CASE y.refs["m"] = 0 /\ y.refs["s"] = 0
  <2>1. z = FreePty
    BY <1>7, <1>z DEF PtyMaybeDestroyed
  <2> QED BY <1>5, <1>7, <2>1, FreeFact DEF nm, ns
<1>8. CASE ~ (y.refs["m"] = 0 /\ y.refs["s"] = 0)
  <2>1. z = y
    BY <1>8, <1>z DEF PtyMaybeDestroyed
  <2>2. nm > 0 \/ ns > 0
    BY <1>4, <1>5, <1>8
  <2> QED BY <1>3, <1>5, <1>6, <2>1, <2>2 DEF PtyHeld, nm, ns
<1> QED BY <1>7, <1>8

-----------------------------------------------------------------------------
(* What the operators on the tables keep *)

\* Descriptors that hold no end of a pipe or of a PTY do not count.
LEMMA Uncounted ==
    ASSUME NEW F, FdsOK(F), NEW f \in Fds, NEW d, NEW G, G = [F EXCEPT ![f] = d], NEW P, NEW Y
    PROVE  /\ F[f].kind # "pipe" /\ d.kind # "pipe" /\ PipesOK(F, P) => PipesOK(G, P)
           /\ F[f].kind # "pty" /\ d.kind # "pty" /\ PtysOK(F, Y) => PtysOK(G, Y)
<1>1. DOMAIN F = Fds /\ G = [F EXCEPT ![f] = d]
  BY DEF FdsOK
<1>2. ASSUME NEW k, F[f].kind # k, d.kind # k, NEW o, NEW e
      PROVE  Count(G, k, o, e) = Count(F, k, o, e)
  <2>1. Hit(F[f], k, o, e) = 0 /\ Hit(d, k, o, e) = 0
    BY <1>2 DEF Hit
  <2>2. Recounted(F, G, F[f], d, k, o, e)
    BY <1>1, CountChanged
  <2> QED BY <2>1, <2>2 DEF Recounted
<1>3. ASSUME F[f].kind # "pipe", d.kind # "pipe", PipesOK(F, P) PROVE PipesOK(G, P)
  BY <1>2, <1>3 DEF PipesOK
<1>4. ASSUME F[f].kind # "pty", d.kind # "pty", PtysOK(F, Y) PROVE PtysOK(G, Y)
  BY <1>2, <1>4 DEF PtysOK
<1> QED BY <1>3, <1>4

\* One pipe is replaced by one with the counts its descriptors have then.
LEMMA PipeReplaced ==
    ASSUME NEW F, NEW P, PipesOK(F, P), NEW G, NEW o \in Pipes, NEW z, PipeOK(z),
           PipeHeld(z, Count(G, "pipe", o, "r"), Count(G, "pipe", o, "w")),
           \A p \in Pipes \ {o}, e \in {"r", "w"} : Count(G, "pipe", p, e) = Count(F, "pipe", p, e),
           z.used /\ z.fifo # NoPath =>
             \A p \in Pipes \ {o} : P[p].used => P[p].fifo # z.fifo
    PROVE  PipesOK(G, [P EXCEPT ![o] = z])
<1> DEFINE Q == [P EXCEPT ![o] = z]
<1>1. /\ DOMAIN P = Pipes
      /\ \A p \in Pipes : /\ PipeOK(P[p])
                          /\ PipeHeld(P[p], Count(F, "pipe", p, "r"), Count(F, "pipe", p, "w"))
      /\ \A p, q \in Pipes :
           P[p].used /\ P[q].used /\ P[p].fifo = P[q].fifo /\ P[p].fifo # NoPath => p = q
  BY DEF PipesOK
<1>2. /\ Q \in [Pipes -> PipeRecords] /\ DOMAIN Q = Pipes
      /\ Q[o] = z /\ \A p \in Pipes \ {o} : Q[p] = P[p]
  <2>1. z \in PipeRecords /\ P \in [Pipes -> PipeRecords]
    BY DEF PipeOK, PipesOK
  <2> QED BY <1>1, <2>1
<1> HIDE DEF Q
<1>3. ASSUME NEW p \in Pipes
      PROVE  PipeOK(Q[p]) /\ PipeHeld(Q[p], Count(G, "pipe", p, "r"), Count(G, "pipe", p, "w"))
  BY <1>1, <1>2
<1>4. ASSUME NEW p \in Pipes, NEW q \in Pipes, Q[p].used, Q[q].used, Q[p].fifo = Q[q].fifo,
             Q[p].fifo # NoPath
      PROVE  p = q
  BY <1>1, <1>2, <1>4
<1> QED BY <1>2, <1>3, <1>4 DEF PipesOK, Q

\* The same for a PTY.
LEMMA PtyReplaced ==
    ASSUME NEW F, NEW Y, PtysOK(F, Y), NEW G, NEW o \in Ptys, NEW z, PtyOK(z),
           PtyHeld(z, Count(G, "pty", o, "m"), Count(G, "pty", o, "s")),
           \A t \in Ptys \ {o}, e \in {"m", "s"} : Count(G, "pty", t, e) = Count(F, "pty", t, e)
    PROVE  PtysOK(G, [Y EXCEPT ![o] = z])
<1>1. z \in PtyRecords
  BY DEF PtyOK
<1> QED BY <1>1 DEF PtysOK

\* Descriptor f is closed, with the end it holds.
LEMMA ReleaseObjects ==
    ASSUME NEW T, FdsOK(T.fd), PipesOK(T.fd, T.pipe), PtysOK(T.fd, T.pty),
           NEW f \in Fds, T.fd[f].kind # "none",
           NEW G, G = [T.fd EXCEPT ![f] = ClosedFd]
    PROVE  FdsOK(G) /\ PipesOK(G, PipesDropped(T, T.fd[f])) /\ PtysOK(G, PtysDropped(T, T.fd[f]))
<1> DEFINE F == T.fd
           P == T.pipe
           Y == T.pty
           d == T.fd[f]
           o == d.obj
           x == d.end
<1>1. FdsOK(G)
  BY NewFds, FdReplaced
<1>2. DOMAIN F = Fds /\ FdOK(d) /\ ClosedFd.kind = "none"
  BY NewFds DEF FdsOK
<1>3. \A k \in {"pipe", "pty"} : \A p, e :
        /\ Count(G, k, p, e) = Count(F, k, p, e) - Hit(d, k, p, e)
        /\ Hit(d, k, p, e) <= Count(F, k, p, e) /\ Count(F, k, p, e) \in Nat
  <2> TAKE k \in {"pipe", "pty"}
  <2> TAKE p, e
  <2>1. Recounted(F, G, d, ClosedFd, k, p, e)
    BY <1>2, CountChanged
  <2>2. Hit(ClosedFd, k, p, e) = 0 /\ Hit(d, k, p, e) \in {0, 1}
    BY <1>2 DEF Hit
  <2> QED BY <2>1, <2>2 DEF Recounted
<1>4. CASE d.kind = "pipe"
  <2>1. o \in Pipes /\ x \in {"r", "w"}
    BY <1>2, <1>4 DEF FdOK
  <2>2. /\ PipeOK(P[o])
        /\ P[o].refs["r"] = Count(F, "pipe", o, "r") /\ P[o].refs["w"] = Count(F, "pipe", o, "w")
        /\ (Count(F, "pipe", o, "r") > 0 \/ Count(F, "pipe", o, "w") > 0 => P[o].used)
    BY <2>1 DEF PipesOK, PipeHeld
  <2>3. P[o].refs[x] > 0 /\ P[o].used
    <3>1. Hit(d, "pipe", o, x) = 1
      BY <1>4 DEF Hit
    <3>2. Count(F, "pipe", o, x) > 0
      BY <1>3, <3>1
    <3> QED BY <2>1, <2>2, <3>2
  <2> DEFINE z == PipeMaybeDestroyed(EndDropped(P[o], x))
             q == P[o]
  <2>4. /\ PipeOK(z) /\ (z.used => z.fifo = q.fifo)
        /\ PipeHeld(z, q.refs["r"] - (IF x = "r" THEN 1 ELSE 0),
                       q.refs["w"] - (IF x = "w" THEN 1 ELSE 0))
    <3>1. /\ PipeOK(q) /\ q.used /\ x \in {"r", "w"} /\ q.refs[x] > 0
          /\ z = PipeMaybeDestroyed(EndDropped(q, x))
      BY <2>1, <2>2, <2>3
    <3> HIDE DEF q, x, z
    <3> QED BY ONLY <3>1, PipeDropped
  <2>5. PipesDropped(T, d) = [P EXCEPT ![o] = z]
    BY <1>4, <2>3 DEF PipesDropped
  <2> HIDE DEF z
  <2>6. /\ Count(G, "pipe", o, "r") = q.refs["r"] - (IF x = "r" THEN 1 ELSE 0)
        /\ Count(G, "pipe", o, "w") = q.refs["w"] - (IF x = "w" THEN 1 ELSE 0)
    <3>1. /\ Hit(d, "pipe", o, "r") = IF x = "r" THEN 1 ELSE 0
          /\ Hit(d, "pipe", o, "w") = IF x = "w" THEN 1 ELSE 0
      BY <1>4 DEF Hit
    <3>2. /\ Count(G, "pipe", o, "r") = Count(F, "pipe", o, "r") - Hit(d, "pipe", o, "r")
          /\ Count(G, "pipe", o, "w") = Count(F, "pipe", o, "w") - Hit(d, "pipe", o, "w")
      BY <1>3
    <3> QED BY <2>2, <3>1, <3>2
  <2>7. \A p \in Pipes \ {o}, e \in {"r", "w"} : Count(G, "pipe", p, e) = Count(F, "pipe", p, e)
    <3> TAKE p \in Pipes \ {o}, e \in {"r", "w"}
    <3>1. Hit(d, "pipe", p, e) = 0
      BY DEF Hit
    <3> QED BY <1>3, <3>1
  <2>8. z.used /\ z.fifo # NoPath => \A p \in Pipes \ {o} : P[p].used => P[p].fifo # z.fifo
    BY <2>1, <2>3, <2>4 DEF PipesOK
  <2>9. PipesOK(G, [P EXCEPT ![o] = z])
    <3>1. PipeHeld(z, Count(G, "pipe", o, "r"), Count(G, "pipe", o, "w"))
      BY <2>4, <2>6
    <3> HIDE DEF o
    <3> QED BY <2>1, <2>4, <2>7, <2>8, <3>1, PipeReplaced
  <2>10. PtysDropped(T, d) = Y
    BY <1>4 DEF PtysDropped
  <2>11. PtysOK(G, Y)
    BY <1>2, <1>4, Uncounted
  <2> QED BY <1>1, <2>5, <2>9, <2>10, <2>11
<1>5. CASE d.kind = "pty"
  <2>1. o \in Ptys /\ x \in {"m", "s"}
    BY <1>2, <1>5 DEF FdOK
  <2>2. /\ PtyOK(Y[o])
        /\ Y[o].refs["m"] = Count(F, "pty", o, "m") /\ Y[o].refs["s"] = Count(F, "pty", o, "s")
        /\ (Count(F, "pty", o, "m") > 0 \/ Count(F, "pty", o, "s") > 0 => Y[o].used)
    BY <2>1 DEF PtysOK, PtyHeld
  <2>3. Y[o].refs[x] > 0 /\ Y[o].used
    <3>1. Hit(d, "pty", o, x) = 1
      BY <1>5 DEF Hit
    <3>2. Count(F, "pty", o, x) > 0
      BY <1>3, <3>1
    <3> QED BY <2>1, <2>2, <3>2
  <2> DEFINE z == PtyMaybeDestroyed(EndDropped(Y[o], x))
             q == Y[o]
  <2>4. /\ PtyOK(z)
        /\ PtyHeld(z, q.refs["m"] - (IF x = "m" THEN 1 ELSE 0),
                      q.refs["s"] - (IF x = "s" THEN 1 ELSE 0))
    <3>1. /\ PtyOK(q) /\ q.used /\ x \in {"m", "s"} /\ q.refs[x] > 0
          /\ z = PtyMaybeDestroyed(EndDropped(q, x))
      BY <2>1, <2>2, <2>3
    <3> HIDE DEF q, x, z
    <3> QED BY ONLY <3>1, PtyDropped
  <2>5. PtysDropped(T, d) = [Y EXCEPT ![o] = z]
    BY <1>5, <2>3 DEF PtysDropped
  <2> HIDE DEF z
  <2>6. /\ Count(G, "pty", o, "m") = q.refs["m"] - (IF x = "m" THEN 1 ELSE 0)
        /\ Count(G, "pty", o, "s") = q.refs["s"] - (IF x = "s" THEN 1 ELSE 0)
    <3>1. /\ Hit(d, "pty", o, "m") = IF x = "m" THEN 1 ELSE 0
          /\ Hit(d, "pty", o, "s") = IF x = "s" THEN 1 ELSE 0
      BY <1>5 DEF Hit
    <3>2. /\ Count(G, "pty", o, "m") = Count(F, "pty", o, "m") - Hit(d, "pty", o, "m")
          /\ Count(G, "pty", o, "s") = Count(F, "pty", o, "s") - Hit(d, "pty", o, "s")
      BY <1>3
    <3> QED BY <2>2, <3>1, <3>2
  <2>7. \A p \in Ptys \ {o}, e \in {"m", "s"} : Count(G, "pty", p, e) = Count(F, "pty", p, e)
    <3> TAKE p \in Ptys \ {o}, e \in {"m", "s"}
    <3>1. Hit(d, "pty", p, e) = 0
      BY DEF Hit
    <3> QED BY <1>3, <3>1
  <2>9. PtysOK(G, [Y EXCEPT ![o] = z])
    <3>1. PtyHeld(z, Count(G, "pty", o, "m"), Count(G, "pty", o, "s"))
      BY <2>4, <2>6
    <3> HIDE DEF o
    <3> QED BY <2>1, <2>4, <2>7, <3>1, PtyReplaced
  <2>10. PipesDropped(T, d) = P
    BY <1>5 DEF PipesDropped
  <2>11. PipesOK(G, P)
    BY <1>2, <1>5, Uncounted
  <2> QED BY <1>1, <2>5, <2>9, <2>10, <2>11
<1>6. CASE d.kind # "pipe" /\ d.kind # "pty"
  <2>1. PipesDropped(T, d) = P /\ PtysDropped(T, d) = Y
    BY <1>6 DEF PipesDropped, PtysDropped
  <2>2. PipesOK(G, P) /\ PtysOK(G, Y)
    BY <1>2, <1>6, Uncounted
  <2> QED BY <1>1, <2>1, <2>2
<1> QED BY <1>4, <1>5, <1>6


\* Revoking the capabilities of descriptor f, which is closed.
LEMMA CapsRevoked ==
    ASSUME NEW T, CapsOK(T.reg, T.caps), NEW f \in Fds, NEW caps,
           caps = {IF c.fd = f THEN [c EXCEPT !.live = FALSE] ELSE c : c \in T.caps}
    PROVE  CapsOK(Revoked(T, f), caps)
<1> DEFINE r == T.reg
           s == Revoked(T, f)
<1>1. /\ r \in [Fds -> 0 .. MaxEpoch + 1] /\ MaxEpoch \in Nat \ {0}
      /\ s = [r EXCEPT ![f] = IF r[f] \in 1 .. MaxEpoch THEN r[f] + 1 ELSE r[f]]
  BY UserFdAssumption DEF CapsOK, Revoked
<1>2. \A c \in T.caps : /\ c.fd \in Fds /\ c.epoch \in 1 .. MaxEpoch /\ c.live \in BOOLEAN
                        /\ c = [fd |-> c.fd, epoch |-> c.epoch, live |-> c.live]
                        /\ c.epoch <= r[c.fd] /\ (~c.live => c.epoch < r[c.fd])
  BY DEF CapsOK, Caps
<1> HIDE DEF r, s
<1>3. r[f] \in 0 .. MaxEpoch + 1
  BY <1>1
<1>4. /\ s \in [Fds -> 0 .. MaxEpoch + 1]
      /\ s[f] = IF r[f] \in 1 .. MaxEpoch THEN r[f] + 1 ELSE r[f]
      /\ \A g \in Fds \ {f} : s[g] = r[g]
  BY <1>1, <1>3
<1>5. ASSUME NEW b \in caps
      PROVE  b \in Caps /\ b.epoch <= s[b.fd] /\ (~b.live => b.epoch < s[b.fd])
  <2>1. PICK c \in T.caps : b = IF c.fd = f THEN [c EXCEPT !.live = FALSE] ELSE c
    OBVIOUS
  <2>2. CASE c.fd = f
    <3>1. b \in Caps /\ b.fd = f /\ b.epoch = c.epoch /\ ~b.live
      <4>1. b = [c EXCEPT !.live = FALSE] /\ c \in Caps
        BY <2>1, <2>2 DEF CapsOK
      <4> QED BY <2>2, <4>1 DEF Caps
    <3>2. c.epoch \in 1 .. MaxEpoch /\ c.epoch <= r[f]
      BY <1>2, <2>2
    <3>3. c.epoch < s[f]
      BY <1>1, <1>3, <1>4, <3>2
    <3> QED BY <1>1, <1>3, <1>4, <3>1, <3>2, <3>3 DEF Caps
  <2>3. CASE c.fd # f
    <3>1. b = c
      BY <2>1, <2>3
    <3> QED BY <1>2, <1>4, <2>3, <3>1 DEF Caps
  <2> QED BY <2>2, <2>3
<1> QED BY <1>4, <1>5 DEF CapsOK, s

\* Closing a descriptor keeps the tables sound, and the other descriptors.
LEMMA ReleaseKept ==
    ASSUME NEW T, TablesOK(T), NEW f
    PROVE  /\ TablesOK(Release(T, f))
           /\ f \in Fds => Release(T, f).fd[f].kind = "none"
           /\ \A g \in Fds : g # f => Release(T, f).fd[g] = T.fd[g]
<1> DEFINE R == Release(T, f)
           G == [T.fd EXCEPT ![f] = ClosedFd]
           caps == {IF c.fd = f THEN [c EXCEPT !.live = FALSE] ELSE c : c \in T.caps}
<1>1. CASE ~ IsOpen(T, f)
  BY <1>1 DEF Release, IsOpen
<1>2. CASE IsOpen(T, f)
  <2>1. f \in Fds /\ T.fd[f].kind # "none" /\ DOMAIN T.fd = Fds
    BY <1>2 DEF IsOpen, TablesOK, FdsOK
  <2>2. R = [fd |-> G, pipe |-> PipesDropped(T, T.fd[f]), pty |-> PtysDropped(T, T.fd[f]),
             reg |-> Revoked(T, f), caps |-> caps]
    BY <1>2 DEF Release
  <2> HIDE DEF R
  <2>3. CapsOK(Revoked(T, f), caps)
    <3>1. CapsOK(T.reg, T.caps)
      BY DEF TablesOK
    <3> QED BY <2>1, <3>1, CapsRevoked
  <2>4. FdsOK(G) /\ PipesOK(G, PipesDropped(T, T.fd[f])) /\ PtysOK(G, PtysDropped(T, T.fd[f]))
    BY <2>1, ReleaseObjects DEF TablesOK
  <2>5. TablesOK(R)
    <3> HIDE DEF G, caps
    <3> QED BY <2>2, <2>3, <2>4 DEF TablesOK, TableNames
  <2>6. R.fd = G /\ ClosedFd.kind = "none"
    BY <2>2, NewFds
  <2>7. R.fd[f].kind = "none" /\ \A g \in Fds : g # f => R.fd[g] = T.fd[g]
    BY <2>1, <2>6
  <2> QED BY <2>5, <2>7 DEF R
<1> QED BY <1>1, <1>2

\* A pipe one end of which is taken once more.
EndAdded(q, e) == [q EXCEPT !.refs[e] = @ + 1]

\* It is sound, has one holder more, and nothing else of it changed.
LEMMA PipeAdded ==
    ASSUME NEW q, PipeOK(q), q.used, NEW e \in {"r", "w"}, NEW z, z = EndAdded(q, e)
    PROVE  /\ PipeOK(z) /\ z.fifo = q.fifo /\ z.used
           /\ PipeHeld(z, q.refs["r"] + (IF e = "r" THEN 1 ELSE 0),
                          q.refs["w"] + (IF e = "w" THEN 1 ELSE 0))
<1>1. /\ Aligned(q.buf, BUFFER_BYTES) /\ Aligned(q.spool, SPOOL_BYTES)
      /\ q = [used |-> q.used, fifo |-> q.fifo, refs |-> q.refs, spooling |-> q.spooling,
              buf |-> q.buf, spool |-> q.spool, sent |-> q.sent]
      /\ q.fifo \in Paths \cup {NoPath}
      /\ q.refs \in [{"r", "w"} -> Nat] /\ q.spooling \in BOOLEAN
      /\ q.buf \in Rings(BUFFER_BYTES) /\ q.spool \in Rings(SPOOL_BYTES)
      /\ q.sent \in Seq(Bytes)
  BY PipeFields DEF PipeOK, InStep
<1>2. /\ DOMAIN q = {"used", "fifo", "refs", "spooling", "buf", "spool", "sent"}
      /\ z = [q EXCEPT !.refs = [q.refs EXCEPT ![e] = q.refs[e] + 1]]
  BY <1>1 DEF EndAdded
<1>3. /\ z = [used |-> z.used, fifo |-> z.fifo, refs |-> z.refs, spooling |-> z.spooling,
              buf |-> z.buf, spool |-> z.spool, sent |-> z.sent]
      /\ z.used = q.used /\ z.fifo = q.fifo /\ z.spooling = q.spooling /\ z.buf = q.buf
      /\ z.spool = q.spool /\ z.sent = q.sent
      /\ z.refs = [q.refs EXCEPT ![e] = q.refs[e] + 1]
  BY <1>1, <1>2
<1>4. /\ z.refs \in [{"r", "w"} -> Nat]
      /\ z.refs["r"] = q.refs["r"] + (IF e = "r" THEN 1 ELSE 0)
      /\ z.refs["w"] = q.refs["w"] + (IF e = "w" THEN 1 ELSE 0)
      /\ z.refs["r"] > 0 \/ z.refs["w"] > 0
  BY <1>1, <1>3
<1>5. PipeOK(z)
  <2>1. z \in PipeRecords
    BY <1>1, <1>3, <1>4, PipeFields
  <2>2. InStep(z) /\ Aligned(z.buf, BUFFER_BYTES) /\ Aligned(z.spool, SPOOL_BYTES)
    BY <1>3 DEF PipeOK, InStep
  <2> QED BY <2>1, <2>2 DEF PipeOK
<1> QED BY <1>3, <1>4, <1>5 DEF PipeHeld

\* The same for a PTY.
LEMMA PtyAdded ==
    ASSUME NEW q, PtyOK(q), q.used, NEW e \in {"m", "s"}, NEW z, z = EndAdded(q, e)
    PROVE  /\ PtyOK(z)
           /\ PtyHeld(z, q.refs["m"] + (IF e = "m" THEN 1 ELSE 0),
                         q.refs["s"] + (IF e = "s" THEN 1 ELSE 0))
<1>1. /\ \A x \in {"m", "s"} : Aligned(q.ring[x], BUFFER_BYTES)
      /\ q = [used |-> q.used, refs |-> q.refs, ring |-> q.ring]
      /\ q.refs \in [{"m", "s"} -> Nat] /\ q.ring \in [{"m", "s"} -> Rings(BUFFER_BYTES)]
  BY PtyFields DEF PtyOK
<1>2. /\ DOMAIN q = {"used", "refs", "ring"}
      /\ z = [q EXCEPT !.refs = [q.refs EXCEPT ![e] = q.refs[e] + 1]]
  BY <1>1 DEF EndAdded
<1>3. /\ z = [used |-> z.used, refs |-> z.refs, ring |-> z.ring]
      /\ z.used = q.used /\ z.ring = q.ring
      /\ z.refs = [q.refs EXCEPT ![e] = q.refs[e] + 1]
  BY <1>1, <1>2
<1>4. /\ z.refs \in [{"m", "s"} -> Nat]
      /\ z.refs["m"] = q.refs["m"] + (IF e = "m" THEN 1 ELSE 0)
      /\ z.refs["s"] = q.refs["s"] + (IF e = "s" THEN 1 ELSE 0)
      /\ z.refs["m"] > 0 \/ z.refs["s"] > 0
  BY <1>1, <1>3
<1>5. PtyOK(z)
  BY <1>1, <1>3, <1>4, PtyFields DEF PtyOK
<1> QED BY <1>3, <1>4, <1>5 DEF PtyHeld


\* The tables with some of their parts replaced.
LEMMA PartsReplaced ==
    ASSUME NEW T, TablesOK(T), NEW F, FdsOK(F), NEW P, PipesOK(F, P), NEW Y, PtysOK(F, Y),
           NEW z, DOMAIN z = TableNames, z.fd = F, z.pipe = P, z.pty = Y,
           z.reg = T.reg, z.caps = T.caps
    PROVE  TablesOK(z)
BY DEF TablesOK

\* A closed descriptor is made to hold what d says, and the end is counted.
LEMMA OpenKept ==
    ASSUME NEW T, TablesOK(T), NEW f \in Fds, T.fd[f].kind = "none",
           NEW d, FdOK(d), d.kind # "none", ObjectUsed(T, d),
           NEW z, z = [Referenced(T, d) EXCEPT !.fd[f] = d]
    PROVE  TablesOK(z) /\ z.fd = [T.fd EXCEPT ![f] = d]
<1> DEFINE F == T.fd
           P == T.pipe
           Y == T.pty
           o == d.obj
           x == d.end
           G == [T.fd EXCEPT ![f] = d]
<1>1. /\ DOMAIN T = TableNames /\ FdsOK(F) /\ PipesOK(F, P) /\ PtysOK(F, Y)
      /\ DOMAIN F = Fds /\ DOMAIN P = Pipes /\ DOMAIN Y = Ptys
  BY DEF TablesOK, FdsOK, PipesOK, PtysOK
<1>2. FdsOK(G)
  BY <1>1, FdReplaced
<1>3. ASSUME NEW k \in {"pipe", "pty"}, NEW p, NEW e
      PROVE  Count(F, k, p, e) \in Nat /\ Count(G, k, p, e) = Count(F, k, p, e) + Hit(d, k, p, e)
  <2>1. Recounted(F, G, F[f], d, k, p, e)
    BY <1>1, CountChanged
  <2>2. Hit(F[f], k, p, e) = 0 /\ Hit(d, k, p, e) \in {0, 1}
    BY DEF Hit
  <2> QED BY <2>1, <2>2 DEF Recounted
<1>4. CASE d.kind = "pipe"
  <2>1. o \in Pipes /\ x \in {"r", "w"}
    BY <1>4 DEF FdOK
  <2> DEFINE q == P[o]
             y == EndAdded(q, x)
             Q == [P EXCEPT ![o] = y]
  <2>2. /\ PipeOK(q) /\ q.used
        /\ q.refs["r"] = Count(F, "pipe", o, "r") /\ q.refs["w"] = Count(F, "pipe", o, "w")
    BY <1>1, <1>4, <2>1 DEF PipesOK, PipeHeld, ObjectUsed
  <2>3. /\ PipeOK(y) /\ y.fifo = q.fifo
        /\ PipeHeld(y, q.refs["r"] + (IF x = "r" THEN 1 ELSE 0),
                       q.refs["w"] + (IF x = "w" THEN 1 ELSE 0))
    <3> HIDE DEF q
    <3> QED BY <2>1, <2>2, PipeAdded
  <2>4. DOMAIN z = TableNames /\ z.fd = G /\ z.pipe = Q /\ z.pty = Y
        /\ z.reg = T.reg /\ z.caps = T.caps
    <3>1. Referenced(T, d) = [T EXCEPT !.pipe = Q]
      BY <1>1, <1>4, <2>1 DEF Referenced, EndAdded, TableNames
    <3>2. z = [[T EXCEPT !.pipe = Q] EXCEPT !.fd = G]
      BY <1>1, <3>1 DEF TableNames
    <3> HIDE DEF Q, G
    <3> QED BY <1>1, <3>2 DEF TableNames
  <2> HIDE DEF y
  <2>5. PipeHeld(y, Count(G, "pipe", o, "r"), Count(G, "pipe", o, "w"))
    <3>1. /\ Hit(d, "pipe", o, "r") = IF x = "r" THEN 1 ELSE 0
          /\ Hit(d, "pipe", o, "w") = IF x = "w" THEN 1 ELSE 0
      BY <1>4 DEF Hit
    <3>2. /\ Count(G, "pipe", o, "r") = q.refs["r"] + (IF x = "r" THEN 1 ELSE 0)
          /\ Count(G, "pipe", o, "w") = q.refs["w"] + (IF x = "w" THEN 1 ELSE 0)
      BY <1>3, <2>2, <3>1
    <3> QED BY <2>3, <3>2
  <2>6. \A p \in Pipes \ {o}, e \in {"r", "w"} : Count(G, "pipe", p, e) = Count(F, "pipe", p, e)
    <3> TAKE p \in Pipes \ {o}, e \in {"r", "w"}
    <3>1. Hit(d, "pipe", p, e) = 0
      BY DEF Hit
    <3> QED BY <1>3, <3>1
  <2>7. y.fifo # NoPath => \A p \in Pipes \ {o} : P[p].used => P[p].fifo # y.fifo
    BY <1>1, <2>1, <2>2, <2>3 DEF PipesOK
  <2>8. PipesOK(G, Q)
    <3> HIDE DEF o, G, F, P
    <3> QED BY <1>1, <2>1, <2>3, <2>5, <2>6, <2>7, PipeReplaced
  <2>9. PtysOK(G, Y)
    BY <1>1, <1>4, Uncounted
  <2> HIDE DEF Q, G, Y
  <2> QED BY <1>2, <2>4, <2>8, <2>9, PartsReplaced DEF G
<1>5. CASE d.kind = "pty"
  <2>1. o \in Ptys /\ x \in {"m", "s"}
    BY <1>5 DEF FdOK
  <2> DEFINE q == Y[o]
             y == EndAdded(q, x)
             Q == [Y EXCEPT ![o] = y]
  <2>2. /\ PtyOK(q) /\ q.used
        /\ q.refs["m"] = Count(F, "pty", o, "m") /\ q.refs["s"] = Count(F, "pty", o, "s")
    BY <1>1, <1>5, <2>1 DEF PtysOK, PtyHeld, ObjectUsed
  <2>3. /\ PtyOK(y)
        /\ PtyHeld(y, q.refs["m"] + (IF x = "m" THEN 1 ELSE 0),
                      q.refs["s"] + (IF x = "s" THEN 1 ELSE 0))
    <3> HIDE DEF q
    <3> QED BY <2>1, <2>2, PtyAdded
  <2>4. DOMAIN z = TableNames /\ z.fd = G /\ z.pipe = P /\ z.pty = Q
        /\ z.reg = T.reg /\ z.caps = T.caps
    <3>1. Referenced(T, d) = [T EXCEPT !.pty = Q]
      BY <1>1, <1>5, <2>1 DEF Referenced, EndAdded, TableNames
    <3>2. z = [[T EXCEPT !.pty = Q] EXCEPT !.fd = G]
      BY <1>1, <3>1 DEF TableNames
    <3> HIDE DEF Q, G
    <3> QED BY <1>1, <3>2 DEF TableNames
  <2> HIDE DEF y
  <2>5. PtyHeld(y, Count(G, "pty", o, "m"), Count(G, "pty", o, "s"))
    <3>1. /\ Hit(d, "pty", o, "m") = IF x = "m" THEN 1 ELSE 0
          /\ Hit(d, "pty", o, "s") = IF x = "s" THEN 1 ELSE 0
      BY <1>5 DEF Hit
    <3>2. /\ Count(G, "pty", o, "m") = q.refs["m"] + (IF x = "m" THEN 1 ELSE 0)
          /\ Count(G, "pty", o, "s") = q.refs["s"] + (IF x = "s" THEN 1 ELSE 0)
      BY <1>3, <2>2, <3>1
    <3> QED BY <2>3, <3>2
  <2>6. \A t \in Ptys \ {o}, e \in {"m", "s"} : Count(G, "pty", t, e) = Count(F, "pty", t, e)
    <3> TAKE t \in Ptys \ {o}, e \in {"m", "s"}
    <3>1. Hit(d, "pty", t, e) = 0
      BY DEF Hit
    <3> QED BY <1>3, <3>1
  <2>8. PtysOK(G, Q)
    <3> HIDE DEF o, G, F, Y
    <3> QED BY <1>1, <2>1, <2>3, <2>5, <2>6, PtyReplaced
  <2>9. PipesOK(G, P)
    BY <1>1, <1>5, Uncounted
  <2> HIDE DEF Q, G, P
  <2> QED BY <1>2, <2>4, <2>8, <2>9, PartsReplaced DEF G
<1>6. CASE d.kind # "pipe" /\ d.kind # "pty"
  <2>1. Referenced(T, d) = T
    BY <1>6 DEF Referenced
  <2>2. DOMAIN z = TableNames /\ z.fd = G /\ z.pipe = P /\ z.pty = Y
        /\ z.reg = T.reg /\ z.caps = T.caps
    BY <1>1, <2>1 DEF TableNames
  <2>3. PipesOK(G, P) /\ PtysOK(G, Y)
    BY <1>1, <1>6, Uncounted
  <2> HIDE DEF P, G, Y
  <2> QED BY <1>2, <2>2, <2>3, PartsReplaced DEF G
<1> QED BY <1>4, <1>5, <1>6


\* The smallest number of a set.
LEMMA LeastIn ==
    ASSUME NEW S \in SUBSET Nat, S # {}
    PROVE  Least(S) \in S
BY LeastExists DEF Least

\* A free descriptor, and two of them.
LEMMA FreeFdTaken ==
    ASSUME NEW T
    PROVE  /\ FreeFds(T) # {} => FirstFd(T) \in Fds /\ T.fd[FirstFd(T)].kind = "none"
           /\ Cardinality(FreeFds(T)) >= 2 =>
                /\ FreeFds(T) # {} /\ SecondFd(T) \in Fds /\ T.fd[SecondFd(T)].kind = "none"
                /\ FirstFd(T) # SecondFd(T)
<1> DEFINE S == FreeFds(T)
           a == FirstFd(T)
<1>1. S \in SUBSET Nat /\ IsFiniteSet(S) /\ \A f \in S : f \in Fds /\ T.fd[f].kind = "none"
  BY FdsFact, FS_Subset DEF FreeFds, IsOpen
<1>2. S # {} => a \in S
  BY <1>1, LeastIn DEF FirstFd
<1>3. ASSUME Cardinality(S) >= 2
      PROVE  S # {} /\ S \ {a} # {}
  <2>1. S # {}
    BY <1>3, FS_EmptySet
  <2>2. a \in S
    BY <1>2, <2>1
  <2> HIDE DEF S, a
  <2>3. Cardinality(S \ {a}) = Cardinality(S) - 1 /\ Cardinality(S) \in Nat
    BY <1>1, <2>2, FS_RemoveElement, FS_CardinalityType
  <2>4. ASSUME S \ {a} = {} PROVE FALSE
    BY <1>3, <2>3, <2>4, FS_EmptySet
  <2> QED BY <2>1, <2>4
<1>4. ASSUME Cardinality(S) >= 2
      PROVE  SecondFd(T) \in S \ {a}
  <2>1. SecondFd(T) = Least(S \ {a})
    BY DEF SecondFd
  <2>2. S \ {a} \in SUBSET Nat /\ S \ {a} # {}
    BY <1>1, <1>3, <1>4
  <2> HIDE DEF S, a
  <2> QED BY <2>1, <2>2, LeastIn
<1> QED BY <1>1, <1>2, <1>3, <1>4

\* A free pipe and a free PTY.
LEMMA FreeObjectTaken ==
    ASSUME NEW T
    PROVE  /\ FreePipes(T) # {} =>
                Least(FreePipes(T)) \in Pipes /\ ~T.pipe[Least(FreePipes(T))].used
           /\ FreePtys(T) # {} => Least(FreePtys(T)) \in Ptys /\ ~T.pty[Least(FreePtys(T))].used
<1>1. FreePipes(T) \in SUBSET Nat /\ FreePtys(T) \in SUBSET Nat
  BY FdsFact DEF FreePipes, FreePtys
<1>2. FreePipes(T) # {} => Least(FreePipes(T)) \in FreePipes(T)
  BY <1>1, LeastIn
<1>3. FreePtys(T) # {} => Least(FreePtys(T)) \in FreePtys(T)
  BY <1>1, LeastIn
<1> QED BY <1>2, <1>3 DEF FreePipes, FreePtys

\* A new pipe, a new FIFO and a new PTY.
FifoOf(path) == [FreePipe EXCEPT !.used = TRUE, !.fifo = path]
BothEnds == [FreePipe EXCEPT !.used = TRUE, !.refs = [r |-> 1, w |-> 1]]
BothSides == [FreePty EXCEPT !.used = TRUE, !.refs = [m |-> 1, s |-> 1]]

\* They are sound and their holders are the descriptors their creator opens.
LEMMA NewObjects ==
    /\ PipeOK(BothEnds) /\ PipeHeld(BothEnds, 1, 1) /\ BothEnds.fifo = NoPath
    /\ BothEnds.spooling = FALSE
    /\ \A path \in Paths : /\ PipeOK(FifoOf(path)) /\ PipeHeld(FifoOf(path), 0, 0)
                           /\ FifoOf(path).fifo = path /\ FifoOf(path).spooling = FALSE
    /\ PtyOK(BothSides) /\ PtyHeld(BothSides, 1, 1)
<1> DEFINE q == FreePipe
           y == FreePty
<1>1. /\ Aligned(q.buf, BUFFER_BYTES) /\ Aligned(q.spool, SPOOL_BYTES)
      /\ q = [used |-> q.used, fifo |-> q.fifo, refs |-> q.refs, spooling |-> q.spooling,
              buf |-> q.buf, spool |-> q.spool, sent |-> q.sent]
      /\ q.fifo = NoPath /\ q.refs \in [{"r", "w"} -> Nat] /\ q.spooling = FALSE
      /\ q.buf \in Rings(BUFFER_BYTES) /\ q.spool \in Rings(SPOOL_BYTES) /\ q.sent \in Seq(Bytes)
      /\ q.refs["r"] = 0 /\ q.refs["w"] = 0
      /\ Content(q.spool) = <<>> /\ Content(q.buf) = q.sent
  BY FreeFact, PipeFields DEF PipeOK, InStep, PipeHeld
<1>2. /\ \A x \in {"m", "s"} : Aligned(y.ring[x], BUFFER_BYTES)
      /\ y = [used |-> y.used, refs |-> y.refs, ring |-> y.ring]
      /\ y.ring \in [{"m", "s"} -> Rings(BUFFER_BYTES)]
  BY FreeFact, PtyFields DEF PtyOK
<1> HIDE DEF q, y
<1>3. /\ DOMAIN q = {"used", "fifo", "refs", "spooling", "buf", "spool", "sent"}
      /\ DOMAIN y = {"used", "refs", "ring"}
  BY <1>1, <1>2
<1>4. PipeOK(BothEnds) /\ PipeHeld(BothEnds, 1, 1) /\ BothEnds.fifo = NoPath
      /\ BothEnds.spooling = FALSE
  <2> DEFINE z == BothEnds
  <2>1. z = [q EXCEPT !.used = TRUE, !.refs = [r |-> 1, w |-> 1]]
    BY DEF BothEnds, q
  <2> HIDE DEF z
  <2>2. /\ z = [used |-> z.used, fifo |-> z.fifo, refs |-> z.refs, spooling |-> z.spooling,
                buf |-> z.buf, spool |-> z.spool, sent |-> z.sent]
        /\ z.used = TRUE /\ z.fifo = q.fifo /\ z.spooling = q.spooling /\ z.buf = q.buf
        /\ z.spool = q.spool /\ z.sent = q.sent /\ z.refs = [r |-> 1, w |-> 1]
    BY <1>1, <1>3, <2>1
  <2>3. z.refs \in [{"r", "w"} -> Nat] /\ z.refs["r"] = 1 /\ z.refs["w"] = 1
    BY <2>2
  <2>4. PipeOK(z)
    BY <1>1, <2>2, <2>3, PipeFields DEF PipeOK, InStep
  <2> QED BY <1>1, <2>2, <2>3, <2>4 DEF PipeHeld, z
<1>5. ASSUME NEW path \in Paths
      PROVE  /\ PipeOK(FifoOf(path)) /\ PipeHeld(FifoOf(path), 0, 0)
             /\ FifoOf(path).fifo = path /\ FifoOf(path).spooling = FALSE
  <2> DEFINE z == FifoOf(path)
  <2>1. z = [q EXCEPT !.used = TRUE, !.fifo = path]
    BY DEF FifoOf, q
  <2> HIDE DEF z
  <2>2. /\ z = [used |-> z.used, fifo |-> z.fifo, refs |-> z.refs, spooling |-> z.spooling,
                buf |-> z.buf, spool |-> z.spool, sent |-> z.sent]
        /\ z.used = TRUE /\ z.fifo = path /\ z.spooling = q.spooling /\ z.buf = q.buf
        /\ z.spool = q.spool /\ z.sent = q.sent /\ z.refs = q.refs
    BY <1>1, <1>3, <2>1
  <2>4. PipeOK(z)
    BY <1>1, <2>2, PipeFields DEF PipeOK, InStep
  <2>5. path # NoPath
    BY UserFdAssumption
  <2> QED BY <1>1, <2>2, <2>4, <2>5 DEF PipeHeld, z
<1>6. PtyOK(BothSides) /\ PtyHeld(BothSides, 1, 1)
  <2> DEFINE z == BothSides
  <2>1. z = [y EXCEPT !.used = TRUE, !.refs = [m |-> 1, s |-> 1]]
    BY DEF BothSides, y
  <2> HIDE DEF z
  <2>2. /\ z = [used |-> z.used, refs |-> z.refs, ring |-> z.ring]
        /\ z.used = TRUE /\ z.ring = y.ring /\ z.refs = [m |-> 1, s |-> 1]
    BY <1>2, <1>3, <2>1
  <2>3. z.refs \in [{"m", "s"} -> Nat] /\ z.refs["m"] = 1 /\ z.refs["s"] = 1
    BY <2>2
  <2>4. PtyOK(z)
    BY <1>2, <2>2, <2>3, PtyFields DEF PtyOK
  <2> QED BY <2>2, <2>3, <2>4 DEF PtyHeld, z
<1> QED BY <1>4, <1>5, <1>6


\* The counts once two closed descriptors say what d and h say.
TwoMore(F, G, d, h, k) ==
    \A p, e : /\ Count(F, k, p, e) \in Nat
              /\ Count(G, k, p, e) = Count(F, k, p, e) + Hit(d, k, p, e) + Hit(h, k, p, e)

\* Two closed descriptors become the two ends of an object of kind k.
LEMMA TwoOpened ==
    ASSUME NEW F, FdsOK(F), NEW a \in Fds, NEW b \in Fds, a # b,
           F[a].kind = "none", F[b].kind = "none",
           NEW k \in {"pipe", "pty"}, NEW d, FdOK(d), d.kind = k, NEW h, FdOK(h), h.kind = k,
           NEW H, H = [F EXCEPT ![a] = d], NEW G, G = [H EXCEPT ![b] = h], NEW P, PipesOK(F, P),
           NEW Y, PtysOK(F, Y)
    PROVE  /\ FdsOK(G) /\ TwoMore(F, G, d, h, k)
           /\ k = "pty" => PipesOK(G, P)
           /\ k = "pipe" => PtysOK(G, Y)
<1>1. DOMAIN F = Fds /\ DOMAIN H = Fds /\ G = [H EXCEPT ![b] = h] /\ H[b] = F[b]
  BY DEF FdsOK
<1>2. FdsOK(H)
  BY FdReplaced
<1>3. FdsOK(G)
  BY <1>2, FdReplaced
<1>4. ASSUME NEW p, NEW e
      PROVE  /\ Count(F, k, p, e) \in Nat
             /\ Count(G, k, p, e) = Count(F, k, p, e) + Hit(d, k, p, e) + Hit(h, k, p, e)
  <2>1. Recounted(F, H, F[a], d, k, p, e)
    BY <1>1, CountChanged
  <2>2. Recounted(H, G, H[b], h, k, p, e)
    BY <1>1, CountChanged
  <2>3. /\ Hit(F[a], k, p, e) = 0 /\ Hit(F[b], k, p, e) = 0
        /\ Hit(d, k, p, e) \in {0, 1} /\ Hit(h, k, p, e) \in {0, 1}
    BY DEF Hit
  <2> QED BY <1>1, <2>1, <2>2, <2>3 DEF Recounted
<1>5. ASSUME k = "pty" PROVE PipesOK(G, P)
  <2>1. F[a].kind # "pipe" /\ H[b].kind # "pipe" /\ d.kind # "pipe" /\ h.kind # "pipe"
    BY <1>1, <1>5
  <2>2. PipesOK(H, P)
    BY <2>1, Uncounted
  <2> QED BY ONLY <1>2, <2>1, <2>2, b \in Fds, G = [H EXCEPT ![b] = h], Uncounted
<1>6. ASSUME k = "pipe" PROVE PtysOK(G, Y)
  <2>1. F[a].kind # "pty" /\ H[b].kind # "pty" /\ d.kind # "pty" /\ h.kind # "pty"
    BY <1>1, <1>6
  <2>2. PtysOK(H, Y)
    BY <2>1, Uncounted
  <2> QED BY ONLY <1>2, <2>1, <2>2, b \in Fds, G = [H EXCEPT ![b] = h], Uncounted
<1> QED BY <1>3, <1>4, <1>5, <1>6 DEF TwoMore

\* No descriptor holds a free pipe or a free PTY.
LEMMA FreeUnheld ==
    ASSUME NEW F
    PROVE  /\ \A P, p : PipesOK(F, P) /\ p \in Pipes /\ ~P[p].used =>
                          Count(F, "pipe", p, "r") = 0 /\ Count(F, "pipe", p, "w") = 0
           /\ \A Y, t : PtysOK(F, Y) /\ t \in Ptys /\ ~Y[t].used =>
                          Count(F, "pty", t, "m") = 0 /\ Count(F, "pty", t, "s") = 0
<1>1. \A k, o, e : Count(F, k, o, e) \in Nat
  BY CountType
<1>2. ASSUME NEW P, NEW p, PipesOK(F, P), p \in Pipes, ~P[p].used
      PROVE  Count(F, "pipe", p, "r") = 0 /\ Count(F, "pipe", p, "w") = 0
  <2>1. /\ ~(Count(F, "pipe", p, "r") > 0) /\ ~(Count(F, "pipe", p, "w") > 0)
    BY <1>2 DEF PipesOK, PipeHeld
  <2> QED BY <1>1, <2>1
<1>3. ASSUME NEW Y, NEW t, PtysOK(F, Y), t \in Ptys, ~Y[t].used
      PROVE  Count(F, "pty", t, "m") = 0 /\ Count(F, "pty", t, "s") = 0
  <2>1. /\ ~(Count(F, "pty", t, "m") > 0) /\ ~(Count(F, "pty", t, "s") > 0)
    BY <1>3 DEF PtysOK, PtyHeld
  <2> QED BY <1>1, <2>1
<1> QED BY <1>2, <1>3

\* Creating a pipe.
LEMMA PipeCreatedKept ==
    ASSUME NEW T, TablesOK(T), NEW p \in Pipes, ~T.pipe[p].used,
           NEW a \in Fds, NEW b \in Fds, a # b, T.fd[a].kind = "none", T.fd[b].kind = "none",
           NEW z, z = PipeCreated(T, p, a, b)
    PROVE  TablesOK(z) /\ z.pipe[p] = BothEnds
<1> DEFINE F == T.fd
           P == T.pipe
           Y == T.pty
           d == PipeFd(p, "r", FALSE)
           h == PipeFd(p, "w", FALSE)
           G == [F EXCEPT ![a] = d, ![b] = h]
           Q == [P EXCEPT ![p] = BothEnds]
<1>1. /\ DOMAIN T = TableNames /\ FdsOK(F) /\ PipesOK(F, P) /\ PtysOK(F, Y)
      /\ DOMAIN F = Fds /\ DOMAIN P = Pipes
  BY DEF TablesOK, FdsOK, PipesOK
<1>2. /\ FdOK(d) /\ d.kind = "pipe" /\ d.obj = p /\ d.end = "r"
      /\ FdOK(h) /\ h.kind = "pipe" /\ h.obj = p /\ h.end = "w"
  BY NewFds
<1>3. DOMAIN z = TableNames /\ z.fd = G /\ z.pipe = Q /\ z.pty = Y
      /\ z.reg = T.reg /\ z.caps = T.caps
  <2> DEFINE U == [T EXCEPT !.pipe = Q]
  <2>1. z = [U EXCEPT !.fd = G]
    BY <1>1 DEF PipeCreated, BothEnds, TableNames
  <2>2. /\ DOMAIN U = TableNames /\ U.pipe = Q /\ U.pty = Y /\ U.reg = T.reg /\ U.caps = T.caps
    BY <1>1 DEF TableNames
  <2> HIDE DEF U, G, Q
  <2> QED BY <2>1, <2>2 DEF TableNames
<1> HIDE DEF d, h
<1>4. FdsOK(G) /\ TwoMore(F, G, d, h, "pipe") /\ PtysOK(G, Y)
  <2> DEFINE H == [F EXCEPT ![a] = d]
  <2>1. G = [H EXCEPT ![b] = h] /\ F[a].kind = "none" /\ F[b].kind = "none"
    BY DEF F, G
  <2>2. H = [F EXCEPT ![a] = d]
    OBVIOUS
  <2> HIDE DEF F, G, Y, P, Q, H
  <2> QED BY <1>1, <1>2, <2>1, <2>2, TwoOpened
<1>5. Count(G, "pipe", p, "r") = 1 /\ Count(G, "pipe", p, "w") = 1
  <2>1. Count(F, "pipe", p, "r") = 0 /\ Count(F, "pipe", p, "w") = 0
    BY <1>1, FreeUnheld
  <2>2. /\ Hit(d, "pipe", p, "r") = 1 /\ Hit(h, "pipe", p, "r") = 0
        /\ Hit(d, "pipe", p, "w") = 0 /\ Hit(h, "pipe", p, "w") = 1
    BY <1>2 DEF Hit
  <2> QED BY <1>4, <2>1, <2>2 DEF TwoMore
<1>6. \A o \in Pipes \ {p}, e \in {"r", "w"} : Count(G, "pipe", o, e) = Count(F, "pipe", o, e)
  <2> TAKE o \in Pipes \ {p}, e \in {"r", "w"}
  <2>1. Hit(d, "pipe", o, e) = 0 /\ Hit(h, "pipe", o, e) = 0
    BY <1>2 DEF Hit
  <2> QED BY <1>4, <2>1 DEF TwoMore
<1>7. PipesOK(G, Q)
  <2>1. PipeOK(BothEnds) /\ BothEnds.fifo = NoPath
        /\ PipeHeld(BothEnds, Count(G, "pipe", p, "r"), Count(G, "pipe", p, "w"))
    BY <1>5, NewObjects
  <2> HIDE DEF F, G, P
  <2> QED BY <1>1, <1>6, <2>1, PipeReplaced
<1> HIDE DEF G, Q, Y
<1>8. TablesOK(z)
  BY <1>3, <1>4, <1>7, PartsReplaced
<1> QED BY <1>1, <1>3, <1>8 DEF Q

\* Creating a PTY.
LEMMA PtyCreatedKept ==
    ASSUME NEW T, TablesOK(T), NEW p \in Ptys, ~T.pty[p].used,
           NEW a \in Fds, NEW b \in Fds, a # b, T.fd[a].kind = "none", T.fd[b].kind = "none",
           NEW z, z = PtyCreated(T, p, a, b)
    PROVE  TablesOK(z)
<1> DEFINE F == T.fd
           P == T.pipe
           Y == T.pty
           d == PtyFd(p, "m")
           h == PtyFd(p, "s")
           G == [F EXCEPT ![a] = d, ![b] = h]
           Q == [Y EXCEPT ![p] = BothSides]
<1>1. /\ DOMAIN T = TableNames /\ FdsOK(F) /\ PipesOK(F, P) /\ PtysOK(F, Y)
      /\ DOMAIN F = Fds /\ DOMAIN Y = Ptys
  BY DEF TablesOK, FdsOK, PtysOK
<1>2. /\ FdOK(d) /\ d.kind = "pty" /\ d.obj = p /\ d.end = "m"
      /\ FdOK(h) /\ h.kind = "pty" /\ h.obj = p /\ h.end = "s"
  BY NewFds
<1>3. DOMAIN z = TableNames /\ z.fd = G /\ z.pipe = P /\ z.pty = Q
      /\ z.reg = T.reg /\ z.caps = T.caps
  <2> DEFINE U == [T EXCEPT !.pty = Q]
  <2>1. z = [U EXCEPT !.fd = G]
    BY <1>1 DEF PtyCreated, BothSides, TableNames
  <2>2. /\ DOMAIN U = TableNames /\ U.pipe = P /\ U.pty = Q /\ U.reg = T.reg /\ U.caps = T.caps
    BY <1>1 DEF TableNames
  <2> HIDE DEF U, G, Q
  <2> QED BY <2>1, <2>2 DEF TableNames
<1> HIDE DEF d, h
<1>4. FdsOK(G) /\ TwoMore(F, G, d, h, "pty") /\ PipesOK(G, P)
  <2> DEFINE H == [F EXCEPT ![a] = d]
  <2>1. G = [H EXCEPT ![b] = h] /\ F[a].kind = "none" /\ F[b].kind = "none"
    BY DEF F, G
  <2>2. H = [F EXCEPT ![a] = d]
    OBVIOUS
  <2> HIDE DEF F, G, Y, P, Q, H
  <2> QED BY <1>1, <1>2, <2>1, <2>2, TwoOpened
<1>5. Count(G, "pty", p, "m") = 1 /\ Count(G, "pty", p, "s") = 1
  <2>1. Count(F, "pty", p, "m") = 0 /\ Count(F, "pty", p, "s") = 0
    BY <1>1, FreeUnheld
  <2>2. /\ Hit(d, "pty", p, "m") = 1 /\ Hit(h, "pty", p, "m") = 0
        /\ Hit(d, "pty", p, "s") = 0 /\ Hit(h, "pty", p, "s") = 1
    BY <1>2 DEF Hit
  <2> QED BY <1>4, <2>1, <2>2 DEF TwoMore
<1>6. \A o \in Ptys \ {p}, e \in {"m", "s"} : Count(G, "pty", o, e) = Count(F, "pty", o, e)
  <2> TAKE o \in Ptys \ {p}, e \in {"m", "s"}
  <2>1. Hit(d, "pty", o, e) = 0 /\ Hit(h, "pty", o, e) = 0
    BY <1>2 DEF Hit
  <2> QED BY <1>4, <2>1 DEF TwoMore
<1>7. PtysOK(G, Q)
  <2>1. PtyOK(BothSides)
        /\ PtyHeld(BothSides, Count(G, "pty", p, "m"), Count(G, "pty", p, "s"))
    BY <1>5, NewObjects
  <2> HIDE DEF F, G, Y
  <2> QED BY <1>1, <1>6, <2>1, PtyReplaced
<1> HIDE DEF G, Q, P
<1>8. TablesOK(z)
  BY <1>3, <1>4, <1>7, PartsReplaced
<1> QED BY <1>8


\* A pipe whose use, path and counts stay is replaced.
LEMMA PipeUpdated ==
    ASSUME NEW T, TablesOK(T), NEW o \in Pipes, NEW y, PipeOK(y),
           y.used = T.pipe[o].used, y.fifo = T.pipe[o].fifo, y.refs = T.pipe[o].refs,
           NEW z, z = [T EXCEPT !.pipe[o] = y]
    PROVE  TablesOK(z)
<1> DEFINE F == T.fd
           P == T.pipe
           Q == [P EXCEPT ![o] = y]
<1>1. /\ DOMAIN T = TableNames /\ FdsOK(F) /\ PipesOK(F, P) /\ PtysOK(F, T.pty)
      /\ DOMAIN P = Pipes
  BY DEF TablesOK, PipesOK
<1>2. /\ DOMAIN z = TableNames /\ z.fd = F /\ z.pipe = Q /\ z.pty = T.pty
      /\ z.reg = T.reg /\ z.caps = T.caps
  BY <1>1 DEF TableNames
<1>3. PipeHeld(y, Count(F, "pipe", o, "r"), Count(F, "pipe", o, "w"))
  BY <1>1 DEF PipesOK, PipeHeld
<1>4. y.used /\ y.fifo # NoPath => \A p \in Pipes \ {o} : P[p].used => P[p].fifo # y.fifo
  BY <1>1 DEF PipesOK
<1>5. PipesOK(F, Q)
  <2> HIDE DEF F, P
  <2> QED BY <1>1, <1>3, <1>4, PipeReplaced
<1> HIDE DEF F, P, Q
<1>6. TablesOK(z)
  BY <1>1, <1>2, <1>5, PartsReplaced
<1> QED BY <1>6

\* The same for a PTY.
LEMMA PtyUpdated ==
    ASSUME NEW T, TablesOK(T), NEW o \in Ptys, NEW y, PtyOK(y),
           y.used = T.pty[o].used, y.refs = T.pty[o].refs,
           NEW z, z = [T EXCEPT !.pty[o] = y]
    PROVE  TablesOK(z)
<1> DEFINE F == T.fd
           Y == T.pty
           Q == [Y EXCEPT ![o] = y]
<1>1. /\ DOMAIN T = TableNames /\ FdsOK(F) /\ PipesOK(F, T.pipe) /\ PtysOK(F, Y)
      /\ DOMAIN Y = Ptys
  BY DEF TablesOK, PtysOK
<1>2. /\ DOMAIN z = TableNames /\ z.fd = F /\ z.pipe = T.pipe /\ z.pty = Q
      /\ z.reg = T.reg /\ z.caps = T.caps
  BY <1>1 DEF TableNames
<1>3. PtyHeld(y, Count(F, "pty", o, "m"), Count(F, "pty", o, "s"))
  BY <1>1 DEF PtysOK, PtyHeld
<1>5. PtysOK(F, Q)
  <2> HIDE DEF F, Y
  <2> QED BY <1>1, <1>3, PtyReplaced
<1> HIDE DEF F, Y, Q
<1>6. TablesOK(z)
  BY <1>1, <1>2, <1>5, PartsReplaced
<1> QED BY <1>6

\* A FIFO is found, or gets a free pipe.
LEMMA FifoEnsuredKept ==
    ASSUME NEW T, TablesOK(T), NEW path \in Paths, CanEnsureFifo(T, path),
           NEW z, z = FifoEnsured(T, path)
    PROVE  /\ TablesOK(z) /\ z.fd = T.fd
           /\ Least(FifosAt(z, path)) \in Pipes /\ z.pipe[Least(FifosAt(z, path))].used
<1> DEFINE F == T.fd
           P == T.pipe
           o == Least(FreePipes(T))
           y == FifoOf(path)
           Q == [P EXCEPT ![o] = y]
<1>1. /\ DOMAIN T = TableNames /\ FdsOK(F) /\ PipesOK(F, P) /\ PtysOK(F, T.pty)
      /\ DOMAIN P = Pipes
  BY DEF TablesOK, PipesOK
<1>2. TablesOK(z) /\ z.fd = T.fd /\ FifosAt(z, path) # {}
  <2>1. CASE FifosAt(T, path) # {}
    BY <2>1 DEF FifoEnsured
  <2>2. CASE FifosAt(T, path) = {}
    <3>1. o \in Pipes /\ ~P[o].used
      BY <2>2, FreeObjectTaken DEF CanEnsureFifo
    <3>2. z = [T EXCEPT !.pipe = Q]
      BY <1>1, <2>2 DEF FifoEnsured, FifoAllocated, FifoOf, TableNames
    <3> HIDE DEF y
    <3>3. /\ DOMAIN z = TableNames /\ z.fd = F /\ z.pipe = Q /\ z.pty = T.pty
          /\ z.reg = T.reg /\ z.caps = T.caps
      BY <1>1, <3>2 DEF TableNames
    <3>4. PipeOK(y) /\ y.fifo = path /\ PipeHeld(y, 0, 0)
      BY NewObjects DEF y
    <3>5. Count(F, "pipe", o, "r") = 0 /\ Count(F, "pipe", o, "w") = 0
      BY <1>1, <3>1, FreeUnheld
    <3>6. \A p \in Pipes \ {o} : P[p].used => P[p].fifo # y.fifo
      BY <2>2, <3>4 DEF FifosAt
    <3>7. PipesOK(F, Q)
      <4> HIDE DEF F, P, o
      <4> QED BY <1>1, <3>1, <3>4, <3>5, <3>6, PipeReplaced
    <3>8. TablesOK(z)
      <4> HIDE DEF F, P, o, Q
      <4> QED BY <1>1, <3>3, <3>7, PartsReplaced
    <3>9. o \in FifosAt(z, path)
      <4>1. z.pipe[o] = y
        BY <1>1, <3>1, <3>3
      <4>2. y.used
        BY DEF y, FifoOf, FreePipe
      <4> QED BY <3>1, <3>4, <4>1, <4>2 DEF FifosAt
    <3> QED BY <3>1, <3>3, <3>8, <3>9 DEF y
  <2> QED BY <2>1, <2>2
<1>3. FifosAt(z, path) \in SUBSET Nat
  BY FdsFact DEF FifosAt
<1>4. Least(FifosAt(z, path)) \in FifosAt(z, path)
  BY <1>2, <1>3, LeastIn
<1> QED BY <1>2, <1>4 DEF FifosAt

\* Tables in which everything is free.
LEMMA AllFree ==
    ASSUME NEW T, DOMAIN T = TableNames, T.fd = [f \in Fds |-> ClosedFd],
           T.pipe = [p \in Pipes |-> FreePipe], T.pty = [t \in Ptys |-> FreePty],
           CapsOK(T.reg, T.caps)
    PROVE  TablesOK(T)
<1>1. FdsOK(T.fd) /\ DOMAIN T.fd = Fds /\ \A f \in Fds : T.fd[f].kind = "none"
  <2>1. ClosedFd \in FdRecords /\ FdOK(ClosedFd) /\ ClosedFd.kind = "none"
    BY NewFds DEF FdOK
  <2> QED BY <2>1 DEF FdsOK
<1>2. \A k \in {"pipe", "pty"} : \A o, e : Count(T.fd, k, o, e) = 0
  BY <1>1, CountClosed
<1>3. PipesOK(T.fd, T.pipe) /\ PtysOK(T.fd, T.pty)
  <2>1. FreePipe \in PipeRecords /\ FreePty \in PtyRecords
    BY FreeFact DEF PipeOK, PtyOK
  <2> QED BY <1>2, <2>1, FreeFact DEF PipesOK, PtysOK
<1> QED BY <1>1, <1>3 DEF TablesOK

\* The tables of a machine that has just started are sound.
LEMMA EmptyKept == TablesOK(EmptyTables)
<1> DEFINE T == EmptyTables
<1>1. /\ DOMAIN T = TableNames /\ T.fd = [f \in Fds |-> ClosedFd]
      /\ T.pipe = [p \in Pipes |-> FreePipe] /\ T.pty = [t \in Ptys |-> FreePty]
      /\ T.reg = [f \in Fds |-> 0] /\ T.caps = {}
  BY DEF EmptyTables, TableNames
<1>2. CapsOK(T.reg, T.caps)
  BY <1>1, UserFdAssumption DEF CapsOK
<1> HIDE DEF T
<1> QED BY <1>1, <1>2, AllFree DEF T

\* Clearing all tables.
LEMMA ResetKept ==
    ASSUME NEW T, TablesOK(T)
    PROVE  /\ TablesOK(ResetAll(T))
           /\ ResetAll(T).pipe = [p \in Pipes |-> FreePipe]
           /\ ResetAll(T).fd = [f \in Fds |-> ClosedFd]
<1> DEFINE R == ResetAll(T)
           r == T.reg
           s == [f \in Fds |-> IF IsOpen(T, f) THEN Revoked(T, f)[f] ELSE T.reg[f]]
           caps == {[c EXCEPT !.live = @ /\ ~IsOpen(T, c.fd)] : c \in T.caps}
<1>1. /\ DOMAIN R = TableNames /\ R.fd = [f \in Fds |-> ClosedFd]
      /\ R.pipe = [p \in Pipes |-> FreePipe] /\ R.pty = [t \in Ptys |-> FreePty]
      /\ R.reg = s /\ R.caps = caps
  BY DEF ResetAll, TableNames
<1>2. r \in [Fds -> 0 .. MaxEpoch + 1] /\ MaxEpoch \in Nat \ {0}
      /\ \A c \in T.caps : /\ c \in Caps /\ c.fd \in Fds /\ c.epoch \in 1 .. MaxEpoch
                           /\ c.live \in BOOLEAN
                           /\ c.epoch <= r[c.fd] /\ (~c.live => c.epoch < r[c.fd])
  BY UserFdAssumption DEF TablesOK, CapsOK, Caps
<1>3. \A f \in Fds : s[f] = IF IsOpen(T, f) /\ r[f] \in 1 .. MaxEpoch THEN r[f] + 1 ELSE r[f]
  BY <1>2 DEF Revoked
<1>4. s \in [Fds -> 0 .. MaxEpoch + 1]
  <2>1. \A f \in Fds : s[f] \in 0 .. MaxEpoch + 1
    <3> TAKE f \in Fds
    <3>1. r[f] \in 0 .. MaxEpoch + 1
      BY <1>2
    <3> HIDE DEF r, s
    <3> QED BY <1>2, <1>3, <3>1
  <2> QED BY <2>1
<1>5. ASSUME NEW b \in caps
      PROVE  b \in Caps /\ b.epoch <= s[b.fd] /\ (~b.live => b.epoch < s[b.fd])
  <2>1. PICK c \in T.caps : b = [c EXCEPT !.live = c.live /\ ~IsOpen(T, c.fd)]
    BY <1>5
  <2>2. /\ c \in Caps /\ c.fd \in Fds /\ c.epoch \in 1 .. MaxEpoch
        /\ c.live \in BOOLEAN /\ r[c.fd] \in 0 .. MaxEpoch + 1
        /\ c.epoch <= r[c.fd] /\ (~c.live => c.epoch < r[c.fd])
    BY <1>2
  <2>3. IsOpen(T, c.fd) \in BOOLEAN
    BY DEF IsOpen
  <2>4. b \in Caps /\ b.fd = c.fd /\ b.epoch = c.epoch /\ (b.live <=> c.live /\ ~IsOpen(T, c.fd))
    BY <2>1, <2>2, <2>3 DEF Caps
  <2>5. s[c.fd] = IF IsOpen(T, c.fd) /\ r[c.fd] \in 1 .. MaxEpoch THEN r[c.fd] + 1 ELSE r[c.fd]
    BY <1>3, <2>2
  <2> HIDE DEF s, r, caps
  <2>6. c.epoch <= s[c.fd] /\ (~b.live => c.epoch < s[c.fd])
    BY <1>2, <2>2, <2>4, <2>5
  <2> QED BY <2>4, <2>6
<1>6. CapsOK(s, caps)
  <2> HIDE DEF s, caps
  <2> QED BY <1>4, <1>5 DEF CapsOK
<1> HIDE DEF R, s, caps
<1>7. TablesOK(R)
  BY <1>1, <1>6, AllFree
<1> QED BY <1>1, <1>7 DEF R

\* Duplicating a descriptor onto another number.
LEMMA DuplicateKept ==
    ASSUME NEW T, TablesOK(T), NEW old \in Fds, NEW new \in Fds, old # new,
           T.fd[old].kind # "none"
    PROVE  TablesOK(Duplicate(T, old, new))
<1> DEFINE R == Release(T, new)
           d == T.fd[old]
           z == [Referenced(R, d) EXCEPT !.fd[new] = d]
<1>1. TablesOK(R) /\ R.fd[new].kind = "none" /\ FdOK(d)
  BY ReleaseKept DEF TablesOK, FdsOK
<1>2. Duplicate(T, old, new) = IF ObjectUsed(R, d) THEN z ELSE R
  BY DEF Duplicate
<1>3. CASE ObjectUsed(R, d)
  <2>1. z = [Referenced(R, d) EXCEPT !.fd[new] = d] /\ d.kind # "none"
    OBVIOUS
  <2> HIDE DEF R, d, z
  <2>2. TablesOK(z)
    BY <1>1, <1>3, <2>1, OpenKept
  <2> QED BY <1>2, <1>3, <2>2
<1> QED BY <1>1, <1>2, <1>3


\* What is left of a sequence when its first part is cut off.
LEMMA RestFact ==
    ASSUME NEW S, NEW a \in Seq(S), NEW b \in Seq(S), NEW c, c = a \o b,
           NEW n, n = Len(a) + 1
    PROVE  SubSeq(c, n, Len(c)) = b
<1>1. Len(a) \in Nat /\ Len(b) \in Nat /\ Len(c) = Len(a) + Len(b)
  BY LenProperties, ConcatProperties
<1>2. CASE Len(b) = 0
  <2>1. b = <<>>
    BY <1>2, EmptySeq
  <2>2. c \in Seq(S) /\ n \in Nat /\ Len(c) \in Nat /\ n > Len(c)
    BY <1>1, <1>2, ConcatProperties
  <2>3. SubSeq(c, n, Len(c)) = <<>>
    BY <2>2, SubSeqProperties, EmptySeq
  <2> QED BY <2>1, <2>3
<1>3. CASE Len(b) # 0
  <2> DEFINE t == SubSeq(c, n, Len(c))
  <2>1. c \in Seq(S) /\ n \in Int /\ Len(c) \in Int /\ n <= Len(c) /\ n >= 1
        /\ (\A i \in 1 .. Len(c) : c[i] = IF i <= Len(a) THEN a[i] ELSE b[i - Len(a)])
    BY <1>1, <1>3, ConcatProperties
  <2>2. \A i \in n .. Len(c) : c[i] \in S
    BY <2>1, ElementOfSeq
  <2>3. /\ t \in Seq(S) /\ Len(t) = (IF n <= Len(c) THEN Len(c) - n + 1 ELSE 0)
        /\ \A i \in 1 .. Len(c) - n + 1 : t[i] = c[n + i - 1]
    BY <2>1, <2>2, SubSeqProperties
  <2> HIDE DEF t
  <2>4. Len(t) = Len(b) /\ Len(c) - n + 1 = Len(b)
    BY <1>1, <2>1, <2>3
  <2>5. ASSUME NEW i \in 1 .. Len(b) PROVE t[i] = b[i]
    <3>1. t[i] = c[n + i - 1]
      BY <2>3, <2>4
    <3>2. n + i - 1 \in 1 .. Len(c) /\ ~(n + i - 1 <= Len(a)) /\ n + i - 1 - Len(a) = i
      BY <1>1
    <3> QED BY <2>1, <3>1, <3>2
  <2>6. t = b
    BY <2>3, <2>4, <2>5, SeqEqual
  <2> QED BY <2>6 DEF t
<1> QED BY <1>2, <1>3

\* A pipe whose data changed.
Refilled(q, y) ==
    /\ PipeOK(y) /\ y.used = q.used /\ y.fifo = q.fifo /\ y.refs = q.refs

WithData(q, b, s, h) == [q EXCEPT !.buf = b, !.spool = s, !.sent = h]

\* Sound rings that hold what was sent make a sound pipe.
LEMMA DataFact ==
    ASSUME NEW q, PipeOK(q), NEW b, RingOK(b, BUFFER_BYTES), NEW s, RingOK(s, SPOOL_BYTES),
           NEW h \in Seq(Bytes), ~q.spooling => Content(s) = <<>> /\ Content(b) = h,
           NEW y, y = WithData(q, b, s, h)
    PROVE  Refilled(q, y)
<1>1. /\ q = [used |-> q.used, fifo |-> q.fifo, refs |-> q.refs, spooling |-> q.spooling,
              buf |-> q.buf, spool |-> q.spool, sent |-> q.sent]
      /\ q.used \in BOOLEAN /\ q.fifo \in Paths \cup {NoPath}
      /\ q.refs \in [{"r", "w"} -> Nat] /\ q.spooling \in BOOLEAN
  BY PipeFields DEF PipeOK
<1>2. /\ DOMAIN q = {"used", "fifo", "refs", "spooling", "buf", "spool", "sent"}
      /\ y = [q EXCEPT !.buf = b, !.spool = s, !.sent = h]
  BY <1>1 DEF WithData
<1>3. /\ y = [used |-> y.used, fifo |-> y.fifo, refs |-> y.refs, spooling |-> y.spooling,
              buf |-> y.buf, spool |-> y.spool, sent |-> y.sent]
      /\ y.used = q.used /\ y.fifo = q.fifo /\ y.refs = q.refs /\ y.spooling = q.spooling
      /\ y.buf = b /\ y.spool = s /\ y.sent = h
  BY <1>1, <1>2
<1>4. y \in PipeRecords
  BY <1>1, <1>3, PipeFields DEF RingOK
<1> QED BY <1>3, <1>4 DEF PipeOK, InStep, RingOK, Refilled

\* Reading from a pipe.
LEMMA TakenFact ==
    ASSUME NEW q, PipeOK(q), NEW n \in Nat
    PROVE  Refilled(q, Taken(q, n))
<1> DEFINE one == CopyOut(q.buf, n)
           k == n - Len(one.got)
           two == CopyOut(q.spool, k)
           m == Len(one.got) + Len(two.got)
           h == SubSeq(q.sent, m + 1, Len(q.sent))
<1>1. RingOK(q.buf, BUFFER_BYTES) /\ RingOK(q.spool, SPOOL_BYTES) /\ q.sent \in Seq(Bytes)
  BY PipeFields DEF PipeOK, RingOK
<1>2. /\ RingOK(one.ring, BUFFER_BYTES) /\ one.got \in Seq(Bytes) /\ Len(one.got) <= n
      /\ Content(q.buf) = one.got \o Content(one.ring)
  <2> DEFINE x == q.buf
  <2>1. RingOK(x, BUFFER_BYTES) /\ BUFFER_BYTES \in Nat \ {0} /\ n \in Nat
    BY <1>1, UserFdAssumption
  <2>2. one = CopyOut(x, n)
    OBVIOUS
  <2> HIDE DEF x, one
  <2>3. /\ RingOK(one.ring, BUFFER_BYTES) /\ one.got \in Seq(Bytes) /\ Len(one.got) <= n
        /\ Content(x) = one.got \o Content(one.ring)
    BY ONLY <2>1, <2>2, CopyOutFact
  <2> QED BY <2>3 DEF x
<1> HIDE DEF one
<1>3. k \in Nat
  BY <1>2, LenProperties
<1> HIDE DEF k
<1>4. /\ RingOK(two.ring, SPOOL_BYTES) /\ two.got \in Seq(Bytes)
      /\ Content(q.spool) = two.got \o Content(two.ring)
  <2> DEFINE x == q.spool
  <2>1. RingOK(x, SPOOL_BYTES) /\ SPOOL_BYTES \in Nat \ {0} /\ k \in Nat
    BY <1>1, <1>3, UserFdAssumption
  <2>2. two = CopyOut(x, k)
    OBVIOUS
  <2> HIDE DEF x, two
  <2>3. /\ RingOK(two.ring, SPOOL_BYTES) /\ two.got \in Seq(Bytes)
        /\ Content(x) = two.got \o Content(two.ring)
    BY ONLY <2>1, <2>2, CopyOutFact
  <2> QED BY <2>3 DEF x
<1>5. Taken(q, n) = WithData(q, one.ring, two.ring, h)
  BY DEF Taken, WithData, one, k
<1> HIDE DEF two
<1>6. Len(one.got) \in Nat /\ Len(two.got) \in Nat /\ m \in Nat
  <2>1. Len(one.got) \in Nat /\ Len(two.got) \in Nat
    BY <1>2, <1>4, LenProperties
  <2> DEFINE a == Len(one.got)
             b == Len(two.got)
  <2>2. a \in Nat /\ b \in Nat
    BY <2>1
  <2> HIDE DEF a, b
  <2>3. a + b \in Nat
    BY <2>2
  <2> QED BY <2>1, <2>3 DEF a, b
<1>7. h \in Seq(Bytes)
  <2> DEFINE v == m + 1
             t == q.sent
  <2>1. v \in Int /\ Len(t) \in Int /\ \A i \in v .. Len(t) : t[i] \in Bytes
    <3>1. Len(t) \in Nat /\ \A i \in 1 .. Len(t) : t[i] \in Bytes
      BY <1>1, LenProperties, ElementOfSeq
    <3> HIDE DEF m, t
    <3> QED BY <1>6, <3>1
  <2>2. t \in Seq(Bytes)
    BY <1>1
  <2> HIDE DEF v, t
  <2>3. SubSeq(t, v, Len(t)) \in Seq(Bytes)
    BY <2>1, <2>2, SubSeqProperties
  <2> QED BY <2>3 DEF t, v
<1>8. ASSUME ~q.spooling PROVE Content(two.ring) = <<>> /\ Content(one.ring) = h
  <2>1. Content(q.spool) = <<>> /\ Content(q.buf) = q.sent
    BY <1>8 DEF PipeOK, InStep
  <2>2. Content(two.ring) \in Seq(Bytes) /\ Content(one.ring) \in Seq(Bytes)
    BY <1>2, <1>4, ContentFact, UserFdAssumption DEF RingOK
  <2>3. two.got = <<>> /\ Content(two.ring) = <<>>
    <3>1. Len(two.got \o Content(two.ring)) = Len(two.got) + Len(Content(two.ring))
      BY <1>4, <2>2, ConcatProperties
    <3>2. Len(two.got \o Content(two.ring)) = 0
      BY <1>4, <2>1, EmptySeq
    <3>3. Len(two.got) = 0 /\ Len(Content(two.ring)) = 0
      <4> DEFINE c == Content(two.ring)
                 g == two.got
      <4>1. Len(c) \in Nat /\ Len(g) \in Nat /\ 0 = Len(g) + Len(c)
        BY <1>6, <2>2, <3>1, <3>2, LenProperties
      <4> HIDE DEF c, g
      <4>2. Len(g) = 0 /\ Len(c) = 0
        BY <4>1
      <4> QED BY <4>2 DEF c, g
    <3> QED BY <1>4, <2>2, <3>3, EmptySeq
  <2>4. m + 1 = Len(one.got) + 1
    BY <1>6, <2>3, EmptySeq
  <2>5. q.sent = one.got \o Content(one.ring)
    BY <1>2, <2>1
  <2>6. h = Content(one.ring)
    <3> DEFINE v == m + 1
               t == q.sent
               g == one.got
               c == Content(one.ring)
    <3>1. g \in Seq(Bytes) /\ c \in Seq(Bytes) /\ t = g \o c /\ v = Len(g) + 1
      BY <1>2, <2>2, <2>4, <2>5
    <3> HIDE DEF v, t, g, c
    <3>2. SubSeq(t, v, Len(t)) = c
      BY <3>1, RestFact
    <3> QED BY <3>2 DEF v, t, c
  <2> QED BY <2>3, <2>6
<1> HIDE DEF h
<1> QED BY <1>2, <1>4, <1>5, <1>7, <1>8, DataFact

\* Writing to a pipe.
LEMMA AcceptedFact ==
    ASSUME NEW q, PipeOK(q), NEW s \in Seq(Bytes)
    PROVE  Refilled(q, Accepted(q, s).pipe)
<1> DEFINE one == CopyIn(q.buf, s)
           two == IF q.spooling THEN CopyIn(q.spool, one.left)
                  ELSE [ring |-> q.spool, left |-> one.left]
           m == Len(s) - Len(two.left)
           h == q.sent \o SubSeq(s, 1, m)
<1>1. /\ RingOK(q.buf, BUFFER_BYTES) /\ RingOK(q.spool, SPOOL_BYTES) /\ q.sent \in Seq(Bytes)
      /\ q.spooling \in BOOLEAN
  BY PipeFields DEF PipeOK, RingOK
<1>2. PICK n \in 0 .. Len(s) :
        /\ RingOK(one.ring, BUFFER_BYTES) /\ one.left = SubSeq(s, n + 1, Len(s))
        /\ Content(one.ring) = Content(q.buf) \o SubSeq(s, 1, n)
  <2>1. CopiedIn(q.buf, s, one, BUFFER_BYTES)
    BY <1>1, UserFdAssumption, CopyInFact
  <2> QED BY <2>1 DEF CopiedIn
<1>3. Len(s) \in Nat /\ n \in Nat /\ n <= Len(s)
  BY LenProperties
<1> HIDE DEF one
<1>4. one.left \in Seq(Bytes) /\ Len(one.left) = Len(s) - n
  <2>1. 0 \in 0 .. (Len(s) - n)
    BY <1>3
  <2> DEFINE t == one.left
             z == 0
  <2>2. t \in Seq(Bytes) /\ Len(t) = Len(s) - n
    <3>1. /\ n + 1 \in Int /\ Len(s) \in Int /\ \A i \in n + 1 .. Len(s) : s[i] \in Bytes
      BY <1>3, ElementOfSeq
    <3> DEFINE v == n + 1
    <3> HIDE DEF v
    <3>2. /\ SubSeq(s, v, Len(s)) \in Seq(Bytes)
          /\ Len(SubSeq(s, v, Len(s))) = (IF v <= Len(s) THEN Len(s) - v + 1 ELSE 0)
      BY <3>1, SubSeqProperties DEF v
    <3> QED BY <1>2, <1>3, <3>2 DEF v
  <2> QED BY <2>2
<1>5. RingOK(two.ring, SPOOL_BYTES) /\ two.left \in Seq(Bytes)
      /\ (~q.spooling => two.ring = q.spool /\ two.left = one.left)
  <2>1. CASE q.spooling
    <3> DEFINE w == CopyIn(q.spool, one.left)
               u == one.left
    <3>1. two = w
      BY <2>1
    <3>2. PICK k \in 0 .. Len(u) :
            RingOK(w.ring, SPOOL_BYTES) /\ w.left = SubSeq(u, k + 1, Len(u))
      <4>1. CopiedIn(q.spool, u, w, SPOOL_BYTES)
        BY <1>1, <1>4, UserFdAssumption, CopyInFact
      <4> QED BY <4>1 DEF CopiedIn
    <3> HIDE DEF w
    <3> DEFINE v == k + 1
    <3>3. u \in Seq(Bytes) /\ v \in Int /\ Len(u) \in Int /\ \A i \in v .. Len(u) : u[i] \in Bytes
      BY <1>4, ElementOfSeq, LenProperties
    <3> HIDE DEF v, u
    <3>4. SubSeq(u, v, Len(u)) \in Seq(Bytes)
      BY <3>3, SubSeqProperties
    <3> HIDE DEF two
    <3> QED BY <2>1, <3>1, <3>2, <3>4 DEF v
  <2>2. CASE ~q.spooling
    BY <1>1, <1>4, <2>2
  <2> QED BY <2>1, <2>2
<1>6. Accepted(q, s).pipe = WithData(q, one.ring, two.ring, h)
  BY DEF Accepted, WithData, one
<1> HIDE DEF two
<1>7. m \in Int /\ h \in Seq(Bytes)
  <2>1. m \in Int /\ m <= Len(s)
    BY <1>3, <1>5, LenProperties
  <2> HIDE DEF m
  <2>2. 1 \in Int /\ \A i \in 1 .. m : s[i] \in Bytes
    BY <1>3, <2>1, ElementOfSeq
  <2>3. SubSeq(s, 1, m) \in Seq(Bytes)
    BY <2>1, <2>2, SubSeqProperties
  <2> QED BY <1>1, <2>1, <2>3, ConcatProperties
<1>8. ASSUME ~q.spooling PROVE Content(two.ring) = <<>> /\ Content(one.ring) = h
  <2>1. Content(q.spool) = <<>> /\ Content(q.buf) = q.sent
    BY <1>8 DEF PipeOK, InStep
  <2>2. m = n
    BY <1>3, <1>4, <1>5, <1>8
  <2> HIDE DEF m
  <2> QED BY <1>2, <1>5, <1>8, <2>1, <2>2
<1> HIDE DEF h
<1> QED BY <1>2, <1>5, <1>6, <1>7, <1>8, DataFact

\* A PTY one ring of which has changed.
LEMMA PtyDataFact ==
    ASSUME NEW q, PtyOK(q), NEW e \in {"m", "s"}, NEW r, RingOK(r, BUFFER_BYTES),
           NEW y, y = [q EXCEPT !.ring[e] = r]
    PROVE  PtyOK(y) /\ y.used = q.used /\ y.refs = q.refs
<1>1. /\ q = [used |-> q.used, refs |-> q.refs, ring |-> q.ring]
      /\ q.used \in BOOLEAN /\ q.refs \in [{"m", "s"} -> Nat]
      /\ q.ring \in [{"m", "s"} -> Rings(BUFFER_BYTES)]
      /\ \A x \in {"m", "s"} : Aligned(q.ring[x], BUFFER_BYTES)
  BY PtyFields DEF PtyOK
<1> DEFINE w == [q.ring EXCEPT ![e] = r]
<1>2. DOMAIN q = {"used", "refs", "ring"} /\ y = [q EXCEPT !.ring = w]
  BY <1>1
<1>3. /\ w \in [{"m", "s"} -> Rings(BUFFER_BYTES)]
      /\ \A x \in {"m", "s"} : Aligned(w[x], BUFFER_BYTES)
  BY <1>1 DEF RingOK
<1> HIDE DEF w
<1>4. /\ y = [used |-> y.used, refs |-> y.refs, ring |-> y.ring]
      /\ y.used = q.used /\ y.refs = q.refs /\ y.ring = w
  BY <1>1, <1>2
<1>5. y \in PtyRecords
  BY <1>1, <1>3, <1>4, PtyFields
<1> QED BY <1>3, <1>4, <1>5 DEF PtyOK


\* Creating a pipe or a PTY with the first free numbers.
LEMMA NewPipeKept ==
    ASSUME NEW T, TablesOK(T), CanCreatePipe(T)
    PROVE  /\ TablesOK(NewPipe(T)) /\ FirstFd(T) \in Fds /\ SecondFd(T) \in Fds
           /\ Least(FreePipes(T)) \in Pipes /\ NewPipe(T).pipe[Least(FreePipes(T))] = BothEnds
<1> DEFINE o == Least(FreePipes(T))
           a == FirstFd(T)
           b == SecondFd(T)
           z == NewPipe(T)
<1>1. /\ o \in Pipes /\ ~T.pipe[o].used /\ a \in Fds /\ b \in Fds /\ a # b
      /\ T.fd[a].kind = "none" /\ T.fd[b].kind = "none" /\ DOMAIN T.pipe = Pipes
  BY FreeObjectTaken, FreeFdTaken DEF CanCreatePipe, TablesOK, PipesOK
<1>2. z = PipeCreated(T, o, a, b)
  BY DEF NewPipe
<1> HIDE DEF o, a, b, z
<1>3. TablesOK(z) /\ z.pipe[o] = BothEnds
  BY <1>1, <1>2, PipeCreatedKept
<1> QED BY <1>1, <1>3 DEF o, a, b, z

\* A PTY pair and its two descriptors keep the tables sound.
LEMMA NewPtyKept ==
    ASSUME NEW T, TablesOK(T), CanCreatePty(T)
    PROVE  TablesOK(NewPty(T))
<1> DEFINE o == Least(FreePtys(T))
           a == FirstFd(T)
           b == SecondFd(T)
           z == NewPty(T)
<1>1. /\ o \in Ptys /\ ~T.pty[o].used /\ a \in Fds /\ b \in Fds /\ a # b
      /\ T.fd[a].kind = "none" /\ T.fd[b].kind = "none"
  BY FreeObjectTaken, FreeFdTaken DEF CanCreatePty
<1>2. z = PtyCreated(T, o, a, b)
  BY DEF NewPty
<1> HIDE DEF o, a, b, z
<1>3. TablesOK(z)
  BY <1>1, <1>2, PtyCreatedKept
<1> QED BY <1>3 DEF z

\* A new pipe gets a spool, or none.
LEMMA SpooledKept ==
    ASSUME NEW T, TablesOK(T), NEW p \in Pipes, T.pipe[p] = BothEnds,
           NEW ok \in SpoolOutcomes
    PROVE  TablesOK(Spooled(T, p, ok))
<1> DEFINE q == T.pipe[p]
           y == [q EXCEPT !.spooling = ok]
           z == Spooled(T, p, ok)
<1>1. PipeOK(q) /\ q.spooling = FALSE /\ ok \in BOOLEAN
  BY NewObjects, UserFdAssumption
<1>2. DOMAIN T = TableNames /\ DOMAIN T.pipe = Pipes
  BY DEF TablesOK, PipesOK
<1>3. z = [T EXCEPT !.pipe[p] = y]
  BY <1>2 DEF Spooled, TableNames
<1> HIDE DEF z
<1>4. /\ q = [used |-> q.used, fifo |-> q.fifo, refs |-> q.refs, spooling |-> q.spooling,
              buf |-> q.buf, spool |-> q.spool, sent |-> q.sent]
      /\ q.used \in BOOLEAN /\ q.fifo \in Paths \cup {NoPath}
      /\ q.refs \in [{"r", "w"} -> Nat] /\ q.buf \in Rings(BUFFER_BYTES)
      /\ q.spool \in Rings(SPOOL_BYTES) /\ q.sent \in Seq(Bytes)
      /\ Aligned(q.buf, BUFFER_BYTES) /\ Aligned(q.spool, SPOOL_BYTES)
      /\ Content(q.spool) = <<>> /\ Content(q.buf) = q.sent
  BY <1>1, PipeFields DEF PipeOK, InStep
<1>5. y = [q EXCEPT !.spooling = ok] /\ q = T.pipe[p]
  OBVIOUS
<1> HIDE DEF q, y
<1>6. /\ y = [used |-> y.used, fifo |-> y.fifo, refs |-> y.refs, spooling |-> y.spooling,
              buf |-> y.buf, spool |-> y.spool, sent |-> y.sent]
      /\ y.used = q.used /\ y.fifo = q.fifo /\ y.refs = q.refs /\ y.spooling = ok
      /\ y.buf = q.buf /\ y.spool = q.spool /\ y.sent = q.sent
  <2>1. DOMAIN q = {"used", "fifo", "refs", "spooling", "buf", "spool", "sent"}
    BY <1>4
  <2> QED BY <1>4, <1>5, <2>1
<1>7. PipeOK(y)
  BY <1>1, <1>4, <1>6, PipeFields DEF PipeOK, InStep
<1>8. TablesOK(z)
  <2>1. y.used = T.pipe[p].used /\ y.fifo = T.pipe[p].fifo /\ y.refs = T.pipe[p].refs
    BY <1>5, <1>6
  <2> QED BY <1>3, <1>7, <2>1, PipeUpdated
<1> QED BY <1>8 DEF z

\* Making a descriptor non-blocking or blocking.
LEMMA NonblockKept ==
    ASSUME NEW T, TablesOK(T), NEW f \in Fds, NEW b \in BOOLEAN,
           NEW z, z = [T EXCEPT !.fd[f].nonblock = b]
    PROVE  TablesOK(z)
<1> DEFINE F == T.fd
           d == [F[f] EXCEPT !.nonblock = b]
           G == [F EXCEPT ![f] = d]
<1>1. /\ DOMAIN T = TableNames /\ FdsOK(F) /\ DOMAIN F = Fds /\ FdOK(F[f])
      /\ PipesOK(F, T.pipe) /\ PtysOK(F, T.pty)
  BY DEF TablesOK, FdsOK
<1>2. /\ DOMAIN z = TableNames /\ z.fd = G /\ z.pipe = T.pipe /\ z.pty = T.pty
      /\ z.reg = T.reg /\ z.caps = T.caps
  <2>1. z = [T EXCEPT !.fd = G]
    BY <1>1 DEF TableNames
  <2> HIDE DEF G
  <2> QED BY <1>1, <2>1 DEF TableNames
<1>3. d \in FdRecords /\ d.kind = F[f].kind /\ d.obj = F[f].obj /\ d.end = F[f].end
  BY <1>1 DEF FdOK, FdRecords
<1>4. FdOK(d)
  BY <1>1, <1>3 DEF FdOK
<1> HIDE DEF d
<1>5. FdsOK(G)
  BY <1>1, <1>4, FdReplaced
<1>6. \A k, o, e : Count(G, k, o, e) = Count(F, k, o, e)
  <2> TAKE k, o, e
  <2>1. Recounted(F, G, F[f], d, k, o, e)
    <3>1. DOMAIN F = Fds /\ f \in Fds /\ G = [F EXCEPT ![f] = d]
      BY <1>1
    <3> HIDE DEF F, G
    <3> QED BY <3>1, CountChanged
  <2>2. Hit(d, k, o, e) = Hit(F[f], k, o, e) /\ Hit(d, k, o, e) \in {0, 1}
    BY <1>3 DEF Hit
  <2> QED BY <2>1, <2>2 DEF Recounted
<1>7. PipesOK(G, T.pipe) /\ PtysOK(G, T.pty)
  BY <1>1, <1>6 DEF PipesOK, PtysOK
<1> HIDE DEF G
<1> QED BY <1>2, <1>5, <1>7, PartsReplaced

\* A capability is minted for an open descriptor.
LEMMA MintKept ==
    ASSUME NEW T, TablesOK(T), NEW f \in Fds, T.reg[f] <= MaxEpoch,
           NEW n, n = (IF T.reg[f] = 0 THEN 1 ELSE T.reg[f]),
           NEW z, z = [T EXCEPT !.reg[f] = n,
                                !.caps = @ \cup {[fd |-> f, epoch |-> n, live |-> TRUE]}]
    PROVE  TablesOK(z)
<1> DEFINE r == T.reg
           s == [r EXCEPT ![f] = n]
           c == [fd |-> f, epoch |-> n, live |-> TRUE]
           caps == T.caps \cup {c}
<1>1. /\ DOMAIN T = TableNames /\ r \in [Fds -> 0 .. MaxEpoch + 1] /\ MaxEpoch \in Nat \ {0}
      /\ T.caps \subseteq Caps
      /\ \A b \in T.caps : b.epoch <= r[b.fd] /\ (~b.live => b.epoch < r[b.fd])
  BY UserFdAssumption DEF TablesOK, CapsOK
<1>2. /\ DOMAIN z = TableNames /\ z.fd = T.fd /\ z.pipe = T.pipe /\ z.pty = T.pty
      /\ z.reg = s /\ z.caps = caps
  <2>1. z = [T EXCEPT !.reg = s, !.caps = caps]
    BY <1>1 DEF TableNames
  <2> HIDE DEF s, caps
  <2> QED BY <1>1, <2>1 DEF TableNames
<1>3. n \in 1 .. MaxEpoch /\ r[f] <= n /\ r[f] \in 0 .. MaxEpoch + 1
  <2>1. r[f] \in 0 .. MaxEpoch + 1 /\ r[f] <= MaxEpoch /\ n = (IF r[f] = 0 THEN 1 ELSE r[f])
    BY <1>1
  <2> HIDE DEF r
  <2> QED BY <1>1, <2>1
<1>4. /\ s \in [Fds -> 0 .. MaxEpoch + 1] /\ s[f] = n /\ \A g \in Fds \ {f} : s[g] = r[g]
  BY <1>1, <1>3
<1>5. \A g \in Fds : r[g] <= s[g] /\ r[g] \in Nat /\ s[g] \in Nat
  BY <1>1, <1>3, <1>4
<1>6. c \in Caps /\ c.epoch <= s[c.fd] /\ c.live
  BY <1>3, <1>4 DEF Caps
<1>7. ASSUME NEW b \in T.caps
      PROVE  b \in Caps /\ b.epoch <= s[b.fd] /\ (~b.live => b.epoch < s[b.fd])
  <2>1. b \in Caps /\ b.fd \in Fds /\ b.epoch \in Nat
    BY <1>1 DEF Caps
  <2>2. r[b.fd] <= s[b.fd] /\ r[b.fd] \in Nat /\ s[b.fd] \in Nat
    BY <1>5, <2>1
  <2>3. b.epoch <= r[b.fd] /\ (~b.live => b.epoch < r[b.fd])
    BY <1>1
  <2> HIDE DEF r, s
  <2> QED BY <2>1, <2>2, <2>3
<1>8. CapsOK(s, caps)
  <2> HIDE DEF s, c
  <2> QED BY <1>4, <1>6, <1>7 DEF CapsOK
<1> HIDE DEF s, caps
<1> QED BY <1>2, <1>8 DEF TablesOK

-----------------------------------------------------------------------------
(* Reading and writing *)

\* A read, from the ring, the spool or a PTY, keeps the tables sound.
LEMMA ReadKept ==
    ASSUME TablesOK(tab), mode \in Modes, NEW f \in Fds, NEW len \in Nat,
           ReadFrom(tab.fd[f], len)
    PROVE  TablesOK(tab') /\ mode' \in Modes
<1> DEFINE d == tab.fd[f]
           o == d.obj
<1>1. FdOK(d) /\ DOMAIN tab = TableNames /\ DOMAIN tab.pipe = Pipes /\ DOMAIN tab.pty = Ptys
  BY DEF TablesOK, FdsOK, PipesOK, PtysOK
<1>2. CASE d.kind = "pipe" /\ tab.pipe[o].used
  <2> DEFINE q == tab.pipe[o]
             y == Taken(q, len)
  <2>1. o \in Pipes /\ PipeOK(q)
    BY <1>1, <1>2 DEF FdOK, TablesOK, PipesOK
  <2>2. \/ tab' = [tab EXCEPT !.pipe[o] = y] /\ mode' = mode
        \/ tab' = tab /\ (mode' = mode \/ mode' = "readwait")
    BY <1>2 DEF ReadFrom
  <2>3. Refilled(q, y)
    BY <2>1, TakenFact
  <2> HIDE DEF y
  <2>4. CASE tab' = [tab EXCEPT !.pipe[o] = y] /\ mode' = mode
    <3>1. PipeOK(y) /\ y.used = tab.pipe[o].used /\ y.fifo = tab.pipe[o].fifo
          /\ y.refs = tab.pipe[o].refs
      BY <2>3 DEF Refilled
    <3> HIDE DEF o
    <3> QED BY <2>1, <2>4, <3>1, PipeUpdated
  <2> QED BY <2>2, <2>4 DEF Modes
<1>3. CASE d.kind = "pty" /\ tab.pty[o].used
  <2> DEFINE q == tab.pty[o]
             e == Peer(d.end)
             r == CopyOut(q.ring[e], len).ring
             y == [q EXCEPT !.ring[e] = r]
  <2>1. o \in Ptys /\ PtyOK(q) /\ e \in {"m", "s"}
    BY <1>1, <1>3 DEF FdOK, TablesOK, PtysOK, Peer
  <2>2. \/ tab' = [tab EXCEPT !.pty[o].ring[e] = r] /\ mode' = mode
        \/ tab' = tab /\ (mode' = mode \/ mode' = "readwait")
    BY <1>3 DEF ReadFrom
  <2>3. RingOK(r, BUFFER_BYTES)
    <3>1. RingOK(q.ring[e], BUFFER_BYTES)
      BY <2>1, PtyFields DEF PtyOK, RingOK
    <3> QED BY <3>1, UserFdAssumption, CopyOutFact
  <2> HIDE DEF r, e
  <2>4. CASE tab' = [tab EXCEPT !.pty[o].ring[e] = r] /\ mode' = mode
    <3>1. tab' = [tab EXCEPT !.pty[o] = y]
      BY <1>1, <2>1, <2>4 DEF TableNames
    <3>2. y = [q EXCEPT !.ring[e] = r]
      OBVIOUS
    <3> HIDE DEF y, q
    <3>3. PtyOK(y) /\ y.used = q.used /\ y.refs = q.refs
      BY <2>1, <2>3, <3>2, PtyDataFact
    <3>4. PtyOK(y) /\ y.used = tab.pty[o].used /\ y.refs = tab.pty[o].refs
      BY <3>3 DEF q
    <3> HIDE DEF o
    <3> QED BY <2>1, <2>4, <3>1, <3>4, PtyUpdated
  <2> QED BY <2>2, <2>4 DEF Modes
<1> QED BY <1>2, <1>3 DEF ReadFrom

\* A write, to the ring, the spool or a PTY, keeps the tables sound.
LEMMA WriteKept ==
    ASSUME TablesOK(tab), mode \in Modes, NEW f \in Fds, NEW s \in Seq(Bytes),
           WriteTo(tab.fd[f], s)
    PROVE  TablesOK(tab') /\ mode' \in Modes
<1> DEFINE d == tab.fd[f]
           o == d.obj
<1>1. FdOK(d) /\ DOMAIN tab = TableNames /\ DOMAIN tab.pipe = Pipes /\ DOMAIN tab.pty = Ptys
  BY DEF TablesOK, FdsOK, PipesOK, PtysOK
<1>2. CASE d.kind = "pipe" /\ tab.pipe[o].used
  <2> DEFINE q == tab.pipe[o]
             y == Accepted(q, s).pipe
  <2>1. o \in Pipes /\ PipeOK(q)
    BY <1>1, <1>2 DEF FdOK, TablesOK, PipesOK
  <2>2. tab' = [tab EXCEPT !.pipe[o] = y] /\ (mode' = mode \/ mode' = "writewait")
    BY <1>2 DEF WriteTo
  <2>3. Refilled(q, y)
    BY <2>1, AcceptedFact
  <2> HIDE DEF y
  <2>4. PipeOK(y) /\ y.used = tab.pipe[o].used /\ y.fifo = tab.pipe[o].fifo
        /\ y.refs = tab.pipe[o].refs
    BY <2>3 DEF Refilled
  <2>5. mode' \in Modes
    BY <2>2 DEF Modes
  <2> HIDE DEF o
  <2> QED BY <2>1, <2>2, <2>4, <2>5, PipeUpdated
<1>3. CASE d.kind = "pty" /\ tab.pty[o].used
  <2> DEFINE q == tab.pty[o]
             e == d.end
             r == CopyIn(q.ring[e], s).ring
             y == [q EXCEPT !.ring[e] = r]
  <2>1. o \in Ptys /\ PtyOK(q) /\ e \in {"m", "s"}
    BY <1>1, <1>3 DEF FdOK, TablesOK, PtysOK
  <2>2. tab' = [tab EXCEPT !.pty[o].ring[e] = r] /\ (mode' = mode \/ mode' = "writewait")
    BY <1>3 DEF WriteTo
  <2>3. RingOK(r, BUFFER_BYTES)
    <3>1. RingOK(q.ring[e], BUFFER_BYTES)
      BY <2>1, PtyFields DEF PtyOK, RingOK
    <3>2. CopiedIn(q.ring[e], s, CopyIn(q.ring[e], s), BUFFER_BYTES)
      BY <3>1, UserFdAssumption, CopyInFact
    <3> QED BY <3>2 DEF CopiedIn
  <2> HIDE DEF r, e
  <2>4. tab' = [tab EXCEPT !.pty[o] = y]
    BY <1>1, <2>1, <2>2 DEF TableNames
  <2>5. y = [q EXCEPT !.ring[e] = r]
    OBVIOUS
  <2> HIDE DEF y, q
  <2>6. PtyOK(y) /\ y.used = q.used /\ y.refs = q.refs
    BY <2>1, <2>3, <2>5, PtyDataFact
  <2>7. PtyOK(y) /\ y.used = tab.pty[o].used /\ y.refs = tab.pty[o].refs
    BY <2>6 DEF q
  <2>8. mode' \in Modes
    BY <2>2 DEF Modes
  <2> HIDE DEF o
  <2> QED BY <2>1, <2>4, <2>7, <2>8, PtyUpdated
<1> QED BY <1>2, <1>3 DEF WriteTo


-----------------------------------------------------------------------------
(* The inductive invariant *)

\* The types of the variables other than the tables.
OthersOK ==
    /\ stdio \in [Streams -> FdNumbers] /\ inherit \in BOOLEAN /\ marker \subseteq Paths
    /\ task \in [Tasks -> TaskRecords] /\ cur \in Tasks \cup {NoTask}
    /\ mode \in Modes /\ ret \in Returns /\ spawns \in 0 .. MaxSpawns
    /\ rt \in [active : BOOLEAN, left : 0 .. MaxStages, input : FdNumbers,
               close_in : FdNumbers, close_out : FdNumbers, task : Tasks \cup {NoTask}]

IInv == TablesOK(tab) /\ OthersOK

\* The console streams, and those that are passed on.
LEMMA StreamsFact ==
    /\ Console \in [Streams -> FdNumbers]
    /\ \A in \in FdNumbers, out \in FdNumbers :
         StdioOf(in, out) \in [Streams -> FdNumbers]
    /\ stdio \in [Streams -> FdNumbers] => \A req \in FdNumbers : Source(req) \in FdNumbers
BY FdsFact DEF Console, StdioOf, Source, Streams

\* A task that is created.
LEMMA TaskFact ==
    /\ NoTaskRecord \in TaskRecords
    /\ \A inh \in BOOLEAN, io \in [Streams -> FdNumbers] : NewTask(inh, io) \in TaskRecords
BY StreamsFact DEF NoTaskRecord, NewTask, TaskRecords, TaskStates

\* The runtime of no pipeline.
LEMMA IdleFact ==
    /\ IdleRuntime \in [active : BOOLEAN, left : 0 .. MaxStages, input : FdNumbers,
                        close_in : FdNumbers, close_out : FdNumbers, task : Tasks \cup {NoTask}]
    /\ NoFd \in FdNumbers
BY FdsFact, UserFdAssumption DEF IdleRuntime, NoFd

\* The invariant holds when the machine starts.
LEMMA InitSound == Init => IInv
<1> SUFFICES ASSUME Init PROVE IInv
  OBVIOUS
<1>1. TablesOK(tab)
  BY EmptyKept DEF Init
<1>2. OthersOK
  <2>1. 0 \in 0 .. MaxSpawns /\ spawns = 0
    BY UserFdAssumption DEF Init
  <2>2. rt \in [active : BOOLEAN, left : 0 .. MaxStages, input : FdNumbers,
                close_in : FdNumbers, close_out : FdNumbers, task : Tasks \cup {NoTask}]
    BY IdleFact DEF Init
  <2>3. task \in [Tasks -> TaskRecords] /\ stdio \in [Streams -> FdNumbers]
    BY StreamsFact, TaskFact DEF Init
  <2>4. /\ inherit \in BOOLEAN /\ marker \subseteq Paths /\ cur \in Tasks \cup {NoTask}
        /\ mode \in Modes /\ ret \in Returns
    BY DEF Init, Modes, Returns
  <2> QED BY <2>1, <2>2, <2>3, <2>4 DEF OthersOK
<1> QED BY <1>1, <1>2 DEF IInv

\* The system calls that open, duplicate and close descriptors.
LEMMA DescriptorsSound ==
    ASSUME IInv, DescriptorCall
    PROVE  IInv'
<1>1. TablesOK(tab) /\ OthersOK /\ DOMAIN tab = TableNames
  BY DEF IInv, TablesOK
<1>2. ASSUME TablesOK(tab)', UNCHANGED <<stdio, inherit, marker, taskVars, rt>>
      PROVE  IInv'
  BY <1>1, <1>2 DEF IInv, OthersOK, taskVars
<1>3. CASE OpenFile
  <2> DEFINE f == FirstFd(tab)
  <2>1. f \in Fds /\ tab.fd[f].kind = "none"
    BY <1>3, FreeFdTaken DEF OpenFile
  <2>2. tab' = [Referenced(tab, FileFd) EXCEPT !.fd[f] = FileFd]
        /\ FdOK(FileFd) /\ FileFd.kind # "none" /\ ObjectUsed(tab, FileFd)
    BY <1>3, NewFds DEF OpenFile, Referenced, ObjectUsed
  <2> HIDE DEF f
  <2>3. TablesOK(tab')
    BY <1>1, <2>1, <2>2, OpenKept
  <2> QED BY <1>2, <1>3, <2>3 DEF OpenFile
<1>4. ASSUME NEW path \in Paths, NEW e \in {"r", "w"}, NEW nb \in BOOLEAN, OpenFifo(path, e, nb)
      PROVE  IInv'
  <2> DEFINE T == FifoEnsured(tab, path)
             p == Least(FifosAt(T, path))
             d == PipeFd(p, e, nb)
             f == FirstFd(T)
             z == [Referenced(T, d) EXCEPT !.fd[f] = d]
  <2>1. CanEnsureFifo(tab, path) /\ tab' = IF FreeFds(T) = {} THEN T ELSE z
    BY <1>4 DEF OpenFifo
  <2>2. TablesOK(T) /\ p \in Pipes /\ T.pipe[p].used
    BY <1>1, <2>1, FifoEnsuredKept
  <2> HIDE DEF T
  <2>3. FdOK(d) /\ d.kind # "none" /\ ObjectUsed(T, d)
    BY <2>2, NewFds DEF ObjectUsed
  <2>4. ASSUME FreeFds(T) # {} PROVE TablesOK(z)
    <3>1. f \in Fds /\ T.fd[f].kind = "none"
      BY <2>4, FreeFdTaken
    <3>2. z = [Referenced(T, d) EXCEPT !.fd[f] = d]
      OBVIOUS
    <3> HIDE DEF d, f, z
    <3> QED BY <2>2, <2>3, <3>1, <3>2, OpenKept
  <2>5. TablesOK(tab')
    <3> HIDE DEF z
    <3> QED BY <2>1, <2>2, <2>4
  <2> QED BY <1>2, <1>4, <2>5 DEF OpenFifo
<1>5. ASSUME NEW path \in Paths, Mkfifo(path) PROVE IInv'
  <2>1. TablesOK(tab')
    BY <1>1, <1>5, FifoEnsuredKept DEF Mkfifo
  <2>2. /\ UNCHANGED <<stdio, inherit, taskVars, rt>> /\ marker' = marker \cup {path}
    BY <1>5 DEF Mkfifo
  <2> QED BY <1>1, <2>1, <2>2 DEF IInv, OthersOK, taskVars
<1>6. ASSUME NEW path \in Paths, Unlink(path) PROVE IInv'
  BY <1>1, <1>6 DEF Unlink, IInv, OthersOK, taskVars
<1>7. ASSUME NEW f \in Fds, Close(f) PROVE IInv'
  <2>1. TablesOK(tab')
    BY <1>1, <1>7, ReleaseKept DEF Close
  <2> QED BY <1>2, <1>7, <2>1 DEF Close
<1>8. ASSUME NEW f \in Fds, MintFd(f) PROVE IInv'
  <2> DEFINE n == IF tab.reg[f] = 0 THEN 1 ELSE tab.reg[f]
  <2>1. /\ tab.reg[f] <= MaxEpoch
        /\ tab' = [tab EXCEPT !.reg[f] = n,
                              !.caps = @ \cup {[fd |-> f, epoch |-> n, live |-> TRUE]}]
    BY <1>8 DEF MintFd
  <2>2. TablesOK(tab')
    <3>1. n = IF tab.reg[f] = 0 THEN 1 ELSE tab.reg[f]
      OBVIOUS
    <3> HIDE DEF n
    <3> QED BY <1>1, <2>1, <3>1, MintKept
  <2> QED BY <1>2, <1>8, <2>2 DEF MintFd
<1>9. ASSUME NEW req \in FdNumbers, Dup(req) PROVE IInv'
  <2> DEFINE old == Source(req)
             new == FirstFd(tab)
  <2>1. /\ old \in Fds /\ tab.fd[old].kind # "none"
        /\ new \in Fds /\ tab.fd[new].kind = "none" /\ tab' = Duplicate(tab, old, new)
    BY <1>9, FreeFdTaken DEF Dup, IsOpen
  <2>2. TablesOK(tab')
    <3> HIDE DEF old, new
    <3> QED BY <1>1, <2>1, DuplicateKept
  <2> QED BY <1>2, <1>9, <2>2 DEF Dup
<1>10. ASSUME NEW req \in FdNumbers, NEW new \in FdNumbers, Dup2(req, new) PROVE IInv'
  <2> DEFINE old == Source(req)
  <2>1. old \in FdNumbers /\ old \in Fds /\ tab.fd[old].kind # "none"
    BY <1>1, <1>10, StreamsFact DEF Dup2, IsOpen, OthersOK
  <2>2. UNCHANGED <<inherit, marker, taskVars, rt>>
    BY <1>10 DEF Dup2
  <2>3. CASE new \in Streams
    <3>1. tab' = tab /\ stdio' = [stdio EXCEPT ![new] = old]
      BY <1>10, <2>3 DEF Dup2
    <3>2. stdio' \in [Streams -> FdNumbers]
      BY <1>1, <2>1, <3>1 DEF OthersOK
    <3> QED BY <1>1, <2>2, <3>1, <3>2 DEF IInv, OthersOK, taskVars
  <2>4. CASE new \notin Streams
    <3>1. new \in Fds /\ UNCHANGED stdio
          /\ tab' = (IF new = old THEN tab ELSE Duplicate(tab, old, new))
      BY <1>10, <2>4, FdsFact DEF Dup2
    <3>2. TablesOK(tab')
      <4> HIDE DEF old
      <4> QED BY <1>1, <2>1, <3>1, DuplicateKept
    <3> QED BY <1>2, <2>2, <3>1, <3>2 DEF taskVars
  <2> QED BY <2>3, <2>4
<1>11. ASSUME NEW b \in BOOLEAN, PipeCall(b) PROVE IInv'
  <2>1. TablesOK(NewPipe(tab))
    BY <1>1, <1>11, NewPipeKept DEF PipeCall
  <2>2. TablesOK(Release(Release(NewPipe(tab), FirstFd(tab)), SecondFd(tab)))
    BY <2>1, ReleaseKept
  <2>3. TablesOK(tab')
    BY <1>11, <2>1, <2>2 DEF PipeCall
  <2> QED BY <1>2, <1>11, <2>3 DEF PipeCall
<1>12. ASSUME NEW b \in BOOLEAN, PtyOpen(b) PROVE IInv'
  <2>1. TablesOK(NewPty(tab))
    BY <1>1, <1>12, NewPtyKept DEF PtyOpen
  <2>2. TablesOK(Release(Release(NewPty(tab), FirstFd(tab)), SecondFd(tab)))
    BY <2>1, ReleaseKept
  <2>3. TablesOK(tab')
    BY <1>12, <2>1, <2>2 DEF PtyOpen
  <2> QED BY <1>2, <1>12, <2>3 DEF PtyOpen
<1>13. ASSUME NEW b \in BOOLEAN, SetInherit(b) PROVE IInv'
  BY <1>1, <1>13 DEF SetInherit, IInv, OthersOK, taskVars
<1>14. ASSUME NEW in \in FdNumbers, NEW out \in FdNumbers, SetStdio(in, out) PROVE IInv'
  BY <1>1, <1>14, StreamsFact DEF SetStdio, IInv, OthersOK, taskVars
<1>15. ASSUME NEW f \in Fds, NEW b \in BOOLEAN, SetNonblock(f, b) PROVE IInv'
  <2>1. TablesOK(tab')
    BY <1>1, <1>15, NonblockKept DEF SetNonblock
  <2> QED BY <1>2, <1>15, <2>1 DEF SetNonblock
<1> QED BY <1>3, <1>4, <1>5, <1>6, <1>7, <1>8, <1>9, <1>10, <1>11, <1>12, <1>13, <1>14, <1>15
        DEF DescriptorCall


\* The system calls that read and write, and those that take a capability.
LEMMA DataSound ==
    ASSUME IInv, DataCall
    PROVE  IInv'
<1>1. TablesOK(tab) /\ OthersOK /\ mode \in Modes
  BY DEF IInv, OthersOK
<1>2. Strings \subseteq Seq(Bytes) /\ ReadLens \subseteq Nat
  BY UserFdAssumption
<1>3. ASSUME TablesOK(tab)', mode' \in Modes,
             UNCHANGED <<stdio, inherit, marker, task, cur, ret, rt, spawns>>
      PROVE  IInv'
  BY <1>1, <1>3 DEF IInv, OthersOK
<1>4. ASSUME NEW f \in FdNumbers, NEW n \in ReadLens, Read(f, n) PROVE IInv'
  <2> DEFINE g == ReadTarget(f)
  <2>1. g \in Fds /\ ReadFrom(tab.fd[g], n) /\ n \in Nat
    BY <1>2, <1>4 DEF Read, IsOpen
  <2>2. TablesOK(tab') /\ mode' \in Modes
    BY <1>1, <2>1, ReadKept
  <2> QED BY <1>3, <1>4, <2>2 DEF Read
<1>5. ASSUME NEW f \in FdNumbers, NEW s \in Strings, Write(f, s) PROVE IInv'
  <2> DEFINE g == WriteTarget(f)
  <2>1. g \in Fds /\ WriteTo(tab.fd[g], s) /\ s \in Seq(Bytes)
    BY <1>2, <1>5 DEF Write, IsOpen
  <2>2. TablesOK(tab') /\ mode' \in Modes
    BY <1>1, <2>1, WriteKept
  <2> QED BY <1>3, <1>5, <2>2 DEF Write
<1>6. ASSUME NEW c \in tab.caps, CapClose(c) PROVE IInv'
  <2>1. TablesOK(tab')
    BY <1>1, <1>6, ReleaseKept DEF CapClose
  <2> QED BY <1>1, <1>3, <1>6, <2>1 DEF CapClose, taskVars
<1>7. ASSUME NEW c \in tab.caps, NEW n \in ReadLens, CapRead(c, n) PROVE IInv'
  <2> DEFINE g == c.fd
  <2>1. g \in Fds /\ ReadFrom(tab.fd[g], n) /\ n \in Nat
    BY <1>2, <1>7 DEF CapRead, Accepts, IsOpen
  <2>2. TablesOK(tab') /\ mode' \in Modes
    BY <1>1, <2>1, ReadKept
  <2> QED BY <1>3, <1>7, <2>2 DEF CapRead
<1>8. ASSUME NEW c \in tab.caps, NEW s \in Strings, CapWrite(c, s) PROVE IInv'
  <2> DEFINE g == c.fd
  <2>1. g \in Fds /\ WriteTo(tab.fd[g], s) /\ s \in Seq(Bytes)
    BY <1>2, <1>8 DEF CapWrite, Accepts, IsOpen
  <2>2. TablesOK(tab') /\ mode' \in Modes
    BY <1>1, <2>1, WriteKept
  <2> QED BY <1>3, <1>8, <2>2 DEF CapWrite
<1> QED BY <1>4, <1>5, <1>6, <1>7, <1>8 DEF DataCall

\* The records of the tasks once one has ended or could not be loaded.
LEMMA EndedFact ==
    ASSUME task \in [Tasks -> TaskRecords], NEW t
    PROVE  Ended(t) \in [Tasks -> TaskRecords] /\ Failed(t) \in [Tasks -> TaskRecords]
<1>1. \A u \in Tasks :
        /\ task[u] \in TaskRecords
        /\ [task[u] EXCEPT !.st = "ready", !.awaits = NoTask] \in TaskRecords
        /\ [task[u] EXCEPT !.st = IF u = cur THEN "running" ELSE @, !.awaits = NoTask] \in TaskRecords
  BY DEF TaskRecords, TaskStates
<1> QED BY <1>1, TaskFact DEF Ended, Failed

\* The tables and streams at the launch of a task.
LEMMA LaunchFact ==
    ASSUME IInv, NEW t \in Tasks
    PROVE  /\ TablesOK(CleanupMappings(tab)) /\ TablesOK(TablesAtLaunch(t))
           /\ StdioAtLaunch(t) \in [Streams -> FdNumbers]
           /\ task[t].stdio \in [Streams -> FdNumbers] /\ task[t].inherit \in BOOLEAN
<1>1. TablesOK(tab) /\ task \in [Tasks -> TaskRecords]
  BY DEF IInv, OthersOK
<1>2. TablesOK(CleanupMappings(tab))
  BY <1>1, ResetKept DEF CleanupMappings
<1>3. TablesOK(TablesAtLaunch(t))
  BY <1>2, ResetKept DEF TablesAtLaunch
<1>4. task[t].stdio \in [Streams -> FdNumbers] /\ task[t].inherit \in BOOLEAN
  BY <1>1 DEF TaskRecords
<1> QED BY <1>2, <1>3, <1>4, StreamsFact DEF StdioAtLaunch

\* The system calls that create, await and end tasks.
LEMMA TasksSound ==
    ASSUME IInv, TaskCall
    PROVE  IInv'
<1>1. TablesOK(tab) /\ OthersOK /\ task \in [Tasks -> TaskRecords]
  BY DEF IInv, OthersOK
<1>2. ASSUME NEW t \in Tasks, NEW inh \in BOOLEAN, NEW io \in [Streams -> FdNumbers],
             Spawned(t, inh, io)
      PROVE  IInv'
  <2>1. task' \in [Tasks -> TaskRecords]
    BY <1>1, <1>2, TaskFact DEF Spawned
  <2>2. spawns' \in 0 .. MaxSpawns
    BY <1>1, <1>2, UserFdAssumption DEF Spawned, OthersOK
  <2> QED BY <1>1, <1>2, <2>1, <2>2 DEF Spawned, IInv, OthersOK
<1>3. ASSUME NEW t \in Tasks, Spawn(t) PROVE IInv'
  BY <1>1, <1>2, <1>3 DEF Spawn, OthersOK
<1>4. ASSUME NEW t \in Tasks, NEW inh \in BOOLEAN, NEW in \in FdNumbers, NEW out \in FdNumbers,
             SpawnEx(t, inh, in, out)
      PROVE  IInv'
  <2>1. StdioOf(in, out) \in [Streams -> FdNumbers] /\ Spawned(t, inh, StdioOf(in, out))
    BY <1>4, StreamsFact DEF SpawnEx
  <2> QED BY <1>2, <2>1
<1>5. ASSUME NEW t \in Tasks, Wait(t) PROVE IInv'
  <2>1. cur \in Tasks /\ task' = [task EXCEPT ![cur].st = "waiting", ![cur].awaits = t]
    BY <1>1, <1>5 DEF Wait, OthersOK
  <2>2. task' \in [Tasks -> TaskRecords]
    <3>1. [task[cur] EXCEPT !.st = "waiting", !.awaits = t] \in TaskRecords
      BY <1>1, <2>1 DEF TaskRecords, TaskStates
    <3>2. task' = [task EXCEPT ![cur] = [task[cur] EXCEPT !.st = "waiting", !.awaits = t]]
      BY <1>1, <2>1
    <3> QED BY <1>1, <2>1, <3>1, <3>2
  <2>3. /\ UNCHANGED <<tab, stdio, inherit, marker, cur, rt, spawns>>
        /\ mode' \in Modes /\ ret' \in Returns
    BY <1>5 DEF Wait, Modes, Returns
  <2> QED BY <1>1, <2>2, <2>3 DEF IInv, OthersOK
<1>6. CASE Exit
  <2>1. TablesOK(tab') /\ task' \in [Tasks -> TaskRecords] /\ stdio' \in [Streams -> FdNumbers]
    BY <1>1, <1>6, ResetKept, EndedFact, StreamsFact DEF Exit, OthersOK
  <2>2. mode' \in Modes /\ UNCHANGED <<inherit, marker, cur, ret, rt, spawns>>
    BY <1>6 DEF Exit, Modes
  <2> QED BY <1>1, <2>1, <2>2 DEF IInv, OthersOK
<1>7. CASE Fault
  <2>1. task' \in [Tasks -> TaskRecords]
    BY <1>1, <1>7, EndedFact DEF Fault
  <2>2. mode' \in Modes /\ UNCHANGED <<tab, stdio, inherit, marker, cur, ret, rt, spawns>>
    BY <1>7 DEF Fault, Modes
  <2> QED BY <1>1, <2>1, <2>2 DEF IInv, OthersOK
<1> QED BY <1>3, <1>4, <1>5, <1>6, <1>7 DEF TaskCall

RuntimeOK(r) ==
    r \in [active : BOOLEAN, left : 0 .. MaxStages, input : FdNumbers,
           close_in : FdNumbers, close_out : FdNumbers, task : Tasks \cup {NoTask}]

\* What the pipeline closes.
LEMMA DeferredFact ==
    ASSUME TablesOK(tab)
    PROVE  TablesOK(Deferred(tab)) /\ TablesOK(ResetAll(Release(Deferred(tab), rt.input)))
<1>1. TablesOK(Deferred(tab))
  BY ReleaseKept DEF Deferred
<1> QED BY <1>1, ReleaseKept, ResetKept

\* The end of a pipeline.
LEMMA FinishFact ==
    ASSUME IInv, Finish, UNCHANGED <<marker, taskVars>>
    PROVE  IInv'
<1>1. TablesOK(tab) /\ OthersOK
  BY DEF IInv
<1>2. /\ TablesOK(tab') /\ stdio' \in [Streams -> FdNumbers] /\ inherit' \in BOOLEAN
      /\ RuntimeOK(rt')
  BY <1>1, DeferredFact, StreamsFact, IdleFact DEF Finish, RuntimeOK
<1> QED BY <1>1, <1>2 DEF IInv, OthersOK, RuntimeOK, taskVars

\* The next stage gets its streams.
LEMMA StageFact ==
    ASSUME IInv, NEW t \in Tasks \cup {NoTask}, NextStage(t)
    PROVE  TablesOK(tab') /\ stdio' \in [Streams -> FdNumbers] /\ RuntimeOK(rt')
<1> DEFINE T == Deferred(tab)
           a == FirstFd(T)
           b == SecondFd(T)
           p == Least(FreePipes(T))
<1>1. TablesOK(tab) /\ RuntimeOK(rt) /\ TablesOK(T)
  BY DeferredFact DEF IInv, OthersOK, RuntimeOK
<1>2. /\ rt = [active |-> rt.active, left |-> rt.left, input |-> rt.input,
               close_in |-> rt.close_in, close_out |-> rt.close_out, task |-> rt.task]
      /\ rt.active \in BOOLEAN /\ rt.left \in 0 .. MaxStages /\ rt.input \in FdNumbers
      /\ DOMAIN rt = {"active", "left", "input", "close_in", "close_out", "task"}
  BY <1>1 DEF RuntimeOK
<1> HIDE DEF T
<1>3. CASE rt.left > 1
  <2>1. PICK ok \in SpoolOutcomes : LinkFrom(T, rt.input, t, ok)
    BY <1>3 DEF NextStage, T
  <2>2. /\ CanCreatePipe(T) /\ tab' = Spooled(NewPipe(T), p, ok)
        /\ stdio' = [i \in Streams |-> IF i = 0 THEN rt.input ELSE b]
        /\ rt' = [rt EXCEPT !.left = rt.left - 1, !.close_in = rt.input,
                            !.close_out = b, !.input = a, !.task = t]
    BY <2>1 DEF LinkFrom
  <2>3. TablesOK(NewPipe(T)) /\ a \in Fds /\ b \in Fds /\ p \in Pipes
        /\ NewPipe(T).pipe[p] = BothEnds
    BY <1>1, <2>2, NewPipeKept
  <2>4. TablesOK(tab')
    BY <2>2, <2>3, SpooledKept
  <2>5. a \in FdNumbers /\ b \in FdNumbers
    BY <2>3, FdsFact
  <2> HIDE DEF a, b, p
  <2>6. stdio' \in [Streams -> FdNumbers]
    BY <1>2, <2>2, <2>5
  <2>7. rt.left - 1 \in 0 .. MaxStages
    BY <1>2, <1>3, UserFdAssumption
  <2>8. RuntimeOK(rt')
    <3> DEFINE n == rt.left - 1
    <3>1. n \in 0 .. MaxStages
      BY <2>7
    <3>2. rt' = [rt EXCEPT !.left = n, !.close_in = rt.input,
                           !.close_out = b, !.input = a, !.task = t]
      BY <2>2
    <3> HIDE DEF n
    <3>3. rt' = [active |-> rt.active, left |-> n, input |-> a,
                 close_in |-> rt.input, close_out |-> b, task |-> t]
      BY <1>2, <3>2
    <3> QED BY <1>2, <2>5, <3>1, <3>3 DEF RuntimeOK
  <2> QED BY <2>4, <2>6, <2>8
<1>4. CASE ~ (rt.left > 1)
  <2>1. /\ tab' = T /\ stdio' = [i \in Streams |-> IF i = 0 THEN rt.input ELSE 1]
        /\ rt' = [rt EXCEPT !.left = 0, !.close_in = rt.input,
                            !.close_out = NoFd, !.input = NoFd, !.task = t]
    BY <1>4 DEF NextStage, LastFrom, T
  <2>2. stdio' \in [Streams -> FdNumbers]
    BY <1>2, <2>1, FdsFact
  <2>3. rt' = [active |-> rt.active, left |-> 0, input |-> NoFd,
               close_in |-> rt.input, close_out |-> NoFd, task |-> t]
    BY <1>2, <2>1
  <2>4. RuntimeOK(rt')
    BY <1>2, <2>3, IdleFact, UserFdAssumption DEF RuntimeOK
  <2> QED BY <1>1, <2>1, <2>2, <2>4
<1> QED BY <1>3, <1>4

\* Launches, failed launches, ends of tasks and pipelines.
LEMMA KernelSound ==
    ASSUME IInv, Kernel
    PROVE  IInv'
<1>1. TablesOK(tab) /\ OthersOK /\ task \in [Tasks -> TaskRecords] /\ ret \in Returns
      /\ NoTask \in Tasks \cup {NoTask}
  BY DEF IInv, OthersOK
<1>2. ASSUME NEW t \in Tasks, Launch(t) PROVE IInv'
  <2>1. /\ TablesOK(tab') /\ inherit' \in BOOLEAN /\ stdio' \in [Streams -> FdNumbers]
    BY <1>2, LaunchFact DEF Launch
  <2>2. task' \in [Tasks -> TaskRecords]
    <3>1. [task[t] EXCEPT !.st = "running"] \in TaskRecords
      BY <1>1 DEF TaskRecords, TaskStates
    <3>2. task' = [task EXCEPT ![t] = [task[t] EXCEPT !.st = "running"]]
      BY <1>1, <1>2 DEF Launch
    <3> QED BY <1>1, <3>1, <3>2
  <2>3. /\ cur' \in Tasks \cup {NoTask} /\ mode' \in Modes /\ ret' \in Returns
        /\ UNCHANGED <<marker, rt, spawns>>
    BY <1>2 DEF Launch, Modes, Returns
  <2> QED BY <1>1, <2>1, <2>2, <2>3 DEF IInv, OthersOK
<1>3. ASSUME NEW t \in Tasks, LaunchFails(t) PROVE IInv'
  <2>1. TablesOK(tab') /\ inherit' \in BOOLEAN /\ stdio' \in [Streams -> FdNumbers]
    BY <1>1, <1>3, LaunchFact DEF LaunchFails
  <2>2. task' \in [Tasks -> TaskRecords]
    BY <1>1, <1>3, EndedFact DEF LaunchFails
  <2>3. /\ mode' \in Modes /\ ret' \in Returns /\ UNCHANGED <<cur, marker, rt, spawns>>
    BY <1>1, <1>3 DEF LaunchFails, ModeAfterFailure, Modes, Returns
  <2> QED BY <1>1, <2>1, <2>2, <2>3 DEF IInv, OthersOK
<1>4. ASSUME NEW t \in Tasks, ResumeTask(t) PROVE IInv'
  <2>1. TablesOK(tab') /\ stdio' \in [Streams -> FdNumbers] /\ RuntimeOK(rt')
    BY <1>4, StageFact DEF ResumeTask
  <2>2. task' \in [Tasks -> TaskRecords]
    <3>1. NewTask(inherit, stdio') \in TaskRecords
      BY <1>1, <2>1, TaskFact DEF OthersOK
    <3>2. task' = [task EXCEPT ![t] = NewTask(inherit, stdio')]
      BY <1>4 DEF ResumeTask
    <3> QED BY <1>1, <3>1, <3>2
  <2>3. /\ mode' \in Modes /\ ret' \in Returns /\ UNCHANGED <<inherit, marker, cur, spawns>>
    BY <1>4 DEF ResumeTask, Modes, Returns
  <2> QED BY <1>1, <2>1, <2>2, <2>3 DEF IInv, OthersOK, RuntimeOK
<1>5. CASE NothingReady
  BY <1>1, <1>5 DEF NothingReady, IInv, OthersOK, Modes, Returns
<1>6. CASE AbortContinue
  <2>1. TablesOK(tab')
    BY <1>1, <1>6, ResetKept DEF AbortContinue, CleanupMappings
  <2> QED BY <1>1, <1>6, <2>1 DEF AbortContinue, IInv, OthersOK, Modes, Returns
<1>7. CASE ResumeBuiltin
  <2>1. TablesOK(tab') /\ stdio' \in [Streams -> FdNumbers] /\ RuntimeOK(rt')
    BY <1>1, <1>7, StageFact DEF ResumeBuiltin
  <2> QED BY <1>1, <1>7, <2>1 DEF ResumeBuiltin, IInv, OthersOK, RuntimeOK, taskVars
<1>8. CASE ResumeFails
  BY <1>8, FinishFact DEF ResumeFails
<1>9. CASE PipelineFinish
  BY <1>9, FinishFact DEF PipelineFinish
<1> QED BY <1>2, <1>3, <1>4, <1>5, <1>6, <1>7, <1>8, <1>9 DEF Kernel

\* Commands of the user, and Ctrl-C.
LEMMA UserSound ==
    ASSUME IInv, User
    PROVE  IInv'
<1>1. TablesOK(tab) /\ OthersOK /\ task \in [Tasks -> TaskRecords]
  BY DEF IInv, OthersOK
<1>2. ASSUME NEW t \in Tasks, ShellRun(t) PROVE IInv'
  <2>1. NewTask(inherit, stdio) \in TaskRecords
    BY <1>1, TaskFact DEF OthersOK
  <2>2. task' \in [Tasks -> TaskRecords]
    BY <1>1, <1>2, <2>1 DEF ShellRun
  <2>3. /\ UNCHANGED <<tab, stdio, inherit, marker, cur, rt, spawns>>
        /\ mode' \in Modes /\ ret' \in Returns
    BY <1>2 DEF ShellRun, Modes, Returns
  <2> QED BY <1>1, <2>2, <2>3 DEF IInv, OthersOK
<1>3. CASE PollScheduler
  BY <1>1, <1>3 DEF PollScheduler, IInv, OthersOK, Modes, Returns
<1>4. ASSUME NEW n \in 2 .. MaxStages, ExecutePipeline(n) PROVE IInv'
  <2>1. n \in 0 .. MaxStages
    BY UserFdAssumption
  <2>2. RuntimeOK(rt')
    <3> DEFINE r == IdleRuntime
    <3>1. r \in [active : BOOLEAN, left : 0 .. MaxStages, input : FdNumbers,
                 close_in : FdNumbers, close_out : FdNumbers, task : Tasks \cup {NoTask}]
      BY IdleFact
    <3>2. rt' = [r EXCEPT !.active = TRUE, !.left = n]
      BY <1>4 DEF ExecutePipeline
    <3> HIDE DEF r
    <3> QED BY <2>1, <3>1, <3>2 DEF RuntimeOK
  <2>3. inherit' \in BOOLEAN /\ UNCHANGED <<tab, stdio, marker, taskVars>>
    BY <1>4 DEF ExecutePipeline
  <2> QED BY <1>1, <2>2, <2>3 DEF IInv, OthersOK, RuntimeOK, taskVars
<1>5. ASSUME NEW b \in BOOLEAN, Interrupt(b) PROVE IInv'
  <2>1. task' \in [Tasks -> TaskRecords] /\ cur' \in Tasks \cup {NoTask}
    BY <1>1, <1>5, EndedFact DEF Interrupt, OthersOK
  <2>2. mode' \in Modes /\ UNCHANGED <<tab, stdio, inherit, marker, ret, rt, spawns>>
    BY <1>5 DEF Interrupt, Modes
  <2> QED BY <1>1, <2>1, <2>2 DEF IInv, OthersOK
<1> QED BY <1>2, <1>3, <1>4, <1>5 DEF User


-----------------------------------------------------------------------------
(* The theorems *)

\* Every step keeps the invariant.
LEMMA StepSound == IInv /\ [Next]_<<vars, calls>> => IInv'
<1> SUFFICES ASSUME IInv, [Next]_<<vars, calls>> PROVE IInv'
  OBVIOUS
<1>1. CASE UNCHANGED <<vars, calls>>
  <2>1. UNCHANGED <<tab, stdio, inherit, marker, task, cur, mode, ret, rt, spawns>>
    BY <1>1 DEF vars
  <2> QED BY <2>1 DEF IInv, OthersOK
<1>2. CASE Next
  BY <1>2, DescriptorsSound, DataSound, TasksSound, KernelSound, UserSound DEF Next
<1> QED BY <1>1, <1>2

\* The descriptors of an object and their counts.
LEMMA HeldFact ==
    ASSUME NEW F, NEW k, NEW o, NEW e
    PROVE  HoldersOf(F, k, o, e) # {} <=> Count(F, k, o, e) > 0
<1> DEFINE H == HoldersOf(F, k, o, e)
           n == Cardinality(H)
<1>1. IsFiniteSet(H) /\ n \in Nat /\ (n = 0 <=> H = {})
  BY CountType, FS_EmptySet DEF Count
<1>2. Count(F, k, o, e) = n
  BY DEF Count
<1> HIDE DEF H, n
<1>3. H # {} <=> n > 0
  BY <1>1
<1> QED BY <1>2, <1>3 DEF H

\* What the invariant of the tables says of them.
LEMMA TablesMeaning ==
    ASSUME IInv
    PROVE  ObjectsSound
<1>1. /\ TablesOK(tab) /\ OthersOK /\ FdsOK(tab.fd) /\ PipesOK(tab.fd, tab.pipe)
      /\ PtysOK(tab.fd, tab.pty) /\ CapsOK(tab.reg, tab.caps)
  BY DEF IInv, TablesOK
<1>2. TypeOK
  <2>1. tab.fd \in [Fds -> FdRecords]
    BY <1>1 DEF FdsOK
  <2>2. tab.pipe \in [Pipes -> PipeRecords]
    BY <1>1 DEF PipesOK
  <2>3. tab.pty \in [Ptys -> PtyRecords]
    BY <1>1 DEF PtysOK
  <2> QED BY <1>1, <2>1, <2>2, <2>3 DEF TypeOK, CapsOK, OthersOK
<1>3. \A k, o, e : /\ Holders(k, o, e) = HoldersOf(tab.fd, k, o, e)
                   /\ Cardinality(Holders(k, o, e)) = Count(tab.fd, k, o, e)
                   /\ (Holders(k, o, e) # {} <=> Count(tab.fd, k, o, e) > 0)
  <2> TAKE k, o, e
  <2>1. Holders(k, o, e) = HoldersOf(tab.fd, k, o, e)
    BY DEF Holders, HoldersOf
  <2>2. HoldersOf(tab.fd, k, o, e) # {} <=> Count(tab.fd, k, o, e) > 0
    <3> DEFINE F == tab.fd
    <3> HIDE DEF F
    <3>1. HoldersOf(F, k, o, e) # {} <=> Count(F, k, o, e) > 0
      BY HeldFact
    <3> QED BY <3>1 DEF F
  <2> QED BY <2>1, <2>2 DEF Count
<1>4. RefsMatch
  BY <1>1, <1>3 DEF RefsMatch, PipesOK, PtysOK, PipeHeld, PtyHeld
<1>5. ObjectsLive
  <2>1. ASSUME NEW p \in Pipes
        PROVE  /\ Holders("pipe", p, "r") \cup Holders("pipe", p, "w") # {} => tab.pipe[p].used
               /\ tab.pipe[p].used /\ tab.pipe[p].fifo = NoPath
                    => Holders("pipe", p, "r") \cup Holders("pipe", p, "w") # {}
    <3>1. PipeHeld(tab.pipe[p], Count(tab.fd, "pipe", p, "r"), Count(tab.fd, "pipe", p, "w"))
      BY <1>1 DEF PipesOK
    <3> QED BY <1>3, <3>1 DEF PipeHeld
  <2>2. ASSUME NEW t \in Ptys
        PROVE  tab.pty[t].used <=> Holders("pty", t, "m") \cup Holders("pty", t, "s") # {}
    <3>1. PtyHeld(tab.pty[t], Count(tab.fd, "pty", t, "m"), Count(tab.fd, "pty", t, "s"))
      BY <1>1 DEF PtysOK
    <3> QED BY <1>3, <3>1 DEF PtyHeld
  <2>3. ASSUME NEW path \in Paths
        PROVE  Cardinality(FifosAt(tab, path)) <= 1
    <3>1. path # NoPath
      BY UserFdAssumption
    <3>2. \A p, q \in FifosAt(tab, path) : p = q
      BY <1>1, <3>1 DEF FifosAt, PipesOK
    <3>3. CASE FifosAt(tab, path) = {}
      BY <3>3, FS_EmptySet
    <3>4. CASE FifosAt(tab, path) # {}
      <4>1. PICK p \in FifosAt(tab, path) : TRUE
        BY <3>4
      <4>2. FifosAt(tab, path) = {p}
        BY <3>2, <4>1
      <4>3. Cardinality({p}) = 1
        BY FS_Singleton
      <4> QED BY <4>2, <4>3
    <3> QED BY <3>3, <3>4
  <2> QED BY <2>1, <2>2, <2>3 DEF ObjectsLive
<1>6. CapsFresh
  <2>1. ASSUME NEW c \in tab.caps, Accepts(tab, c), ~c.live PROVE FALSE
    <3>1. c.epoch < tab.reg[c.fd] /\ tab.reg[c.fd] = c.epoch /\ c.epoch \in Nat
      BY <1>1, <2>1 DEF CapsOK, Accepts, Caps
    <3> QED BY <3>1
  <2> QED BY <2>1 DEF CapsFresh
<1> QED BY <1>2, <1>4, <1>5, <1>6 DEF ObjectsSound

\* After any sequence of descriptor calls, capability calls, launches and ends
\* of tasks and pipelines the descriptors, the reference counts, the objects
\* and the capabilities agree (user_fd_release, user_fd_duplicate_into,
\* syscall_kernel_pipe_create, syscall_reset_user_fds, cap_revoke_object).
THEOREM ObjectsStaySound == Spec => []ObjectsSound
<1>1. IInv => ObjectsSound
  BY TablesMeaning
<1> QED BY InitSound, StepSound, <1>1, PTL DEF Spec

\* A pipe that has no spool returns the bytes in the order they were written.
UnspooledInOrder ==
    \A p \in Pipes :
      ~tab.pipe[p].spooling =>
        /\ Content(tab.pipe[p].buf) = tab.pipe[p].sent
        /\ Content(tab.pipe[p].spool) = <<>>

\* Every pipe and FIFO but the spooled links of shell pipelines returns exactly
\* what was written, in order, for every buffer size, string and read length and
\* wherever the ring wraps (user_pipe_copyin_bytes, user_pipe_copyout_bytes).
THEOREM PipesStayInOrder == Spec => []UnspooledInOrder
<1>1. IInv => UnspooledInOrder
  BY DEF IInv, TablesOK, PipesOK, PipeOK, InStep, UnspooledInOrder
<1> QED BY InitSound, StepSound, <1>1, PTL DEF Spec
=============================================================================
