------------------------------ MODULE ByteRing ------------------------------
(***************************************************************************)
(* The ring buffers of pipes, spools and PTYs, and the two copy loops of   *)
(* src/src/cpu/isr.c that move bytes in and out of them a contiguous chunk *)
(* at a time.  A ring is a record of its cells, numbered from 0, the read  *)
(* and the write position, and the bytes used.                             *)
(***************************************************************************)
EXTENDS Naturals, Sequences

Bytes == {0, 1}

Cap(ring) == Len(ring.cells)
Cell(ring, i) == ring.cells[i + 1]

EmptyRing(cap) ==
    [cells |-> [i \in 1..cap |-> 0], rpos |-> 0, wpos |-> 0, used |-> 0]

\* Positions and count are cleared, the bytes stay where they are.
Rewound(ring) == [ring EXCEPT !.rpos = 0, !.wpos = 0, !.used = 0]

Rings(cap) == [cells : [1..cap -> Bytes], rpos : 0..(cap - 1),
               wpos : 0..(cap - 1), used : 0..cap]

\* The bytes of a ring in the order they were written.
Content(ring) ==
    [i \in 1..ring.used |-> Cell(ring, (ring.rpos + i - 1) % Cap(ring))]

Least(S) == CHOOSE x \in S : \A y \in S : x <= y

\* One pass of the loop of user_pipe_copyout_bytes: the longest chunk that
\* does not wrap.  `got' is what the reader has so far, `maxlen' its limit.
OutPass(st, maxlen) ==
    LET ring == st.ring
        chunk == Least({Cap(ring) - ring.rpos, ring.used, maxlen - Len(st.got)})
    IN  [ring |-> [ring EXCEPT !.rpos = (@ + chunk) % Cap(ring),
                               !.used = @ - chunk],
         got |-> st.got \o [i \in 1..chunk |-> Cell(ring, ring.rpos + i - 1)]]

\* The read position wraps once at most, so two passes empty any ring.
CopyOut(ring, maxlen) ==
    OutPass(OutPass([ring |-> ring, got |-> <<>>], maxlen), maxlen)

Filled(ring, s, chunk) ==
    [i \in DOMAIN ring.cells |->
        IF i - 1 \in ring.wpos..(ring.wpos + chunk - 1)
        THEN s[i - ring.wpos] ELSE ring.cells[i]]

\* One pass of the loop of user_pipe_copyin_bytes.  `left' is still to copy.
InPass(st) ==
    LET ring == st.ring
        chunk == Least({Cap(ring) - ring.wpos, Cap(ring) - ring.used,
                        Len(st.left)})
    IN  [ring |-> [ring EXCEPT !.cells = Filled(ring, st.left, chunk),
                               !.wpos = (@ + chunk) % Cap(ring),
                               !.used = @ + chunk],
         left |-> SubSeq(st.left, chunk + 1, Len(st.left))]

CopyIn(ring, s) == InPass(InPass([ring |-> ring, left |-> s]))

=============================================================================
