-------------------------------- MODULE Nic --------------------------------
(***************************************************************************)
(* The network cards: the descriptor rings of the e1000                    *)
(* (src/src/drivers/e1000.c) and the single command block and receive      *)
(* frame of the e100 (src/src/drivers/e100.c), with the card and the       *)
(* driver taking turns.  Frames are numbered as they arrive and as they    *)
(* are sent.                                                               *)
(***************************************************************************)
EXTENDS Integers, Sequences, FiniteSets

CONSTANTS
    RxRing, TxRing,    \* E1000_RX_RING_COUNT, E1000_TX_RING_COUNT
    Frames             \* bound: frames that arrive, and that are sent

ASSUME NicAssumption ==
    RxRing \in Nat \ {0, 1} /\ TxRing \in Nat \ {0, 1} /\ Frames \in Nat

VARIABLES
    card,       \* "e1000", "e100" or "none"
    csr,        \* the card: receive head and tail, send head and tail, cause
    rxd, txd,   \* descriptors: the frame in each (0: none) and its DD bit
    drv,        \* g_e1000, g_e100: rx_cur, tx_tail, rx_irq_pending, a send
    air         \* ghost: arrived, taken in by the card, handed up; sent, on
                \* the wire, and reported sent
nicvars == <<card, csr, rxd, txd, drv, air>>

Free == [frame |-> 0, dd |-> FALSE]

\* e1000_rx_init_once and e1000_tx_init_once.
NicInit ==
    /\ card = "none"
    /\ rxd = [i \in 0..(RxRing - 1) |-> Free]
    /\ txd = [i \in 0..(TxRing - 1) |-> Free]
    /\ csr = [rdh |-> 0, rdt |-> RxRing - 1, tdh |-> 0, tdt |-> 0,
               fetched |-> 0, icr |-> FALSE, running |-> FALSE]
    /\ drv = [cur |-> 0, tail |-> 0, pending |-> FALSE, sending |-> -1]
    /\ air = [came |-> 0, taken |-> <<>>, up |-> <<>>,
              sent |-> 0, wire |-> <<>>, told |-> {}]

\* What e100_init and e1000_probe find on the PCI buses.
Cards == {"e100", "e1000"}

\* net_init_default takes the e100 if e100_init brings it up, else the e1000.
\* The receiver of an e100 runs once its first frame is prepared.
NetInitDefault ==
    /\ card = "none"
    /\ card' \in Cards
    /\ csr' = [csr EXCEPT !.running = TRUE]
    /\ UNCHANGED <<rxd, txd, drv, air>>

Wrap(i, n) == (i + 1) % n

\* The card: a frame goes to the descriptor at the head unless the driver
\* still has it.  The e100 has one receive frame and suspends after it.
Arrives ==
    LET n == air.came + 1
        at == IF card = "e1000" THEN csr.rdh ELSE 0
        room == IF card = "e1000" THEN csr.rdh # csr.rdt ELSE csr.running
    IN  /\ card # "none" /\ n <= Frames
        /\ csr' = [csr EXCEPT !.icr = TRUE,
                        !.rdh = IF room /\ card = "e1000" THEN Wrap(at, RxRing) ELSE @,
                        !.running = @ /\ card = "e1000"]
        /\ rxd' = IF room THEN [rxd EXCEPT ![at] = [frame |-> n, dd |-> TRUE]]
                  ELSE rxd
        /\ air' = [air EXCEPT !.came = n,
                              !.taken = IF room THEN Append(@, n) ELSE @]
        /\ UNCHANGED <<card, txd, drv>>

\* e1000_irq_handler, e100_irq_handler: the cause is cleared by reading it.
Interrupt ==
    /\ csr.icr
    /\ csr' = [csr EXCEPT !.icr = FALSE]
    /\ drv' = [drv EXCEPT !.pending = TRUE]
    /\ UNCHANGED <<card, rxd, txd, air>>

\* Bug of another e1000_rx_poll_frame: gives back the next descriptor.
NextHandedBack(i) == Wrap(i, RxRing)
HandedBack(i) == i

\* e1000_rx_poll_frame.
PollE1000 ==
    LET i == drv.cur IN
    /\ card = "e1000" /\ rxd[i].dd
    /\ air' = [air EXCEPT !.up = Append(@, rxd[i].frame)]
    /\ rxd' = [rxd EXCEPT ![i].dd = FALSE]
    /\ csr' = [csr EXCEPT !.rdt = HandedBack(i)]
    /\ drv' = [drv EXCEPT !.cur = Wrap(i, RxRing)]
    /\ UNCHANGED <<card, txd>>

\* e100_rx_poll_frame, and e100_prepare_rx_once when the card takes the two
\* commands; when it does not, the frame is cleared and nothing restarts it.
PollE100 ==
    /\ card = "e100" /\ rxd[0].dd
    /\ air' = [air EXCEPT !.up = Append(@, rxd[0].frame)]
    /\ rxd' = [rxd EXCEPT ![0] = Free]
    /\ drv' = [drv EXCEPT !.pending = FALSE]
    /\ \E accepted \in BOOLEAN : csr' = [csr EXCEPT !.running = accepted]
    /\ UNCHANGED <<card, txd>>

\* The window manager's loop polls until there is nothing, then clears the
\* flag; the tick's poll does not look at it.
ClearPending ==
    /\ card = "e1000" /\ drv.pending /\ ~rxd[drv.cur].dd
    /\ drv' = [drv EXCEPT !.pending = FALSE]
    /\ UNCHANGED <<card, csr, rxd, txd, air>>

-----------------------------------------------------------------------------
\* e1000_tx_send_frame and e100_send_frame: a descriptor is filled and given
\* to the card; the e100 aborts its command unit first and has only one.
Send ==
    LET n == air.sent + 1
        i == IF card = "e1000" THEN drv.tail ELSE 0
    IN  /\ card # "none" /\ drv.sending = -1 /\ n <= Frames
        /\ txd' = [txd EXCEPT ![i] = [frame |-> n, dd |-> FALSE]]
        /\ drv' = [drv EXCEPT !.sending = i,
                              !.tail = IF card = "e1000" THEN Wrap(i, TxRing) ELSE @]
        /\ csr' = IF card = "e1000" THEN [csr EXCEPT !.tdt = Wrap(i, TxRing)]
                   ELSE [csr EXCEPT !.fetched = 0, !.tdh = 0, !.tdt = 1]
        /\ air' = [air EXCEPT !.sent = n]
        /\ UNCHANGED <<card, rxd>>

\* The card reads the descriptor at its head,
Fetch ==
    /\ csr.fetched = 0 /\ csr.tdh # csr.tdt
    /\ csr' = [csr EXCEPT !.fetched = txd[csr.tdh].frame]
    /\ UNCHANGED <<card, rxd, txd, drv, air>>

\* puts its frame on the wire and writes the descriptor back.
Transmit ==
    /\ csr.fetched # 0
    /\ air' = [air EXCEPT !.wire = Append(@, csr.fetched)]
    /\ txd' = [txd EXCEPT ![csr.tdh].dd = TRUE]
    /\ csr' = [csr EXCEPT !.fetched = 0,
                    !.tdh = IF card = "e1000" THEN Wrap(@, TxRing) ELSE csr.tdt]
    /\ UNCHANGED <<card, rxd, drv>>

Done(i) == txd[i].dd

\* The wait for the descriptor's DD bit, or for the block's C bit, ends.
Sent ==
    /\ drv.sending # -1 /\ Done(drv.sending)
    /\ air' = [air EXCEPT !.told = @ \cup {txd[drv.sending].frame}]
    /\ drv' = [drv EXCEPT !.sending = -1]
    /\ UNCHANGED <<card, csr, rxd, txd>>

\* Or the turns are used up: the frame is reported lost, and may still go out.
SendGivesUp ==
    /\ drv.sending # -1 /\ ~Done(drv.sending)
    /\ drv' = [drv EXCEPT !.sending = -1]
    /\ UNCHANGED <<card, csr, rxd, txd, air>>

NicNext ==
    \/ NetInitDefault
    \/ Arrives
    \/ Interrupt
    \/ PollE1000
    \/ PollE100
    \/ ClearPending
    \/ Send
    \/ Fetch
    \/ Transmit
    \/ Sent
    \/ SendGivesUp

-----------------------------------------------------------------------------
\* Frames are handed up in the order in which the card took them in, each
\* once, and a card that has taken in more than was handed up has them in the
\* descriptors the driver looks at next: none is overwritten or skipped.  The
\* e1000 owns all the others but one, so that it never stops for good.
ReceivesInOrder ==
    LET waiting == Len(air.taken) - Len(air.up)
        ring == IF card = "e1000" THEN RxRing ELSE 1
    IN  /\ waiting \in 0..ring
        /\ air.up = SubSeq(air.taken, 1, Len(air.up))
        /\ \A k \in 1..waiting :
            rxd[(drv.cur + k - 1) % ring] =
                [frame |-> air.taken[Len(air.up) + k], dd |-> TRUE]
        /\ card = "e1000" =>
            (csr.rdt + ring - csr.rdh) % ring = ring - 1 - waiting

\* The descriptors the card has still to fetch have not been filled again:
\* as many sends in a row as the ring is long may give up before the driver
\* comes round to one of them.
NotLapped == card = "e1000" => air.sent - Len(air.wire) < TxRing

\* A send that reports success has put its frame on the wire; frames reach
\* the wire in the order of the sends and none twice.
SentIsSent ==
    NotLapped =>
        /\ \A n \in air.told : \E k \in DOMAIN air.wire : air.wire[k] = n
        /\ \A j, k \in DOMAIN air.wire : j < k => air.wire[j] < air.wire[k]
====
