------------------------------- MODULE Input -------------------------------
(***************************************************************************)
(* The keyboard and the mouse share one controller, whose bytes come out   *)
(* of one queue.  A key's bytes are for tui_read_key (tui.c), which turns  *)
(* them into key codes, or for whoever reads the keyboard first: the check *)
(* for Ctrl+C while the network waits and a program's non-blocking read    *)
(* (kb.c).  A mouse's bytes are put together to packets by the interrupt   *)
(* handler and by mouse_poll (mouse.c), which share index and buffer.      *)
(***************************************************************************)
EXTENDS Integers, Sequences

CONSTANTS
    Width,               \* the last column the mouse may be moved to
    PACKET_SIZE,         \* bytes of the packet buffer
    PacketLen,           \* bytes of a packet, 3, or 4 with a wheel
    QueueSize,           \* bytes the controller holds; a device waits for room
    MaxPresses, MaxBytes \* keys pressed, and bytes the mouse sends

VARIABLES
    hand,                \* the device in use: at the mouse, one key is pressed too
    queue,               \* bytes the controller holds
    sent,                \* bytes sent so far
    held, alone,         \* keys held down; Super is, and no other key was pressed
    mods, used, typed,   \* what tui_read_key believes; what a key's press returned
    last,                \* the byte it read last, and what it returned
    stolen,              \* another reader took a byte of the keyboard
    mouse,               \* the mouse driver
    poll                 \* mouse_poll, which the interrupt may fall into

inputvars == <<hand, queue, sent, held, alone, mods, used, typed, last, stolen, mouse, poll>>

Modifiers == {"shift", "ctrl", "super"}
Keys == Modifiers \cup {"caps", "a", "up"}
IsModifier(k) == k \in Modifiers \cup {"caps"}
NoCode == [code |-> "none", with |-> {}]

(***************************************************************************)
(* The devices.  A byte of the mouse carries its place in the packet; the  *)
(* first has its synchronisation bit set, and a movement may look so too.  *)
(***************************************************************************)
KeyByte(k, up, solo) == [aux |-> FALSE, key |-> k, up |-> up, solo |-> solo]
MouseByte(p, part, sync, over, move) ==
    [aux |-> TRUE, packet |-> p, part |-> part, sync |-> sync, over |-> over, move |-> move]

Press ==
    /\ sent < (IF hand = "mouse" THEN MaxBytes ELSE MaxPresses) /\ poll.at = "idle" /\ Len(queue) < QueueSize
    /\ \E k \in (IF hand = "mouse" THEN {"a"} ELSE Keys) \ held :
         /\ held' = held \cup {k}
         /\ alone' = IF k = "super" THEN TRUE ELSE alone /\ IsModifier(k)
         /\ queue' = Append(queue, KeyByte(k, FALSE, FALSE))
    /\ sent' = sent + 1
    /\ UNCHANGED <<mods, used, typed, last, stolen, mouse, poll>>

Release ==
    /\ poll.at = "idle" /\ Len(queue) < QueueSize
    /\ \E k \in held :
         /\ held' = held \ {k}
         /\ queue' = Append(queue, KeyByte(k, TRUE, k = "super" /\ alone))
    /\ UNCHANGED <<sent, alone, mods, used, typed, last, stolen, mouse, poll>>

Move ==
    /\ hand = "mouse" /\ sent + PacketLen <= MaxBytes /\ Len(queue) < QueueSize
    /\ \E over, looks \in BOOLEAN, m \in {-1, 1} :
         queue' = queue \o [i \in 1..PacketLen |-> MouseByte(sent, i, i = 1 \/ looks, over, m)]
    /\ sent' = sent + PacketLen
    /\ UNCHANGED <<held, alone, mods, used, typed, last, stolen, mouse, poll>>

(***************************************************************************)
(* tui_read_key.  A press returns a code and is remembered, so that the    *)
(* release returns the same code negated, whatever the modifiers are then. *)
(***************************************************************************)
Ready(aux) == queue # <<>> /\ Head(queue).aux = aux

Returned(b, code) == last' = [byte |-> b, code |-> code]

CodeOf(k) == [code |-> k, with |-> CASE k = "a"  -> IF ("shift" \in mods) # ("caps" \in mods)
                                                     THEN {"shift"} \cup (mods \cap {"super"})
                                                     ELSE mods \cap {"super"}
                                     [] k = "up" -> mods \cap Modifiers
                                     [] OTHER -> {}]
KeyReleased(b) ==
    /\ mods' = mods \ ({b.key} \cap Modifiers)
    /\ Returned(b, IF b.key = "super" /\ "super" \in mods /\ ~used THEN "menu"
                   ELSE IF typed[b.key] # NoCode THEN "release" ELSE "nothing")
    /\ typed' = [typed EXCEPT ![b.key] = NoCode]
    /\ UNCHANGED used

KeyPressed(b) ==
    IF IsModifier(b.key)
    THEN /\ mods' = IF b.key = "caps" /\ "caps" \in mods THEN mods \ {"caps"} ELSE mods \cup {b.key}
         /\ used' = IF b.key = "super" THEN FALSE ELSE used
         /\ Returned(b, "nothing")
         /\ UNCHANGED typed
    ELSE /\ used' = (used \/ "super" \in mods)
         \* a Ctrl combination is returned without being remembered
         /\ IF b.key = "a" /\ "ctrl" \in mods THEN Returned(b, "combo") /\ UNCHANGED typed
            ELSE Returned(b, "press") /\ typed' = [typed EXCEPT ![b.key] = CodeOf(b.key)]
         /\ UNCHANGED mods

TuiReadKey ==
    /\ Ready(FALSE) /\ poll.at = "idle"
    /\ queue' = Tail(queue)
    /\ IF Head(queue).up THEN KeyReleased(Head(queue)) ELSE KeyPressed(Head(queue))
    /\ UNCHANGED <<sent, held, alone, stolen, mouse, poll>>

\* The check for Ctrl+C and the program's own read throw the byte away.
OtherReader ==
    /\ Ready(FALSE) /\ poll.at = "idle"
    /\ queue' = Tail(queue) /\ stolen' = TRUE
    /\ UNCHANGED <<sent, held, alone, mods, used, typed, last, mouse, poll>>

(***************************************************************************)
(* The mouse.  mouse.index counts the bytes in the buffer.                 *)
(***************************************************************************)
Bounded(x) == IF x < 0 THEN 0 ELSE IF x > Width THEN Width ELSE x

Skipped(m, b) == m.index = 0 /\ ~b.sync
StoredByte(m, b) ==
    [m EXCEPT !.index = m.index + 1, !.overrun = m.overrun \/ m.index >= PACKET_SIZE,
              !.buffer = IF m.index < PACKET_SIZE THEN [m.buffer EXCEPT ![m.index + 1] = b] ELSE m.buffer]
Whole(m) == \A i \in 1..PacketLen : m.buffer[i].packet = m.buffer[1].packet /\ m.buffer[i].part = i
\* As if a packet out of range were left in the buffer.
LeavesOverflow(m) ==
    IF m.buffer[1].over THEN m
    ELSE [m EXCEPT !.index = 0, !.x = Bounded(m.x + m.buffer[2].move), !.mixed = m.mixed \/ ~Whole(m)]

Applied(m) ==
    IF m.buffer[1].over THEN [m EXCEPT !.index = 0]
    ELSE [m EXCEPT !.index = 0, !.x = Bounded(m.x + m.buffer[2].move),
                   !.mixed = m.mixed \/ ~Whole(m)]
Handled(m, b) ==
    IF Skipped(m, b) THEN m
    ELSE IF StoredByte(m, b).index = PacketLen THEN Applied(StoredByte(m, b)) ELSE StoredByte(m, b)

\* The bytes of the mouse at the head of the queue.
Run == LET n == CHOOSE k \in 0..Len(queue) :
                   /\ \A i \in 1..k : queue[i].aux
                   /\ k < Len(queue) => ~queue[k + 1].aux
       IN SubSeq(queue, 1, n)
DrainedBy(m, bytes) ==
    LET d[i \in 0..Len(bytes)] == IF i = 0 THEN m ELSE Handled(d[i - 1], bytes[i])
    IN d[Len(bytes)]

MouseInterrupt ==
    /\ Ready(TRUE)
    /\ mouse' = DrainedBy(mouse, Run)
    /\ queue' = SubSeq(queue, Len(Run) + 1, Len(queue))
    /\ poll' = [poll EXCEPT !.hit = poll.hit \/ poll.at # "idle"]
    /\ UNCHANGED <<sent, held, alone, mods, used, typed, last, stolen>>

\* mouse_poll: it reads a byte, stores it, and looks whether the packet is whole.
PollReads ==
    /\ poll.at = "idle" /\ Ready(TRUE)
    /\ poll' = [poll EXCEPT !.at = "read", !.byte = Head(queue)]
    /\ queue' = Tail(queue)
    /\ UNCHANGED <<sent, held, alone, mods, used, typed, last, stolen, mouse>>
PollStores ==
    /\ poll.at = "read"
    /\ IF Skipped(mouse, poll.byte) THEN poll' = [poll EXCEPT !.at = "idle"] /\ UNCHANGED mouse
       ELSE /\ mouse' = StoredByte(mouse, poll.byte)
            /\ poll' = [poll EXCEPT !.at = IF mouse.index + 1 = PacketLen THEN "full" ELSE "idle"]
    /\ UNCHANGED <<queue, sent, held, alone, mods, used, typed, last, stolen>>
PollApplies ==
    /\ poll.at = "full"
    /\ mouse' = Applied(mouse)
    /\ poll' = [poll EXCEPT !.at = "idle"]
    /\ UNCHANGED <<queue, sent, held, alone, mods, used, typed, last, stolen>>

NoByte == MouseByte(-1, 1, FALSE, FALSE, 0)
InputInit ==
    /\ hand \in {"keyboard", "mouse"}
    /\ queue = <<>> /\ sent = 0 /\ held = {} /\ alone = FALSE
    /\ mods = {} /\ used = FALSE /\ typed = [k \in Keys |-> NoCode]
    /\ last = [byte |-> KeyByte("a", TRUE, FALSE), code |-> "nothing"] /\ stolen = FALSE
    /\ mouse = [index |-> 0, buffer |-> [i \in 1..PACKET_SIZE |-> NoByte], x |-> 0,
                mixed |-> FALSE, overrun |-> FALSE]
    /\ poll = [at |-> "idle", byte |-> NoByte, hit |-> FALSE]
InputNext ==
    /\ \/ Press \/ Release \/ Move \/ TuiReadKey \/ OtherReader
       \/ MouseInterrupt \/ PollReads \/ PollStores \/ PollApplies
    /\ UNCHANGED hand

(***************************************************************************)
(* Properties.                                                             *)
(***************************************************************************)
Awaited(k) == \E i \in 1..Len(queue) : ~queue[i].aux /\ queue[i].key = k

\* Between the readers and the interrupt: once its bytes are read, a key that is
\* up is not down for any program and a modifier is believed held exactly when it
\* is, unless another reader took a byte; the menu opens for Super alone and for
\* nothing else; and, unless the interrupt fell into mouse_poll, every movement
\* is made of the bytes of one packet and the buffer is not left.
InputSound ==
    /\ ~stolen => /\ \A k \in Keys : k \notin held /\ ~Awaited(k) => typed[k] = NoCode
                  /\ \A k \in Modifiers : ~Awaited(k) => (k \in mods <=> k \in held)
                  /\ last.code = "menu" <=> last.byte.solo
    /\ ~poll.hit => ~mouse.mixed /\ ~mouse.overrun /\ mouse.index < PacketLen + 1
    /\ mouse.x \in 0..Width

(* What the code does not keep; the README says how it is lost.            *)

\* mouse.c calls mouse_poll "safe to call from main loop": no byte is stored
\* behind the packet buffer, whenever the interrupt comes.
PollSafe == ~mouse.overrun
=============================================================================
