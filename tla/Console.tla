------------------------------ MODULE Console ------------------------------
(***************************************************************************)
(* Lines typed at the machine.  Three places take them: the prompt of a    *)
(* tiled terminal (terminals.c), with an editor, a selection and a history *)
(* all terminals share; the prompt of the text-mode shell (history.c); and *)
(* the buffer from which a program reads its standard input (terminals.c,  *)
(* the read system call), which keys enter from the timer interrupt while  *)
(* the call is under way.  Colours and icons are left out; of the screen,  *)
(* the row being edited is kept.                                           *)
(***************************************************************************)
EXTENDS Integers, Sequences

CONSTANTS
    INPUT_BUF_LEN,        \* bytes of an edited line, its end mark included
    MAX_HISTORY_SIZE,     \* lines the shared history keeps
    TERM_COLS,            \* columns of a terminal
    VTERM_HISTORY_ROWS,   \* rows a terminal remembers
    PromptLen,            \* characters of the prompt
    STDIN_SIZE,           \* bytes of the standard-input buffer
    Letters, MaxKeys      \* characters typed, and the bound on keys

VARIABLES
    desk,                 \* "terminals", "line" or "stdin", chosen at the start
    term, history,        \* the terminals and the history they share
    input,                \* the standard input of the terminal a program runs in
    keys                  \* keys pressed so far

consolevars == <<desk, term, history, input, keys>>

Terms == 1..2
NoIndex == 0                        \* history_idx -1: indices here start at 1
Limit == INPUT_BUF_LEN - 1
ClearCommand == <<"clear">>         \* the line the prompt itself carries out

(***************************************************************************)
(* The history.                                                            *)
(***************************************************************************)
AddToHistory(h, line) ==
    IF line = <<>> \/ (h # <<>> /\ h[Len(h)] = line) THEN h
    ELSE Append(IF Len(h) >= MAX_HISTORY_SIZE THEN Tail(h) ELSE h, line)

(***************************************************************************)
(* The cursor of a terminal t and what its input row shows.                *)
(***************************************************************************)
NewRow(t) ==
    LET y == t.y + 1
    IN [t EXCEPT !.x = 0, !.y = y, !.scroll = 0,
                 !.head = IF y - t.head >= VTERM_HISTORY_ROWS
                          THEN y - (VTERM_HISTORY_ROWS - 1) ELSE t.head]

\* The row ends right after a character that is written or erased at x.
Cut(t, x, tail) ==
    IF t.y = t.row /\ x >= t.col /\ x - t.col <= Len(t.shown)
    THEN SubSeq(t.shown, 1, x - t.col) \o tail ELSE t.shown

WriteChar(t, c) ==
    LET u == IF t.x >= TERM_COLS THEN NewRow(t) ELSE [t EXCEPT !.scroll = 0]
    IN [u EXCEPT !.x = u.x + 1, !.shown = Cut(u, u.x, <<c>>)]

BackspaceOutput(t) ==
    IF t.x <= 0 THEN t ELSE [t EXCEPT !.x = t.x - 1, !.shown = Cut(t, t.x - 1, <<>>)]

\* What fits of a line behind the prompt; the last column stays free.
Fits(line, col) ==
    LET room == TERM_COLS - col - 1
        n    == IF Len(line) > room THEN room ELSE Len(line)
    IN IF n <= 0 THEN <<>> ELSE SubSeq(line, 1, n)

\* vterm_render_input: the line again behind the prompt, wherever output has
\* moved the cursor meanwhile; nothing if the row has left the terminal.
RenderInput(t) ==
    IF t.row < t.head \/ t.row > t.y THEN t
    ELSE [t EXCEPT !.shown = Fits(t.line, t.col), !.y = t.row, !.x = t.col + t.pos, !.dirty = FALSE]

RECURSIVE WriteN(_, _)
WriteN(t, n) == IF n = 0 THEN t ELSE WriteN(WriteChar(t, " "), n - 1)

PrintPrompt(t) ==
    LET u == WriteN(t, PromptLen)
    IN [u EXCEPT !.row = u.y, !.col = u.x, !.line = <<>>, !.pos = 0, !.sel = NoIndex,
                 !.shown = <<>>, !.dirty = FALSE]

VtermClear(t) ==
    [t EXCEPT !.x = 0, !.y = 0, !.head = 0, !.scroll = 0, !.line = <<>>, !.pos = 0,
              !.shown = <<>>, !.dirty = TRUE]

\* sel is the end of the selection, which always starts at column 0.
FirstTerm == [x |-> 0, y |-> 0, head |-> 0, scroll |-> 0, row |-> 0, col |-> 0,
              line |-> <<>>, pos |-> 0, sel |-> NoIndex, hidx |-> NoIndex, saved |-> <<>>,
              shown |-> <<>>, dirty |-> TRUE, open |-> FALSE, draft |-> <<>>]
Opened(t) == [PrintPrompt(VtermClear(t)) EXCEPT !.open = TRUE]

(***************************************************************************)
(* Keys at the prompt of a terminal (vterm_handle_key).                    *)
(***************************************************************************)
Recall(t, i, line) == RenderInput([t EXCEPT !.hidx = i, !.line = line, !.pos = Len(line), !.x = t.col])

Up(t) ==
    IF history = <<>> THEN t
    ELSE LET first == t.hidx = NoIndex
             i     == IF first THEN Len(history) ELSE IF t.hidx > 1 THEN t.hidx - 1 ELSE t.hidx
             from  == IF first THEN [t EXCEPT !.saved = t.line, !.draft = t.line] ELSE t
         \* an index kept across a clearing of the history finds an empty entry
         IN Recall(from, i, IF i <= Len(history) THEN history[i] ELSE <<>>)

Down(t) ==
    IF t.hidx = NoIndex THEN t
    ELSE IF t.hidx + 1 > Len(history) THEN Recall(t, NoIndex, t.saved)
    ELSE Recall(t, t.hidx + 1, history[t.hidx + 1])

Left(t) == [t EXCEPT !.sel = NoIndex, !.pos = IF t.pos > 0 THEN t.pos - 1 ELSE 0,
                     !.x = IF t.pos > 0 /\ t.x > t.col THEN t.x - 1 ELSE t.x]
Right(t) ==
    IF t.pos < Len(t.line)
    THEN [t EXCEPT !.sel = NoIndex, !.pos = t.pos + 1, !.x = t.col + t.pos + 1]
    ELSE [t EXCEPT !.sel = NoIndex]

SelectAll(t) == [t EXCEPT !.sel = Len(t.line)]

\* The selection may be that of an older, longer line: its end is clamped.
DropSelection(t) ==
    LET b == IF t.sel > Len(t.line) THEN Len(t.line) ELSE t.sel
    IN [t EXCEPT !.line = SubSeq(t.line, b + 1, Len(t.line)), !.pos = 0, !.sel = NoIndex]

Inserted(t, c) ==
    [t EXCEPT !.line = SubSeq(t.line, 1, t.pos) \o <<c>> \o SubSeq(t.line, t.pos + 1, Len(t.line)),
              !.pos = t.pos + 1]
Printable(t, c) ==
    LET u == IF t.sel # NoIndex THEN DropSelection(t) ELSE t
    IN IF Len(u.line) < Limit THEN RenderInput(Inserted(u, c)) ELSE u

Backspace(t) ==
    IF t.sel # NoIndex THEN RenderInput(DropSelection(t))
    ELSE IF t.pos = 0 THEN t
    ELSE RenderInput([t EXCEPT !.pos = t.pos - 1,
             !.line = SubSeq(t.line, 1, t.pos - 1) \o SubSeq(t.line, t.pos + 1, Len(t.line))])

\* What the command wrote is appended when it is done: whole lines, then a tail.
Output(t, lines, tail) == WriteN(IF lines = 0 THEN t ELSE NewRow(WriteN(t, TERM_COLS)), tail)
Entered(t) == NewRow([t EXCEPT !.hidx = NoIndex, !.saved = <<>>])
Enter(t, lines, tail) ==
    LET u == Entered(t) IN
    IF t.line = <<>> THEN PrintPrompt(u)
    ELSE IF t.line = ClearCommand THEN PrintPrompt(VtermClear(u))
    ELSE PrintPrompt(Output(u, lines, tail))

HandleKey ==
    \E i \in Terms :
        /\ term[i].open /\ keys < MaxKeys
        /\ keys' = keys + 1
        /\ \/ /\ \E k \in {Up(term[i]), Down(term[i]), Left(term[i]), Right(term[i]),
                           SelectAll(term[i]), Backspace(term[i])}
                        \cup {Printable(term[i], c) : c \in Letters} :
                   term' = [term EXCEPT ![i] = k]
              /\ UNCHANGED history
           \/ /\ \E lines \in 0..1, tail \in {0, TERM_COLS} :
                   term' = [term EXCEPT ![i] = Enter(term[i], lines, tail)]
              /\ history' = AddToHistory(history, term[i].line)

(***************************************************************************)
(* What programs and the desktop do to a terminal meanwhile: a program     *)
(* started from it prints or clears, a program empties the history, the    *)
(* wheel scrolls, a tile is closed and the last terminal moves into its    *)
(* place, a tile is opened.                                                *)
(***************************************************************************)
SetScroll(t, s) == [t EXCEPT !.scroll = IF s > t.y - t.head THEN (IF t.y < t.head THEN 0 ELSE t.y - t.head) ELSE s]
Meanwhile ==
    /\ keys < MaxKeys /\ keys' = keys + 1
    /\ \/ \E i \in Terms :
            /\ term[i].open
            /\ \E u \in {[WriteChar(term[i], "out") EXCEPT !.dirty = TRUE], [NewRow(term[i]) EXCEPT !.dirty = TRUE],
                         [BackspaceOutput(term[i]) EXCEPT !.dirty = TRUE],
                         VtermClear(term[i]), SetScroll(term[i], 1)} :
                 term' = [term EXCEPT ![i] = u]
            /\ UNCHANGED history
       \/ history' = <<>> /\ UNCHANGED term
       \/ /\ term[1].open /\ term[2].open
          /\ \/ term' = [term EXCEPT ![1] = term[2], ![2] = FirstTerm]
             \/ term' = [term EXCEPT ![2].open = FALSE]
          /\ UNCHANGED history
       \/ /\ ~term[2].open
          /\ term' = [term EXCEPT ![2] = Opened(term[2])]
          /\ UNCHANGED history

(***************************************************************************)
(* The prompt of the text-mode shell (readStr_with_history): the end of    *)
(* the line follows the cursor, so that a character typed in the middle    *)
(* cuts off the rest, and so does Enter.                                   *)
(***************************************************************************)
LineRecall(t, i, line) == [t EXCEPT !.hidx = i, !.line = line, !.pos = Len(line)]
LineKeys(t) ==
    {[t EXCEPT !.pos = IF t.pos > 0 THEN t.pos - 1 ELSE 0],
     [t EXCEPT !.pos = IF t.pos < Len(t.line) THEN t.pos + 1 ELSE t.pos],
     IF t.pos = 0 THEN t ELSE [t EXCEPT !.line = SubSeq(t.line, 1, t.pos - 1), !.pos = t.pos - 1]}
    \cup {IF t.pos < Limit THEN [t EXCEPT !.line = SubSeq(t.line, 1, t.pos) \o <<c>>, !.pos = t.pos + 1]
          ELSE t : c \in Letters}
    \cup (IF history = <<>> THEN {}
          ELSE LET i == IF t.hidx = NoIndex THEN Len(history) ELSE IF t.hidx > 1 THEN t.hidx - 1 ELSE t.hidx
                   u == IF t.hidx = NoIndex THEN [t EXCEPT !.saved = t.line, !.draft = t.line] ELSE t
               IN {LineRecall(u, i, history[i])})
    \cup (IF t.hidx = NoIndex THEN {}
          ELSE IF t.hidx + 1 > Len(history) THEN {LineRecall(t, NoIndex, t.saved)}
          ELSE {LineRecall(t, t.hidx + 1, history[t.hidx + 1])})

ReadLine ==
    /\ keys < MaxKeys /\ keys' = keys + 1
    /\ \/ /\ \E t \in LineKeys(term[1]) : term' = [term EXCEPT ![1] = t]
          /\ UNCHANGED history
       \* Enter, and the shell's loop adds the line to the history
       \/ /\ history' = AddToHistory(history, SubSeq(term[1].line, 1, term[1].pos))
          /\ term' = [term EXCEPT ![1] = FirstTerm]
       \* Ctrl+C: the line is given up
       \/ term' = [term EXCEPT ![1] = FirstTerm] /\ UNCHANGED history

(***************************************************************************)
(* Standard input.  The n-th key is the number n, Enter the number -n and  *)
(* a byte no key gave 0; "call" is where the read system call is.  The     *)
(* call consumes with interrupts on, in the order of its stores: from the  *)
(* moment it has measured what is to remain, the timer may add a key.      *)
(***************************************************************************)
FirstInput == [buf |-> <<>>, ready |-> FALSE, raw |-> FALSE,
               call |-> "none", callRaw |-> FALSE, max |-> 0, n |-> 0,
               remain |-> 0, whole |-> FALSE,
               accepted |-> <<>>, got |-> <<>>, late |-> {}, lost |-> FALSE]

Consume(s) == [s EXCEPT !.buf = <<>>, !.ready = FALSE]

\* The history is given up once keys have been thrown away.
Loses(s, gone) == IF s.lost \/ ~gone THEN s
                  ELSE [s EXCEPT !.lost = TRUE, !.accepted = <<>>, !.late = {}]

Put(s, key) == [s EXCEPT !.buf = Append(s.buf, key),
                         !.accepted = IF s.lost THEN @ ELSE Append(@, key)]
StdinPutchar(s, kind, key) ==
    IF s.raw THEN IF Len(s.buf) < STDIN_SIZE - 1 THEN [Put(s, key) EXCEPT !.ready = TRUE] ELSE s
    ELSE CASE kind = "backspace" ->
                IF s.buf = <<>> THEN s
                ELSE Loses([s EXCEPT !.buf = SubSeq(s.buf, 1, Len(s.buf) - 1)], TRUE)
           [] kind = "enter" ->
                [IF Len(s.buf) < STDIN_SIZE - 1 THEN Put(s, -key) ELSE s EXCEPT !.ready = TRUE]
           [] kind = "letter" -> IF Len(s.buf) < STDIN_SIZE - 2 THEN Put(s, key) ELSE s

Type ==
    /\ keys < MaxKeys /\ keys' = keys + 1
    /\ \E kind \in {"letter", "enter", "backspace"} : 
         input' = [StdinPutchar(input, kind, keys + 1) EXCEPT
                     !.late = IF input.call \in {"cuts", "ends"} /\ ~input.lost
                              THEN @ \cup {keys + 1} ELSE @]

\* vterm_stdin_clear, when a program starts.
StartTask ==
    /\ input.call = "none"
    /\ input' = Loses(Consume(input), input.buf # <<>>)
    /\ UNCHANGED keys

\* tty_set_mode: a line already complete is not ready any more
SetRaw ==
    /\ input.call = "none"
    /\ input' = [input EXCEPT !.raw = ~input.raw,
                              !.ready = IF input.raw THEN FALSE ELSE input.buf # <<>> \/ input.ready]
    /\ UNCHANGED keys

ReadWaits ==
    /\ input.call = "none"
    /\ \E m \in 1..STDIN_SIZE : input' = [input EXCEPT !.call = "waits", !.max = m, !.callRaw = input.raw]
    /\ UNCHANGED keys

\* Interrupts are off while the length is taken, and on again before the copy.
ReadTakesLength ==
    /\ input.call = "waits"
    /\ IF input.callRaw THEN input.buf # <<>> ELSE input.ready
    /\ LET most == IF input.callRaw THEN input.max ELSE input.max - 1
           n    == IF Len(input.buf) > most THEN most ELSE Len(input.buf)
       IN input' = [input EXCEPT !.call = "copies", !.n = n]
    /\ UNCHANGED keys

Copied(s) == [i \in 1..s.n |-> IF i <= Len(s.buf) THEN s.buf[i] ELSE 0]
Done0(s) == [s EXCEPT !.call = "none", !.n = 0, !.max = 0, !.callRaw = FALSE,
                      !.remain = 0, !.whole = FALSE]

ReadCopies ==
    /\ input.call = "copies"
    /\ input' = Loses([input EXCEPT !.call = "consumes", !.got = @ \o Copied(input),
                                    !.whole = ~input.callRaw], ~input.callRaw)
    /\ UNCHANGED keys

\* A call into memory it may not write empties the buffer.
ReadFails ==
    /\ input.call = "copies"
    /\ input' = Loses([input EXCEPT !.call = "consumes", !.whole = TRUE], TRUE)
    /\ UNCHANGED keys

\* vterm_stdin_consume_bytes measures what is to remain,
\* as if a read took all there is, as it does in line mode.
TakesAll(s) == 0
Remaining(s) == IF s.whole \/ s.n >= Len(s.buf) THEN 0 ELSE Len(s.buf) - s.n

ReadMeasures ==
    /\ input.call = "consumes"
    /\ input' = [input EXCEPT !.call = "cuts", !.remain = Remaining(input)]
    /\ UNCHANGED keys

\* moves it to the front and stores the new length,
ReadCuts ==
    /\ input.call = "cuts"
    /\ input' = [input EXCEPT !.call = "ends",
                  !.buf = SubSeq(@, input.n + 1, input.n + input.remain)]
    /\ UNCHANGED keys

\* and stores the NUL behind it, where a key may stand by now.
ReadEnds ==
    /\ input.call = "ends"
    /\ LET r == input.remain
       IN  input' = Done0([input EXCEPT
                      !.buf = IF r > 0 /\ Len(@) > r THEN [@ EXCEPT ![r + 1] = 0] ELSE @,
                      !.ready = r > 0])
    /\ UNCHANGED keys

ReadInterrupted ==
    /\ input.call = "waits"
    /\ input' = Done0(input)
    /\ UNCHANGED keys

ConsoleInit ==
    /\ desk \in {"terminals", "line", "stdin"}
    /\ term = [i \in Terms |-> IF desk = "terminals" /\ i = 1 THEN Opened(FirstTerm) ELSE FirstTerm]
    /\ history \in IF desk = "stdin" THEN {<<>>} ELSE {<<>>, <<ClearCommand>>}
    /\ input = FirstInput
    /\ keys = 0

ConsoleNext ==
    /\ \/ desk = "terminals" /\ (HandleKey \/ Meanwhile) /\ UNCHANGED input
       \/ desk = "line" /\ ReadLine /\ UNCHANGED input
       \/ /\ desk = "stdin"
          /\ \/ Type \/ StartTask \/ SetRaw \/ ReadWaits \/ ReadTakesLength
             \/ ReadCopies \/ ReadFails \/ ReadMeasures \/ ReadCuts \/ ReadEnds \/ ReadInterrupted
          /\ UNCHANGED <<term, history>>
    /\ UNCHANGED desk

(***************************************************************************)
(* Properties.                                                             *)
(***************************************************************************)
Within(t) ==
    /\ t.pos \in 0..Len(t.line) /\ Len(t.line) <= Limit
    /\ t.hidx \in 0..MAX_HISTORY_SIZE
    /\ t.scroll >= 0 /\ t.y - t.head < VTERM_HISTORY_ROWS
    /\ t.col <= TERM_COLS
NoRepeats == \A i \in 1..(Len(history) - 1) : history[i] # history[i + 1]

\* Whatever is typed, recalled, printed by a program or moved with a tile: the
\* cursor stays within the line, the line within its buffer and the browsing
\* index within the history's array; the row on the screen shows the line being
\* edited, as far as it fits, unless something was printed since; the line in
\* hand when browsing began comes back; and the history repeats no line.
EditSound ==
    /\ \A i \in Terms :
         /\ Within(term[i])
         /\ term[i].hidx # NoIndex => term[i].saved = term[i].draft
         /\ desk = "terminals" /\ term[i].open /\ ~term[i].dirty
              => term[i].shown = Fits(term[i].line, term[i].col)
    /\ Len(history) <= MAX_HISTORY_SIZE /\ NoRepeats

Abs(n) == IF n < 0 THEN -n ELSE n

InTime(keysOf) == SelectSeq(keysOf, LAMBDA k : k # 0 /\ Abs(k) \notin input.late)

\* A key is never handed to a program twice nor out of order, however the timer
\* interrupt adds keys between the steps of the call; and as long as no call
\* failed, read in line mode or took back a key, none is lost but those that
\* came while the call shortened the buffer: the others are those handed over
\* and those still in the buffer.
StdinInOrder ==
    /\ \A i, j \in 1..Len(input.got) :
         i < j /\ input.got[i] # 0 /\ input.got[j] # 0 => Abs(input.got[i]) < Abs(input.got[j])
    /\ ~input.lost /\ input.call \in {"none", "waits", "copies"} =>
         InTime(input.accepted) = InTime(input.got \o input.buf)

\* What one would rather say, and what the code does not keep: no key is lost.
NoKeyLost ==
    ~input.lost /\ input.call = "none" => input.accepted = input.got \o input.buf
=============================================================================
