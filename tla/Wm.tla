--------------------------------- MODULE Wm ---------------------------------
(***************************************************************************)
(* The window manager: tiles with their terminals, floating windows, the   *)
(* callbacks a program registers on them, and the event queues of the GUI  *)
(* handles (src/src/gui, GUI system calls of src/src/cpu/isr.c).           *)
(*                                                                         *)
(* Two loops read the same mouse and keyboard.  While no program runs it   *)
(* is the main loop of tiling_manager.c; while one runs, the timer         *)
(* interrupt calls tile_pump_input_once instead.  The state is one record, *)
(* so that a handler is the composition of the functions it calls.         *)
(*                                                                         *)
(* Tiles, terminals and windows are numbered from 1.  Where the pointer is *)
(* is the choice of what it hits; a tile's or a window's rectangle is in   *)
(* Geometry, its font in Fonts.                                            *)
(***************************************************************************)
EXTENDS Naturals, Sequences, FiniteSets, SequencesExt

CONSTANTS
    MAX_WINDOWS,     \* slots of g_windows
    USER_GUI_MAX,    \* slots of g_user_guis; slot 0 is the program's own tile
    EventCap,        \* USER_GUI_EVENT_CAP - 1: events a queue can hold
    DesktopCount,    \* g_desktop_count
    Scenes           \* bound: what the user does, a subset of AllScenes

\* What the user does in one behaviour: opens, closes and hides tiles; uses
\* the buttons of floating windows; uses the taskbar and the start menu;
\* moves things between desktops.  A program may run in each of them.
AllScenes == {"tiles", "windows", "menus", "desks"}

ASSUME WmAssumption ==
    /\ MAX_WINDOWS \in Nat \ {0} /\ USER_GUI_MAX \in Nat \ {0}
    /\ EventCap \in Nat \ {0} /\ DesktopCount \in Nat \ {0}
    /\ Scenes \subseteq AllScenes

VARIABLES
    scene,   \* the part of the screen this behaviour is about
    wm,      \* the window manager's record
    task     \* the running program: state, terminal, number, awaited handle

wmvars == <<scene, wm, task>>

MAX_TILES == 4
Terms == 1..MAX_TILES
Wins == 1..MAX_WINDOWS
Handles == 0..(USER_GUI_MAX - 1)
Desktops == 0..(DesktopCount - 1)
None == 0
Nobody == 99            \* no handle

NoTerm == [key |-> FALSE, mouse |-> FALSE, close |-> FALSE, text |-> None]
NoWin == [used |-> FALSE, min |-> FALSE, desk |-> 0, client |-> Nobody,
          close |-> FALSE, press |-> "none"]
NoGui == [used |-> FALSE, float |-> FALSE, idx |-> None, q |-> << >>,
          own |-> FALSE]
NoTask == [st |-> "none", term |-> None, h |-> Nobody,
           intr |-> FALSE]
NoCtx == [on |-> FALSE, kind |-> "tile", idx |-> None]

In(S) == scene \in S
Count(s) == Len(s.tiles)
Indices(s) == 1..Count(s)
UsedWins(s) == {w \in Wins : s.wins[w].used}
SetTile(s, i, f, v) == [s EXCEPT !.tiles[i][f] = v]
SetWin(s, w, f, v) == [s EXCEPT !.wins[w][f] = v]
LeastOf(S) == CHOOSE x \in S : \A y \in S : x <= y

-----------------------------------------------------------------------------
(* Events.  A queue that is full drops its oldest event; a blocked program *)
(* polls its queue at every interrupt, so that waking it is the queue's    *)
(* becoming non-empty.                                                     *)

PushEvent(s, h) ==
    LET q == s.guis[h].q
        kept == IF Len(q) = EventCap THEN Tail(q) ELSE q
    IN  [s EXCEPT !.guis[h].q =
                    Append(kept, TRUE)]

\* The callbacks name their handle and the tile or window they were
\* registered on; user_gui_*_cb ignores a call that does not match.
Matches(s, h, floating, idx) ==
    h # Nobody /\ s.guis[h].used /\ s.guis[h].float = floating
    /\ s.guis[h].idx = idx

Deliver(s, h, floating, idx) ==
    IF Matches(s, h, floating, idx) THEN PushEvent(s, h) ELSE s

-----------------------------------------------------------------------------
(* Tiles. *)

Visible(s) == {i \in Indices(s) : ~s.tiles[i].min}

EnsureValidFocus(s) ==
    IF Count(s) = 0 THEN [s EXCEPT !.foc = 1]
    ELSE IF s.foc \in Visible(s) THEN s
    ELSE [s EXCEPT !.foc = IF Visible(s) = {} THEN 1 ELSE LeastOf(Visible(s))]

\* Tiles the pointer can be on: a fullscreen tile hides the others.
TilesHit(s) ==
    {i \in Visible(s) : /\ s.tiles[i].desk = s.desk
                        /\ s.full \in Indices(s) => i = s.full}

\* A new tile clears and fills the terminal of its place; callbacks and a
\* pressed button that were left there stay.  A terminal's text is the place
\* of the tile whose text it holds.
NewTile(s) ==
    IF Count(s) >= MAX_TILES THEN s
    ELSE LET n == Count(s) + 1
         IN  [s EXCEPT !.tiles = Append(@, [min |-> FALSE, desk |-> s.desk]),
                       !.term[n].text = n,
                       !.foc = n]

Renumbered(t, x) == IF x = t THEN None ELSE IF x > t THEN x - 1 ELSE x

\* Bound on the tiles Super+N opens; the start menu of "menus" fills the table.
Room(s) ==
    Count(s) < IF In({"tiles"}) THEN 3
               ELSE IF In({"desks"}) THEN 2 ELSE 1

\* Every later tile moves one place down and takes along its terminal and
\* its drawing and key callbacks, but not the mouse and close callbacks.
Moved(t, n, term) ==
    [j \in Terms |->
        IF j \in t..(n - 1)
        THEN [term[j] EXCEPT !.key = term[j + 1].key,
                             !.text = Renumbered(t, term[j + 1].text)]
        ELSE IF j = n /\ t < n
        THEN [term[j] EXCEPT !.key = FALSE, !.text = None]
        ELSE [term[j] EXCEPT !.text = Renumbered(t, @)]]

TileCloses(s, i) ==
    EnsureValidFocus(
        [s EXCEPT !.tiles = RemoveAt(@, i),
                  !.term = Moved(i, Count(s), @),
                  !.press = [j \in Terms |-> IF j \in i..(Count(s) - 1)
                                             THEN @[j + 1] ELSE @[j]]])

TileVetoes(s, i) == s.term[i].close /\ Matches(s, 0, FALSE, i)

TileClose(s, i) ==
    IF i \notin Indices(s) THEN s
    ELSE IF TileVetoes(s, i) THEN PushEvent(s, 0)
    ELSE TileCloses(s, i)

TileRegister(s, i) ==
    [s EXCEPT !.term[i].key = TRUE, !.term[i].mouse = TRUE,
              !.term[i].close = TRUE]

TileUnregister(s, i) ==
    [s EXCEPT !.term[i].key = FALSE, !.term[i].mouse = FALSE,
              !.term[i].close = FALSE]

TileMinimize(s, i) ==
    EnsureValidFocus([SetTile(s, i, "min", TRUE) EXCEPT !.full = None])

TileShow(s, i) ==
    [SetTile(s, i, "min", FALSE) EXCEPT !.foc = i, !.wfoc = None]

-----------------------------------------------------------------------------
(* Floating windows. *)

WinsHit(s) ==
    {w \in UsedWins(s) : ~s.wins[w].min /\ s.wins[w].desk = s.desk}

BringToFront(s, w) ==
    [s EXCEPT !.order = Append(SelectSeq(@, LAMBDA x : x # w), w),
              !.wfoc = w]

WindowShow(s, w) == SetWin(BringToFront(s, w), w, "min", FALSE)

WindowMinimize(s, w) ==
    LET t == SetWin(s, w, "min", ~s.wins[w].min)
    IN  IF t.wins[w].min THEN [t EXCEPT !.wfoc = None] ELSE t

WmUnregister(s, w) ==
    IF ~s.wins[w].used THEN s
    ELSE SetWin(SetWin(s, w, "client", Nobody), w, "close", FALSE)

WindowStaysOrdered(s, w) ==
    [s EXCEPT !.wfoc = IF @ = w THEN None ELSE @, !.wins[w].used = FALSE]

WindowGoes(s, w) ==
    [s EXCEPT !.order = SelectSeq(@, LAMBDA x : x # w),
              !.wfoc = IF @ = w THEN None ELSE @,
              !.wins[w] = [@ EXCEPT !.used = FALSE, !.client = Nobody,
                                    !.close = FALSE]]

WindowVetoes(s, w) ==
    s.wins[w].close /\ Matches(s, s.wins[w].client, TRUE, w)

\* The close callback is forgotten before it is asked: a second request
\* closes the window of a program that is still running.
CloseWindow(s, w) ==
    IF ~s.wins[w].used THEN s
    ELSE LET t == SetWin(s, w, "close", FALSE)
         IN  IF WindowVetoes(s, w)
             THEN PushEvent(t, s.wins[w].client)
             ELSE WindowGoes(t, w)

ForceCloseWindow(s, w) == CloseWindow(WmUnregister(s, w), w)

\* wm_create_window and the two registrations; the caller has a free slot.
CreateWindow(s, w, h) ==
    [s EXCEPT !.wins[w] = [NoWin EXCEPT !.used = TRUE, !.desk = s.desk,
                                        !.client = h, !.close = TRUE,
                                        !.press = s.wins[w].press],
              !.order = Append(@, w),
              !.wfoc = w]

-----------------------------------------------------------------------------
(* GUI handles. *)

FreeEntry(s, h) ==
    LET w == s.guis[h].idx
        t == IF s.guis[h].float /\ w # None
             THEN CloseWindow(WmUnregister(s, w), w) ELSE s
    IN  [t EXCEPT !.guis[h] = NoGui]

\* syscall_reset_user_guis: every handle, whoever created it.
ResetGuis(s) ==
    LET freed == FoldLeft(LAMBDA t, h : IF t.guis[h].used THEN FreeEntry(t, h)
                                        ELSE t,
                          s, [k \in 1..(USER_GUI_MAX - 1) |-> k])
        own == freed.guis[0]
        t == IF own.used /\ Count(freed) > 0 /\ own.idx # None
             THEN TileUnregister(freed, own.idx) ELSE freed
    IN  [t EXCEPT !.guis[0] = NoGui]

Running == task.st = "run"
Active == task.st \in {"run", "wait"}

\* SYSCALL_GUI_CREATE and its capability form.
GuiCreate ==
    /\ In({"windows", "menus", "desks"}) /\ Running /\ Count(wm) > 0
    /\ LET free == {h \in Handles \ {0} : ~wm.guis[h].used}
           slots == Wins \ UsedWins(wm)
       IN  /\ free # {} /\ slots # {}
           /\ In({"menus", "desks"}) => UsedWins(wm) = {}
           /\ LET h == LeastOf(free)
                  w == LeastOf(slots)
                  t == CreateWindow(wm, w, h)
              IN  wm' = [t EXCEPT !.guis[h] = [used |-> TRUE, float |-> TRUE,
                             idx |-> w, q |-> << >>, own |-> TRUE]]
    /\ UNCHANGED <<scene, task>>

\* SYSCALL_GUI_ATTACH and its capability form: handle 0 takes the tile of
\* the program's terminal.
GuiAttach ==
    /\ In({"tiles"}) /\ Running
    /\ task.term \in Indices(wm)
    /\ LET t == TileRegister(wm, task.term)
       IN  wm' = [t EXCEPT !.guis[0] = [used |-> TRUE, float |-> FALSE,
                      idx |-> task.term, q |-> << >>, own |-> TRUE]]
    /\ UNCHANGED <<scene, task>>

\* SYSCALL_CAP_GUI_CLOSE.
GuiClose(h) ==
    /\ Running /\ h # 0 /\ wm.guis[h].used
    /\ wm' = FreeEntry(wm, h)
    /\ UNCHANGED <<scene, task>>

\* SYSCALL_GUI_POLL_EVENT.
GuiPoll(h) ==
    /\ Running /\ wm.guis[h].used /\ wm.guis[h].q # << >>
    /\ wm' = [wm EXCEPT !.guis[h].q = Tail(@)]
    /\ UNCHANGED <<scene, task>>

\* SYSCALL_GUI_WAIT_EVENT: the kernel halts until the queue has an event or
\* the user interrupts the program.
GuiWait(h) ==
    /\ Running /\ wm.guis[h].used
    /\ task' = [task EXCEPT !.st = "wait", !.h = h]
    /\ UNCHANGED <<scene, wm>>

WaitIgnoresInterrupt ==
    /\ task.st = "wait" /\ wm.guis[task.h].q # << >>
    /\ wm' = [wm EXCEPT !.guis[task.h].q = Tail(@)]
    /\ task' = [task EXCEPT !.st = "run", !.h = Nobody]
    /\ UNCHANGED scene

WaitReturns ==
    /\ task.st = "wait"
    /\ \/ /\ wm.guis[task.h].q # << >>
          /\ wm' = [wm EXCEPT !.guis[task.h].q = Tail(@)]
       \/ /\ wm.guis[task.h].q = << >> /\ task.intr
          /\ UNCHANGED wm
    /\ task' = [task EXCEPT !.st = "run", !.h = Nobody]
    /\ UNCHANGED scene

-----------------------------------------------------------------------------
(* Start and end of a program. *)

\* A handle, and an event in its queue, is the running program's own if it
\* was made since that program was started.
Aged(s) ==
    [s EXCEPT !.guis = [h \in Handles |->
        [@[h] EXCEPT !.own = FALSE, !.q = [k \in DOMAIN @ |-> FALSE]]]]

\* The window manager is entered again when a program has ended.
Reenter(s) == EnsureValidFocus(IF Count(s) = 0 THEN NewTile(s) ELSE s)

\* user_elf_run_argv resets what the last program left and binds the new
\* one to the terminal of the focused tile.
Start(s) ==
    /\ wm' = Aged(ResetGuis(s))
    /\ task' = [st |-> "run", h |-> Nobody, intr |-> FALSE,
                term |-> IF s.foc \in Indices(s) THEN s.foc ELSE 1]

Exit ==
    /\ Running
    /\ wm' = Reenter(ResetGuis(wm))
    /\ task' = NoTask
    /\ UNCHANGED scene

\* A fault, or the interrupt the user asked for: nothing resets the GUIs.
Dies ==
    /\ Running
    /\ wm' = Reenter(wm)
    /\ task' = NoTask
    /\ UNCHANGED scene

-----------------------------------------------------------------------------
(* What both loops do. *)

\* Super and an arrow: the grid of up to four tiles, by place.
ArrowTo(s, dir) ==
    LET f == s.foc
        n == Count(s)
    IN  CASE dir = "up" ->
               IF n = 4 THEN (IF f = 3 THEN 1 ELSE IF f = 4 THEN 2 ELSE f)
               ELSE IF n = 3 THEN (IF f = 3 THEN 2 ELSE IF f = 2 THEN 1 ELSE f)
               ELSE IF n = 2 THEN 1 ELSE f
          [] dir = "down" ->
               IF n = 4 THEN (IF f = 1 THEN 3 ELSE IF f = 2 THEN 4 ELSE f)
               ELSE IF n = 3 THEN (IF f \in {1, 2} THEN 3 ELSE f)
               ELSE IF n = 2 THEN 2 ELSE f
          [] dir = "left" ->
               IF n < 2 THEN f ELSE IF f = 2 THEN 1 ELSE IF f = 4 THEN 3 ELSE f
          [] dir = "right" ->
               IF n < 2 THEN f ELSE IF f = 1 THEN 2 ELSE IF f = 3 THEN 4
               ELSE IF n = 2 THEN 2 ELSE f

ToggleStart(s) ==
    [s EXCEPT !.start = ~@, !.drop = FALSE, !.ctx = NoCtx]

ToggleFullscreen(s) ==
    [s EXCEPT !.full = IF @ = None THEN s.foc ELSE None]

\* A button of the taskbar, or an entry of its overflow list; the code
\* checks the recorded index again.
TaskbarPick(s) ==
    {TileShow(s, i) : i \in Indices(s)}
    \cup {WindowShow(s, w) : w \in UsedWins(s)}

LaunchShell(s) ==
    LET plain == {i \in Indices(s) : ~s.term[i].key}
    IN  IF Count(s) < MAX_TILES THEN NewTile(s)
        ELSE IF plain = {} THEN [s EXCEPT !.foc = 1]
        ELSE [SetTile(s, LeastOf(plain), "min", FALSE)
                  EXCEPT !.foc = LeastOf(plain)]

\* The mouse event goes to the focused window, else to a tile.
RouteMouse(s, tile) ==
    LET t == IF s.wfoc # None /\ s.wins[s.wfoc].min
             THEN [s EXCEPT !.wfoc = None] ELSE s
    IN  IF t.wfoc # None
        THEN Deliver(t, t.wins[t.wfoc].client, TRUE, t.wfoc)
        ELSE IF t.term[tile].mouse THEN Deliver(t, 0, FALSE, tile)
        ELSE t

RouteKey(s, tile) ==
    IF s.wfoc # None THEN Deliver(s, s.wins[s.wfoc].client, TRUE, s.wfoc)
    ELSE IF s.term[tile].key THEN Deliver(s, 0, FALSE, tile)
    ELSE s

Set(s) == wm' = s /\ UNCHANGED <<scene, task>>
OneOf(S) == \E s \in S : Set(s)
Interrupt(s) == wm' = s /\ task' = [task EXCEPT !.intr = TRUE] /\ UNCHANGED scene
-----------------------------------------------------------------------------
(* tile_pump_input_once, from the timer interrupt of a running program. *)

Pumping == Active /\ Count(wm) > 0

\* The tile the close affordances are for, and the one input goes to.
TaskTile == IF task.term \in Indices(wm) THEN task.term ELSE wm.foc
Target(s) ==
    IF s.foc \in Indices(s) THEN s.foc
    ELSE IF task.term \in Indices(s) THEN task.term ELSE s.foc

PumpTitleClose ==
    /\ Pumping /\ TaskTile \in Indices(wm)
    /\ IF TileVetoes(wm, TaskTile) THEN Set(PushEvent(wm, 0))
       ELSE Interrupt(wm)

\* Bound: one tile is hidden at a time.
MayHide(s) == In({"tiles"}) /\ Visible(s) = Indices(s)

PumpTitleOther ==
    /\ Pumping /\ TaskTile \in Indices(wm)
    /\ OneOf({[wm EXCEPT !.full = None, !.foc = TaskTile],
              IF MayHide(wm) THEN TileMinimize(wm, TaskTile) ELSE wm})

PumpTaskbarKill ==
    Pumping /\ TaskTile \in Indices(wm) /\ Interrupt(wm)

MenusOff(s) == [s EXCEPT !.start = FALSE, !.drop = FALSE]

PumpTaskbar ==
    /\ In({"menus"}) /\ Pumping
    /\ OneOf({ToggleStart(wm), MenusOff(wm),
              [wm EXCEPT !.drop = ~@, !.start = FALSE]}
             \cup {MenusOff(s) : s \in TaskbarPick(wm)})

PumpDropdown ==
    /\ Pumping /\ wm.drop
    /\ OneOf({[s EXCEPT !.drop = FALSE] : s \in TaskbarPick(wm) \cup {wm}})

\* A press on a window is the window manager's alone.
WindowPressed(s, w) ==
    {CloseWindow(s, w), s}
    \cup (IF In({"windows"}) THEN {WindowMinimize(s, w)} ELSE {})

PumpWindowPress ==
    /\ Pumping
    /\ \E w \in WinsHit(wm) : OneOf(WindowPressed(BringToFront(wm, w), w))

PumpTilePress ==
    /\ Pumping
    /\ \E i \in TilesHit(wm) :
        LET s == [wm EXCEPT !.foc = i, !.wfoc = None]
        IN  OneOf({s, RouteMouse(s, i)})

PumpMouse == Pumping /\ Set(RouteMouse(wm, Target(wm)))

\* Characters go to the program's standard input unless it has a key
\* callback or the focus is elsewhere.
ToStdin(s) ==
    /\ ~(s.wfoc # None /\ ~s.wins[s.wfoc].min)
    /\ ~(s.foc \in Visible(s) /\ s.foc # task.term)
    /\ ~s.term[task.term].key

PumpCtrlC ==
    /\ Pumping
    /\ IF wm.term[task.term].key THEN Set(RouteKey(wm, Target(wm)))
       ELSE Interrupt(wm)

PumpChar ==
    /\ Pumping /\ ~ToStdin(wm)
    /\ IF wm.start
       THEN OneOf({MenusOff(LaunchShell(wm)), MenusOff(wm)})
       ELSE Set(RouteKey(wm, Target(wm)))

PumpSuper ==
    /\ Pumping /\ ~wm.start
    /\ OneOf((IF In({"menus"}) THEN {ToggleStart(wm)} ELSE {})
             \cup (IF Room(wm) THEN {NewTile(wm)} ELSE {})
             \cup (IF In({"windows"}) THEN {ToggleFullscreen(wm)} ELSE {})
             \cup {[wm EXCEPT !.foc = ArrowTo(wm, d)] :
                       d \in {"up", "down", "left", "right"}})

CloseFocusedWindow(s) == [CloseWindow(s, s.wfoc) EXCEPT !.wfoc = None]

PumpSuperQ ==
    /\ Pumping /\ ~wm.start
    /\ IF wm.wfoc # None THEN Set(CloseFocusedWindow(wm))
       ELSE IF task.term = wm.foc THEN Interrupt(wm)
       ELSE Set(TileClose(wm, wm.foc))

\* The interrupt ends the program when it is in ring 3.
PumpAbort == Running /\ task.intr /\ Dies

-----------------------------------------------------------------------------
(* The main loop, while no program runs.  Every round first repairs the    *)
(* focus.                                                                  *)

Looping == task.st = "none"
Now == EnsureValidFocus(wm)
CtxOff(s) == [s EXCEPT !.ctx = NoCtx]

\* The context menu remembers an index from when it was opened.
CtxTarget(s) ==
    IF s.ctx.kind = "tile" THEN s.ctx.idx \in Indices(s)
    ELSE s.ctx.idx \in UsedWins(s)

LoopCtxPick ==
    /\ Looping /\ Now.ctx.on
    /\ LET moved == {IF s.ctx.kind = "tile" THEN SetTile(s, s.ctx.idx, "desk", d)
                     ELSE SetWin(s, s.ctx.idx, "desk", d) :
                         s \in {x \in {Now} : CtxTarget(x)}, d \in Desktops}
           killed == {IF s.ctx.kind = "tile" THEN TileClose(s, s.ctx.idx)
                      ELSE ForceCloseWindow(s, s.ctx.idx) :
                         s \in {x \in {Now} : CtxTarget(x)}}
       IN  OneOf({CtxOff(s) : s \in moved \cup killed \cup {Now}})

LoopCtxOpen ==
    /\ In({"desks"}) /\ Looping
    /\ OneOf({[Now EXCEPT !.ctx = [on |-> TRUE, kind |-> "win", idx |-> w]] :
                 w \in UsedWins(Now)}
             \cup {[Now EXCEPT !.ctx = [on |-> TRUE, kind |-> "tile", idx |-> i]] :
                 i \in Indices(Now)}
             \cup {[Now EXCEPT !.ctx = NoCtx]})

SwitchDesktop(s, d) ==
    LET there == {i \in Visible(s) : s.tiles[i].desk = d}
        leave == s.foc \in Indices(s) /\ s.tiles[s.foc].desk # d /\ there # {}
    IN  [s EXCEPT !.desk = d,
                  !.wfoc = IF @ # None /\ s.wins[@].desk # d THEN None ELSE @,
                  !.foc = IF leave THEN LeastOf(there) ELSE @]

LoopTaskbar ==
    /\ In({"menus"}) /\ Looping /\ ~Now.ctx.on
    /\ OneOf({ToggleStart(Now), MenusOff(Now),
              [Now EXCEPT !.drop = ~@, !.start = FALSE]}
             \cup {MenusOff(s) : s \in TaskbarPick(Now)})

LoopDesktop ==
    /\ In({"desks"}) /\ Looping /\ ~Now.ctx.on
    /\ OneOf({SwitchDesktop(Now, d) : d \in Desktops})

LoopDropdown ==
    /\ Looping /\ ~Now.ctx.on /\ Now.drop /\ ~Now.start
    /\ OneOf({[s EXCEPT !.drop = FALSE] : s \in TaskbarPick(Now)})

\* Start menu, by mouse or keyboard: a shell, or a program typed into a
\* terminal (a tile is created when there is none).
LoopStartMenu ==
    /\ Looping /\ Now.start
    /\ \/ OneOf({MenusOff(LaunchShell(Now)), MenusOff(Now)})
       \/ /\ Start(MenusOff(IF Count(Now) = 0 THEN NewTile(Now) ELSE Now))
          /\ UNCHANGED scene

\* The maximise button of a window is in Geometry.
Buttons == {"close", "min"}

\* A second button is pressed only when the first has been released.
Presses(s) ==
    IF \E w \in Wins : s.wins[w].press # "none" THEN {}
    ELSE IF \E i \in Indices(s) : s.press[i] # "none" THEN {}
    ELSE IF In({"windows"}) \/ MayHide(s) THEN Buttons ELSE {"close"}

LoopWindowPress ==
    /\ Looping /\ ~Now.ctx.on
    /\ \E w \in WinsHit(Now) :
        LET s == MenusOff(BringToFront(Now, w))
        IN  OneOf({SetWin(s, w, "press", b) :
                       b \in IF In({"windows"}) THEN Presses(Now) ELSE {}}
                  \cup {s})

LoopTilePress ==
    /\ Looping /\ ~Now.ctx.on
    /\ \E i \in TilesHit(Now) :
        LET s == [MenusOff(Now) EXCEPT !.foc = i]
            off == [s EXCEPT !.wfoc = None]
        IN  OneOf({[s EXCEPT !.press[i] = b] :
                       b \in IF In({"tiles"}) THEN Presses(Now) ELSE {}}
                  \cup {off, RouteMouse(off, i)})

\* A button acts when it is released over the same window it was pressed
\* on.  The close callback is asked here and again by wm_close_window.
ReleasedWindow(s, w) ==
    CASE s.wins[w].press = "close" ->
           IF WindowVetoes(s, w) THEN PushEvent(s, s.wins[w].client)
           ELSE CloseWindow(s, w)
      [] s.wins[w].press = "min" -> WindowMinimize(s, w)
      [] OTHER -> s

ReleasedTile(s, i) ==
    CASE s.press[i] = "close" -> TileClose(s, i)
      [] s.press[i] = "min" -> TileMinimize(s, i)
      [] OTHER -> s

WinsUp(s) ==
    [s EXCEPT !.wins = [w \in Wins |-> IF @[w].used
                                       THEN [@[w] EXCEPT !.press = "none"]
                                       ELSE @[w]]]

\* The presses of these places are forgotten.
TilesUp(s, places) ==
    [s EXCEPT !.press = [i \in Terms |-> IF i \in places THEN "none" ELSE @[i]]]

\* Motion goes to the topmost window if the pointer is in it, else to the
\* focused tile.
LoopRoutes(s) ==
    {IF s.foc \in Indices(s) /\ s.term[s.foc].mouse
     THEN Deliver(s, 0, FALSE, s.foc) ELSE s}
    \cup {Deliver(s, s.wins[w].client, TRUE, w) :
              w \in {x \in Wins : s.order # << >> /\ x = Last(s.order)
                                   /\ ~s.wins[x].min}}

LoopRelease ==
    /\ Looping
    /\ LET over == {WinsUp(ReleasedWindow(Now, w)) : w \in WinsHit(Now)}
                   \cup {WinsUp(Now)}
           acted == {TilesUp(ReleasedTile(s, i), 1..i) :
                        s \in {WinsUp(Now)}, i \in Indices(Now)}
           all == {TilesUp(s, Indices(s)) : s \in over} \cup acted
       IN  \E s \in all : OneOf(LoopRoutes(s))

LoopMove == Looping /\ OneOf(LoopRoutes(Now))

Unminimized(s) ==
    IF s.wfoc # None /\ s.wins[s.wfoc].min THEN [s EXCEPT !.wfoc = None] ELSE s

\* Keys the loop keeps for itself.
LoopSuper ==
    /\ Looping /\ ~Now.start
    /\ LET s == Unminimized(Now)
       IN  OneOf((IF In({"menus"}) THEN {ToggleStart(s)} ELSE {})
                 \cup (IF Room(s) THEN {NewTile(s)} ELSE {})
                 \cup (IF In({"windows"}) THEN {ToggleFullscreen(s)} ELSE {})
                 \cup {[s EXCEPT !.foc = ArrowTo(s, d)] :
                           d \in {"up", "down", "left", "right"}})

LoopSuperQ ==
    /\ Looping /\ ~Now.start
    /\ LET s == Unminimized(Now)
       IN  Set(IF s.wfoc # None THEN CloseFocusedWindow(s)
               ELSE TileClose(s, s.foc))

\* Ctrl+Q: a GUI tile gets the key, then its close callback is asked.
LoopCtrlQ ==
    /\ Looping /\ ~Now.start
    /\ LET s == Unminimized(Now)
           d == Deliver(s, 0, FALSE, s.foc)
       IN  Set(IF s.wfoc # None THEN CloseFocusedWindow(s)
               ELSE IF s.foc \in Indices(s) /\ s.term[s.foc].key
               THEN IF TileVetoes(d, s.foc) THEN PushEvent(d, 0)
                    ELSE TileUnregister(d, s.foc)
               ELSE s)

\* Any other key; in a plain terminal it may run a program.
LoopChar ==
    /\ Looping /\ ~Now.start
    /\ LET s == Unminimized(Now)
       IN  IF s.wfoc # None \/ s.foc \notin Indices(s) \/ s.term[s.foc].key
           THEN Set(RouteKey(s, s.foc))
           ELSE Start(s) /\ UNCHANGED scene

-----------------------------------------------------------------------------
FirstTile ==
    [tiles |-> << [min |-> FALSE, desk |-> 0] >>,
         press |-> [t \in Terms |-> "none"],
         term |-> [t \in Terms |-> IF t = 1 THEN [NoTerm EXCEPT !.text = 1]
                                   ELSE NoTerm],
         wins |-> [w \in Wins |-> NoWin], order |-> << >>,
         foc |-> 1, wfoc |-> None, full |-> None,
         start |-> FALSE, drop |-> FALSE, ctx |-> NoCtx, desk |-> 0,
         guis |-> [h \in Handles |-> NoGui]]

WmInit ==
    /\ scene \in Scenes
    /\ task = NoTask
    /\ wm = FirstTile

Program ==
    \/ GuiCreate \/ GuiAttach \/ Exit \/ Dies
    \/ \E h \in Handles : GuiClose(h) \/ GuiPoll(h) \/ GuiWait(h)

Pump ==
    \/ PumpTitleClose \/ PumpTitleOther \/ PumpTaskbarKill \/ PumpTaskbar
    \/ PumpDropdown \/ PumpWindowPress \/ PumpTilePress \/ PumpMouse
    \/ PumpCtrlC \/ PumpChar \/ PumpSuper \/ PumpSuperQ \/ PumpAbort

Loop ==
    \/ LoopCtxPick \/ LoopCtxOpen \/ LoopTaskbar \/ LoopDesktop \/ LoopDropdown
    \/ LoopStartMenu \/ LoopWindowPress \/ LoopTilePress \/ LoopRelease
    \/ LoopMove \/ LoopSuper \/ LoopSuperQ \/ LoopCtrlQ \/ LoopChar

WmNext == Program \/ WaitReturns \/ Pump \/ Loop

-----------------------------------------------------------------------------
\* The drawing order holds exactly the windows that exist, once each.
StackSound ==
    /\ ToSet(wm.order) = UsedWins(wm)
    /\ Len(wm.order) = Cardinality(UsedWins(wm))
    /\ wm.wfoc \in UsedWins(wm) \cup {None}

\* A window's callbacks reach a handle that is in use and that names the
\* window.
ClientLive ==
    \A w \in UsedWins(wm) :
        wm.wins[w].client # Nobody =>
            Matches(wm, wm.wins[w].client, TRUE, w)

\* The text on a tile is the text of the terminal the tile was opened with.
TermsFollow == \A i \in Indices(wm) : wm.term[i].text = i

\* While a program runs, its handle 0 keeps the mouse and close callbacks of
\* the place it was attached to, whatever tiles are closed before that place.
PlaceHeard ==
    Active /\ wm.guis[0].used =>
        wm.term[wm.guis[0].idx].mouse /\ wm.term[wm.guis[0].idx].close

\* The drawing order and the focus name open windows, the callbacks of a
\* window reach the handle made for it, those of a place stay registered for
\* the program attached there, and texts follow their tiles, after any
\* closing, reuse of a slot and end of a program.  The callbacks of a tile
\* follow only their place, and a handle whose window was closed may name the
\* next one: see TileClientFollows and HandleNamesOwnWindow.
WmSound == StackSound /\ ClientLive /\ PlaceHeard /\ TermsFollow

\* While a program runs, every handle in use is one it created and every
\* queued event was put there during its run.
HandlesOwn ==
    Active =>
        \A h \in Handles :
            /\ wm.guis[h].used => wm.guis[h].own
            /\ \A k \in DOMAIN wm.guis[h].q : wm.guis[h].q[k]

\* A program that waits for an event returns once there is one, or once the
\* user has interrupted it.
WaitEnds ==
    (task.st = "wait" /\ (task.intr \/ wm.guis[task.h].q # << >>))
        ~> (task.st # "wait")

(* What the code does not keep; the README says how it is lost.             *)

\* When no program runs, every tile is a terminal again.
TileReturns == Looping => \A i \in Indices(wm) : ~wm.term[i].key

\* The key callback on a tile reaches the handle attached to that tile.
TileClientFollows ==
    \A i \in Indices(wm) :
        Active /\ wm.term[i].key => Matches(wm, 0, FALSE, i)

\* A handle that names an open window is the one the window was made for, so
\* that closing a handle closes no other handle's window.
HandleNamesOwnWindow ==
    \A h \in Handles :
        (wm.guis[h].used /\ wm.guis[h].float
             /\ wm.guis[h].idx \in UsedWins(wm)) =>
            wm.wins[wm.guis[h].idx].client = h

\* A button acts only in a tile it was pressed on.
PressesFresh == \A i \in Terms \ Indices(wm) : wm.press[i] = "none"
====
