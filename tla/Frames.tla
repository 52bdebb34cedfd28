------------------------------- MODULE Frames -------------------------------
(***************************************************************************)
(* What a GUI program draws and when it is seen.  The draw calls append to *)
(* the handle's command list; a render replays the list.  Three places     *)
(* render: gui_present, a poll or wait of a program that forgot to present *)
(* (tiles only), and the timer interrupt, which may hit between any two    *)
(* calls and inside a render, where g_in_render_once turns it away.        *)
(***************************************************************************)
EXTENDS Naturals, Sequences

CONSTANTS
    CmdMax,      \* USER_GUI_CMD_MAX
    MaxDraws     \* bound: draw calls of a behaviour

ASSUME FramesAssumption == CmdMax \in Nat \ {0} /\ MaxDraws \in Nat

VARIABLES
    list,      \* cmds and blit_buf of the handle: what was drawn, in order
    pending,   \* frame_pending
    shown,     \* the list the framebuffer was last painted from
    inRender,  \* g_in_render_once
    caller,    \* the program: "user", or inside a system call
    floating,  \* a window rather than a tile
    drawn      \* draw calls made so far

frvars == <<list, pending, shown, inRender, caller, floating, drawn>>

InUser == caller = "user"

\* SYSCALL_GUI_BEGIN.
Begin ==
    /\ InUser
    /\ list' = << >> /\ pending' = TRUE
    /\ UNCHANGED <<shown, inRender, caller, floating, drawn>>

\* Every draw call: one more command, or -1 when the list is full.
Draw ==
    /\ InUser /\ drawn < MaxDraws /\ drawn' = drawn + 1
    /\ IF Len(list) < CmdMax
       THEN list' = Append(list, drawn + 1) /\ pending' = TRUE
       ELSE UNCHANGED <<list, pending>>
    /\ UNCHANGED <<shown, inRender, caller, floating>>

\* tile_render_once, entered from a system call: the interrupt may come
\* before it ends.
Present ==
    /\ InUser
    /\ caller' = "present" /\ inRender' = TRUE
    /\ UNCHANGED <<list, pending, shown, floating, drawn>>

\* SYSCALL_GUI_POLL_EVENT and SYSCALL_GUI_WAIT_EVENT flush a frame that was
\* not presented: a tile is rendered, a window only marked.
PollOrWait ==
    /\ InUser
    /\ IF pending /\ ~floating
       THEN caller' = "flush" /\ inRender' = TRUE /\ UNCHANGED pending
       ELSE caller' = "wait" /\ pending' = FALSE /\ UNCHANGED inRender
    /\ UNCHANGED <<list, shown, floating, drawn>>

RenderLeavesFlag ==
    /\ caller \in {"present", "flush"}
    /\ shown' = list /\ pending' = FALSE
    /\ caller' = IF caller = "flush" THEN "wait" ELSE "user"
    /\ UNCHANGED <<list, inRender, floating, drawn>>

RenderEnds ==
    /\ caller \in {"present", "flush"}
    /\ shown' = list /\ pending' = FALSE /\ inRender' = FALSE
    /\ caller' = IF caller = "flush" THEN "wait" ELSE "user"
    /\ UNCHANGED <<list, floating, drawn>>

\* An event ends the wait; a poll returns at once.
EventArrives ==
    /\ caller = "wait" /\ caller' = "user"
    /\ UNCHANGED <<list, pending, shown, inRender, floating, drawn>>

\* IRQ0, every third tick of a running program.
TimerRender ==
    /\ ~inRender
    /\ shown' = list
    /\ UNCHANGED <<list, pending, inRender, caller, floating, drawn>>

FramesInit ==
    /\ floating \in BOOLEAN
    /\ list = << >> /\ shown = << >> /\ pending = FALSE /\ inRender = FALSE
    /\ caller = "user" /\ drawn = 0

FramesNext ==
    \/ Begin \/ Draw \/ Present \/ PollOrWait \/ RenderEnds \/ EventArrives
    \/ TimerRender

-----------------------------------------------------------------------------
\* The screen catches up with a program that draws and then waits for input,
\* whether or not it called gui_present.
FrameShown == (caller = "wait" /\ shown # list) ~> (shown = list \/ InUser)
====
