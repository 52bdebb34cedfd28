------------------------------ MODULE Geometry ------------------------------
(***************************************************************************)
(* Where a floating window or a tile is: creation, dragging, resizing by   *)
(* an edge, maximising, and a change of the display mode (src/src/gui).    *)
(* The two axes are handled by the same arithmetic, so that a rectangle is *)
(* a span along one of them: from "at", "size" long, on a screen of        *)
(* "screen" pixels of which the first "low" belong to the taskbar.         *)
(***************************************************************************)
EXTENDS Integers

CONSTANTS
    Widths,      \* screen sizes the display can be set to
    Lows,        \* 0 for the x axis, the taskbar's height for the y axis
    WindowMin,   \* smallest size of a window (64, 48)
    TileMin,     \* smallest size of a tile (200, 120)
    TitleShown   \* titlebar_min_visible_width_px, or the title's height

ASSUME GeometryAssumption ==
    /\ Widths \subseteq Nat \ {0} /\ Lows \subseteq Nat
    /\ WindowMin \in Nat \ {0} /\ TileMin \in Nat \ {0} /\ TitleShown \in Nat \ {0}

VARIABLES screen, low, rect, hold
gvars == <<screen, low, rect, hold>>

NoHold == [act |-> "none", off |-> 0, at |-> 0, size |-> 0]
NoRect == [used |-> FALSE, tile |-> FALSE, max |-> FALSE, at |-> 0, size |-> 0,
           scr |-> 0, pat |-> 0, psize |-> 0, pscr |-> 0]

\* Bound: dragging to the right and widening to the left, in turn, would
\* make a window as wide as one likes.
MaxSize == 5

Clamp(v, lo, hi) == IF v < lo THEN lo ELSE IF v > hi THEN hi ELSE v
AtLeast(v, m) == IF v < m THEN m ELSE v
MinOf == IF rect.tile THEN TileMin ELSE WindowMin

\* The last place a title may be dragged to.  The main loop lets a window
\* go to the last pixel; everything else keeps some of the title visible.
MaxAnchor(pump) ==
    LET shown == IF pump \/ rect.tile THEN TitleShown ELSE 1
    IN  AtLeast(IF screen > shown THEN screen - shown ELSE low, low)

Placed(at, size) ==
    [rect EXCEPT !.at = at, !.size = size, !.scr = screen]

\* wm_create_window: a negative position asks for the middle.
Create(x, n) ==
    /\ ~rect.used
    /\ LET size == Clamp(n, WindowMin, screen)
           at == IF x < 0 THEN (screen - size) \div 2 ELSE x
           a == Clamp(at, low, MaxAnchor(TRUE))
       IN  rect' = [used |-> TRUE, tile |-> FALSE, max |-> FALSE, at |-> a,
                    size |-> size, scr |-> screen, pat |-> 0, psize |-> 0,
                    pscr |-> 0]
    /\ UNCHANGED <<screen, low, hold>>

\* layout_tiles, for a tile that has no place yet.
CreateTile(off) ==
    /\ ~rect.used
    /\ rect' = [used |-> TRUE, tile |-> TRUE, max |-> FALSE, at |-> low + off,
                size |-> AtLeast(screen - 2, TileMin), scr |-> screen,
                pat |-> 0, psize |-> 0, pscr |-> 0]
    /\ off < screen - low
    /\ UNCHANGED <<screen, low, hold>>

Close ==
    /\ rect.used /\ rect' = NoRect /\ hold' = NoHold
    /\ UNCHANGED <<screen, low>>

\* A press on the title, or on the first or the last pixel, at pixel m.
Press(act, m) ==
    /\ rect.used /\ hold = NoHold
    /\ act = "near" => rect.size <= MaxSize
    /\ CASE act = "near" -> m = rect.at
         [] act = "far" -> m = rect.at + rect.size - 1
         [] OTHER -> m \in rect.at..(rect.at + rect.size - 1)
    /\ hold' = [act |-> act, off |-> IF act = "drag" THEN m - rect.at ELSE m,
                at |-> IF act = "drag" THEN 0 ELSE rect.at,
                size |-> IF act = "drag" THEN 0 ELSE rect.size]
    /\ UNCHANGED <<screen, low, rect>>

LetGo == hold # NoHold /\ hold' = NoHold /\ UNCHANGED <<screen, low, rect>>

Drag(m, pump) ==
    /\ hold.act = "drag"
    /\ rect' = Placed(Clamp(m - hold.off, low, MaxAnchor(pump)), rect.size)
    /\ UNCHANGED <<screen, low, hold>>

\* The smallest size is enforced before and after the near edge is stopped
\* at the border of the screen.
Resized(m, pump) ==
    LET d == m - hold.off
        near == hold.act = "near"
        at1 == IF near THEN hold.at + d ELSE hold.at
        n1 == IF near THEN hold.size - d ELSE hold.size + d
        at2 == IF near /\ n1 < MinOf THEN at1 - (MinOf - n1) ELSE at1
        n2 == AtLeast(n1, MinOf)
        n3 == IF near /\ at2 < low THEN n2 + (at2 - low) ELSE n2
    IN  Placed(Clamp(at2, low, MaxAnchor(pump)), AtLeast(n3, MinOf))

Resize(m, pump) ==
    /\ hold.act \in {"near", "far"}
    /\ rect' = Resized(m, pump)
    /\ UNCHANGED <<screen, low, hold>>

\* The maximise button of a window, and again to restore it.  The saved
\* place is read only while the window is maximised.
Maximise ==
    /\ rect.used /\ ~rect.tile /\ hold = NoHold
    /\ rect' = IF ~rect.max
               THEN [rect EXCEPT !.max = TRUE, !.at = low,
                                 !.size = screen - low, !.scr = screen,
                                 !.pat = rect.at, !.psize = rect.size,
                                 !.pscr = rect.scr]
               ELSE [rect EXCEPT !.max = FALSE, !.at = rect.pat,
                                 !.size = rect.psize, !.scr = rect.pscr,
                                 !.pat = 0, !.psize = 0, !.pscr = 0]
    /\ UNCHANGED <<screen, low, hold>>

\* tiler_set_display_mode and tiler_set_display_profile: tiles whose width
\* was the screen's are laid out again, nothing else is moved.
SetDisplay(n) ==
    /\ n # screen /\ hold = NoHold /\ screen' = n
    /\ UNCHANGED <<low, rect, hold>>

GeometryInit ==
    /\ screen \in Widths /\ low \in Lows
    /\ rect = NoRect /\ hold = NoHold

GeometryNext ==
    \/ Maximise \/ Close \/ LetGo
    \/ \E n \in Widths : SetDisplay(n)
    \/ \E off \in {1, 2} : CreateTile(off)
    \/ \E x \in -1..(screen + 1), n \in 0..(screen + 1) : Create(x, n)
    \/ \E m \in 0..(screen - 1) :
        \/ \E act \in {"drag", "near", "far"} : Press(act, m)
        \/ \E pump \in BOOLEAN : Drag(m, pump) \/ Resize(m, pump)

-----------------------------------------------------------------------------
\* A window or a tile that was last placed on the present screen starts on
\* it, below the taskbar, and is large enough to be taken hold of: the user
\* can always reach its title again.
TitleReachable ==
    rect.used /\ rect.scr = screen =>
        /\ rect.at >= low /\ rect.at < screen
        /\ rect.size >= (IF rect.max THEN 1 ELSE MinOf)
====
