-------------------------------- MODULE Gui --------------------------------
(***************************************************************************)
(* The graphical system: the window manager, the fonts its handles hold,   *)
(* the places of its windows, the frames programs draw and the toasts of   *)
(* the taskbar.  No two of them write and read the same variable, so that  *)
(* a behaviour exercises one of them.                                      *)
(***************************************************************************)
EXTENDS Wm, Fonts, Geometry, Frames, Toasts

VARIABLE part
guivars == <<part, wmvars, fvars, gvars, frvars, tvars>>

Parts == {"wm", "fonts", "geometry", "frames", "toasts"}

GuiInit ==
    /\ part \in Parts
    /\ IF part = "wm" THEN WmInit
       ELSE scene = "tiles" /\ task = NoTask /\ wm = FirstTile
    /\ IF part = "fonts" THEN FontsInit
       ELSE /\ fonts = [i \in FontSlots |-> EmptySlot] /\ sysFont = NoSystemFont
            /\ holds = [h \in FontHandles |-> NotHeld]
    /\ IF part = "geometry" THEN GeometryInit
       ELSE screen = 1 /\ low = 0 /\ rect = NoRect /\ hold = NoHold
    /\ FramesInit /\ (part # "frames" => ~floating)
    /\ ToastsInit /\ (part # "toasts" => tick = 0)

GuiNext ==
    /\ UNCHANGED part
    /\ \/ part = "wm" /\ WmNext /\ UNCHANGED <<fvars, gvars, frvars, tvars>>
       \/ part = "fonts" /\ FontsNext /\ UNCHANGED <<wmvars, gvars, frvars, tvars>>
       \/ part = "geometry" /\ GeometryNext
            /\ UNCHANGED <<wmvars, fvars, frvars, tvars>>
       \/ part = "frames" /\ FramesNext /\ UNCHANGED <<wmvars, fvars, gvars, tvars>>
       \/ part = "toasts" /\ ToastsNext /\ UNCHANGED <<wmvars, fvars, gvars, frvars>>

\* A halted system call runs again at every interrupt, a render is code that
\* ends, and the timer interrupts for ever.
KernelRuns ==
    /\ WF_guivars(WaitReturns /\ UNCHANGED <<part, fvars, gvars, frvars, tvars>>)
    /\ WF_guivars(RenderEnds /\ UNCHANGED <<part, wmvars, fvars, gvars, tvars>>)
    /\ WF_guivars(TimerRender /\ UNCHANGED <<part, wmvars, fvars, gvars, tvars>>)

GuiSpec == GuiInit /\ [][GuiNext]_guivars /\ KernelRuns
-----------------------------------------------------------------------------
\* A window's callbacks reach its own handle, a tile shows its own text, a
\* place keeps the callbacks of the program attached to it, a program is given
\* no handle and no event of an earlier one, and no title comes to lie out of
\* reach, however tiles and windows are opened, closed, moved and reused.
DesktopSound == WmSound /\ HandlesOwn /\ TitleReachable

\* What is drawn with is what was asked for and is still there: fonts in their
\* slots, toasts until their time is over.  (Of the toasts kept here the taskbar
\* paints the first three.)
DrawnSound == FontsLive /\ ToastsSound
=============================================================================
