------------------------------- MODULE Toasts -------------------------------
(***************************************************************************)
(* Notifications of the taskbar (src/src/gui/gui_taskbar.c): a few slots,  *)
(* each with the tick it was posted at and the ticks it lasts.  The tick   *)
(* counter is 32 bits wide and wraps.                                      *)
(***************************************************************************)
EXTENDS Naturals, FiniteSets

CONSTANTS
    TASKBAR_TOAST_MAX,   \* slots
    TickMod,             \* 2^32
    Timeouts,            \* ticks a toast may last, after clamping
    MaxPosts             \* bound: toasts posted in a behaviour

ASSUME ToastsAssumption ==
    /\ TASKBAR_TOAST_MAX \in Nat \ {0} /\ TickMod \in Nat \ {0}
    /\ Timeouts \subseteq 1..(TickMod - 1) /\ MaxPosts \in Nat

VARIABLES tick, toasts, posted, alive
tvars == <<tick, toasts, posted, alive>>

ToastSlots == 1..TASKBAR_TOAST_MAX
NoToast == [seq |-> 0, born |-> 0, lasts |-> 0]
Live(t) == {i \in ToastSlots : t[i].seq # 0}

Age(t, i) == (tick + TickMod - t[i].born) % TickMod

\* taskbar_toast_prune.
Prune(t) ==
    [i \in ToastSlots |->
        IF i \in Live(t) /\ Age(t, i) >= t[i].lasts THEN NoToast ELSE t[i]]

\* taskbar_toast_find_slot: the first free one, else the oldest.
SlotFor(t) ==
    IF Live(t) # ToastSlots
    THEN CHOOSE i \in ToastSlots \ Live(t) :
            \A j \in ToastSlots \ Live(t) : i <= j
    ELSE CHOOSE i \in ToastSlots : \A j \in ToastSlots : t[i].seq <= t[j].seq

\* tile_notify_post.
Post(n) ==
    /\ posted < MaxPosts /\ posted' = posted + 1
    /\ LET t == Prune(toasts)
           i == SlotFor(t)
       IN  toasts' = [t EXCEPT ![i] = [seq |-> posted + 1, born |-> tick,
                                       lasts |-> n]]
    /\ alive' = {a \in alive :
                    Cardinality({b \in alive : b.seq > a.seq}) + 1
                        < TASKBAR_TOAST_MAX}
                \cup {[seq |-> posted + 1, left |-> n]}
    /\ UNCHANGED tick

\* draw_taskbar prunes before it draws.
DrawToasts == toasts' = Prune(toasts) /\ UNCHANGED <<tick, posted, alive>>

\* tile_notify_dismiss_all.
DismissAll ==
    /\ toasts' = [i \in ToastSlots |-> NoToast]
    /\ alive' = {}
    /\ UNCHANGED <<tick, posted>>

\* The timer; alive holds the newest toasts, as many as there are slots,
\* and the time each has left.  The taskbar is drawn more often than the
\* counter wraps.
Tick ==
    /\ \A i \in Live(toasts) : Age(toasts, i) < TickMod - 1
    /\ tick' = (tick + 1) % TickMod
    /\ alive' = {[a EXCEPT !.left = @ - 1] : a \in {b \in alive : b.left > 1}}
    /\ UNCHANGED <<toasts, posted>>

ToastsInit ==
    /\ tick \in 0..(TickMod - 1)
    /\ toasts = [i \in ToastSlots |-> NoToast] /\ posted = 0 /\ alive = {}

ToastsNext ==
    Tick \/ DrawToasts \/ DismissAll \/ \E n \in Timeouts : Post(n)

-----------------------------------------------------------------------------
\* What the taskbar shows is exactly the newest toasts whose time is not
\* over, also across the wrap of the tick counter.
ToastsSound ==
    {Prune(toasts)[i].seq : i \in Live(Prune(toasts))} = {a.seq : a \in alive}
====
