------------------------------- MODULE Fonts -------------------------------
(***************************************************************************)
(* The font table of vga.c and who holds a reference to it: the system     *)
(* font and the fonts of the GUI handles (src/src/cpu/isr.c).  A font is   *)
(* loaded once per path and counted; a slot whose count reaches zero is    *)
(* emptied and may hold another font next.                                 *)
(***************************************************************************)
EXTENDS Naturals, FiniteSets

CONSTANTS
    Paths,          \* fonts on the drives
    VGA_FONT_MAX,   \* slots of g_vga_fonts
    FontHandles,    \* GUI handles
    RefMax          \* the largest reference count (0xFFFF)

ASSUME FontsAssumption ==
    /\ VGA_FONT_MAX \in Nat \ {0}
    /\ RefMax \in Nat /\ RefMax > Cardinality(FontHandles) + 1

VARIABLES fonts, sysFont, holds
fvars == <<fonts, sysFont, holds>>

FontSlots == 1..VGA_FONT_MAX
BuiltIn == 0
NoPath == "none"
EmptySlot == [path |-> NoPath, refs |-> 0]
LeastSlot(S) == CHOOSE x \in S : \A y \in S : x <= y

Loaded(t, p) == {i \in FontSlots : t[i].path = p}

\* vga_font_acquire_path: the table and the slot, BuiltIn when there is no
\* slot or the file cannot be loaded (found = FALSE).
Acquire(t, p, found) ==
    IF Loaded(t, p) # {}
    THEN LET i == LeastSlot(Loaded(t, p))
         IN  [t |-> [t EXCEPT ![i].refs = IF @ < RefMax THEN @ + 1 ELSE @],
              i |-> i]
    ELSE IF Loaded(t, NoPath) = {} \/ ~found THEN [t |-> t, i |-> BuiltIn]
    ELSE LET i == LeastSlot(Loaded(t, NoPath))
         IN  [t |-> [t EXCEPT ![i] = [path |-> p, refs |-> 1]], i |-> i]

\* vga_font_release.
Release(t, i) ==
    IF i = BuiltIn \/ t[i].path = NoPath THEN t
    ELSE IF t[i].refs <= 1 THEN [t EXCEPT ![i] = EmptySlot]
    ELSE [t EXCEPT ![i].refs = @ - 1]

\* vga_system_font_acquire: by the path of the system font, if there is one.
AcquireSystem(t, found) ==
    IF sysFont.i = BuiltIn THEN [t |-> t, i |-> BuiltIn]
    ELSE Acquire(t, sysFont.path, found)

\* vga_try_init_system_font, from anything that measures text.
InitSystemFont(found) ==
    /\ ~sysFont.tried /\ sysFont.path # NoPath
    /\ LET a == Acquire(fonts, sysFont.path, found)
       IN  /\ fonts' = a.t
           /\ sysFont' = [sysFont EXCEPT !.tried = TRUE, !.i = a.i]
    /\ UNCHANGED holds

\* vga_system_font_set; the old font is released after the new one is held.
SetSystemFont(p, found) ==
    /\ LET a == Acquire(fonts, p, found)
       IN  /\ a.i # BuiltIn
           /\ fonts' = Release(a.t, sysFont.i)
           /\ sysFont' = [path |-> p, i |-> a.i, tried |-> TRUE]
    /\ UNCHANGED holds

SetSystemBuiltIn ==
    /\ fonts' = Release(fonts, sysFont.i)
    /\ sysFont' = [path |-> NoPath, i |-> BuiltIn, tried |-> TRUE]
    /\ UNCHANGED holds

NotHeld == [used |-> FALSE, i |-> BuiltIn, path |-> NoPath]

\* SYSCALL_GUI_CREATE and SYSCALL_GUI_ATTACH: a handle attached again first
\* lets go of what it held.
OpenHandle(h, found) ==
    /\ LET t == Release(fonts, holds[h].i)
           a == AcquireSystem(t, found)
       IN  /\ fonts' = a.t
           /\ holds' = [holds EXCEPT ![h] = [used |-> TRUE, i |-> a.i,
                 path |-> IF a.i = BuiltIn THEN NoPath ELSE sysFont.path]]
    /\ UNCHANGED sysFont

SetFontKeepsOld(h, p, found) ==
    /\ holds[h].used
    /\ LET a == Acquire(fonts, p, found)
       IN  /\ a.i # BuiltIn
           /\ fonts' = Release(Release(a.t, holds[h].i), a.i)
           /\ holds' = [holds EXCEPT ![h].i = a.i, ![h].path = p]
    /\ UNCHANGED sysFont

\* SYSCALL_GUI_SET_FONT with a path; without one it takes the system font.
SetFont(h, p, found) ==
    /\ holds[h].used
    /\ LET a == Acquire(fonts, p, found)
       IN  /\ a.i # BuiltIn
           /\ fonts' = IF holds[h].i # a.i THEN Release(a.t, holds[h].i)
                       ELSE Release(a.t, a.i)
           /\ holds' = [holds EXCEPT ![h].i = a.i, ![h].path = p]
    /\ UNCHANGED sysFont

\* SYSCALL_GUI_LOAD_FONT acquires the font and then returns because eax still
\* holds the number of the system call: the reference is nobody's.
LoadFont(h, p, found) ==
    /\ holds[h].used
    /\ fonts' = Acquire(fonts, p, found).t
    /\ UNCHANGED <<sysFont, holds>>

\* user_gui_release_fonts, when the handle is closed or reset.
CloseHandle(h) ==
    /\ holds[h].used
    /\ fonts' = Release(fonts, holds[h].i)
    /\ holds' = [holds EXCEPT ![h] = NotHeld]
    /\ UNCHANGED sysFont

NoSystemFont == [path |-> NoPath, i |-> BuiltIn, tried |-> FALSE]

FontsInit ==
    /\ fonts = [i \in FontSlots |-> EmptySlot]
    /\ sysFont \in {[NoSystemFont EXCEPT !.path = p] : p \in Paths}
    /\ holds = [h \in FontHandles |-> NotHeld]

FontsNext ==
    \E found \in BOOLEAN :
        \/ InitSystemFont(found)
        \/ SetSystemBuiltIn
        \/ \E p \in Paths : SetSystemFont(p, found)
        \/ \E h \in FontHandles :
            \/ OpenHandle(h, found) \/ CloseHandle(h)
            \/ \E p \in Paths : SetFont(h, p, found) \/ LoadFont(h, p, found)

-----------------------------------------------------------------------------
Users(i) == {h \in FontHandles : holds[h].i = i}

\* Nobody draws with a font that was freed, or with another one that was
\* loaded into its slot: the slot holds the path its user asked for, and is
\* counted at least once for each of its users.
FontsLive ==
    \A i \in FontSlots :
        LET sys == sysFont.i = i
            n == Cardinality(Users(i)) + IF sys THEN 1 ELSE 0
        IN  n > 0 => /\ fonts[i].refs >= n
                     /\ sys => fonts[i].path = sysFont.path
                     /\ \A h \in Users(i) : fonts[i].path = holds[h].path
====
