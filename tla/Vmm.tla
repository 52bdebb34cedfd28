-------------------------------- MODULE Vmm --------------------------------
(* The virtual memory manager of src/mm/vmm.c with the callers that drive it *)
(* in the address space every ring-3 program runs in, vmm_kernel_as: the     *)
(* loader (user_elf_run_argv), the page-fault handler, copyout, the mmap     *)
(* system call and user_task_cleanup_mappings.                               *)
(*                                                                           *)
(* frame_alloc may reclaim a page with the clock algorithm, and the clock    *)
(* loop is modelled one hand position at a time, so every caller is split    *)
(* at its calls of frame_alloc: `alloc` is the state of the call in          *)
(* progress, `stage` says whether the frame is for data or for a page table, *)
(* `op` is the caller and `todo` the pages its loop has still to visit, in   *)
(* ascending order.  Nothing else runs meanwhile (one CPU; the timer touches *)
(* no page table).                                                           *)
(*                                                                           *)
(* Contents are abstracted to the page whose data they are, zeros it has not *)
(* overwritten included; Junk is whatever a previous owner left in a frame   *)
(* or a slot.                                                                *)
EXTENDS Naturals, FiniteSets

CONSTANTS
    Frames,         \* the frames the bitmap calls free after boot
    TailFrames,     \* those in a last bitmap word shorter than 32 frames
    ImagePages,     \* pages of the largest program image: 1 .. ImagePages
    SharedPages,    \* pages of the mmap region, above the image
    StackPages,     \* pages of the stack region, above the mmap region
    InitialStack,   \* USER_ELF_INITIAL_STACK_PAGES
    TableOf,        \* the page table (4 MB region) a page belongs to
    BootTables,     \* the page tables vmm_init creates (identity map)
    CLOCK_SIZE,
    MAX_SWAP_SLOTS,
    KernelMax,      \* bound on the frames the kernel takes for itself
    MaxLaunches,    \* bound on the programs launched
    MaxSpan,        \* bound on the pages of one buffer or mapping
    None            \* no frame, page or slot

Image == 1 .. ImagePages
Shared == ImagePages + 1 .. ImagePages + SharedPages
Top == ImagePages + SharedPages + StackPages
Stack == ImagePages + SharedPages + 1 .. Top
Pages == 1 .. Top
Tables == {TableOf[p] : p \in Pages}
Slots == 0 .. MAX_SWAP_SLOTS - 1
Junk == Top + 1

ASSUME SizesAssumption ==
    /\ ImagePages \in Nat \ {0} /\ SharedPages \in Nat /\ StackPages \in Nat
    /\ InitialStack \in 1 .. StackPages
    /\ CLOCK_SIZE \in Nat \ {0} /\ MAX_SWAP_SLOTS \in Nat /\ KernelMax \in Nat
    /\ MaxLaunches \in Nat /\ MaxSpan \in Nat
ASSUME FramesAssumption ==
    /\ IsFiniteSet(Frames) /\ TailFrames \subseteq Frames
    /\ "boot" \notin Frames \cup {None} /\ None \notin Frames \cup Slots
ASSUME TablesAssumption ==
    /\ DOMAIN TableOf = Pages
    /\ BootTables \subseteq Tables

VARIABLES
    g_frame_alloc,  \* used frames and the counter free_frames
    g_swap,         \* used slots and the counter free_slots
    g_clock,        \* entries, hand, count
    table,          \* the frame of each page table, None when absent
    pte,            \* the entry of each page
    mem, disk,      \* contents of frames and of swap slots
    kernel,         \* frames taken by drivers and by the slab allocator
    stack_bottom,   \* vmm_kernel_as.stack_bottom
    code_pages,     \* image pages the mapping state of the task records
    suspended,      \* the same for tasks left in waitpid by a nested launch
    launches,       \* programs launched so far
    mode,           \* shell, load, run, halted, panic
    back,           \* the mode a failed load returns to
    image,          \* image pages of the program being loaded
    op, todo, span, \* the caller, its remaining pages, all its pages
    prot,           \* the protection the mmap in progress asks for
    stage, alloc,   \* the frame_alloc call in progress
    loops, got,     \* clock positions visited, frame returned
    held            \* a data frame waiting for its page table

memory == <<g_frame_alloc, g_swap, g_clock, table, pte, mem, disk>>
task == <<stack_bottom, code_pages, suspended, launches, mode, back, image, kernel>>
caller == <<op, todo, span, prot, stage, alloc, loops, got, held>>
vars == <<memory, task, caller>>

(***************************************************************************)
(* Page table entries                                                      *)
(***************************************************************************)
NoPte == [kind |-> "none", at |-> None, accessed |-> FALSE, rw |-> FALSE]
\* A supervisor entry of the boot-time identity map.
Identity == [NoPte EXCEPT !.kind = "identity"]
Demand == [NoPte EXCEPT !.kind = "demand", !.rw = TRUE]
Present(f, rw) == [kind |-> "present", at |-> f, accessed |-> FALSE, rw |-> rw]
Swapped(s, rw) == [kind |-> "swapped", at |-> s, accessed |-> FALSE, rw |-> rw]

IsPresent(p) == pte[p].kind = "present"
\* An entry that is overwritten leaves its frame or slot allocated and ownerless.
MemWithout(p) == IF IsPresent(p) THEN [mem EXCEPT ![pte[p].at] = Junk] ELSE mem
DiskWithout(p) == IF pte[p].kind = "swapped" THEN [disk EXCEPT ![pte[p].at] = Junk] ELSE disk
HasTable(p) == table[TableOf[p]] # None

(***************************************************************************)
(* The frame bitmap and the swap bitmap                                    *)
(***************************************************************************)
FrameTaken(fa, f) == [used |-> fa.used \cup {f}, free |-> fa.free - 1]
\* frame_free of every frame of F; a frame that is free already is ignored.
FrameFree(fa, F) == [used |-> fa.used \ F, free |-> fa.free + Cardinality(F \cap fa.used)]

FreeSlots == Slots \ g_swap.used
SwapAllocSlot == CHOOSE s \in FreeSlots : \A t \in FreeSlots : s <= t
SlotTaken(sw, s) == [used |-> sw.used \cup {s}, free |-> sw.free - 1]
\* The increment is unconditional: once for every page whose slot is given back.
SwapFreeSlot(sw, P) ==
    [used |-> sw.used \ {pte[p].at : p \in P}, free |-> sw.free + Cardinality(P)]

(***************************************************************************)
(* The clock                                                               *)
(***************************************************************************)
EmptyEntry == [frame |-> None, page |-> None]
Positions == 0 .. CLOCK_SIZE - 1
PositionsOf(c, f) == {i \in Positions : c.entries[i].frame = f}
First(S) == CHOOSE i \in S : \A j \in S : i <= j

\* A full clock drops the page without a word.
ClockAddPage(c, f, p) ==
    IF c.count >= CLOCK_SIZE \/ PositionsOf(c, None) = {} THEN c
    ELSE [c EXCEPT !.entries[First(PositionsOf(c, None))] = [frame |-> f, page |-> p],
                   !.count = @ + 1]

\* (A definition that no other one uses is a variant with a plausible bug, kept to
\* show which property notices it.)
ClockKeepsPage(c, F) == c

\* clock_remove_page of every frame of F: of each the first entry goes.
ClockRemovePage(c, F) ==
    LET gone == {i \in Positions :
                    LET f == c.entries[i].frame IN f \in F /\ i = First(PositionsOf(c, f))}
    IN  [c EXCEPT !.entries = [i \in Positions |-> IF i \in gone THEN EmptyEntry ELSE @[i]],
                  !.count = @ - Cardinality(gone)]

(***************************************************************************)
(* The state after vmm_init, with no program loaded                        *)
(***************************************************************************)
Init ==
    /\ g_frame_alloc = [used |-> {}, free |-> Cardinality(Frames)]
    /\ g_swap = [used |-> {}, free |-> MAX_SWAP_SLOTS]
    /\ g_clock = [entries |-> [i \in Positions |-> EmptyEntry], hand |-> 0, count |-> 0]
    /\ table = [t \in Tables |-> IF t \in BootTables THEN "boot" ELSE None]
    /\ pte = [p \in Pages |-> IF TableOf[p] \in BootTables THEN Identity ELSE NoPte]
    /\ mem = [f \in Frames |-> Junk] /\ disk = [s \in Slots |-> Junk]
    /\ kernel = {}
    /\ stack_bottom = Top /\ code_pages = 0 /\ suspended = {} /\ launches = 0
    /\ mode = "shell" /\ back = "shell" /\ image = 0
    /\ op = "none" /\ todo = {} /\ span = {} /\ prot = FALSE
    /\ stage = "frame" /\ alloc = "idle" /\ loops = 0 /\ got = None /\ held = None

Idle == op = "none" /\ alloc = "idle"
Page == First(todo)
Done(s) == alloc = "done" /\ stage = s
Taken == alloc' = "idle" /\ stage' = "frame" /\ got' = None /\ loops' = 0

(***************************************************************************)
(* frame_alloc: a free frame of a whole bitmap word, else the clock        *)
(***************************************************************************)
TakeFree ==
    /\ g_frame_alloc.free # 0
    /\ \/ \E f \in Frames \ TailFrames :
            /\ f \notin g_frame_alloc.used
            /\ g_frame_alloc' = FrameTaken(g_frame_alloc, f)
            /\ got' = f
       \/ /\ Frames \ TailFrames \subseteq g_frame_alloc.used
          /\ got' = None
          /\ UNCHANGED g_frame_alloc
    /\ alloc' = "done"

\* With no free frame the clock is scanned, if it holds anything.
StartScan ==
    /\ g_frame_alloc.free = 0
    /\ alloc' = IF g_clock.count # 0 THEN "scan" ELSE "done"
    /\ UNCHANGED <<g_frame_alloc, got>>

\* A call of frame_alloc, for data or for a page table.
Ask(s) ==
    /\ TakeFree \/ StartScan
    /\ stage' = s
    /\ UNCHANGED <<g_swap, g_clock, table, pte, mem, disk, loops, held>>

\* One iteration of the loop of clock_evict_page.
Entry == g_clock.entries[g_clock.hand]
HandAdvanced == [g_clock EXCEPT !.hand = (@ + 1) % CLOCK_SIZE]
ScanStep ==
    /\ alloc = "scan" /\ loops < 2 * CLOCK_SIZE
    /\ loops' = loops + 1
    /\ UNCHANGED <<g_frame_alloc, table, task>>
    /\ UNCHANGED <<op, todo, span, prot, stage, held>>
Continues == UNCHANGED <<alloc, got, mem>>

SkipEmpty ==
    /\ ScanStep /\ Continues
    /\ Entry.frame = None
    /\ g_clock' = HandAdvanced
    /\ UNCHANGED <<pte, g_swap, disk>>

DropStale ==
    /\ ScanStep /\ Continues
    /\ Entry.frame # None /\ ~IsPresent(Entry.page)
    /\ g_clock' = ClockRemovePage(HandAdvanced, {Entry.frame})
    /\ UNCHANGED <<pte, g_swap, disk>>

SecondChance ==
    /\ ScanStep /\ Continues
    /\ Entry.frame # None /\ IsPresent(Entry.page) /\ pte[Entry.page].accessed
    /\ pte' = [pte EXCEPT ![Entry.page].accessed = FALSE]
    /\ g_clock' = HandAdvanced
    /\ UNCHANGED <<g_swap, disk>>

IsVictim == Entry.frame # None /\ IsPresent(Entry.page) /\ ~pte[Entry.page].accessed

\* swap_out_page_reclaim_frame writes the frame the PTE maps now.
EntryFrame == Entry.frame
SavedFrame == pte[Entry.page].at

\* swap_out_page_reclaim_frame succeeds: the page the entry's PTE maps now goes
\* to swap, and the frame the entry recorded goes to the caller.
Evict ==
    /\ ScanStep
    /\ IsVictim /\ g_swap.free # 0 /\ FreeSlots # {}
    /\ g_swap' = SlotTaken(g_swap, SwapAllocSlot)
    /\ disk' = [disk EXCEPT ![SwapAllocSlot] = mem[SavedFrame]]
    /\ pte' = [pte EXCEPT ![Entry.page] = Swapped(SwapAllocSlot, @.rw)]
    /\ g_clock' = [HandAdvanced EXCEPT !.entries[g_clock.hand] = EmptyEntry,
                                       !.count = @ - 1]
    /\ mem' = [mem EXCEPT ![Entry.frame] = Junk]
    /\ got' = Entry.frame
    /\ alloc' = "done"

\* Swap is full, absent, or the disk write failed.
SwapOutFails ==
    /\ ScanStep /\ Continues
    /\ IsVictim
    /\ g_clock' = HandAdvanced
    /\ UNCHANGED <<pte, g_swap, disk>>

GiveUp ==
    /\ alloc = "scan" /\ loops = 2 * CLOCK_SIZE
    /\ alloc' = "done"
    /\ UNCHANGED <<memory, task, op, todo, span, prot, stage, loops, got, held>>

(***************************************************************************)
(* vmm_map_page and vmm_walk_page_tables(create): the held frame is mapped *)
(* at Page once the page table exists                                      *)
(***************************************************************************)
Growing == op \in {"fault", "out"} /\ pte[Page].kind = "none"
Mapping == op \in {"stack", "segment", "mmap"} \/ Growing

\* The caller's frame_alloc returned: memset, and for mmap perhaps file data.
FrameGot ==
    /\ Done("frame") /\ got # None /\ todo # {} /\ Mapping
    /\ mem' = [mem EXCEPT ![got] = Page]
    /\ held' = got
    /\ Taken
    /\ UNCHANGED <<g_frame_alloc, g_swap, g_clock, table, pte, disk, task>>
    /\ UNCHANGED <<op, todo, span, prot>>

NeedsTable ==
    /\ alloc = "idle" /\ todo # {} /\ ~HasTable(Page)
    /\ op = "mark" \/ held # None
    /\ Ask("table")
    /\ UNCHANGED <<task, op, todo, span, prot>>

TableGot ==
    /\ Done("table") /\ got # None
    /\ table' = [table EXCEPT ![TableOf[Page]] = got]
    /\ Taken
    /\ UNCHANGED <<g_frame_alloc, g_swap, g_clock, pte, mem, disk, task>>
    /\ UNCHANGED <<op, todo, span, prot, held>>

\* Stack growth lowers stack_bottom to the new page.
BottomKept == stack_bottom
BottomLowered == IF Growing /\ Page < stack_bottom THEN Page ELSE stack_bottom

\* On to the next page; a fault and an mmap are over with their last one.
PageDone ==
    /\ todo' = todo \ {Page}
    /\ IF op \in {"fault", "mmap"} /\ todo = {Page}
       THEN op' = "none" /\ span' = {} /\ prot' = FALSE
       ELSE UNCHANGED <<op, span, prot>>

\* The loader pins what it maps: it takes the page out of the clock again.
MapHeld ==
    /\ alloc = "idle" /\ held # None /\ HasTable(Page)
    /\ pte' = [pte EXCEPT ![Page] = Present(held, op = "mmap" => prot)]
    /\ g_clock' = LET added == ClockAddPage(g_clock, held, Page)
                  IN  IF op \in {"stack", "segment"} THEN ClockRemovePage(added, {held})
                      ELSE added
    /\ stack_bottom' = BottomLowered
    /\ held' = None
    /\ PageDone
    /\ mem' = MemWithout(Page) /\ disk' = DiskWithout(Page)
    /\ UNCHANGED <<g_frame_alloc, g_swap, table>>
    /\ UNCHANGED <<code_pages, suspended, launches, mode, back, image, kernel>>
    /\ UNCHANGED <<stage, alloc, loops, got>>

(***************************************************************************)
(* vmm_unmap_page over a set of pages, and user_task_cleanup_mappings      *)
(***************************************************************************)
\* `spare` are the frames the caller frees before it unmaps the pages of S.
UnmapPages(S, spare) ==
    LET present == {p \in S : IsPresent(p)}
        swapped == {p \in S : pte[p].kind = "swapped"}
        frames == {pte[p].at : p \in present}
    IN  /\ pte' = [p \in Pages |-> IF p \in S /\ HasTable(p) THEN NoPte ELSE pte[p]]
        /\ g_frame_alloc' = FrameFree(g_frame_alloc, frames \cup spare)
        /\ g_swap' = SwapFreeSlot(g_swap, swapped)
        /\ g_clock' = ClockRemovePage(g_clock, frames)
        /\ mem' = [f \in Frames |-> IF f \in frames \cup spare THEN Junk ELSE mem[f]]
        /\ disk' = [s \in Slots |-> IF \E p \in swapped : pte[p].at = s THEN Junk ELSE disk[s]]
        /\ UNCHANGED table

\* The image pages the mapping state `known` records and the stack from
\* stack_bottom up; nothing looks at the mmap region.
CleanupMappings(known, spare) ==
    /\ UnmapPages(1 .. known \cup {p \in Stack : p >= stack_bottom}, spare)
    /\ code_pages' = 0 /\ stack_bottom' = Top

(***************************************************************************)
(* Failure of a frame_alloc, by caller                                     *)
(***************************************************************************)
NoFrame == alloc = "done" /\ got = None
InHand == {got, held} \ {None}

\* The loader gives a frame it could not map back and cleans up.  A load from
\* waitpid or execve returns to the task that made the call.
LoadFails ==
    /\ NoFrame /\ op \in {"mark", "stack", "segment"}
    /\ CleanupMappings(code_pages, InHand)
    /\ held' = None
    /\ mode' = back /\ back' = "shell" /\ image' = 0
    /\ op' = "none" /\ todo' = {} /\ span' = {}
    /\ Taken
    /\ UNCHANGED <<suspended, launches, kernel, prot>>

\* _mmap_anon_fail and _mmap_fd_fail: the pages mapped so far are unmapped.  A
\* file read may fail with a frame in hand.
MmapFails ==
    /\ op = "mmap"
    /\ NoFrame \/ Done("frame")
    /\ UnmapPages({p \in span : p < Page}, InHand)
    /\ held' = None
    /\ op' = "none" /\ todo' = {} /\ span' = {} /\ prot' = FALSE
    /\ Taken
    /\ UNCHANGED task

\* The page stays away: the fault handler halts the machine, and copyout goes
\* on to user_access_ok, which refuses the page.
Unresolved ==
    /\ mode' = IF op = "fault" THEN "halted" ELSE mode
    /\ op' = "none" /\ todo' = {} /\ span' = {}

FaultFails ==
    /\ NoFrame /\ op \in {"fault", "out"} /\ stage = "frame"
    /\ Unresolved
    /\ Taken
    /\ UNCHANGED <<memory, prot, held>>
    /\ UNCHANGED <<stack_bottom, code_pages, suspended, launches, back, image, kernel>>

\* vmm_map_page failed and its result is ignored: the frame is lost.
GrowthLost ==
    /\ NoFrame /\ op \in {"fault", "out"} /\ stage = "table"
    /\ held' = None
    /\ stack_bottom' = BottomLowered
    /\ PageDone /\ Taken
    /\ UNCHANGED memory
    /\ UNCHANGED <<code_pages, suspended, launches, mode, back, image, kernel>>

(***************************************************************************)
(* user_elf_run_argv: launch, mark the image, map stack and segments       *)
(***************************************************************************)
\* The start of a load: the old mappings the state `known` records go.
StartLoad(n, known) ==
    /\ launches < MaxLaunches /\ launches' = launches + 1
    /\ CleanupMappings(known, {})
    /\ back' = mode /\ mode' = "load" /\ image' = n
    /\ op' = "mark" /\ todo' = 1 .. n
    /\ UNCHANGED <<kernel, span, prot, stage, alloc, loops, got, held>>

\* From the shell, or from waitpid over the image of the waiting task.  The
\* cleanup reads the mapping state of the slot being launched: empty for a new
\* task, the old one for a task that was suspended and starts again.
Launch(n, known) ==
    /\ mode \in {"shell", "run"} /\ Idle
    /\ known \in suspended \cup {0}
    /\ suspended' = (IF mode = "run" THEN suspended \cup {code_pages} ELSE suspended) \ {known}
    /\ StartLoad(n, known)

\* The running task replaces its own image.
Execve(n) ==
    /\ mode = "run" /\ Idle
    /\ StartLoad(n, code_pages)
    /\ UNCHANGED suspended

MarkDemand ==
    /\ op = "mark" /\ alloc = "idle" /\ todo # {} /\ HasTable(Page)
    /\ pte' = [pte EXCEPT ![Page] = Demand]
    /\ mem' = MemWithout(Page) /\ disk' = DiskWithout(Page)
    /\ todo' = todo \ {Page}
    /\ UNCHANGED <<g_frame_alloc, g_swap, g_clock, table, task>>
    /\ UNCHANGED <<op, span, prot, stage, alloc, loops, got, held>>

InitialBottom == Top + 1 - InitialStack
MarkDone ==
    /\ op = "mark" /\ todo = {}
    /\ code_pages' = image /\ stack_bottom' = InitialBottom
    /\ op' = "stack" /\ todo' = InitialBottom .. Top
    /\ UNCHANGED <<memory, suspended, launches, mode, back, image, kernel>>
    /\ UNCHANGED <<span, prot, stage, alloc, loops, got, held>>

NeedsFrame ==
    /\ op \in {"stack", "segment", "mmap"} /\ alloc = "idle"
    /\ todo # {} /\ held = None
    /\ Ask("frame")
    /\ UNCHANGED <<task, op, todo, span, prot>>

\* The stack and some segments are in place.
Loaded == mode = "load" /\ op \in {"stack", "segment"} /\ todo = {} /\ span = {}

\* The file-backed pages of one PT_LOAD segment; segments may meet in a page.
Segment(lo, hi) ==
    /\ Loaded
    /\ lo <= hi /\ hi <= image
    /\ op' = "segment" /\ todo' = lo .. hi /\ span' = lo .. hi
    /\ Ask("frame")
    /\ UNCHANGED <<task, prot>>

\* Kernel code stores through user addresses, which marks the pages accessed.
Stored(S) ==
    /\ mem' = [f \in Frames |-> IF \E p \in S : pte[p].at = f
                                THEN CHOOSE p \in S : pte[p].at = f ELSE mem[f]]
    /\ pte' = [p \in Pages |-> IF p \in S THEN [pte[p] EXCEPT !.accessed = TRUE] ELSE pte[p]]

\* A page that is not present is a page fault in ring 0, which panics.
StoredOrPanic(S) ==
    IF \A p \in S : IsPresent(p) THEN Stored(S) /\ UNCHANGED mode
    ELSE mode' = "panic" /\ UNCHANGED <<mem, pte>>

SegmentCopied ==
    /\ mode = "load" /\ op = "segment" /\ todo = {} /\ span # {}
    /\ StoredOrPanic(span)
    /\ span' = {}
    /\ UNCHANGED <<g_frame_alloc, g_swap, g_clock, table, disk>>
    /\ UNCHANGED <<stack_bottom, code_pages, suspended, launches, back, image, kernel>>
    /\ UNCHANGED <<op, todo, prot, stage, alloc, loops, got, held>>

\* user_stack_build_argv writes the top of the stack.
ArgvBuilt ==
    /\ Loaded
    /\ StoredOrPanic({Top})
    /\ op' = "readd" /\ todo' = 1 .. image \cup InitialBottom .. Top
    /\ UNCHANGED <<g_frame_alloc, g_swap, g_clock, table, disk>>
    /\ UNCHANGED <<stack_bottom, code_pages, suspended, launches, back, image, kernel>>
    /\ UNCHANGED <<span, prot, stage, alloc, loops, got, held>>

\* A bad segment or entry point, or an argv that is too large.
LoadRejected ==
    /\ Loaded
    /\ CleanupMappings(code_pages, {})
    /\ mode' = back /\ back' = "shell" /\ image' = 0
    /\ op' = "none"
    /\ UNCHANGED <<suspended, launches, kernel>>
    /\ UNCHANGED <<todo, span, prot, stage, alloc, loops, got, held>>

Readd ==
    /\ mode = "load" /\ op = "readd" /\ todo # {}
    /\ g_clock' = IF IsPresent(Page) THEN ClockAddPage(g_clock, pte[Page].at, Page)
                  ELSE g_clock
    /\ todo' = todo \ {Page}
    /\ UNCHANGED <<g_frame_alloc, g_swap, table, pte, mem, disk, task>>
    /\ UNCHANGED <<op, span, prot, stage, alloc, loops, got, held>>

EnterRing3 ==
    /\ mode = "load" /\ op = "readd" /\ todo = {}
    /\ mode' = "run" /\ back' = "shell" /\ op' = "none" /\ image' = 0
    /\ UNCHANGED <<memory, kernel, stack_bottom, code_pages, suspended, launches>>
    /\ UNCHANGED <<todo, span, prot, stage, alloc, loops, got, held>>

Exit ==
    /\ mode = "run" /\ Idle
    /\ CleanupMappings(code_pages, {})
    /\ mode' = "shell"
    /\ UNCHANGED <<suspended, launches, back, image, kernel, caller>>

(***************************************************************************)
(* Ring 3 and vmm_page_fault_handler                                       *)
(***************************************************************************)
\* An access the page table allows.  The processor sets the accessed bit unless
\* the translation is still cached from before the clock cleared it.
Access(p, write) ==
    /\ mode = "run" /\ Idle
    /\ IsPresent(p) /\ (write => pte[p].rw)
    /\ \E a \in {TRUE, pte[p].accessed} : pte' = [pte EXCEPT ![p].accessed = a]
    /\ mem' = IF write THEN [mem EXCEPT ![pte[p].at] = p] ELSE mem
    /\ UNCHANGED <<g_frame_alloc, g_swap, g_clock, table, disk, task, caller>>

\* Demand-zero, swapped, or anywhere in the stack region.  heap_break of
\* vmm_kernel_as is never set, so no address grows the heap.
Resolvable(p) ==
    \/ pte[p].kind \in {"demand", "swapped"}
    \/ pte[p].kind = "none" /\ p \in Stack

PageFault(p) ==
    /\ mode = "run" /\ Idle
    /\ Resolvable(p)
    /\ op' = "fault" /\ todo' = {p}
    /\ Ask("frame")
    /\ UNCHANGED <<task, span, prot>>

Segfault(p, write) ==
    /\ mode = "run" /\ Idle
    /\ ~Resolvable(p)
    /\ IsPresent(p) => write /\ ~pte[p].rw
    /\ mode' = "halted"
    /\ UNCHANGED <<memory, kernel, stack_bottom, code_pages, suspended, launches, back, image, caller>>

\* A demand-zero page does not enter the clock.
DemandZero ==
    /\ Done("frame") /\ got # None /\ op \in {"fault", "out"}
    /\ pte[Page].kind = "demand"
    /\ mem' = [mem EXCEPT ![got] = Page]
    /\ pte' = [pte EXCEPT ![Page] = Present(got, @.rw)]
    /\ PageDone /\ Taken
    /\ UNCHANGED <<g_frame_alloc, g_swap, g_clock, table, disk, task, held>>

SwapInPage ==
    /\ Done("frame") /\ got # None /\ op \in {"fault", "out"}
    /\ pte[Page].kind = "swapped"
    /\ mem' = [mem EXCEPT ![got] = disk[pte[Page].at]]
    /\ pte' = [pte EXCEPT ![Page] = Present(got, @.rw)]
    /\ g_swap' = SwapFreeSlot(g_swap, {Page})
    /\ g_clock' = ClockAddPage(g_clock, got, Page)
    /\ PageDone /\ Taken
    /\ disk' = [disk EXCEPT ![pte[Page].at] = Junk]
    /\ UNCHANGED <<g_frame_alloc, table, task, held>>

\* The disk read failed: the frame goes back and the access is not resolved.
SwapInFails ==
    /\ Done("frame") /\ got # None /\ op \in {"fault", "out"}
    /\ pte[Page].kind = "swapped"
    /\ g_frame_alloc' = FrameFree(g_frame_alloc, {got})
    /\ Unresolved
    /\ Taken
    /\ UNCHANGED <<g_swap, g_clock, table, pte, mem, disk, prot, held>>
    /\ UNCHANGED <<stack_bottom, code_pages, suspended, launches, back, image, kernel>>

(***************************************************************************)
(* copyout: vmm_fault_in_user_write, then user_access_ok, then the copy    *)
(***************************************************************************)
CopyOut(lo, hi) ==
    /\ mode = "run" /\ Idle
    /\ lo <= hi /\ hi < lo + MaxSpan
    /\ op' = "out" /\ todo' = lo .. hi /\ span' = lo .. hi
    /\ UNCHANGED <<memory, task, prot, stage, alloc, loops, got, held>>

Prefault == op = "out" /\ alloc = "idle" /\ held = None /\ todo # {}
Writable(p) == IsPresent(p) /\ pte[p].rw
\* With a page table in place an empty entry is refused, even in the stack.
Prefaultable(p) ==
    \/ pte[p].kind \in {"demand", "swapped"}
    \/ p \in Stack /\ ~HasTable(p)

AlreadyThere ==
    /\ Prefault /\ Writable(Page)
    /\ todo' = todo \ {Page}
    /\ UNCHANGED <<memory, task, op, span, prot, stage, alloc, loops, got, held>>

FaultIn ==
    /\ Prefault /\ Prefaultable(Page)
    /\ Ask("frame")
    /\ UNCHANGED <<task, op, todo, span, prot>>

Denied ==
    /\ Prefault /\ ~Writable(Page) /\ ~Prefaultable(Page)
    /\ op' = "none" /\ todo' = {} /\ span' = {}
    /\ UNCHANGED <<memory, task, prot, stage, alloc, loops, got, held>>

CopyOutEnds ==
    /\ op = "out" /\ alloc = "idle" /\ todo = {}
    /\ IF \A p \in span : Writable(p) THEN Stored(span) ELSE UNCHANGED <<mem, pte>>
    /\ op' = "none" /\ span' = {}
    /\ UNCHANGED <<g_frame_alloc, g_swap, g_clock, table, disk, task>>
    /\ UNCHANGED <<todo, prot, stage, alloc, loops, got, held>>

(***************************************************************************)
(* SYSCALL_MMAP of anonymous memory or of an open file                     *)
(***************************************************************************)
\* The caller's address, of which only the start is checked against the region,
\* or for address zero the next one of a counter that only moves up: any range
\* that starts in the region.
Mmap(lo, hi, rw) ==
    /\ mode = "run" /\ Idle
    /\ lo \in Shared /\ lo <= hi /\ hi < lo + MaxSpan
    /\ op' = "mmap" /\ todo' = lo .. hi /\ span' = lo .. hi /\ prot' = rw
    /\ Ask("frame")
    /\ UNCHANGED task

(***************************************************************************)
(* Kernel frames: frame_alloc_contiguous never evicts and reaches every    *)
(* frame; vmm_kmalloc_page goes through frame_alloc                        *)
(***************************************************************************)
KernelIdle == mode \in {"shell", "run"} /\ Idle

KernelTakes(f) ==
    /\ KernelIdle /\ Cardinality(kernel) < KernelMax
    /\ g_frame_alloc.free # 0 /\ f \notin g_frame_alloc.used
    /\ g_frame_alloc' = FrameTaken(g_frame_alloc, f)
    /\ kernel' = kernel \cup {f}
    /\ UNCHANGED <<g_swap, g_clock, table, pte, mem, disk, caller>>
    /\ UNCHANGED <<stack_bottom, code_pages, suspended, launches, mode, back, image>>

KernelPage ==
    /\ KernelIdle /\ Cardinality(kernel) < KernelMax
    /\ op' = "kernel" /\ Ask("frame")
    /\ UNCHANGED <<task, todo, span, prot>>

KernelPageEnds ==
    /\ op = "kernel" /\ alloc = "done"
    /\ kernel' = IF got = None THEN kernel ELSE kernel \cup {got}
    /\ op' = "none" /\ Taken
    /\ UNCHANGED <<memory, todo, span, prot, held>>
    /\ UNCHANGED <<stack_bottom, code_pages, suspended, launches, mode, back, image>>

KernelGives(f) ==
    /\ KernelIdle /\ f \in kernel
    /\ g_frame_alloc' = FrameFree(g_frame_alloc, {f})
    /\ kernel' = kernel \ {f}
    /\ UNCHANGED <<g_swap, g_clock, table, pte, mem, disk, caller>>
    /\ UNCHANGED <<stack_bottom, code_pages, suspended, launches, mode, back, image>>

\* arch_halt_forever and the panic screen.
Halted == mode \in {"halted", "panic"} /\ UNCHANGED vars

ClockScan ==
    \/ SkipEmpty \/ DropStale \/ SecondChance
    \/ Evict \/ SwapOutFails \/ GiveUp

Load ==
    \/ \E n \in Image, known \in 0 .. ImagePages : Launch(n, known)
    \/ \E n \in Image : Execve(n)
    \/ MarkDemand \/ MarkDone
    \/ \E lo, hi \in Image : Segment(lo, hi)
    \/ SegmentCopied \/ ArgvBuilt \/ LoadRejected
    \/ Readd \/ EnterRing3 \/ LoadFails

Program ==
    \/ \E p \in Pages, write \in BOOLEAN : Access(p, write) \/ Segfault(p, write)
    \/ \E p \in Pages : PageFault(p)
    \/ \E lo, hi \in Pages : CopyOut(lo, hi)
    \/ \E lo, hi \in Pages, rw \in BOOLEAN : Mmap(lo, hi, rw)
    \/ Exit

Handler ==
    \/ NeedsFrame \/ FrameGot \/ NeedsTable \/ TableGot \/ MapHeld
    \/ MmapFails \/ FaultFails \/ GrowthLost
    \/ DemandZero \/ SwapInPage \/ SwapInFails
    \/ AlreadyThere \/ FaultIn \/ Denied \/ CopyOutEnds

Kernel ==
    \/ \E f \in Frames : KernelTakes(f) \/ KernelGives(f)
    \/ KernelPage \/ KernelPageEnds

Next == ClockScan \/ Load \/ Program \/ Handler \/ Kernel \/ Halted
Spec == Init /\ [][Next]_vars

(***************************************************************************)
(* Properties                                                              *)
(***************************************************************************)
Mapped == {p \in Pages : IsPresent(p)}
SwappedOut == {p \in Pages : pte[p].kind = "swapped"}
DataFrames == {pte[p].at : p \in Mapped}
OwnTables == {t \in Tables : table[t] \in Frames}
TableFrames == {table[t] : t \in OwnTables}
Tracked == {i \in Positions : g_clock.entries[i].frame # None}

\* The state stays in the C types: frames, slots, pages and counters in range.
TypeOK ==
    /\ g_frame_alloc \in [used : SUBSET Frames, free : 0 .. Cardinality(Frames)]
    /\ g_swap \in [used : SUBSET Slots, free : 0 .. MAX_SWAP_SLOTS]
    /\ g_clock \in [entries : [Positions -> [frame : Frames \cup {None}, page : Pages \cup {None}]],
                    hand : Positions, count : 0 .. CLOCK_SIZE]
    /\ table \in [Tables -> Frames \cup {None, "boot"}]
    /\ pte \in [Pages -> [kind : {"none", "identity", "demand", "present", "swapped"},
                          at : Frames \cup Slots \cup {None},
                          accessed : BOOLEAN, rw : BOOLEAN]]
    /\ mem \in [Frames -> 1 .. Junk] /\ disk \in [Slots -> 1 .. Junk]
    /\ kernel \subseteq Frames
    /\ stack_bottom \in Stack /\ code_pages \in 0 .. ImagePages /\ suspended \subseteq 0 .. ImagePages
    /\ launches \in 0 .. MaxLaunches
    /\ mode \in {"shell", "load", "run", "halted", "panic"} /\ back \in {"shell", "run"}
    /\ image \in 0 .. ImagePages
    /\ op \in {"none", "mark", "stack", "segment", "readd", "fault", "out", "mmap", "kernel"}
    /\ todo \subseteq Pages /\ span \subseteq Pages /\ prot \in BOOLEAN
    /\ stage \in {"frame", "table"} /\ alloc \in {"idle", "scan", "done"}
    /\ loops \in 0 .. 2 * CLOCK_SIZE
    /\ got \in Frames \cup {None} /\ held \in Frames \cup {None}

\* No frame has two owners: whatever the clock reclaims, a user page, a page
\* table, a kernel buffer and the frame a caller has in hand are all different
\* allocated frames, and free_frames counts the clear bits of the bitmap.
FramesSound ==
    /\ g_frame_alloc.free = Cardinality(Frames \ g_frame_alloc.used)
    /\ \A p, q \in Mapped : pte[p].at = pte[q].at => p = q
    /\ \A t, u \in OwnTables : table[t] = table[u] => t = u
    /\ got # None => got # held
    /\ DataFrames \cap (TableFrames \cup kernel \cup InHand) = {}
    /\ TableFrames \cap (kernel \cup InHand) = {}
    /\ kernel \cap InHand = {}
    /\ DataFrames \cup TableFrames \cup kernel \cup InHand \subseteq g_frame_alloc.used

\* A swap slot belongs to one page, and free_slots counts the clear bits: the
\* unconditional increment of swap_free_slot never frees a free slot.
SlotsSound ==
    /\ g_swap.free = Cardinality(Slots \ g_swap.used)
    /\ \A p \in SwappedOut : pte[p].at \in g_swap.used
    /\ \A p, q \in SwappedOut : pte[p].at = pte[q].at => p = q

\* "Evicted user pages must remain logically intact" (clock_evict_page), and a
\* page a program has not written holds zeros or its file, never another
\* page's data: through eviction, swap-in, reuse of frames and stale entries.
Intact ==
    \A p \in Pages :
        /\ IsPresent(p) => mem[pte[p].at] = p
        /\ pte[p].kind = "swapped" => disk[pte[p].at] = p

\* What eviction relies on when it hands out the frame an entry recorded: an
\* entry's frame is allocated, recorded once, and mapped at most by the
\* entry's own page, even when that page has been mapped again since.
ClockSound ==
    /\ g_clock.count = Cardinality(Tracked)
    /\ \A i, j \in Tracked : g_clock.entries[i].frame = g_clock.entries[j].frame => i = j
    /\ \A i \in Tracked :
        LET f == g_clock.entries[i].frame
        IN  /\ f \in g_frame_alloc.used \ (TableFrames \cup kernel \cup InHand)
            /\ \A p \in Mapped : pte[p].at = f => p = g_clock.entries[i].page

\* Frames, slots and the clock agree, through every order of faults, evictions,
\* nested launches and failed calls: nothing is owned twice or counted wrongly.
MemorySound == TypeOK /\ FramesSound /\ SlotsSound /\ ClockSound

\* user_task_cleanup_mappings finds the stack by stack_bottom: whatever maps a
\* stack page or moves stack_bottom, no page of the stack comes to lie below it,
\* where it would survive its program, except when an mmap runs into the stack.
StackTracked ==
    [][\A p \in Stack :
        pte'[p].kind # "none" /\ p < stack_bottom'
            => op = "mmap" \/ (pte[p].kind # "none" /\ p < stack_bottom)]_vars

(* What the code does not keep; the README says how it is lost.            *)

\* user_elf_run_argv: "Pin during load so eviction can't swap out the page
\* before memcpy": what the loader has mapped stays present until it is written.
PinnedStays ==
    mode = "load" /\ op = "segment" => \A p \in (span \ todo) \cup InitialBottom .. Top : IsPresent(p)

=============================================================================
