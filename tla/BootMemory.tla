------------------------------ MODULE BootMemory ------------------------------
(***************************************************************************)
(* Who owns the frames of physical memory from boot on (src/src/mm/vmm.c,  *)
(* src/src/utilities/util.c): the kernel image and what the boot loader    *)
(* left behind it, the page tables carved before paging, the heap, and the *)
(* frames handed out.  Addresses count bytes of a small page.              *)
(***************************************************************************)
EXTENDS Integers, FiniteSets

CONSTANTS
    BootMaps,      \* machines: RAM, end of the kernel, payload, framebuffer
    PageBytes,     \* PAGE_SIZE
    LowFrames,     \* 256: frames of the first megabyte
    WordFrames,    \* 32: frames of a word of the bitmap
    MAX_FRAMES,     \* MAX_FRAMES
    PdeFrames,     \* 1024: frames a page table maps
    MinPdes,       \* 4: page tables there are at least,
    MaxPdes,       \* 254: and at most
    HeapWanted,    \* frames the heap asks for,
    HeapLeaves     \* and the frames it leaves: HEAP_PHYS_RESERVE_BYTES

ASSUME BootMemoryAssumption ==
    /\ PageBytes \in Nat \ {0} /\ LowFrames \in Nat /\ WordFrames \in Nat \ {0}
    /\ MAX_FRAMES \in Nat /\ PdeFrames \in Nat \ {0} /\ MinPdes \in Nat \ {0}
    /\ MaxPdes \in Nat /\ MinPdes <= MaxPdes
    /\ HeapWanted \in Nat \ {0} /\ HeapLeaves \in Nat

VARIABLES
    machine,   \* one of BootMaps: detected RAM, __kernel_end, g_mbi
    falloc,    \* g_frame_alloc: frames in use, free_frames, search_hint
    carved,    \* frames early_alloc gave to page directory and tables
    kheap,     \* frames of the heap; empty until the first malloc
    taken       \* ghost: frames handed out and not given back
bootvars == <<machine, falloc, carved, kheap, taken>>

Booting == falloc.used = {}
Total == LET n == machine.ram \div PageBytes IN IF n > MAX_FRAMES THEN MAX_FRAMES ELSE n
Managed == 0..(Total - 1)
RoundUp(n) == (n + PageBytes - 1) \div PageBytes

\* frame_reserve_range_bytes: the frames that bytes lo..hi-1 touch.
Touched(lo, hi) == IF hi <= lo THEN {} ELSE (lo \div PageBytes)..(RoundUp(hi) - 1)

\* frame_set for every frame not yet in use.
Reserved(fa, F) ==
    LET new == (F \cap Managed) \ fa.used
    IN  [fa EXCEPT !.used = @ \cup new, !.free = @ - Cardinality(new)]

\* frame_alloc_init: low memory, and the kernel with the frame behind it.
KernelEndFrame == machine.kernel \div PageBytes + 1
FrameAllocInit ==
    Reserved([used |-> {}, free |-> Total, hint |-> KernelEndFrame \div WordFrames],
             0..KernelEndFrame)

\* frame_reserve_multiboot_ranges.
Payload == UNION {Touched(s.start, s.end) : s \in machine.payload}

\* compute_boot_alloc_base: the frame above the kernel and every span.
BootAllocBase ==
    LET ends == {machine.kernel} \cup {s.end : s \in machine.payload}
    IN  RoundUp(CHOOSE e \in ends : \A d \in ends : d <= e)

\* vmm_init, with interrupts off: early_alloc gives the page directory, two
\* tables for every 4 MB of RAM up to what the upper half holds, and those of the framebuffer, one after another.
RamPdes ==
    LET n == (machine.ram + PdeFrames * PageBytes - 1) \div (PdeFrames * PageBytes)
    IN  IF n < MinPdes THEN MinPdes ELSE IF n > MaxPdes THEN MaxPdes ELSE n
VmmInit ==
    /\ Booting
    /\ carved' = BootAllocBase..(BootAllocBase + 2 * RamPdes + machine.fbTables)
    /\ falloc' = Reserved(Reserved(FrameAllocInit, Payload), carved')
    /\ UNCHANGED <<machine, kheap, taken>>

\* vmm_get_boot_alloc_end.
BootAllocEnd == BootAllocBase + 2 * RamPdes + machine.fbTables + 1

\* init_memory_manager: the heap starts where the tables end and is never
\* asked which of its frames somebody else has.
HeapFrames ==
    LET cap == falloc.free - HeapLeaves
        n == IF cap < 1 THEN 1 ELSE IF HeapWanted > cap THEN cap ELSE HeapWanted
    IN  BootAllocEnd..(BootAllocEnd + n - 1)

-----------------------------------------------------------------------------
\* frame_alloc: the first free frame from the word of the hint on; a last word
\* that is not full is not searched.  Nothing is left to evict at this level.
Words == Total \div WordFrames
Searched(fa) == {f \in Managed \ fa.used : f \div WordFrames < Words}
Ahead(fa, f) == ((f \div WordFrames - fa.hint) % Words) * WordFrames + (f % WordFrames)
NextFrame(fa) ==
    CHOOSE f \in Searched(fa) : \A g \in Searched(fa) : Ahead(fa, f) <= Ahead(fa, g)
Took(fa, f) == [Reserved(fa, {f}) EXCEPT !.hint = f \div WordFrames]

\* malloc: the heap is set up before the slabs may take a page.
Malloc(newSlab) ==
    LET fa == IF kheap = {} THEN Reserved(falloc, HeapFrames) ELSE falloc IN
    /\ ~Booting
    /\ kheap' = IF kheap = {} THEN HeapFrames ELSE kheap
    /\ IF newSlab /\ fa.free > 0 /\ Searched(fa) # {}
       THEN /\ falloc' = Took(fa, NextFrame(fa))
            /\ taken' = taken \cup {NextFrame(fa)}
       ELSE falloc' = fa /\ UNCHANGED taken
    /\ UNCHANGED <<machine, carved>>

\* Boot allocates its first object (zero_copy_init) before any frame.
FrameAlloc ==
    /\ kheap # {} /\ falloc.free > 0 /\ Searched(falloc) # {}
    /\ falloc' = Took(falloc, NextFrame(falloc))
    /\ taken' = taken \cup {NextFrame(falloc)}
    /\ UNCHANGED <<machine, carved, kheap>>

\* frame_alloc_contiguous: the lowest run of n frames.
Runs(n) == {f \in Managed : f >= LowFrames /\ f..(f + n - 1) \subseteq Managed \ falloc.used}
FrameAllocContiguous(n) ==
    /\ kheap # {} /\ n <= falloc.free /\ Runs(n) # {}
    /\ LET f == CHOOSE r \in Runs(n) : \A q \in Runs(n) : r <= q
       IN  /\ falloc' = Reserved(falloc, f..(f + n - 1))
           /\ taken' = taken \cup f..(f + n - 1)
    /\ UNCHANGED <<machine, carved, kheap>>

\* frame_free, by the holder: not of low memory, not beyond RAM.
FrameFree(f) ==
    /\ taken' = taken \ {f}
    /\ falloc' = IF f < LowFrames \/ f \notin Managed \/ f \notin falloc.used THEN falloc
                 ELSE [used |-> falloc.used \ {f}, free |-> falloc.free + 1,
                       hint |-> IF f \div WordFrames < falloc.hint
                                THEN f \div WordFrames ELSE falloc.hint]
    /\ UNCHANGED <<machine, carved, kheap>>

BootInit ==
    /\ machine \in BootMaps
    /\ falloc = [used |-> {}, free |-> 0, hint |-> 0]
    /\ carved = {} /\ kheap = {} /\ taken = {}

BootNext ==
    \/ VmmInit
    \/ \E newSlab \in BOOLEAN : Malloc(newSlab)
    \/ FrameAlloc
    \/ FrameAllocContiguous(2)
    \/ \E f \in taken : FrameFree(f)

-----------------------------------------------------------------------------
\* From vmm_init on every frame of the kernel and of the payload stays what the
\* boot loader made it: page tables, heap and frames handed out are apart from
\* it and from one another, and the count of free frames is exact.
BootSound ==
    LET loaded == Touched(0, machine.kernel) \cup Payload IN
    ~Booting =>
        /\ carved \cap loaded = {} /\ kheap \cap (loaded \cup carved) = {}
        /\ taken \cap (loaded \cup carved \cup kheap) = {} /\ taken \subseteq Managed
        /\ (loaded \cup carved \cup kheap \cup taken) \cap Managed \subseteq falloc.used
        /\ carved \cup kheap \subseteq Managed
        /\ falloc.free = Cardinality(Managed \ falloc.used)
=============================================================================
