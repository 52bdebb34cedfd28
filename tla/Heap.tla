-------------------------------- MODULE Heap --------------------------------
(***************************************************************************)
(* The kernel's malloc and free: the size of the heap (src/src/utilities/  *)
(* util.c), its list of blocks, and the slabs for small objects            *)
(* (src/src/mm/slab.c).  A call runs to its end; callers free what they    *)
(* allocated, once.                                                        *)
(***************************************************************************)
EXTENDS Integers, Sequences, FiniteSets, SequencesExt

CONSTANTS
    Rams,              \* KB that the two boot tables may report
    FreeKbs,           \* KB of free frames when the heap is set up
    HeapSize,          \* of the heap whose blocks are modelled
    BLOCK_HEADER_SIZE, MIN_BLOCK_SIZE,
    ALIGN,             \* 4
    HeapScan,          \* 100: blocks a search looks at
    SlabFrames,        \* frames there are for slabs
    SlabPage,          \* PAGE_SIZE
    SlabHeader,        \* slab_header_bytes
    ClassSizes,        \* object sizes, in ascending order
    Requests           \* sizes asked for

ASSUME HeapAssumption ==
    /\ Rams \subseteq Nat /\ FreeKbs \subseteq Nat /\ HeapSize \in Nat
    /\ BLOCK_HEADER_SIZE \in Nat /\ MIN_BLOCK_SIZE \in Nat
    /\ ALIGN \in Nat \ {0} /\ HeapScan \in Nat
    /\ SlabPage \in Nat /\ SlabHeader \in Nat
    /\ ClassSizes \in Seq(Nat \ {0}) /\ Requests \subseteq Nat \ {0}

VARIABLES
    sized,    \* what init_memory_manager found and chose
    blocks,   \* the heap's list of blocks
    pages,    \* slab pages: class and free list
    partial,  \* per class, slabs with free objects
    live      \* ghost: what callers hold
heapvars == <<sized, blocks, pages, partial, live>>

PageKb == 4
HEAP_SIZE_MIN == 256
HEAP_SIZE_MAX == 16384
HEAP_PHYS_RESERVE == 512

AtMost(a, b) == IF a < b THEN a ELSE b
AtLeast(a, b) == IF a > b THEN a ELSE b

\* detect_available_memory: the larger of the two, 32 MB if neither is sane.
Detected(basic, mmap) ==
    IF AtLeast(basic, mmap) < 1024 THEN 32768 ELSE AtLeast(basic, mmap)

\* calculate_optimal_heap_size.
OptimalHeapSize(ram) ==
    LET wanted == CASE ram <= 4096 -> 1024
                    [] ram > 4096 /\ ram <= 16384 -> 2048
                    [] ram > 16384 /\ ram <= 65536 -> 4096
                    [] ram > 65536 /\ ram <= 262144 -> 8192
                    [] OTHER -> 32768
        share == IF ram <= 8192 THEN ram \div 2 ELSE ram \div 4
    IN  AtLeast(AtMost(wanted, share), HEAP_SIZE_MIN)

\* init_memory_manager: what the heap takes of the free frames.
HeapSized(ram, free) ==
    LET cap == free - HEAP_PHYS_RESERVE
        fit == IF cap >= PageKb THEN AtMost(OptimalHeapSize(ram), cap) ELSE PageKb
        aligned == AtMost((fit \div PageKb) * PageKb, HEAP_SIZE_MAX)
    IN  IF free = 0 THEN OptimalHeapSize(ram)
        ELSE IF aligned < HEAP_SIZE_MIN /\ free > HEAP_PHYS_RESERVE + HEAP_SIZE_MIN
        THEN HEAP_SIZE_MIN ELSE aligned

-----------------------------------------------------------------------------
\* Offset of a block of the list.
OffsetOf(bs, i) == FoldLeft(LAMBDA n, b : n + b.size, 0, SubSeq(bs, 1, i - 1))

\* rust_heap_compute_total_size and its C form.
TotalSize(n) == ((n + BLOCK_HEADER_SIZE + ALIGN - 1) \div ALIGN) * ALIGN

\* find_free_block: the smallest that fits, 0 if there is none.
BestFit(size) ==
    LET S == {i \in 1..AtMost(Len(blocks), HeapScan) :
                ~blocks[i].used /\ blocks[i].size >= size}
        T == {i \in S : \A j \in S : blocks[i].size <= blocks[j].size}
    IN  IF S = {} THEN 0 ELSE CHOOSE i \in T : \A j \in T : i <= j

\* split_block.
Split(bs, i, size) ==
    IF bs[i].size < size + BLOCK_HEADER_SIZE + MIN_BLOCK_SIZE
    THEN [bs EXCEPT ![i].used = TRUE]
    ELSE SubSeq(bs, 1, i - 1)
            \o << [used |-> TRUE, size |-> size],
                  [used |-> FALSE, size |-> bs[i].size - size] >>
            \o SubSeq(bs, i + 1, Len(bs))

\* merge_free_blocks: every run of free blocks becomes one.
MergeFree(bs) ==
    FoldLeft(LAMBDA out, b :
                IF out # <<>> /\ ~b.used /\ ~Last(out).used
                THEN [out EXCEPT ![Len(out)].size = @ + b.size]
                ELSE Append(out, b), <<>>, bs)

\* slab_class_index_for_size: 0 if no class is large enough.
ClassFor(n) ==
    LET S == {c \in DOMAIN ClassSizes : ClassSizes[c] >= n}
    IN  IF S = {} THEN 0 ELSE CHOOSE c \in S : \A e \in S : c <= e

Objects(c) == (SlabPage - SlabHeader) \div ClassSizes[c]

\* slab_alloc: the head of the class's list, or a new page in front of it.
SlabServes(n) ==
    LET c == ClassFor(n) IN
    c # 0 /\ (partial[c] # <<>> \/ (Objects(c) > 0 /\ DOMAIN pages # SlabFrames))

NewPage == CHOOSE p \in SlabFrames \ DOMAIN pages : TRUE

SlabAlloc(n) ==
    LET c == ClassFor(n)
        fresh == partial[c] = <<>>
        p == IF fresh THEN NewPage ELSE Head(partial[c])
        list == IF fresh THEN [i \in 1..Objects(c) |-> Objects(c) + 1 - i]
                ELSE pages[p].free
        others == IF fresh THEN <<>> ELSE Tail(partial[c])
    IN  /\ SlabServes(n)
        /\ pages' = [q \in DOMAIN pages \cup {p} |->
                        IF q = p THEN [class |-> c, free |-> Tail(list)]
                        ELSE pages[q]]
        /\ partial' = [partial EXCEPT ![c] =
                        IF Tail(list) = <<>> THEN others ELSE <<p>> \o others]
        /\ live' = live \cup {[slab |-> TRUE, page |-> p, at |-> Head(list), len |-> n]}
        /\ UNCHANGED <<sized, blocks>>

\* heap_malloc, when there is no slab for the size.
HeapMalloc(n) ==
    LET i == BestFit(TotalSize(n)) IN
    /\ ~SlabServes(n)
    /\ n <= (HeapSize * 9) \div 10 /\ i # 0
    /\ blocks' = Split(blocks, i, TotalSize(n))
    /\ live' = live \cup {[slab |-> FALSE, page |-> 0, at |-> OffsetOf(blocks, i),
                           len |-> n]}
    /\ UNCHANGED <<sized, pages, partial>>

FreeNeverRelists(p, c, list) == partial[c]

\* slab_free puts a slab back in its list when it was full.
Relisted(p, c, list) ==
    IF Len(list) = 1 THEN <<p>> \o partial[c] ELSE partial[c]

SlabFree(o) ==
    LET c == pages[o.page].class
        list == <<o.at>> \o pages[o.page].free
    IN  /\ o.slab
        /\ pages' = [pages EXCEPT ![o.page].free = list]
        /\ partial' = [partial EXCEPT ![c] = Relisted(o.page, c, list)]
        /\ live' = live \ {o}
        /\ UNCHANGED <<sized, blocks>>

\* heap_free.
HeapFree(o) ==
    /\ ~o.slab
    /\ LET i == CHOOSE i \in DOMAIN blocks : OffsetOf(blocks, i) = o.at
       IN  blocks' = MergeFree([blocks EXCEPT ![i].used = FALSE])
    /\ live' = live \ {o}
    /\ UNCHANGED <<sized, pages, partial>>

FirstHeap ==
    /\ blocks = <<[used |-> FALSE, size |-> HeapSize]>>
    /\ pages = [p \in {} |-> 0]
    /\ partial = [c \in DOMAIN ClassSizes |-> <<>>] /\ live = {}

\* Bound: the size of the heap is varied on its own.
HeapInit ==
    /\ FirstHeap
    /\ \E basic, mmap \in Rams, free \in FreeKbs :
        sized = [ram |-> Detected(basic, mmap), free |-> free,
                 size |-> HeapSized(Detected(basic, mmap), free)]

SmallestBoot ==
    sized.free = (CHOOSE f \in FreeKbs : \A g \in FreeKbs : f <= g)
        /\ sized.ram = (CHOOSE r \in {Detected(a, a) : a \in Rams} : TRUE)

HeapNext ==
    /\ SmallestBoot
    /\ \/ \E n \in Requests : SlabAlloc(n) \/ HeapMalloc(n)
       \/ \E o \in live : SlabFree(o) \/ HeapFree(o)

-----------------------------------------------------------------------------
\* The heap leaves half a megabyte of the free frames to the rest of the
\* kernel whenever there is more than that, and never takes frames that are
\* not free.
HeapFits ==
    sized.free > 0 =>
        /\ sized.size <= sized.free /\ sized.size >= PageKb
        /\ sized.size % PageKb = 0
        /\ sized.free >= HEAP_PHYS_RESERVE + PageKb
            => sized.free - sized.size >= HEAP_PHYS_RESERVE

\* Blocks cover the heap without gaps, the used ones are exactly what callers
\* hold and large enough for it, and no two free ones are neighbours, so that
\* a heap everything was given back to is one block again.
HeapSound ==
    /\ OffsetOf(blocks, Len(blocks) + 1) = HeapSize
    /\ {OffsetOf(blocks, i) : i \in {j \in DOMAIN blocks : blocks[j].used}}
         = {o.at : o \in {q \in live : ~q.slab}}
    /\ Cardinality({j \in DOMAIN blocks : blocks[j].used})
         = Cardinality({q \in live : ~q.slab})
    /\ \A i \in DOMAIN blocks : \A o \in live :
        ~o.slab /\ o.at = OffsetOf(blocks, i) =>
            o.len + BLOCK_HEADER_SIZE <= blocks[i].size
    /\ \A i \in 1..(Len(blocks) - 1) : blocks[i].used \/ blocks[i + 1].used

\* Every object of a slab is either held by one caller or once in its free
\* list, and a slab is in the list of its class exactly while it has a free
\* object: no free object is out of reach.
SlabSound ==
    /\ \A p \in DOMAIN pages :
        LET held == {o \in live : o.slab /\ o.page = p}
            list == pages[p].free
        IN  /\ IsInjective(list)
            /\ {o.at : o \in held} \cup Range(list) = 1..Objects(pages[p].class)
            /\ {o.at : o \in held} \cap Range(list) = {}
            /\ Cardinality(held) + Len(list) = Objects(pages[p].class)
            /\ \A o \in held : o.len <= ClassSizes[pages[p].class]
    /\ \A c \in DOMAIN ClassSizes :
        /\ IsInjective(partial[c])
        /\ Range(partial[c]) = {p \in DOMAIN pages : pages[p].class = c
                                                    /\ pages[p].free # <<>>}
====
