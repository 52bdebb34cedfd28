------------------------------ MODULE VmmProofs ------------------------------
(* What is proved about Vmm, for every number of frames, pages and swap slots, *)
(* every layout of page tables and every size of the clock.                    *)
EXTENDS Vmm, Counting, FunctionTheorems

(***************************************************************************)
(* The inductive invariant                                                 *)
(***************************************************************************)

\* An entry points where its kind says, and needs a page table.
PteInv ==
    \A p \in Pages :
        /\ IsPresent(p) => pte[p].at \in Frames
        /\ pte[p].kind = "swapped" => pte[p].at \in Slots
        /\ ~HasTable(p) => pte[p].kind = "none"

\* A clock entry that records a frame records its page.
EntryInv == \A i \in Tracked : g_clock.entries[i].page \in Pages

\* What the state of a frame_alloc call says about its caller.
AllocInv ==
    /\ alloc \in {"idle", "scan"} => got = None
    /\ alloc = "idle" => stage = "frame"
    /\ alloc # "idle" => op \notin {"none", "readd"} /\ (op # "kernel" => todo # {})
    /\ alloc # "idle" => (stage = "frame" <=> held = None /\ op # "mark")
    /\ op = "kernel" => alloc # "idle" /\ held = None /\ todo = {}
    /\ op = "none" => todo = {} /\ held = None
    /\ op = "mark" => held = None

\* A held frame has the contents of the page it is for, and a page that a fault
\* brings in is not present; one that is nowhere lies in the stack.
HeldInv ==
    /\ held # None => /\ op \in {"stack", "segment", "mmap", "fault", "out"}
                      /\ todo # {} /\ mem[held] = Page
    /\ op \in {"fault", "out"} /\ (alloc # "idle" \/ held # None) =>
        /\ pte[Page].kind \in {"none", "demand", "swapped"}
        /\ pte[Page].kind = "none" => Page \in Stack
        /\ held # None => pte[Page].kind = "none"

\* The pages each loop of the loader visits, and stack_bottom meanwhile.
LoadInv ==
    /\ op = "mark" => stack_bottom = Top /\ todo \subseteq 1 .. image
    /\ op = "stack" => stack_bottom = InitialBottom /\ todo \subseteq InitialBottom .. Top
    /\ op = "segment" => todo \subseteq 1 .. image

\* What the loader has mapped so far and not yet given back to the clock.
Pinned ==
    {p \in Pages :
        \/ op = "mark" /\ p \in 1 .. image \ todo
        \/ op \in {"stack", "segment"} /\ p \in 1 .. image
        \/ op = "stack" /\ p \in InitialBottom .. Top \ todo
        \/ op = "segment" /\ p \in InitialBottom .. Top
        \/ op = "readd" /\ p \in todo}

\* The frame of a pinned page is in no clock entry.
PinnedInv ==
    \A p \in Pinned : IsPresent(p) =>
        \A i \in Positions : g_clock.entries[i].frame # pte[p].at

CallInv == AllocInv /\ HeldInv /\ LoadInv

VInv ==
    /\ TypeOK /\ PteInv /\ EntryInv /\ CallInv /\ PinnedInv
    /\ FramesSound /\ SlotsSound /\ ClockSound /\ Intact

-----------------------------------------------------------------------------
(* Sizes and regions. *)

\* Slots and positions are finite.
LEMMA SizesFinite ==
    /\ IsFiniteSet(Frames) /\ IsFiniteSet(Slots) /\ IsFiniteSet(Positions)
    /\ IsFiniteSet(Pages)
    /\ Cardinality(Slots) = MAX_SWAP_SLOTS /\ Cardinality(Positions) = CLOCK_SIZE
<1>1. /\ MAX_SWAP_SLOTS - 1 \in Int /\ CLOCK_SIZE - 1 \in Int /\ Top \in Int
      /\ MAX_SWAP_SLOTS \in Nat /\ CLOCK_SIZE \in Nat
  BY SizesAssumption DEF Top
<1>2. IsFiniteSet(Slots) /\ Cardinality(Slots) = MAX_SWAP_SLOTS
  BY <1>1, FS_Interval DEF Slots
<1>3. IsFiniteSet(Positions) /\ Cardinality(Positions) = CLOCK_SIZE
  BY <1>1, FS_Interval DEF Positions
<1>4. IsFiniteSet(Pages)
  BY <1>1, FS_Interval DEF Pages
<1> QED BY <1>2, <1>3, <1>4, FramesAssumption

\* Where the regions lie: image below the mmap region below the stack.
LEMMA TopFact ==
    /\ Top \in Nat /\ Top \in Stack /\ Top \in Pages
    /\ Image \subseteq Pages /\ Stack \subseteq Pages /\ Shared \subseteq Pages
    /\ InitialBottom \in Stack /\ InitialBottom .. Top \subseteq Stack
    /\ \A p \in Image : p \notin Stack
    /\ \A p \in Stack : p <= Top
<1>1. /\ ImagePages \in Nat /\ SharedPages \in Nat /\ StackPages \in Nat
      /\ InitialStack \in 1 .. StackPages
  BY SizesAssumption
<1> QED BY <1>1 DEF Pages, Stack, Image, Shared, Top, InitialBottom

-----------------------------------------------------------------------------
(* The page table entries a step leaves. *)

\* vmm_unmap_page empties the entries of S and touches no other.
LEMMA UnmapEntries ==
    ASSUME VInv, NEW S \in SUBSET Pages, NEW spare, UnmapPages(S, spare)
    PROVE  /\ Mapped' = Mapped \ S /\ SwappedOut' = SwappedOut \ S
           /\ \A p \in Pages \ S : pte'[p] = pte[p]
           /\ \A p \in S : pte'[p].kind = "none"
<1>1. \A p \in Pages : pte'[p] = IF p \in S /\ HasTable(p) THEN NoPte ELSE pte[p]
  BY DEF UnmapPages
<1>2. \A p \in S : ~HasTable(p) => pte[p].kind = "none"
  BY DEF VInv, PteInv
<1>3. NoPte.kind = "none"
  BY DEF NoPte
<1>4. /\ \A p \in Pages \ S : pte'[p] = pte[p]
      /\ \A p \in S : pte'[p].kind = "none"
  BY <1>1, <1>2, <1>3
<1> QED BY <1>4 DEF Mapped, SwappedOut, IsPresent

\* A set of numbers that is not empty has a first one.
LEMMA FirstFact ==
    ASSUME NEW S \in SUBSET Nat, S # {}
    PROVE  First(S) \in S /\ \A j \in S : First(S) <= j
BY LeastExists DEF First

\* Page is the first of the pages left, one of them.
LEMMA PageFact ==
    ASSUME TypeOK, todo # {}
    PROVE  Page \in todo /\ Page \in Pages /\ \A p \in todo : Page <= p
<1>1. todo \subseteq Nat
  BY SizesAssumption DEF TypeOK, Pages, Top
<1> QED BY <1>1, FirstFact DEF Page, TypeOK

-----------------------------------------------------------------------------
(* FramesSound *)

\* A step that takes and maps no frame leaves no frame with two owners.
LEMMA QuietFrames ==
    ASSUME FramesSound,
           UNCHANGED <<g_frame_alloc, table, kernel>>,
           Mapped' \subseteq Mapped, \A p \in Mapped' : pte'[p].at = pte[p].at,
           InHand' \subseteq InHand, got' # None => got' # held'
    PROVE  FramesSound'
<1>1. DataFrames' \subseteq DataFrames
  BY DEF DataFrames
<1>2. OwnTables' = OwnTables /\ TableFrames' = TableFrames
  BY DEF OwnTables, TableFrames
<1> QED BY <1>1, <1>2 DEF FramesSound

\* frame_alloc hands out a frame that is nobody's.
LEMMA TakeFreeFrames ==
    ASSUME VInv, alloc = "idle", TakeFree \/ StartScan,
           UNCHANGED <<table, kernel, pte, held>>
    PROVE  FramesSound'
<1>1. got = None /\ FramesSound
  BY DEF VInv, CallInv, AllocInv
<1>2. /\ UNCHANGED <<Mapped, DataFrames, OwnTables, TableFrames>>
      /\ InHand = {held} \ {None}
  BY <1>1 DEF Mapped, IsPresent, DataFrames, OwnTables, TableFrames, InHand
<1>3. CASE UNCHANGED <<g_frame_alloc, got>>
  BY <1>1, <1>2, <1>3, QuietFrames DEF InHand
<1>4. CASE \E f \in Frames \ TailFrames :
              /\ f \notin g_frame_alloc.used
              /\ g_frame_alloc' = FrameTaken(g_frame_alloc, f)
              /\ got' = f
  <2>1. PICK f \in Frames : /\ f \notin g_frame_alloc.used
                            /\ g_frame_alloc' = FrameTaken(g_frame_alloc, f)
                            /\ got' = f
    BY <1>4
  <2>2. /\ g_frame_alloc'.used = g_frame_alloc.used \cup {f}
        /\ g_frame_alloc'.free = g_frame_alloc.free - 1
        /\ g_frame_alloc.used \subseteq Frames
    BY <2>1 DEF FrameTaken, VInv, TypeOK
  <2>3. g_frame_alloc'.free = Cardinality(Frames \ g_frame_alloc'.used)
    BY <1>1, <2>1, <2>2, CountTaken, SizesFinite DEF FramesSound
  <2>4. InHand' = InHand \cup {f} /\ f \notin g_frame_alloc.used /\ held # f
    BY <1>1, <1>2, <2>1, FramesAssumption DEF InHand, FramesSound
  <2> QED BY <1>1, <1>2, <2>1, <2>2, <2>3, <2>4 DEF FramesSound, Mapped
<1> QED BY <1>1, <1>3, <1>4 DEF TakeFree, StartScan

\* frame_free counts every frame of F that was in use.
LEMMA FrameFreeCounts ==
    ASSUME TypeOK, FramesSound, NEW F, g_frame_alloc' = FrameFree(g_frame_alloc, F)
    PROVE  /\ g_frame_alloc'.used = g_frame_alloc.used \ F
           /\ g_frame_alloc'.free = Cardinality(Frames \ g_frame_alloc'.used)
<1> DEFINE U == g_frame_alloc.used
<1>1. /\ g_frame_alloc'.used = U \ F
      /\ g_frame_alloc'.free = g_frame_alloc.free + Cardinality(F \cap U)
      /\ U \in SUBSET Frames
      /\ g_frame_alloc.free = Cardinality(Frames \ U)
  BY DEF FrameFree, TypeOK, FramesSound
<1> HIDE DEF U
<1>2. Cardinality(Frames \ (U \ F)) = Cardinality(Frames \ U) + Cardinality(F \cap U)
  BY <1>1, CountFreed, SizesFinite
<1> QED BY <1>1, <1>2 DEF U

\* What is unmapped is freed, once for every frame, with the frames in hand.
LEMMA UnmapFrames ==
    ASSUME VInv, NEW S \in SUBSET Pages, NEW spare, UnmapPages(S, spare),
           UNCHANGED kernel,
           \/ spare = {} /\ UNCHANGED <<got, held>>
           \/ spare = InHand /\ got' = None /\ held' = None
    PROVE  FramesSound'
<1> DEFINE F == {pte[p].at : p \in {q \in S : IsPresent(q)}}
<1>1. /\ g_frame_alloc' = FrameFree(g_frame_alloc, F \cup spare)
      /\ UNCHANGED table /\ FramesSound
  BY DEF UnmapPages, VInv
<1>2. /\ g_frame_alloc'.used = g_frame_alloc.used \ (F \cup spare)
      /\ g_frame_alloc'.free = Cardinality(Frames \ g_frame_alloc'.used)
  BY <1>1, FrameFreeCounts DEF VInv
<1>4. /\ Mapped' = Mapped \ S
      /\ \A p \in Mapped' : pte'[p].at = pte[p].at
  BY UnmapEntries DEF Mapped
<1>5. F \subseteq DataFrames /\ DataFrames' \subseteq DataFrames /\ DataFrames' \cap F = {}
  <2>1. F \subseteq DataFrames /\ DataFrames' \subseteq DataFrames
    BY <1>4 DEF DataFrames, Mapped
  <2>2. ASSUME NEW p \in Mapped', NEW q \in S, IsPresent(q), pte[q].at = pte'[p].at PROVE FALSE
    BY <1>1, <1>4, <2>2 DEF FramesSound, Mapped
  <2> QED BY <2>1, <2>2 DEF DataFrames
<1>6. UNCHANGED <<OwnTables, TableFrames>>
  BY <1>1 DEF OwnTables, TableFrames
<1>7. /\ InHand' \subseteq InHand /\ InHand' \cap spare = {}
      /\ spare \subseteq InHand
      /\ got' # None => got' # held'
  BY <1>1 DEF InHand, FramesSound
<1> HIDE DEF F
<1>8. /\ \A p, q \in Mapped' : pte'[p].at = pte'[q].at => p = q
      /\ \A t, u \in OwnTables' : table'[t] = table'[u] => t = u
  BY <1>1, <1>4, <1>6 DEF FramesSound
<1>9. /\ DataFrames' \cap (TableFrames' \cup kernel' \cup InHand') = {}
      /\ TableFrames' \cap (kernel' \cup InHand') = {}
      /\ kernel' \cap InHand' = {}
  BY <1>1, <1>5, <1>6, <1>7 DEF FramesSound
<1>10. DataFrames' \cup TableFrames' \cup kernel' \cup InHand' \subseteq g_frame_alloc'.used
  <2>1. DataFrames \cup TableFrames \cup kernel \cup InHand \subseteq g_frame_alloc.used
    BY <1>1 DEF FramesSound
  <2>2. (DataFrames' \cup TableFrames' \cup kernel' \cup InHand') \cap (F \cup spare) = {}
    BY <1>1, <1>5, <1>6, <1>7 DEF FramesSound
  <2> QED BY <1>2, <1>5, <1>6, <1>7, <2>1, <2>2
<1> QED BY <1>2, <1>7, <1>8, <1>9, <1>10 DEF FramesSound

\* The caller's frame becomes the page's: DemandZero, SwapInPage, MapHeld.
LEMMA MappedFrames ==
    ASSUME VInv, NEW p \in Pages, NEW f \in Frames,
           f \in InHand, got = None \/ held = None,
           got' = None, held' = None,
           UNCHANGED <<g_frame_alloc, table, kernel>>,
           pte'[p].at = f, Mapped' = Mapped \cup {p},
           \A q \in Mapped \ {p} : pte'[q].at = pte[q].at
    PROVE  FramesSound'
<1>1. FramesSound /\ UNCHANGED <<OwnTables, TableFrames>> /\ InHand' = {}
  BY DEF OwnTables, TableFrames, InHand, VInv
<1>2. DataFrames' \subseteq DataFrames \cup {f}
  BY DEF DataFrames
<1>3. \A q \in Mapped : pte[q].at # f
  BY <1>1 DEF FramesSound, DataFrames
<1> QED BY <1>1, <1>2, <1>3 DEF FramesSound

\* Frames that are freed while nothing maps them: KernelGives, SwapInFails.
LEMMA GivenFrames ==
    ASSUME VInv, NEW F \in SUBSET Frames,
           g_frame_alloc' = FrameFree(g_frame_alloc, F),
           UNCHANGED <<pte, table, held>>,
           \/ F \subseteq kernel /\ kernel' = kernel \ F /\ UNCHANGED got
           \/ F = {got} /\ got' = None /\ UNCHANGED kernel
    PROVE  FramesSound'
<1>1. /\ FramesSound
      /\ UNCHANGED <<Mapped, DataFrames, OwnTables, TableFrames>>
  BY DEF Mapped, IsPresent, DataFrames, OwnTables, TableFrames, VInv
<1>2. /\ g_frame_alloc'.used = g_frame_alloc.used \ F
      /\ g_frame_alloc'.free = Cardinality(Frames \ g_frame_alloc'.used)
  BY FrameFreeCounts DEF VInv
<1>4. InHand' \subseteq InHand /\ kernel' \subseteq kernel
      /\ (got' # None => got' # held')
  BY <1>1 DEF InHand, FramesSound
<1>5. F \cap (DataFrames \cup TableFrames \cup kernel' \cup InHand') = {}
  BY <1>1, FramesAssumption DEF FramesSound, InHand
<1> QED BY <1>1, <1>2, <1>4, <1>5 DEF FramesSound, Mapped

\* A page goes to swap and the frame of the clock entry, which the page may no
\* longer map, goes to the caller of frame_alloc.
LEMMA EvictFrames ==
    ASSUME VInv, Evict
    PROVE  FramesSound'
<1> DEFINE f == Entry.frame
           p == Entry.page
<1>1. /\ FramesSound /\ got = None /\ UNCHANGED <<g_frame_alloc, table, kernel, held>>
      /\ got' = f
  BY DEF VInv, CallInv, AllocInv, Evict, ScanStep, task
<1>2. f # None /\ g_clock.hand \in Tracked /\ p \in Pages
  BY DEF Evict, IsVictim, Entry, VInv, TypeOK, EntryInv, Tracked
<1>3. /\ f \in g_frame_alloc.used \ (TableFrames \cup kernel \cup InHand)
      /\ \A q \in Mapped : pte[q].at = f => q = p
  BY <1>2 DEF VInv, ClockSound, Entry
<1>4. /\ Mapped' = Mapped \ {p}
      /\ \A q \in Mapped' : pte'[q].at = pte[q].at
  BY <1>2 DEF Evict, Mapped, IsPresent, Swapped, VInv, TypeOK
<1>5. UNCHANGED <<OwnTables, TableFrames>> /\ InHand' = InHand \cup {f}
  BY <1>1, <1>2, <1>3, FramesAssumption DEF OwnTables, TableFrames, InHand, VInv, TypeOK
<1>6. DataFrames' \subseteq DataFrames /\ f \notin DataFrames'
  BY <1>3, <1>4 DEF DataFrames
<1>7. f # held
  BY <1>2, <1>3 DEF InHand
<1> QED
  <2> HIDE DEF f, p
  <2> QED BY <1>1, <1>3, <1>4, <1>5, <1>6, <1>7 DEF FramesSound

\* Cleanup unmaps pages only.
LEMMA CleanupPages ==
    \A known \in 0 .. ImagePages :
        1 .. known \cup {p \in Stack : p >= stack_bottom} \subseteq Pages
<1>1. ImagePages \in Nat /\ SharedPages \in Nat /\ StackPages \in Nat
  BY SizesAssumption
<1> QED BY <1>1 DEF Pages, Stack, Top

\* Every step leaves the ledger of frames balanced.
LEMMA FramesStep ==
    ASSUME VInv, [Next]_vars
    PROVE  FramesSound'
<1> USE DEF memory, task, caller
<1>0. /\ FramesSound /\ TypeOK /\ AllocInv
      /\ \A p \in Mapped : p \in Pages
  BY DEF VInv, CallInv, Mapped
<1>1. ASSUME UNCHANGED <<g_frame_alloc, table, kernel, pte, got, held>> PROVE FramesSound'
  BY <1>0, <1>1, QuietFrames DEF Mapped, IsPresent, InHand, FramesSound
<1>2. ASSUME UNCHANGED <<g_frame_alloc, table, kernel>>,
             InHand' \subseteq InHand, got' # None => got' # held',
             NEW p \in Pages, NEW e, \/ e = pte[p].kind /\ pte'[p].at = pte[p].at
                                     \/ e \notin {"present", "swapped"},
             pte'[p].kind = e, \A q \in Pages \ {p} : pte'[q] = pte[q]
      PROVE FramesSound'
  <2>1. Mapped' \subseteq Mapped
    BY <1>2 DEF Mapped, IsPresent
  <2>2. \A q \in Mapped' : pte'[q].at = pte[q].at
    BY <1>2 DEF Mapped, IsPresent
  <2> QED BY <1>0, <1>2, <2>1, <2>2, QuietFrames
<1>3. ASSUME NEW S \in SUBSET Pages, Stored(S),
             UNCHANGED <<g_frame_alloc, table, kernel, got, held>>
      PROVE FramesSound'
  <2>1. \A q \in Pages : pte'[q].at = pte[q].at /\ pte'[q].kind = pte[q].kind
    BY <1>0, <1>3 DEF Stored, TypeOK
  <2>2. InHand' = InHand
    BY <1>3 DEF InHand
  <2> QED BY <1>0, <1>3, <2>1, <2>2, QuietFrames DEF Mapped, IsPresent, FramesSound
<1>4. ASSUME alloc = "idle", NEW s, Ask(s), UNCHANGED kernel PROVE FramesSound'
  BY <1>4, TakeFreeFrames DEF Ask
<1>10. ASSUME NEW known \in 0 .. ImagePages, CleanupMappings(known, InHand),
              UNCHANGED kernel, got' = None, held' = None
       PROVE  FramesSound'
  BY <1>10, UnmapFrames, CleanupPages DEF CleanupMappings
<1>11. ASSUME NEW known \in 0 .. ImagePages, CleanupMappings(known, {}),
              UNCHANGED <<kernel, got, held>>
       PROVE  FramesSound'
  BY <1>11, UnmapFrames, CleanupPages DEF CleanupMappings
<1>5. CASE ClockScan
  <2>1. CASE SkipEmpty \/ DropStale \/ SwapOutFails \/ GiveUp
    BY <1>1, <2>1 DEF SkipEmpty, DropStale, SwapOutFails, GiveUp, ScanStep, Continues
  <2>2. CASE SecondChance
    <3>1. Entry.page \in Pages
      BY <2>2, <1>0 DEF SecondChance, Entry, VInv, EntryInv, Tracked, TypeOK
    <3> QED BY <1>0, <1>2, <2>2, <3>1 DEF SecondChance, ScanStep, Continues, TypeOK, InHand, FramesSound
  <2> QED BY <1>5, <2>1, <2>2, EvictFrames DEF ClockScan
<1>6. CASE Load
  <2>1. ASSUME NEW n \in Image, NEW known \in 0 .. ImagePages, Launch(n, known) PROVE FramesSound'
    BY <1>11, <2>1 DEF Launch, StartLoad
  <2>2. ASSUME NEW n \in Image, Execve(n) PROVE FramesSound'
    BY <1>0, <1>11, <2>2 DEF Execve, StartLoad, TypeOK
  <2>3. CASE MarkDemand
    <3>1. Page \in Pages
      BY <1>0, <2>3, PageFact DEF MarkDemand
    <3> QED BY <1>0, <1>2, <2>3, <3>1 DEF MarkDemand, Demand, NoPte, TypeOK, InHand, FramesSound
  <2>4. CASE MarkDone \/ Readd \/ EnterRing3
    BY <1>1, <2>4 DEF MarkDone, Readd, EnterRing3
  <2>5. ASSUME NEW lo \in Image, NEW hi \in Image, Segment(lo, hi) PROVE FramesSound'
    <3>1. alloc = "idle"
      BY <1>0, <2>5 DEF Segment, Loaded, AllocInv
    <3> QED BY <1>4, <2>5, <3>1 DEF Segment
  <2>6. CASE SegmentCopied \/ ArgvBuilt
    <3>1. span \subseteq Pages /\ Top \in Pages
      BY <1>0, TopFact DEF TypeOK
    <3> QED BY <1>1, <1>3, <2>6, <3>1 DEF SegmentCopied, ArgvBuilt, StoredOrPanic
  <2>7. CASE LoadRejected \/ LoadFails
    BY <1>0, <1>10, <1>11, <2>7 DEF LoadRejected, LoadFails, TypeOK, Taken
  <2> QED BY <1>6, <2>1, <2>2, <2>3, <2>4, <2>5, <2>6, <2>7 DEF Load
<1>7. CASE Program
  <2>1. ASSUME NEW p \in Pages, NEW write \in BOOLEAN, Access(p, write) \/ Segfault(p, write)
        PROVE FramesSound'
    <3>1. CASE Access(p, write)
      BY <1>0, <1>2, <2>1, <3>1 DEF Access, TypeOK, InHand, FramesSound
    <3>2. CASE Segfault(p, write)
      BY <1>1, <3>2 DEF Segfault
    <3> QED BY <2>1, <3>1, <3>2
  <2>2. ASSUME NEW p \in Pages, PageFault(p) PROVE FramesSound'
    BY <1>4, <2>2 DEF PageFault, Idle
  <2>3. ASSUME NEW lo \in Pages, NEW hi \in Pages, CopyOut(lo, hi) PROVE FramesSound'
    BY <1>1, <2>3 DEF CopyOut
  <2>4. ASSUME NEW lo \in Pages, NEW hi \in Pages, NEW rw \in BOOLEAN, Mmap(lo, hi, rw)
        PROVE FramesSound'
    BY <1>4, <2>4 DEF Mmap, Idle
  <2>5. CASE Exit
    BY <1>0, <1>11, <2>5 DEF Exit, TypeOK
  <2> QED BY <1>7, <2>1, <2>2, <2>3, <2>4, <2>5 DEF Program
<1>8. CASE Handler
  <2>1. CASE NeedsFrame \/ NeedsTable \/ FaultIn
    BY <1>4, <2>1 DEF NeedsFrame, NeedsTable, FaultIn, Prefault
  <2>2. CASE FrameGot
    BY <1>0, <2>2, QuietFrames DEF FrameGot, Taken, InHand, Mapped, IsPresent
  <2>3. CASE TableGot
    <3>1. todo # {} /\ got \in Frames /\ got # None
      BY <1>0, <2>3 DEF TableGot, Done, AllocInv, TypeOK
    <3>2. TableOf[Page] \in Tables
      BY <1>0, <3>1, PageFact DEF Tables
    <3>3. /\ OwnTables' = OwnTables \cup {TableOf[Page]}
          /\ table'[TableOf[Page]] = got
          /\ \A t \in OwnTables \ {TableOf[Page]} : table'[t] = table[t]
      BY <1>0, <2>3, <3>1, <3>2 DEF TableGot, OwnTables, TypeOK
    <3>4. TableFrames' \subseteq TableFrames \cup {got}
      BY <3>3 DEF TableFrames
    <3>5. \A t \in OwnTables : table[t] # got
      BY <1>0, <3>1 DEF FramesSound, TableFrames, InHand
    <3>6. /\ UNCHANGED <<g_frame_alloc, kernel, Mapped, DataFrames>>
          /\ InHand' = InHand \ {got} /\ got' = None /\ got \in InHand
      BY <1>0, <2>3, <3>1 DEF TableGot, Taken, Mapped, IsPresent, DataFrames, InHand, FramesSound
    <3> QED BY <1>0, <2>3, <3>3, <3>4, <3>5, <3>6 DEF FramesSound, TableGot, Mapped
  <2>4. CASE MapHeld
    <3>1. Page \in Pages /\ held \in Frames /\ got = None
      BY <1>0, <2>4, PageFact DEF MapHeld, AllocInv, VInv, CallInv, HeldInv, TypeOK
    <3>2. /\ pte'[Page].at = held /\ pte'[Page].kind = "present"
          /\ \A q \in Pages \ {Page} : pte'[q] = pte[q]
      BY <1>0, <2>4, <3>1 DEF MapHeld, Present, TypeOK
    <3>3. Mapped' = Mapped \cup {Page}
      BY <3>1, <3>2 DEF Mapped, IsPresent
    <3> QED BY <1>0, <2>4, <3>1, <3>2, <3>3, MappedFrames DEF MapHeld, InHand
  <2>5. CASE MmapFails
    <3>1. {p \in span : p < Page} \in SUBSET Pages
      BY <1>0 DEF TypeOK
    <3> QED BY <2>5, <3>1, UnmapFrames DEF MmapFails, Taken
  <2>6. CASE FaultFails \/ GrowthLost
    BY <1>0, <2>6, QuietFrames DEF FaultFails, GrowthLost, Taken, InHand, Mapped, IsPresent
  <2>7. CASE DemandZero \/ SwapInPage
    <3>1. todo # {} /\ got \in Frames /\ held = None
      BY <1>0, <2>7 DEF DemandZero, SwapInPage, Done, AllocInv, TypeOK
    <3>2. Page \in Pages
      BY <1>0, <3>1, PageFact
    <3>3. /\ pte'[Page].at = got /\ pte'[Page].kind = "present"
          /\ \A q \in Pages \ {Page} : pte'[q] = pte[q]
      BY <1>0, <2>7, <3>2 DEF DemandZero, SwapInPage, Present, TypeOK
    <3>4. Mapped' = Mapped \cup {Page}
      BY <3>2, <3>3 DEF Mapped, IsPresent
    <3> QED BY <1>0, <2>7, <3>1, <3>2, <3>3, <3>4, MappedFrames, FramesAssumption
            DEF DemandZero, SwapInPage, Taken, InHand
  <2>8. CASE SwapInFails
    <3>1. got \in Frames
      BY <1>0, <2>8 DEF SwapInFails, TypeOK
    <3>2. {got} \in SUBSET Frames
      BY <3>1
    <3>3. /\ g_frame_alloc' = FrameFree(g_frame_alloc, {got}) /\ got' = None
          /\ UNCHANGED <<pte, table, held, kernel>>
      BY <2>8 DEF SwapInFails, Taken
    <3> QED BY <3>2, <3>3, GivenFrames
  <2>9. CASE AlreadyThere \/ Denied
    BY <1>1, <2>9 DEF AlreadyThere, Denied
  <2>10. CASE CopyOutEnds
    <3>1. span \subseteq Pages
      BY <1>0 DEF TypeOK
    <3> QED BY <1>1, <1>3, <2>10, <3>1 DEF CopyOutEnds
  <2> QED BY <1>8, <2>1, <2>2, <2>3, <2>4, <2>5, <2>6, <2>7, <2>8, <2>9, <2>10 DEF Handler
<1>9. CASE Kernel
  <2>1. ASSUME NEW f \in Frames, KernelTakes(f) PROVE FramesSound'
    <3>1. /\ g_frame_alloc'.used = g_frame_alloc.used \cup {f}
          /\ g_frame_alloc'.free = g_frame_alloc.free - 1
          /\ g_frame_alloc.used \subseteq Frames /\ f \notin g_frame_alloc.used
          /\ kernel' = kernel \cup {f}
      BY <1>0, <2>1 DEF KernelTakes, FrameTaken, TypeOK
    <3>2. g_frame_alloc'.free = Cardinality(Frames \ g_frame_alloc'.used)
      BY <1>0, <3>1, CountTaken, SizesFinite DEF FramesSound
    <3>3. UNCHANGED <<Mapped, DataFrames, OwnTables, TableFrames, InHand, pte, table, got, held>>
      BY <2>1 DEF KernelTakes, Mapped, IsPresent, DataFrames, OwnTables, TableFrames, InHand
    <3> QED BY <1>0, <3>1, <3>2, <3>3 DEF FramesSound, Mapped
  <2>2. ASSUME NEW f \in Frames, KernelGives(f) PROVE FramesSound'
    BY <1>0, <2>2, GivenFrames DEF KernelGives
  <2>3. CASE KernelPage
    BY <1>4, <2>3 DEF KernelPage, KernelIdle, Idle
  <2>4. CASE KernelPageEnds
    <3>1. /\ UNCHANGED <<g_frame_alloc, Mapped, DataFrames, OwnTables, TableFrames, pte, table>>
          /\ kernel' \cup InHand' \subseteq kernel \cup InHand
          /\ kernel' \subseteq kernel \cup {got} /\ InHand' = InHand \ {got} /\ got' = None
      BY <1>0, <2>4 DEF KernelPageEnds, Taken, Mapped, IsPresent, DataFrames, OwnTables,
                        TableFrames, InHand, FramesSound
    <3> QED BY <1>0, <3>1 DEF FramesSound, Mapped
  <2> QED BY <1>9, <2>1, <2>2, <2>3, <2>4 DEF Kernel
<1> QED BY <1>1, <1>5, <1>6, <1>7, <1>8, <1>9 DEF Next, Halted, vars

-----------------------------------------------------------------------------
(* Entries and slots *)

\* vmm_unmap_page of some pages, with the frames in hand or without.
Unmaps == \E S \in SUBSET Pages, spare \in {{}, InHand} : UnmapPages(S, spare)

\* A step that changes no more of the page table than accessed bits.
PteQuiet ==
    /\ UNCHANGED g_swap
    /\ \A p \in Pages : pte'[p].kind = pte[p].kind /\ pte'[p].at = pte[p].at
    /\ \A t \in Tables : table[t] # None => table'[t] # None

\* The steps that change entries.
LEMMA PteCases ==
    ASSUME VInv, [Next]_vars
    PROVE  PteQuiet \/ Evict \/ MarkDemand \/ MapHeld \/ DemandZero \/ SwapInPage \/ Unmaps
<1> USE DEF memory, task, caller
<1>0. TypeOK /\ AllocInv
  BY DEF VInv, CallInv
<1>1. ASSUME UNCHANGED <<g_swap, pte, table>> PROVE PteQuiet
  BY <1>1 DEF PteQuiet
<1>2. ASSUME UNCHANGED <<g_swap, table>>, NEW p \in Pages, NEW a,
             pte' = [pte EXCEPT ![p].accessed = a]
      PROVE  PteQuiet
  BY <1>0, <1>2 DEF PteQuiet, TypeOK
<1>3. ASSUME NEW S \in SUBSET Pages, Stored(S), UNCHANGED <<g_swap, table>> PROVE PteQuiet
  BY <1>0, <1>3 DEF PteQuiet, Stored, TypeOK
<1>4. ASSUME NEW s, Ask(s) PROVE PteQuiet
  BY <1>1, <1>4 DEF Ask
<1>5. CASE ClockScan
  <2>1. CASE SkipEmpty \/ DropStale \/ SwapOutFails \/ GiveUp
    BY <1>1, <2>1 DEF SkipEmpty, DropStale, SwapOutFails, GiveUp, ScanStep, Continues
  <2>2. CASE SecondChance
    <3>1. Entry.page \in Pages
      BY <2>2, <1>0 DEF SecondChance, Entry, VInv, EntryInv, Tracked, TypeOK
    <3> QED BY <1>2, <2>2, <3>1 DEF SecondChance, ScanStep
  <2> QED BY <1>5, <2>1, <2>2 DEF ClockScan
<1>6. ASSUME NEW known \in 0 .. ImagePages, CleanupMappings(known, {}) \/ CleanupMappings(known, InHand)
      PROVE  Unmaps
  BY <1>6, CleanupPages DEF CleanupMappings, Unmaps
<1>7. CASE Load
  <2>1. ASSUME NEW n \in Image, NEW known \in 0 .. ImagePages, Launch(n, known) PROVE Unmaps
    BY <1>6, <2>1 DEF Launch, StartLoad
  <2>2. ASSUME NEW n \in Image, Execve(n) PROVE Unmaps
    BY <1>0, <1>6, <2>2 DEF Execve, StartLoad, TypeOK
  <2>3. CASE LoadRejected \/ LoadFails
    BY <1>0, <1>6, <2>3 DEF LoadRejected, LoadFails, TypeOK
  <2>4. CASE SegmentCopied \/ ArgvBuilt
    <3>1. span \subseteq Pages /\ Top \in Pages
      BY <1>0, TopFact DEF TypeOK
    <3> QED BY <1>1, <1>3, <2>4, <3>1 DEF SegmentCopied, ArgvBuilt, StoredOrPanic
  <2>5. ASSUME NEW lo \in Image, NEW hi \in Image, Segment(lo, hi) PROVE PteQuiet
    BY <1>4, <2>5 DEF Segment
  <2>6. CASE MarkDone \/ Readd \/ EnterRing3
    BY <1>1, <2>6 DEF MarkDone, Readd, EnterRing3
  <2> QED BY <1>7, <2>1, <2>2, <2>3, <2>4, <2>5, <2>6 DEF Load
<1>8. CASE Program
  BY <1>0, <1>1, <1>2, <1>4, <1>6, <1>8
     DEF Program, Access, Segfault, PageFault, CopyOut, Mmap, Exit, TypeOK
<1>9. CASE Handler
  <2>1. CASE TableGot
    <3>1. todo # {} /\ got # None
      BY <1>0, <2>1 DEF TableGot, Done, AllocInv
    <3> QED BY <1>0, <2>1, <3>1 DEF TableGot, PteQuiet, TypeOK
  <2>2. CASE MmapFails
    <3>1. {p \in span : p < Page} \in SUBSET Pages
      BY <1>0 DEF TypeOK
    <3> QED BY <2>2, <3>1 DEF MmapFails, Unmaps
  <2> QED BY <1>0, <1>1, <1>3, <1>4, <1>9, <2>1, <2>2
             DEF Handler, NeedsFrame, FrameGot, NeedsTable, FaultFails, GrowthLost,
                 SwapInFails, AlreadyThere, FaultIn, Denied, CopyOutEnds, TypeOK
<1>10. CASE Kernel
  BY <1>1, <1>4, <1>10 DEF Kernel, KernelTakes, KernelGives, KernelPage, KernelPageEnds
<1> QED BY <1>1, <1>5, <1>7, <1>8, <1>9, <1>10 DEF Next, Halted, vars

\* swap_alloc_slot returns a slot that was free.
LEMMA SwapAllocFact ==
    ASSUME FreeSlots # {}
    PROVE  SwapAllocSlot \in FreeSlots /\ SwapAllocSlot \in Slots
<1>1. FreeSlots \subseteq Slots /\ Slots \subseteq Nat
  BY SizesAssumption DEF FreeSlots, Slots
<1>2. SwapAllocSlot = First(FreeSlots)
  BY DEF SwapAllocSlot, First
<1> QED BY <1>1, <1>2, FirstFact

\* Pages whose entries point to different places have as many of them.
LEMMA CountPlaces ==
    ASSUME NEW P \in SUBSET Pages,
           \A p, q \in P : pte[p].at = pte[q].at => p = q
    PROVE  Cardinality({pte[p].at : p \in P}) = Cardinality(P)
<1> DEFINE T == {pte[p].at : p \in P}
           f == [p \in P |-> pte[p].at]
<1>1. f \in Bijection(P, T)
  <2>1. f \in [P -> T] /\ \A p, q \in P : f[p] = f[q] => p = q
    OBVIOUS
  <2>2. \A t \in T : \E p \in P : f[p] = t
    OBVIOUS
  <2> HIDE DEF f, T
  <2> QED BY <2>1, <2>2, Fun_IsBij
<1>2. IsFiniteSet(P)
  BY SizesFinite, FS_Subset
<1> HIDE DEF f, T
<1>3. ExistsBijection(P, T)
  BY <1>1 DEF ExistsBijection
<1>4. Cardinality(T) = Cardinality(P)
  BY <1>2, <1>3, FS_Bijection
<1> QED BY <1>4 DEF T

\* swap_free_slot over some swapped pages frees one slot for each of them.
LEMMA SlotsFreed ==
    ASSUME TypeOK, SlotsSound, NEW P \in SUBSET SwappedOut,
           g_swap' = SwapFreeSlot(g_swap, P),
           SwappedOut' = SwappedOut \ P,
           \A p \in SwappedOut' : pte'[p].at = pte[p].at
    PROVE  SlotsSound'
<1> DEFINE U == g_swap.used
           T == {pte[p].at : p \in P}
<1>1. /\ g_swap'.used = U \ T /\ g_swap'.free = g_swap.free + Cardinality(P)
      /\ U \in SUBSET Slots /\ g_swap.free = Cardinality(Slots \ U)
      /\ T \subseteq U
  BY DEF SwapFreeSlot, TypeOK, SlotsSound
<1>2. Cardinality(T) = Cardinality(P)
  BY CountPlaces DEF SlotsSound, SwappedOut
<1>3. \A p \in SwappedOut' : pte[p].at \notin T
  BY DEF SlotsSound
<1> HIDE DEF U, T
<1>4. Cardinality(Slots \ (U \ T)) = Cardinality(Slots \ U) + Cardinality(T \cap U)
  <2>1. U \in SUBSET Slots /\ IsFiniteSet(Slots)
    BY <1>1, SizesFinite
  <2> QED BY ONLY <2>1, CountFreed
<1>5. T \cap U = T
  BY <1>1
<1> QED BY <1>1, <1>2, <1>3, <1>4, <1>5 DEF SlotsSound, U

\* Every entry a step leaves points where its kind says, under a page table.
LEMMA PteStep ==
    ASSUME VInv, [Next]_vars
    PROVE  PteInv'
<1> USE DEF task
<1>0. TypeOK /\ AllocInv /\ PteInv
  BY DEF VInv, CallInv
<1>1. ASSUME NEW p \in Pages, UNCHANGED table,
             \A q \in Pages \ {p} : pte'[q] = pte[q],
             pte'[p].kind = "present" => pte'[p].at \in Frames,
             pte'[p].kind = "swapped" => pte'[p].at \in Slots,
             HasTable(p)
      PROVE  PteInv'
  BY <1>0, <1>1 DEF PteInv, IsPresent, HasTable
<1>2. CASE PteQuiet
  <2>1. \A p \in Pages : TableOf[p] \in Tables
    BY DEF Tables
  <2> QED BY <1>0, <1>2, <2>1 DEF PteQuiet, PteInv, IsPresent, HasTable
<1>3. CASE Evict
  <2>1. Entry.page \in Pages /\ IsPresent(Entry.page)
    BY <1>0, <1>3 DEF Evict, IsVictim, Entry, VInv, EntryInv, Tracked, TypeOK
  <2>2. SwapAllocSlot \in Slots
    BY <1>3, SwapAllocFact DEF Evict
  <2>3. /\ pte'[Entry.page].kind = "swapped" /\ pte'[Entry.page].at \in Slots
        /\ \A q \in Pages \ {Entry.page} : pte'[q] = pte[q]
    BY <1>0, <1>3, <2>1, <2>2 DEF Evict, Swapped, TypeOK
  <2> QED BY <1>0, <1>1, <1>3, <2>1, <2>3 DEF Evict, ScanStep, PteInv, IsPresent
<1>4. CASE MarkDemand
  <2>1. Page \in Pages
    BY <1>0, <1>4, PageFact DEF MarkDemand
  <2> QED BY <1>0, <1>1, <1>4, <2>1 DEF MarkDemand, Demand, NoPte, TypeOK
<1>5. CASE MapHeld
  <2>1. Page \in Pages /\ held \in Frames
    BY <1>0, <1>5, PageFact DEF MapHeld, VInv, CallInv, HeldInv, TypeOK
  <2> QED BY <1>0, <1>1, <1>5, <2>1 DEF MapHeld, Present, TypeOK
<1>6. CASE DemandZero \/ SwapInPage
  <2>1. Page \in Pages /\ got \in Frames
    BY <1>0, <1>6, PageFact DEF DemandZero, SwapInPage, Done, AllocInv, TypeOK
  <2>2. HasTable(Page)
    BY <1>0, <1>6, <2>1 DEF DemandZero, SwapInPage, PteInv
  <2> QED BY <1>0, <1>1, <1>6, <2>1, <2>2 DEF DemandZero, SwapInPage, Present, TypeOK
<1>7. CASE Unmaps
  <2>1. PICK S \in SUBSET Pages, spare \in {{}, InHand} : UnmapPages(S, spare)
    BY <1>7 DEF Unmaps
  <2>2. UNCHANGED table
    BY <2>1 DEF UnmapPages
  <2> QED BY <1>0, <2>1, <2>2, UnmapEntries DEF PteInv, IsPresent, HasTable
<1> QED BY <1>2, <1>3, <1>4, <1>5, <1>6, <1>7, PteCases

\* A page in a slot has a slot of its own, and the counter agrees, whatever is
\* swapped out, swapped in, overwritten and unmapped.
LEMMA SlotsStep ==
    ASSUME VInv, [Next]_vars
    PROVE  SlotsSound'
<1> USE DEF task
<1>0. TypeOK /\ AllocInv /\ SlotsSound
  BY DEF VInv, CallInv
<1>1. ASSUME UNCHANGED g_swap, SwappedOut' \subseteq SwappedOut,
             \A p \in SwappedOut' : pte'[p].at = pte[p].at
      PROVE  SlotsSound'
  BY <1>0, <1>1 DEF SlotsSound
<1>2. CASE PteQuiet
  BY <1>1, <1>2 DEF PteQuiet, SwappedOut
<1>3. CASE Evict
  <2>1. Entry.page \in Pages /\ IsPresent(Entry.page)
    BY <1>0, <1>3 DEF Evict, IsVictim, Entry, VInv, EntryInv, Tracked, TypeOK
  <2> DEFINE s == SwapAllocSlot
             U == g_swap.used
  <2>2. s \in Slots \ U /\ U \in SUBSET Slots
    BY <1>0, <1>3, SwapAllocFact DEF Evict, FreeSlots, TypeOK
  <2>3. /\ g_swap'.used = U \cup {s} /\ g_swap'.free = g_swap.free - 1
    BY <1>3 DEF Evict, SlotTaken
  <2>4. /\ SwappedOut' = SwappedOut \cup {Entry.page}
        /\ pte'[Entry.page].at = s
        /\ \A q \in SwappedOut : pte'[q].at = pte[q].at
    BY <1>0, <1>3, <2>1 DEF Evict, Swapped, TypeOK, SwappedOut, IsPresent
  <2>5. g_swap.free = Cardinality(Slots \ U)
    BY <1>0 DEF SlotsSound
  <2> HIDE DEF s, U
  <2>6. Cardinality(Slots \ (U \cup {s})) = Cardinality(Slots \ U) - 1
    BY <2>2, CountTaken, SizesFinite
  <2> QED BY <1>0, <2>2, <2>3, <2>4, <2>5, <2>6 DEF SlotsSound, U
<1>4. CASE MarkDemand \/ MapHeld \/ DemandZero
  <2>1. Page \in Pages
    BY <1>0, <1>4, PageFact DEF MarkDemand, MapHeld, DemandZero, Done, VInv, CallInv, HeldInv, AllocInv
  <2>2. /\ UNCHANGED g_swap
        /\ pte'[Page].kind \in {"demand", "present"}
        /\ \A q \in Pages \ {Page} : pte'[q] = pte[q]
    <3>1. CASE MarkDemand
      BY <1>0, <3>1, <2>1 DEF MarkDemand, Demand, NoPte, TypeOK
    <3>2. CASE MapHeld
      BY <1>0, <3>2, <2>1 DEF MapHeld, Present, TypeOK
    <3>3. CASE DemandZero
      BY <1>0, <3>3, <2>1 DEF DemandZero, Present, TypeOK
    <3> QED BY <1>4, <3>1, <3>2, <3>3
  <2> QED BY <1>1, <2>2 DEF SwappedOut
<1>5. CASE SwapInPage
  <2>1. Page \in SwappedOut
    BY <1>0, <1>5, PageFact DEF SwapInPage, Done, AllocInv, SwappedOut
  <2>2. /\ pte'[Page].kind = "present"
        /\ \A q \in Pages \ {Page} : pte'[q] = pte[q]
    BY <1>0, <1>5, <2>1 DEF SwapInPage, Present, TypeOK, SwappedOut
  <2>3. SwappedOut' = SwappedOut \ {Page}
    BY <2>2 DEF SwappedOut
  <2> QED BY <1>0, <1>5, <2>1, <2>2, <2>3, SlotsFreed DEF SwapInPage, SwappedOut
<1>6. CASE Unmaps
  <2>1. PICK S \in SUBSET Pages, spare \in {{}, InHand} : UnmapPages(S, spare)
    BY <1>6 DEF Unmaps
  <2>2. SwappedOut' = SwappedOut \ S /\ \A p \in SwappedOut' : pte'[p].at = pte[p].at
    BY <2>1, UnmapEntries DEF SwappedOut
  <2> DEFINE P == {p \in S : pte[p].kind = "swapped"}
  <2>3. P \subseteq SwappedOut /\ SwappedOut' = SwappedOut \ P /\ g_swap' = SwapFreeSlot(g_swap, P)
    BY <2>1, <2>2 DEF UnmapPages, SwappedOut
  <2> HIDE DEF P
  <2> QED BY <1>0, <2>2, <2>3, SlotsFreed
<1> QED BY <1>2, <1>3, <1>4, <1>5, <1>6, PteCases

-----------------------------------------------------------------------------
(* Contents *)

\* The steps that change the contents of frames and slots.
LEMMA MemCases ==
    ASSUME VInv, [Next]_vars
    PROVE  \/ UNCHANGED <<mem, disk>>
           \/ FrameGot
           \/ \E p \in Pages, write \in BOOLEAN : Access(p, write)
           \/ \E S \in SUBSET Pages : /\ Stored(S) /\ \A p \in S : IsPresent(p)
                                      /\ UNCHANGED disk
           \/ Evict \/ MarkDemand \/ MapHeld \/ DemandZero \/ SwapInPage \/ Unmaps
<1> USE DEF memory, task, caller
<1>0. TypeOK /\ AllocInv
  BY DEF VInv, CallInv
<1>1. ASSUME NEW S \in SUBSET Pages, StoredOrPanic(S), UNCHANGED disk
      PROVE  \/ UNCHANGED <<mem, disk>>
             \/ Stored(S) /\ (\A p \in S : IsPresent(p)) /\ UNCHANGED disk
  BY <1>1 DEF StoredOrPanic
<1>2. ASSUME NEW s, Ask(s) PROVE UNCHANGED <<mem, disk>>
  BY <1>2 DEF Ask
<1>3. CASE ClockScan
  BY <1>3 DEF ClockScan, SkipEmpty, DropStale, SecondChance, SwapOutFails, GiveUp, Continues
<1>4. ASSUME NEW known \in 0 .. ImagePages, CleanupMappings(known, {}) \/ CleanupMappings(known, InHand)
      PROVE  Unmaps
  BY <1>4, CleanupPages DEF CleanupMappings, Unmaps
<1>5. CASE Load
  <2>1. ASSUME NEW n \in Image, NEW known \in 0 .. ImagePages, Launch(n, known) PROVE Unmaps
    BY <1>4, <2>1 DEF Launch, StartLoad
  <2>2. ASSUME NEW n \in Image, Execve(n) PROVE Unmaps
    BY <1>0, <1>4, <2>2 DEF Execve, StartLoad, TypeOK
  <2>3. CASE LoadRejected \/ LoadFails
    BY <1>0, <1>4, <2>3 DEF LoadRejected, LoadFails, TypeOK
  <2>4. CASE SegmentCopied \/ ArgvBuilt
    <3>1. span \subseteq Pages /\ {Top} \subseteq Pages
      BY <1>0, SizesAssumption DEF TypeOK, Pages, Top
    <3>2. CASE SegmentCopied
      <4>1. StoredOrPanic(span) /\ UNCHANGED disk
        BY <3>2 DEF SegmentCopied
      <4> QED BY <1>1, <3>1, <4>1
    <3>3. CASE ArgvBuilt
      <4>1. StoredOrPanic({Top}) /\ UNCHANGED disk
        BY <3>3 DEF ArgvBuilt
      <4> QED BY <1>1, <3>1, <4>1
    <3> QED BY <2>4, <3>2, <3>3
  <2>5. ASSUME NEW lo \in Image, NEW hi \in Image, Segment(lo, hi) PROVE UNCHANGED <<mem, disk>>
    BY <1>2, <2>5 DEF Segment
  <2>6. CASE MarkDone \/ Readd \/ EnterRing3
    BY <2>6 DEF MarkDone, Readd, EnterRing3
  <2> QED BY <1>5, <2>1, <2>2, <2>3, <2>4, <2>5, <2>6 DEF Load
<1>6. CASE Program
  BY <1>0, <1>2, <1>4, <1>6
     DEF Program, Segfault, PageFault, CopyOut, Mmap, Exit, TypeOK
<1>7. CASE Handler
  <2>1. CASE MmapFails
    <3>1. {p \in span : p < Page} \in SUBSET Pages
      BY <1>0 DEF TypeOK
    <3> QED BY <2>1, <3>1 DEF MmapFails, Unmaps
  <2>2. CASE CopyOutEnds
    <3>1. span \in SUBSET Pages
      BY <1>0 DEF TypeOK
    <3> QED BY <2>2, <3>1 DEF CopyOutEnds, Writable
  <2> QED BY <1>2, <1>7, <2>1, <2>2
             DEF Handler, NeedsFrame, NeedsTable, TableGot, FaultFails, GrowthLost,
                 SwapInFails, AlreadyThere, FaultIn, Denied
<1>8. CASE Kernel
  BY <1>2, <1>8 DEF Kernel, KernelTakes, KernelGives, KernelPage, KernelPageEnds
<1> QED BY <1>3, <1>5, <1>6, <1>7, <1>8 DEF Next, Halted, vars

\* A frame nobody maps can change without a page noticing.
LEMMA IntactElsewhere ==
    ASSUME Intact, NEW F,
           \A p \in Pages : IsPresent(p) => pte[p].at \notin F,
           \A f \in Frames \ F : mem'[f] = mem[f],
           UNCHANGED disk,
           \A p \in Pages : IsPresent(p) => pte[p].at \in Frames,
           \A p \in Pages : pte'[p].kind = pte[p].kind /\ pte'[p].at = pte[p].at
    PROVE  Intact'
BY DEF Intact, IsPresent

\* Whatever page a step maps, saves or brings back, its contents are its own.
LEMMA IntactStep ==
    ASSUME VInv, [Next]_vars
    PROVE  Intact'
<1> USE DEF task
<1>0. TypeOK /\ AllocInv /\ Intact /\ PteInv /\ FramesSound /\ SlotsSound
  BY DEF VInv, CallInv
<1>1. \A p, q \in Pages : IsPresent(p) /\ IsPresent(q) /\ pte[p].at = pte[q].at => p = q
  BY <1>0 DEF FramesSound, Mapped
<1>2. \A f \in InHand, p \in Pages : IsPresent(p) => pte[p].at # f
  BY <1>0 DEF FramesSound, Mapped, DataFrames
<1>4. CASE Evict
  <2> DEFINE p == Entry.page
             t == SwapAllocSlot
  <2>1. p \in Pages /\ IsPresent(p) /\ g_clock.hand \in Tracked /\ Entry.frame \in Frames
    BY <1>0, <1>4 DEF Evict, IsVictim, Entry, VInv, EntryInv, Tracked, TypeOK
  <2>2. t \in Slots /\ \A q \in Pages : pte[q].kind = "swapped" => pte[q].at # t
    BY <1>0, <1>4, SwapAllocFact DEF Evict, FreeSlots, SlotsSound, SwappedOut
  <2>3. /\ pte'[p].kind = "swapped" /\ pte'[p].at = t
        /\ \A q \in Pages \ {p} : pte'[q] = pte[q]
    BY <1>0, <1>4, <2>1 DEF Evict, Swapped, TypeOK
  <2>4. disk'[t] = p /\ \A u \in Slots \ {t} : disk'[u] = disk[u]
    BY <1>0, <1>4, <2>1, <2>2 DEF Evict, SavedFrame, Intact, TypeOK
  <2>5. \A q \in Pages : IsPresent(q) /\ pte[q].at = Entry.frame => q = p
    BY <2>1 DEF VInv, ClockSound, Mapped, Entry
  <2>6. \A f \in Frames \ {Entry.frame} : mem'[f] = mem[f]
    BY <1>0, <1>4, <2>1 DEF Evict, TypeOK
  <2> HIDE DEF p, t
  <2> QED BY <1>0, <2>2, <2>3, <2>4, <2>5, <2>6 DEF Intact, IsPresent, PteInv
<1>5. CASE MarkDemand
  <2>1. Page \in Pages
    BY <1>0, <1>5, PageFact DEF MarkDemand
  <2>2. /\ pte'[Page].kind = "demand" /\ \A q \in Pages \ {Page} : pte'[q] = pte[q]
    BY <1>0, <1>5, <2>1 DEF MarkDemand, Demand, NoPte, TypeOK
  <2>3. \A q \in Pages \ {Page} :
            /\ IsPresent(q) => mem'[pte[q].at] = mem[pte[q].at]
            /\ pte[q].kind = "swapped" => disk'[pte[q].at] = disk[pte[q].at]
    BY <1>0, <1>1, <1>5, <2>1 DEF MarkDemand, MemWithout, DiskWithout, TypeOK, PteInv,
                                  SlotsSound, SwappedOut
  <2> QED BY <1>0, <2>2, <2>3 DEF Intact, IsPresent
<1>6. CASE MapHeld
  <2>1. Page \in Pages /\ held \in Frames /\ mem[held] = Page /\ held \in InHand
    BY <1>0, <1>6, PageFact DEF MapHeld, VInv, CallInv, HeldInv, InHand, TypeOK
  <2>2. /\ pte'[Page].kind = "present" /\ pte'[Page].at = held
        /\ \A q \in Pages \ {Page} : pte'[q] = pte[q]
    BY <1>0, <1>6, <2>1 DEF MapHeld, Present, TypeOK
  <2>3. mem' = MemWithout(Page) /\ disk' = DiskWithout(Page)
    BY <1>6 DEF MapHeld
  <2>4. /\ mem'[held] = Page
        /\ \A q \in Pages \ {Page} :
            /\ IsPresent(q) => mem'[pte[q].at] = mem[pte[q].at]
            /\ pte[q].kind = "swapped" => disk'[pte[q].at] = disk[pte[q].at]
    BY <1>0, <1>1, <1>2, <2>1, <2>3 DEF MemWithout, DiskWithout, TypeOK, PteInv,
                                  SlotsSound, SwappedOut
  <2> QED BY <1>0, <2>2, <2>4 DEF Intact, IsPresent
<1>7. CASE DemandZero \/ SwapInPage
  <2>1. Page \in Pages /\ got \in Frames /\ got \in InHand
    BY <1>0, <1>7, PageFact DEF DemandZero, SwapInPage, Done, AllocInv, InHand, TypeOK
  <2>2. /\ pte'[Page].kind = "present" /\ pte'[Page].at = got
        /\ \A q \in Pages \ {Page} : pte'[q] = pte[q]
    BY <1>0, <1>7, <2>1 DEF DemandZero, SwapInPage, Present, TypeOK
  <2>3. mem'[got] = Page /\ \A f \in Frames \ {got} : mem'[f] = mem[f]
    BY <1>0, <1>7, <2>1 DEF DemandZero, SwapInPage, Intact, TypeOK
  <2>4. \A q \in Pages \ {Page} :
            pte[q].kind = "swapped" => disk'[pte[q].at] = disk[pte[q].at]
    BY <1>0, <1>7, <2>1 DEF DemandZero, SwapInPage, SlotsSound, SwappedOut, TypeOK, PteInv
  <2> QED BY <1>0, <1>2, <2>1, <2>2, <2>3, <2>4 DEF Intact, IsPresent, PteInv
<1>9. CASE Unmaps
  <2>1. PICK S \in SUBSET Pages, spare \in {{}, InHand} : UnmapPages(S, spare)
    BY <1>9 DEF Unmaps
  <2> DEFINE present == {p \in S : IsPresent(p)}
             swapped == {p \in S : pte[p].kind = "swapped"}
             frames == {pte[p].at : p \in present}
  <2>2. /\ mem' = [f \in Frames |-> IF f \in frames \cup spare THEN Junk ELSE mem[f]]
        /\ disk' = [t \in Slots |-> IF \E p \in swapped : pte[p].at = t THEN Junk ELSE disk[t]]
    BY <2>1 DEF UnmapPages
  <2>3. \A q \in Pages \ S : IsPresent(q) => pte[q].at \notin frames \cup spare
    BY <1>1, <1>2
  <2>4. \A q \in Pages \ S : pte[q].kind = "swapped" => ~ \E p \in swapped : pte[p].at = pte[q].at
    BY <1>0 DEF SlotsSound, SwappedOut
  <2>5. \A q \in Pages \ S :
            /\ IsPresent(q) => mem'[pte[q].at] = mem[pte[q].at]
            /\ pte[q].kind = "swapped" => disk'[pte[q].at] = disk[pte[q].at]
    <3> HIDE DEF frames, swapped
    <3> QED BY <1>0, <2>2, <2>3, <2>4 DEF PteInv
  <2>6. /\ \A p \in Pages \ S : pte'[p] = pte[p]
        /\ \A p \in S : pte'[p].kind = "none"
    BY <2>1, UnmapEntries
  <2> QED BY <1>0, <2>5, <2>6 DEF Intact, IsPresent
<1>3. CASE PteQuiet
  <2>1. \A p \in Pages : IsPresent(p)' = IsPresent(p)
    BY <1>3 DEF PteQuiet, IsPresent
  <2>2. CASE UNCHANGED <<mem, disk>>
    BY <1>0, <1>3, <2>1, <2>2 DEF PteQuiet, Intact
  <2>3. CASE FrameGot
    <3>1. got \in InHand /\ UNCHANGED disk /\ \A f \in Frames \ {got} : mem'[f] = mem[f]
      BY <1>0, <2>3 DEF FrameGot, InHand, TypeOK
    <3>2. \A p \in Pages : IsPresent(p) => pte[p].at \notin {got}
      BY <1>2, <3>1
    <3> QED BY <1>0, <1>3, <3>1, <3>2, IntactElsewhere DEF PteQuiet, PteInv
  <2>4. ASSUME NEW p \in Pages, NEW write \in BOOLEAN, Access(p, write) PROVE Intact'
    <3>1. IsPresent(p) /\ UNCHANGED disk
          /\ mem' = IF write THEN [mem EXCEPT ![pte[p].at] = p] ELSE mem
      BY <2>4 DEF Access
    <3> QED BY <1>0, <1>1, <1>3, <2>1, <3>1 DEF PteQuiet, Intact, PteInv, TypeOK
  <2>5. ASSUME NEW S \in SUBSET Pages, Stored(S), \A p \in S : IsPresent(p), UNCHANGED disk
        PROVE  Intact'
    <3>1. \A q \in S : (CHOOSE p \in S : pte[p].at = pte[q].at) = q
      BY <1>1, <2>5
    <3>2. \A q \in Pages \ S : IsPresent(q) => mem'[pte[q].at] = mem[pte[q].at]
      BY <1>0, <1>1, <2>5 DEF Stored, PteInv
    <3>3. \A q \in S : mem'[pte[q].at] = q
      BY <1>0, <2>5, <3>1 DEF Stored, PteInv
    <3> QED BY <1>0, <1>3, <2>1, <2>5, <3>2, <3>3 DEF PteQuiet, Intact
  <2> QED BY <1>4, <1>5, <1>6, <1>7, <1>9, <2>2, <2>3, <2>4, <2>5, MemCases
<1> QED BY <1>3, <1>4, <1>5, <1>6, <1>7, <1>9, PteCases

-----------------------------------------------------------------------------
(* The clock *)

\* A clock of the right shape that counts its entries and records no frame twice.
ClockType == [entries : [Positions -> [frame : Frames \cup {None}, page : Pages \cup {None}]],
              hand : Positions, count : Int]
TrackedIn(c) == {i \in Positions : c.entries[i].frame # None}
CountedOnce(c) ==
    /\ c \in ClockType
    /\ c.count = Cardinality(TrackedIn(c))
    /\ \A i, j \in TrackedIn(c) : c.entries[i].frame = c.entries[j].frame => i = j
    /\ \A i \in TrackedIn(c) : c.entries[i].page \in Pages

\* clock_remove_page empties the entries of the frames of F and no others.
LEMMA RemoveFact ==
    ASSUME NEW c, CountedOnce(c), NEW F \in SUBSET Frames, NEW d, d = ClockRemovePage(c, F)
    PROVE  /\ CountedOnce(d) /\ d.hand = c.hand
           /\ \A i \in Positions :
                d.entries[i] = IF c.entries[i].frame \in F THEN EmptyEntry ELSE c.entries[i]
<1> DEFINE gone == {i \in Positions : c.entries[i].frame \in F}
<1>1. None \notin F /\ Positions \subseteq Nat
  BY FramesAssumption, SizesAssumption DEF Positions
<1>2. \A i \in gone : i = First(PositionsOf(c, c.entries[i].frame))
  <2> SUFFICES ASSUME NEW i \in gone PROVE i = First(PositionsOf(c, c.entries[i].frame))
    OBVIOUS
  <2>1. i \in TrackedIn(c)
    BY <1>1 DEF TrackedIn
  <2>2. PositionsOf(c, c.entries[i].frame) = {i}
    BY <1>1, <2>1 DEF CountedOnce, PositionsOf, TrackedIn
  <2> QED BY <1>1, <2>2, FirstFact
<1>3. gone = {i \in Positions : LET f == c.entries[i].frame
                                IN  f \in F /\ i = First(PositionsOf(c, f))}
  BY <1>2
<1>4. d = [c EXCEPT !.entries = [i \in Positions |-> IF i \in gone THEN EmptyEntry ELSE @[i]],
                    !.count = @ - Cardinality(gone)]
  BY <1>3 DEF ClockRemovePage
<1>5. gone \subseteq TrackedIn(c) /\ IsFiniteSet(TrackedIn(c)) /\ IsFiniteSet(gone)
  <2>1. gone \subseteq TrackedIn(c) /\ TrackedIn(c) \subseteq Positions
    BY <1>1 DEF TrackedIn
  <2> QED BY <2>1, SizesFinite, FS_Subset
<1> HIDE DEF gone
<1> DEFINE E == [i \in Positions |-> IF i \in gone THEN EmptyEntry ELSE c.entries[i]]
<1>6. /\ d = [entries |-> E, hand |-> c.hand, count |-> c.count - Cardinality(gone)]
      /\ E \in [Positions -> [frame : Frames \cup {None}, page : Pages \cup {None}]]
      /\ \A i \in Positions : d.entries[i] = IF i \in gone THEN EmptyEntry ELSE c.entries[i]
  <2>1. c = [entries |-> c.entries, hand |-> c.hand, count |-> c.count]
        /\ c.entries \in [Positions -> [frame : Frames \cup {None}, page : Pages \cup {None}]]
    BY DEF CountedOnce, ClockType
  <2>2. EmptyEntry \in [frame : Frames \cup {None}, page : Pages \cup {None}]
    BY DEF EmptyEntry
  <2>3. d = [entries |-> E, hand |-> c.hand, count |-> c.count - Cardinality(gone)]
    BY <1>4, <2>1
  <2>4. E \in [Positions -> [frame : Frames \cup {None}, page : Pages \cup {None}]]
    BY <2>1, <2>2
  <2> QED BY <2>3, <2>4
<1>7. TrackedIn(d) = TrackedIn(c) \ gone
  BY <1>6 DEF TrackedIn, EmptyEntry
<1>8. Cardinality(TrackedIn(d)) = Cardinality(TrackedIn(c)) - Cardinality(gone)
  <2>1. TrackedIn(c) \cap gone = gone
    BY <1>5
  <2> QED BY <1>5, <1>7, <2>1, FS_Difference
<1>9. Cardinality(gone) \in Nat /\ Cardinality(TrackedIn(c)) \in Nat
  BY <1>5, FS_CardinalityType
<1>10. d \in ClockType
  <2>1. c.hand \in Positions /\ c.count \in Int
    BY DEF CountedOnce, ClockType
  <2> HIDE DEF E
  <2> QED BY <1>6, <1>9, <2>1 DEF ClockType
<1>11. /\ d.count = Cardinality(TrackedIn(d)) /\ d.hand = c.hand
  <2> HIDE DEF E
  <2> QED BY <1>6, <1>8 DEF CountedOnce
<1>12. /\ \A i, j \in TrackedIn(d) : d.entries[i].frame = d.entries[j].frame => i = j
       /\ \A i \in TrackedIn(d) : d.entries[i].page \in Pages
  BY <1>6, <1>7 DEF CountedOnce, TrackedIn
<1>13. CountedOnce(d)
  BY <1>10, <1>11, <1>12 DEF CountedOnce
<1> QED BY <1>6, <1>11, <1>13 DEF gone

\* clock_add_page fills an empty entry, unless the clock is full.
LEMMA AddFact ==
    ASSUME NEW c, CountedOnce(c), NEW f \in Frames, NEW p \in Pages,
           \A i \in Positions : c.entries[i].frame # f,
           NEW d, d = ClockAddPage(c, f, p)
    PROVE  /\ CountedOnce(d) /\ d.hand = c.hand
           /\ \A i \in Positions :
                \/ d.entries[i] = c.entries[i]
                \/ d.entries[i] = [frame |-> f, page |-> p] /\ c.entries[i].frame = None
<1>1. CASE c.count >= CLOCK_SIZE \/ PositionsOf(c, None) = {}
  BY <1>1 DEF ClockAddPage
<1>2. CASE ~ (c.count >= CLOCK_SIZE \/ PositionsOf(c, None) = {})
  <2> DEFINE k == First(PositionsOf(c, None))
  <2>1. k \in Positions /\ c.entries[k].frame = None
    <3>1. PositionsOf(c, None) \subseteq Nat
      BY SizesAssumption DEF PositionsOf, Positions
    <3> QED BY <1>2, <3>1, FirstFact DEF PositionsOf
  <2>2. d = [c EXCEPT !.entries[k] = [frame |-> f, page |-> p], !.count = @ + 1]
    BY <1>2 DEF ClockAddPage
  <2> HIDE DEF k
  <2> DEFINE E == [c.entries EXCEPT ![k] = [frame |-> f, page |-> p]]
  <2>10. /\ c = [entries |-> c.entries, hand |-> c.hand, count |-> c.count]
         /\ c.entries \in [Positions -> [frame : Frames \cup {None}, page : Pages \cup {None}]]
         /\ c.hand \in Positions /\ c.count \in Int
    BY DEF CountedOnce, ClockType
  <2>11. d = [entries |-> E, hand |-> c.hand, count |-> c.count + 1]
    BY <2>2, <2>10
  <2>12. E \in [Positions -> [frame : Frames \cup {None}, page : Pages \cup {None}]]
    BY <2>10
  <2>3. d.hand = c.hand /\ d.count = c.count + 1 /\ d.entries = E /\ d \in ClockType
    <3> HIDE DEF E
    <3> QED BY <2>10, <2>11, <2>12 DEF ClockType
  <2>4. /\ d.entries[k] = [frame |-> f, page |-> p]
        /\ \A i \in Positions \ {k} : d.entries[i] = c.entries[i]
    BY <2>1, <2>3, <2>10
  <2>5. f # None
    BY FramesAssumption
  <2>6. TrackedIn(d) = TrackedIn(c) \cup {k} /\ k \notin TrackedIn(c)
    BY <2>1, <2>4, <2>5 DEF TrackedIn
  <2>7. Cardinality(TrackedIn(d)) = Cardinality(TrackedIn(c)) + 1
    <3>1. IsFiniteSet(TrackedIn(c))
      <4>1. TrackedIn(c) \subseteq Positions
        BY DEF TrackedIn
      <4> QED BY <4>1, SizesFinite, FS_Subset
    <3> QED BY <2>6, <3>1, FS_AddElement
  <2>8. \A i, j \in TrackedIn(d) : d.entries[i].frame = d.entries[j].frame => i = j
    BY <2>1, <2>4, <2>6 DEF CountedOnce, TrackedIn
  <2>9. \A i \in TrackedIn(d) : d.entries[i].page \in Pages
    <3>1. \A i \in TrackedIn(c) : c.entries[i].page \in Pages /\ i \in Positions
      BY DEF CountedOnce, TrackedIn
    <3> QED BY <2>4, <2>6, <3>1
  <2> QED BY <2>1, <2>3, <2>4, <2>7, <2>8, <2>9 DEF CountedOnce
<1> QED BY <1>1, <1>2

\* Adding a page and taking it out again, as the loader does, changes nothing
\* for the other frames.
LEMMA PinFact ==
    ASSUME NEW c, CountedOnce(c), NEW f \in Frames, NEW p \in Pages,
           \A i \in Positions : c.entries[i].frame # f,
           NEW d, d = ClockRemovePage(ClockAddPage(c, f, p), {f})
    PROVE  /\ CountedOnce(d) /\ d.hand = c.hand
           /\ \A i \in Positions :
                d.entries[i] = c.entries[i] \/ (d.entries[i] = EmptyEntry /\ c.entries[i].frame = None)
<1> DEFINE a == ClockAddPage(c, f, p)
<1>1. /\ CountedOnce(a) /\ a.hand = c.hand
      /\ \A i \in Positions :
            \/ a.entries[i] = c.entries[i]
            \/ a.entries[i] = [frame |-> f, page |-> p] /\ c.entries[i].frame = None
  BY AddFact
<1> HIDE DEF a
<1>2. d = ClockRemovePage(a, {f}) /\ {f} \in SUBSET Frames
  BY DEF a
<1>3. /\ CountedOnce(d) /\ d.hand = a.hand
      /\ \A i \in Positions :
            d.entries[i] = IF a.entries[i].frame \in {f} THEN EmptyEntry ELSE a.entries[i]
  <2>1. CountedOnce(a)
    BY <1>1
  <2> QED BY ONLY <1>2, <2>1, RemoveFact
<1> QED BY <1>1, <1>3

\* The frames that are in use but no page's.
Owned == TableFrames \cup kernel \cup InHand

FramesUnder(S) == {pte[p].at : p \in {q \in S : IsPresent(q)}}

\* A frame in use that is a page's or nobody's stays so, unless it is evicted or
\* unmapped.
LEMMA OwnedStep ==
    ASSUME VInv, [Next]_vars, NEW f \in g_frame_alloc.used, f \notin Owned
    PROVE  \/ f \in g_frame_alloc'.used /\ f \notin Owned'
           \/ Evict /\ f = Entry.frame
           \/ \E S \in SUBSET Pages, spare \in {{}, InHand} :
                UnmapPages(S, spare) /\ f \in FramesUnder(S)
<1> USE DEF memory, task, caller
<1>0. TypeOK /\ AllocInv /\ FramesSound
  BY DEF VInv, CallInv
<1> DEFINE kept == f \in g_frame_alloc'.used /\ f \notin Owned'
           lost == \E S \in SUBSET Pages, spare \in {{}, InHand} :
                        UnmapPages(S, spare) /\ f \in FramesUnder(S)
<1>1. ASSUME UNCHANGED <<g_frame_alloc, table, kernel>>, InHand' \subseteq InHand PROVE kept
  BY <1>1 DEF Owned, TableFrames, OwnTables
<1>2. ASSUME UNCHANGED <<got, held>> PROVE InHand' = InHand
  BY <1>2 DEF InHand
<1>3. ASSUME NEW s, Ask(s), alloc = "idle", UNCHANGED kernel PROVE kept
  <2>1. \/ UNCHANGED <<g_frame_alloc, got>>
        \/ got' = None /\ UNCHANGED g_frame_alloc
        \/ /\ got' \in Frames /\ got' \notin g_frame_alloc.used
           /\ g_frame_alloc'.used = g_frame_alloc.used \cup {got'}
    BY <1>3 DEF Ask, TakeFree, StartScan, FrameTaken
  <2>2. UNCHANGED <<table, held, kernel>>
    BY <1>3 DEF Ask
  <2> QED BY <2>1, <2>2 DEF Owned, TableFrames, OwnTables, InHand
<1>4. ASSUME NEW S \in SUBSET Pages, NEW spare \in {{}, InHand}, UnmapPages(S, spare),
             UNCHANGED kernel, InHand' \subseteq InHand
      PROVE  kept \/ lost
  <2>1. /\ g_frame_alloc' = FrameFree(g_frame_alloc, FramesUnder(S) \cup spare)
        /\ UNCHANGED table
    BY <1>4 DEF UnmapPages, FramesUnder
  <2>2. g_frame_alloc'.used = g_frame_alloc.used \ (FramesUnder(S) \cup spare)
    BY <2>1 DEF FrameFree
  <2>3. f \notin spare
    BY DEF Owned
  <2>4. f \notin Owned'
    BY <1>4, <2>1 DEF Owned, TableFrames, OwnTables
  <2> QED BY <1>4, <2>2, <2>3, <2>4
<1>5. CASE ClockScan
  <2>1. CASE SkipEmpty \/ DropStale \/ SecondChance \/ SwapOutFails \/ GiveUp
    BY <1>1, <1>2, <2>1
       DEF SkipEmpty, DropStale, SecondChance, SwapOutFails, GiveUp, ScanStep, Continues
  <2>2. CASE Evict
    BY <2>2 DEF Evict, ScanStep, Owned, TableFrames, OwnTables, InHand
  <2> QED BY <1>5, <2>1, <2>2 DEF ClockScan
<1>6. ASSUME NEW known \in 0 .. ImagePages, UNCHANGED kernel, InHand' \subseteq InHand,
             CleanupMappings(known, {}) \/ CleanupMappings(known, InHand)
      PROVE  kept \/ lost
  BY <1>4, <1>6, CleanupPages DEF CleanupMappings
<1>7. CASE Load
  <2>1. ASSUME NEW n \in Image, NEW known \in 0 .. ImagePages, Launch(n, known) PROVE kept \/ lost
    BY <1>2, <1>6, <2>1 DEF Launch, StartLoad
  <2>2. ASSUME NEW n \in Image, Execve(n) PROVE kept \/ lost
    BY <1>0, <1>2, <1>6, <2>2 DEF Execve, StartLoad, TypeOK
  <2>3. CASE LoadRejected
    BY <1>0, <1>2, <1>6, <2>3 DEF LoadRejected, TypeOK
  <2>4. CASE LoadFails
    <3>1. InHand' \subseteq InHand
      BY <2>4 DEF LoadFails, Taken, InHand
    <3> QED BY <1>0, <1>6, <2>4, <3>1 DEF LoadFails, TypeOK
  <2>5. ASSUME NEW lo \in Image, NEW hi \in Image, Segment(lo, hi) PROVE kept
    BY <1>0, <1>3, <2>5 DEF Segment, Loaded, AllocInv
  <2>6. CASE MarkDemand \/ MarkDone \/ Readd \/ EnterRing3 \/ SegmentCopied \/ ArgvBuilt
    BY <1>1, <1>2, <2>6 DEF MarkDemand, MarkDone, Readd, EnterRing3, SegmentCopied, ArgvBuilt
  <2> QED BY <1>7, <2>1, <2>2, <2>3, <2>4, <2>5, <2>6 DEF Load
<1>8. CASE Program
  <2>1. CASE Exit
    BY <1>0, <1>2, <1>6, <2>1 DEF Exit, TypeOK
  <2> QED BY <1>1, <1>2, <1>3, <1>8, <2>1
             DEF Program, Access, Segfault, PageFault, CopyOut, Mmap, Idle
<1>9. CASE Handler
  <2>1. CASE NeedsFrame \/ NeedsTable \/ FaultIn
    BY <1>3, <2>1 DEF NeedsFrame, NeedsTable, FaultIn, Prefault
  <2>2. CASE FrameGot \/ MapHeld \/ FaultFails \/ GrowthLost \/ DemandZero \/ SwapInPage
    <3>1. InHand' \subseteq InHand
      BY <2>2 DEF FrameGot, MapHeld, FaultFails, GrowthLost, DemandZero, SwapInPage, Taken, InHand
    <3> QED BY <1>1, <2>2, <3>1 DEF FrameGot, MapHeld, FaultFails, GrowthLost, DemandZero, SwapInPage
  <2>3. CASE TableGot
    <3>1. \A t \in Tables : table'[t] = table[t] \/ table'[t] = got
      BY <1>0, <2>3 DEF TableGot, TypeOK
    <3>2. TableFrames' \subseteq TableFrames \cup {got}
      BY <3>1 DEF TableFrames, OwnTables
    <3>3. got \in InHand /\ InHand' \subseteq InHand /\ UNCHANGED <<g_frame_alloc, kernel>>
      BY <2>3 DEF TableGot, Taken, InHand
    <3> QED BY <3>2, <3>3 DEF Owned
  <2>4. CASE MmapFails
    <3>1. {p \in span : p < Page} \in SUBSET Pages /\ InHand' \subseteq InHand
      BY <1>0, <2>4 DEF MmapFails, Taken, InHand, TypeOK
    <3> QED BY <1>4, <2>4, <3>1 DEF MmapFails
  <2>5. CASE SwapInFails
    <3>1. /\ g_frame_alloc'.used = g_frame_alloc.used \ {got} /\ got \in InHand
          /\ InHand' \subseteq InHand /\ UNCHANGED <<table, kernel>>
      BY <2>5 DEF SwapInFails, FrameFree, Taken, InHand
    <3> QED BY <3>1 DEF Owned, TableFrames, OwnTables
  <2>6. CASE AlreadyThere \/ Denied \/ CopyOutEnds
    BY <1>1, <1>2, <2>6 DEF AlreadyThere, Denied, CopyOutEnds
  <2> QED BY <1>9, <2>1, <2>2, <2>3, <2>4, <2>5, <2>6 DEF Handler
<1>10. CASE Kernel
  <2>1. ASSUME NEW k \in Frames, KernelTakes(k) PROVE kept
    BY <2>1 DEF KernelTakes, FrameTaken, Owned, TableFrames, OwnTables, InHand
  <2>2. ASSUME NEW k \in Frames, KernelGives(k) PROVE kept
    BY <2>2 DEF KernelGives, FrameFree, Owned, TableFrames, OwnTables, InHand
  <2>3. CASE KernelPage
    BY <1>3, <2>3 DEF KernelPage, KernelIdle, Idle
  <2>4. CASE KernelPageEnds
    BY <2>4 DEF KernelPageEnds, Taken, Owned, TableFrames, OwnTables, InHand
  <2> QED BY <1>10, <2>1, <2>2, <2>3, <2>4 DEF Kernel
<1>11. CASE UNCHANGED vars
  BY <1>1, <1>2, <1>11 DEF vars
<1> QED BY <1>5, <1>7, <1>8, <1>9, <1>10, <1>11 DEF Next, Halted

\* What a clock entry says of its frame stays true.
LEMMA EntryKept ==
    ASSUME VInv, [Next]_vars, NEW i \in Tracked
    PROVE  LET e == g_clock.entries[i]
           IN  \/ /\ e.frame \in g_frame_alloc'.used /\ e.frame \notin Owned'
                  /\ \A p \in Mapped' : pte'[p].at = e.frame => p = e.page
               \/ Evict /\ i = g_clock.hand
               \/ \E S \in SUBSET Pages, spare \in {{}, InHand} :
                    UnmapPages(S, spare) /\ e.frame \in FramesUnder(S)
<1> DEFINE f == g_clock.entries[i].frame
           q == g_clock.entries[i].page
<1>0. TypeOK /\ AllocInv /\ ClockSound
  BY DEF VInv, CallInv
<1>1. /\ f \in g_frame_alloc.used /\ f \notin Owned
      /\ \A p \in Mapped : pte[p].at = f => p = q
  BY <1>0 DEF ClockSound, Owned
<1>2. Evict /\ f = Entry.frame => i = g_clock.hand
  <2>1. Evict => g_clock.hand \in Tracked
    BY <1>0 DEF Evict, IsVictim, Entry, Tracked, TypeOK
  <2> QED BY <1>0, <2>1 DEF ClockSound, Entry
<1> HIDE DEF f, q
<1>3. \A p \in Mapped' : pte'[p].at = f => p = q
  <2>1. ASSUME \A p \in Mapped' : p \in Mapped /\ pte'[p].at = pte[p].at PROVE \A p \in Mapped' : pte'[p].at = f => p = q
    BY <1>1, <2>1
  <2>2. CASE PteQuiet
    BY <2>1, <2>2 DEF PteQuiet, Mapped, IsPresent
  <2>3. CASE Evict
    <3>1. Entry.page \in Pages
      BY <1>0, <2>3 DEF Evict, IsVictim, Entry, VInv, EntryInv, Tracked, TypeOK
    <3>2. /\ pte'[Entry.page].kind = "swapped"
          /\ \A p \in Pages \ {Entry.page} : pte'[p] = pte[p]
      BY <1>0, <2>3, <3>1 DEF Evict, Swapped, TypeOK
    <3> QED BY <2>1, <3>2 DEF Mapped, IsPresent
  <2>4. CASE MarkDemand
    <3>1. Page \in Pages
      BY <1>0, <2>4, PageFact DEF MarkDemand
    <3>2. /\ pte'[Page].kind = "demand" /\ \A p \in Pages \ {Page} : pte'[p] = pte[p]
      BY <1>0, <2>4, <3>1 DEF MarkDemand, Demand, NoPte, TypeOK
    <3> QED BY <2>1, <3>2 DEF Mapped, IsPresent
  <2>5. ASSUME NEW g \in InHand, pte'[Page].at = g, \A p \in Pages \ {Page} : pte'[p] = pte[p]
        PROVE  \A p \in Mapped' : pte'[p].at = f => p = q
    <3>1. f # g
      BY <1>1, <2>5 DEF Owned
    <3> QED BY <1>1, <2>5, <3>1 DEF Mapped, IsPresent
  <2>6. CASE MapHeld
    <3>1. Page \in Pages /\ held \in InHand
      BY <1>0, <2>6, PageFact DEF MapHeld, VInv, CallInv, HeldInv, InHand
    <3>2. /\ pte'[Page].at = held /\ \A p \in Pages \ {Page} : pte'[p] = pte[p]
      BY <1>0, <2>6, <3>1 DEF MapHeld, Present, TypeOK
    <3> QED BY <2>5, <3>1, <3>2
  <2>7. CASE DemandZero \/ SwapInPage
    <3>1. Page \in Pages /\ got \in InHand
      BY <1>0, <2>7, PageFact DEF DemandZero, SwapInPage, Done, AllocInv, InHand
    <3>2. /\ pte'[Page].at = got /\ \A p \in Pages \ {Page} : pte'[p] = pte[p]
      BY <1>0, <2>7, <3>1 DEF DemandZero, SwapInPage, Present, TypeOK
    <3> QED BY <2>5, <3>1, <3>2
  <2>8. CASE Unmaps
    BY <2>1, <2>8, UnmapEntries DEF Unmaps, Mapped
  <2> QED BY <2>2, <2>3, <2>4, <2>6, <2>7, <2>8, PteCases
<1> QED BY <1>1, <1>2, <1>3, OwnedStep DEF f, q

\* The clock as an operator of the state.
LEMMA ClockFact ==
    ASSUME TypeOK, EntryInv, ClockSound
    PROVE  CountedOnce(g_clock) /\ Tracked = TrackedIn(g_clock)
<1>1. Tracked = TrackedIn(g_clock)
  BY DEF Tracked, TrackedIn
<1>2. g_clock \in ClockType
  BY SizesAssumption DEF TypeOK, ClockType
<1> QED BY <1>1, <1>2 DEF CountedOnce, ClockSound, EntryInv

\* Moving the hand leaves the entries alone.
LEMMA HandFact ==
    ASSUME NEW c, CountedOnce(c)
    PROVE  LET d == [c EXCEPT !.hand = (@ + 1) % CLOCK_SIZE]
           IN  CountedOnce(d) /\ d.entries = c.entries /\ d.hand \in Positions
<1> DEFINE h == (c.hand + 1) % CLOCK_SIZE
           d == [c EXCEPT !.hand = (@ + 1) % CLOCK_SIZE]
<1>1. c = [entries |-> c.entries, hand |-> c.hand, count |-> c.count]
      /\ c.entries \in [Positions -> [frame : Frames \cup {None}, page : Pages \cup {None}]]
      /\ c.hand \in Positions /\ c.count \in Int
  BY DEF CountedOnce, ClockType
<1>2. d = [entries |-> c.entries, hand |-> h, count |-> c.count]
  BY <1>1
<1>3. h \in Positions
  BY <1>1, SizesAssumption DEF Positions
<1> HIDE DEF d, h
<1>4. d \in ClockType /\ TrackedIn(d) = TrackedIn(c) /\ d.entries = c.entries /\ d.count = c.count
      /\ d.hand \in Positions
  BY <1>1, <1>2, <1>3 DEF ClockType, TrackedIn
<1>5. CountedOnce(d)
  BY <1>4 DEF CountedOnce
<1> QED BY <1>4, <1>5 DEF d

\* The clock a step leaves: an entry is an old one, or it records a page that the
\* loader no longer pins, with the frame that is mapped there.
ClockMove ==
    /\ CountedOnce(g_clock')
    /\ \A i \in TrackedIn(g_clock') :
        LET e == g_clock'.entries[i]
        IN  \/ i \in Tracked /\ e = g_clock.entries[i]
            \/ e.page \in Mapped' /\ pte'[e.page].at = e.frame /\ e.page \notin Pinned'

\* What a step does to the clock.
LEMMA ClockCases ==
    ASSUME VInv, [Next]_vars
    PROVE  ClockMove
<1> USE DEF memory, task, caller
<1>0. /\ TypeOK /\ AllocInv /\ CountedOnce(g_clock) /\ Tracked = TrackedIn(g_clock)
      /\ EntryInv /\ ClockSound
  BY ClockFact DEF VInv, CallInv
<1>1. ASSUME g_clock'.entries = g_clock.entries, CountedOnce(g_clock') PROVE ClockMove
  BY <1>0, <1>1 DEF ClockMove, TrackedIn
<1>2. ASSUME UNCHANGED g_clock PROVE ClockMove
  BY <1>0, <1>1, <1>2
<1>3. ASSUME g_clock' = HandAdvanced PROVE ClockMove
  BY <1>0, <1>1, <1>3, HandFact DEF HandAdvanced
<1>4. ASSUME CountedOnce(g_clock'),
             \A i \in Positions : g_clock'.entries[i] = g_clock.entries[i]
                                  \/ g_clock'.entries[i].frame = None
      PROVE  ClockMove
  BY <1>0, <1>4 DEF ClockMove, TrackedIn
<1>5. ASSUME NEW S \in SUBSET Pages, NEW spare, UnmapPages(S, spare) PROVE ClockMove
  <2>1. g_clock' = ClockRemovePage(g_clock, FramesUnder(S))
    BY <1>5 DEF UnmapPages, FramesUnder
  <2>2. FramesUnder(S) \in SUBSET Frames
    BY DEF FramesUnder, VInv, PteInv
  <2>3. /\ CountedOnce(g_clock')
        /\ \A i \in Positions : g_clock'.entries[i] = IF g_clock.entries[i].frame \in FramesUnder(S)
                                                     THEN EmptyEntry ELSE g_clock.entries[i]
    BY <1>0, <2>1, <2>2, RemoveFact
  <2> QED BY <1>4, <2>3 DEF EmptyEntry
<1>6. ASSUME NEW f \in Frames, NEW p \in Pages, g_clock' = ClockAddPage(g_clock, f, p),
             \A i \in Positions : g_clock.entries[i].frame # f,
             p \in Mapped', pte'[p].at = f, p \notin Pinned'
      PROVE  ClockMove
  <2>1. /\ CountedOnce(g_clock')
        /\ \A i \in Positions :
            \/ g_clock'.entries[i] = g_clock.entries[i]
            \/ g_clock'.entries[i] = [frame |-> f, page |-> p]
    BY <1>0, <1>6, AddFact
  <2> QED BY <1>0, <1>6, <2>1 DEF ClockMove, TrackedIn
<1>7. ASSUME NEW s, Ask(s) PROVE ClockMove
  BY <1>2, <1>7 DEF Ask
<1>8. \A f \in InHand, i \in Positions : g_clock.entries[i].frame # f
  BY <1>0, FramesAssumption DEF ClockSound, Tracked, InHand
<1>9. CASE ClockScan
  <2>1. CASE GiveUp
    BY <1>2, <2>1 DEF GiveUp
  <2>2. CASE SkipEmpty \/ SecondChance \/ SwapOutFails
    BY <1>3, <2>2 DEF SkipEmpty, SecondChance, SwapOutFails
  <2>3. CASE DropStale
    <3>1. Entry.frame \in Frames /\ CountedOnce(HandAdvanced) /\ HandAdvanced.entries = g_clock.entries
      BY <1>0, <2>3, HandFact DEF DropStale, HandAdvanced, Entry, TypeOK
    <3>2. g_clock' = ClockRemovePage(HandAdvanced, {Entry.frame}) /\ {Entry.frame} \in SUBSET Frames
      BY <2>3, <3>1 DEF DropStale
    <3>3. /\ CountedOnce(g_clock')
          /\ \A i \in Positions :
                g_clock'.entries[i] = IF HandAdvanced.entries[i].frame \in {Entry.frame}
                                      THEN EmptyEntry ELSE HandAdvanced.entries[i]
      <4>1. CountedOnce(HandAdvanced)
        BY <3>1
      <4> QED BY ONLY <3>2, <4>1, RemoveFact
    <3> QED BY <1>4, <3>1, <3>3 DEF EmptyEntry
  <2>4. CASE Evict
    <3> DEFINE c == HandAdvanced
               h == g_clock.hand
               E == [c.entries EXCEPT ![h] = EmptyEntry]
    <3>1. /\ h \in Tracked /\ h \in Positions
          /\ CountedOnce(c) /\ c.entries = g_clock.entries
      BY <1>0, <2>4, HandFact DEF Evict, IsVictim, Entry, HandAdvanced, Tracked, TypeOK
    <3>2. g_clock' = [c EXCEPT !.entries[h] = EmptyEntry, !.count = @ - 1]
      BY <2>4 DEF Evict
    <3> HIDE DEF c, h
    <3>3. /\ c = [entries |-> c.entries, hand |-> c.hand, count |-> c.count]
          /\ c.entries \in [Positions -> [frame : Frames \cup {None}, page : Pages \cup {None}]]
          /\ c.hand \in Positions /\ c.count \in Int
      BY <3>1 DEF CountedOnce, ClockType
    <3>4. g_clock' = [entries |-> E, hand |-> c.hand, count |-> c.count - 1]
      BY <3>2, <3>3
    <3>5. /\ E \in [Positions -> [frame : Frames \cup {None}, page : Pages \cup {None}]]
          /\ E[h] = EmptyEntry /\ \A i \in Positions \ {h} : E[i] = c.entries[i]
      BY <3>1, <3>3 DEF EmptyEntry
    <3> HIDE DEF E
    <3>6. g_clock' \in ClockType /\ g_clock'.entries = E /\ g_clock'.count = c.count - 1
      BY <3>3, <3>4, <3>5 DEF ClockType
    <3>7. TrackedIn(g_clock') = TrackedIn(c) \ {h} /\ h \in TrackedIn(c)
      BY <1>0, <3>1, <3>5, <3>6 DEF TrackedIn, EmptyEntry
    <3>8. Cardinality(TrackedIn(c) \ {h}) = Cardinality(TrackedIn(c)) - 1
      <4>1. TrackedIn(c) \subseteq Positions
        BY DEF TrackedIn
      <4>2. IsFiniteSet(TrackedIn(c))
        BY <4>1, SizesFinite, FS_Subset
      <4> QED BY <3>7, <4>2, FS_RemoveElement
    <3>9. \A i \in TrackedIn(g_clock') : i \in TrackedIn(c) /\ g_clock'.entries[i] = c.entries[i]
      BY <3>5, <3>6, <3>7 DEF TrackedIn
    <3>10. CountedOnce(g_clock')
      BY <3>1, <3>6, <3>7, <3>8, <3>9 DEF CountedOnce
    <3> QED BY <1>4, <3>1, <3>5, <3>6, <3>10 DEF EmptyEntry
  <2> QED BY <1>9, <2>1, <2>2, <2>3, <2>4 DEF ClockScan
<1>10. ASSUME NEW known \in 0 .. ImagePages, CleanupMappings(known, {}) \/ CleanupMappings(known, InHand)
       PROVE  ClockMove
  BY <1>5, <1>10, CleanupPages DEF CleanupMappings
<1>11. CASE Load
  <2>1. ASSUME NEW n \in Image, NEW known \in 0 .. ImagePages, Launch(n, known) PROVE ClockMove
    BY <1>10, <2>1 DEF Launch, StartLoad
  <2>2. ASSUME NEW n \in Image, Execve(n) PROVE ClockMove
    BY <1>0, <1>10, <2>2 DEF Execve, StartLoad, TypeOK
  <2>3. CASE LoadRejected \/ LoadFails
    BY <1>0, <1>10, <2>3 DEF LoadRejected, LoadFails, TypeOK
  <2>4. CASE Readd
    <3>1. Page \in todo /\ Page \in Pages
      BY <1>0, <2>4, PageFact DEF Readd
    <3>2. CASE IsPresent(Page)
      <4>1. pte[Page].at \in Frames /\ Page \in Mapped' /\ pte'[Page].at = pte[Page].at
        BY <2>4, <3>1, <3>2 DEF Readd, Mapped, IsPresent, VInv, PteInv
      <4>2. Page \in Pinned /\ Page \notin Pinned'
        BY <2>4, <3>1 DEF Readd, Pinned
      <4>3. \A i \in Positions : g_clock.entries[i].frame # pte[Page].at
        BY <3>2, <4>2 DEF VInv, PinnedInv
      <4> QED BY <1>6, <2>4, <3>1, <3>2, <4>1, <4>2, <4>3 DEF Readd
    <3> QED BY <1>2, <2>4, <3>2 DEF Readd
  <2>5. ASSUME NEW lo \in Image, NEW hi \in Image, Segment(lo, hi) PROVE ClockMove
    BY <1>7, <2>5 DEF Segment
  <2>6. CASE MarkDemand \/ MarkDone \/ EnterRing3 \/ SegmentCopied \/ ArgvBuilt
    BY <1>2, <2>6 DEF MarkDemand, MarkDone, EnterRing3, SegmentCopied, ArgvBuilt
  <2> QED BY <1>11, <2>1, <2>2, <2>3, <2>4, <2>5, <2>6 DEF Load
<1>12. CASE Program
  <2>1. CASE Exit
    BY <1>0, <1>10, <2>1 DEF Exit, TypeOK
  <2> QED BY <1>2, <1>7, <1>12, <2>1 DEF Program, Access, Segfault, PageFault, CopyOut, Mmap
<1>13. CASE Handler
  <2>1. CASE MapHeld
    <3>1. Page \in Pages /\ held \in Frames /\ held \in InHand
          /\ op \in {"stack", "segment", "mmap", "fault", "out"}
      BY <1>0, <2>1, PageFact DEF MapHeld, VInv, CallInv, HeldInv, InHand, TypeOK
    <3>2. Page \in Mapped' /\ pte'[Page].at = held
      BY <1>0, <2>1, <3>1 DEF MapHeld, Present, Mapped, IsPresent, TypeOK
    <3>3. CASE op \in {"stack", "segment"}
      <4>1. g_clock' = ClockRemovePage(ClockAddPage(g_clock, held, Page), {held})
        BY <2>1, <3>3 DEF MapHeld
      <4>2. /\ CountedOnce(g_clock')
            /\ \A i \in Positions :
                \/ g_clock'.entries[i] = g_clock.entries[i]
                \/ g_clock'.entries[i] = EmptyEntry
        BY <1>0, <1>8, <3>1, <4>1, PinFact
      <4> QED BY <1>4, <4>2 DEF EmptyEntry
    <3>4. CASE op \notin {"stack", "segment"}
      <4>1. g_clock' = ClockAddPage(g_clock, held, Page)
        BY <2>1, <3>4 DEF MapHeld
      <4>2. op' \in {"mmap", "fault", "out", "none"}
        BY <2>1, <3>1, <3>4 DEF MapHeld, PageDone
      <4>3. Page \notin Pinned'
        BY <4>2 DEF Pinned
      <4> QED BY <1>6, <1>8, <3>1, <3>2, <4>1, <4>3
    <3> QED BY <3>3, <3>4
  <2>2. CASE SwapInPage
    <3>1. Page \in Pages /\ got \in Frames /\ got \in InHand
      BY <1>0, <2>2, PageFact DEF SwapInPage, Done, AllocInv, InHand, TypeOK
    <3>2. Page \in Mapped' /\ pte'[Page].at = got /\ g_clock' = ClockAddPage(g_clock, got, Page)
      BY <1>0, <2>2, <3>1 DEF SwapInPage, Present, Mapped, IsPresent, TypeOK
    <3>3. op' \in {"fault", "out", "none"}
      BY <2>2 DEF SwapInPage, PageDone
    <3>4. Page \notin Pinned'
      BY <3>3 DEF Pinned
    <3> QED BY <1>6, <1>8, <3>1, <3>2, <3>4
  <2>3. CASE MmapFails
    <3>1. {p \in span : p < Page} \in SUBSET Pages
      BY <1>0 DEF TypeOK
    <3> QED BY <1>5, <2>3, <3>1 DEF MmapFails
  <2> QED BY <1>2, <1>7, <1>13, <2>1, <2>2, <2>3
             DEF Handler, NeedsFrame, FrameGot, NeedsTable, TableGot, FaultFails, GrowthLost,
                 DemandZero, SwapInFails, AlreadyThere, FaultIn, Denied, CopyOutEnds
<1>14. CASE Kernel
  BY <1>2, <1>7, <1>14 DEF Kernel, KernelTakes, KernelGives, KernelPage, KernelPageEnds
<1>15. CASE UNCHANGED vars
  BY <1>2, <1>15 DEF vars
<1> QED BY <1>9, <1>11, <1>12, <1>13, <1>14, <1>15 DEF Next, Halted

\* The clock stays sound: what it records is what eviction may hand out.
LEMMA ClockStep ==
    ASSUME VInv, [Next]_vars
    PROVE  ClockSound' /\ EntryInv'
<1>1. ClockMove /\ FramesSound'
  BY ClockCases, FramesStep
<1>2. Tracked' = TrackedIn(g_clock')
  BY DEF Tracked, TrackedIn
<1>3. EntryInv' /\ g_clock'.count = Cardinality(Tracked')
      /\ \A i, j \in Tracked' : g_clock'.entries[i].frame = g_clock'.entries[j].frame => i = j
  BY <1>1, <1>2 DEF ClockMove, CountedOnce, EntryInv
<1>4. ASSUME NEW i \in Tracked'
      PROVE  LET e == g_clock'.entries[i]
             IN  /\ e.frame \in g_frame_alloc'.used /\ e.frame \notin Owned'
                 /\ \A p \in Mapped' : pte'[p].at = e.frame => p = e.page
  <2>1. CASE i \in Tracked /\ g_clock'.entries[i] = g_clock.entries[i]
    <3>1. Evict => i # g_clock.hand
      <4>1. Evict => g_clock'.entries[g_clock.hand] = EmptyEntry
        BY HandFact, ClockFact DEF Evict, HandAdvanced, VInv, CountedOnce, ClockType
      <4> QED BY <1>4, <4>1 DEF EmptyEntry, Tracked
    <3>2. ASSUME NEW S \in SUBSET Pages, NEW spare, UnmapPages(S, spare)
          PROVE  g_clock.entries[i].frame \notin FramesUnder(S)
      <4>1. g_clock' = ClockRemovePage(g_clock, FramesUnder(S)) /\ CountedOnce(g_clock)
        BY <3>2, ClockFact DEF UnmapPages, FramesUnder, VInv
      <4>2. FramesUnder(S) \in SUBSET Frames
        BY DEF FramesUnder, VInv, PteInv
      <4>3. \A k \in Positions : g_clock'.entries[k] = IF g_clock.entries[k].frame \in FramesUnder(S)
                                                       THEN EmptyEntry ELSE g_clock.entries[k]
        BY <4>1, <4>2, RemoveFact
      <4> QED BY <1>4, <4>3 DEF EmptyEntry, Tracked
    <3> QED BY <2>1, <3>1, <3>2, EntryKept
  <2>2. CASE LET e == g_clock'.entries[i]
             IN  e.page \in Mapped' /\ pte'[e.page].at = e.frame
    BY <1>1, <2>2 DEF FramesSound, DataFrames, Owned
  <2> QED BY <1>1, <1>2, <2>1, <2>2 DEF ClockMove
<1> QED BY <1>3, <1>4 DEF ClockSound, Owned

-----------------------------------------------------------------------------
(* The calls in progress *)

\* The state of a frame_alloc call stays in step with its caller.
LEMMA AllocStep ==
    ASSUME VInv, [Next]_vars
    PROVE  AllocInv'
<1> USE DEF memory, task, caller
<1>0. TypeOK /\ AllocInv /\ HeldInv
  BY DEF VInv, CallInv
<1>1. ASSUME UNCHANGED <<alloc, got, stage, op, held, todo>> PROVE AllocInv'
  BY <1>0, <1>1 DEF AllocInv
<1>2. ASSUME NEW s, Ask(s)
      PROVE  alloc' \in {"scan", "done"} /\ (alloc' = "scan" => got' = got) /\ stage' = s
             /\ UNCHANGED held
  BY <1>2 DEF Ask, TakeFree, StartScan
<1>3. CASE ClockScan
  BY <1>0, <1>3 DEF ClockScan, SkipEmpty, DropStale, SecondChance, Evict, SwapOutFails, GiveUp,
                    ScanStep, Continues, AllocInv
<1>4. CASE Load
  <2>1. CASE \E n \in Image, known \in 0 .. ImagePages : Launch(n, known)
    BY <1>0, <2>1 DEF Launch, StartLoad, Idle, AllocInv
  <2>2. CASE \E n \in Image : Execve(n)
    BY <1>0, <2>2 DEF Execve, StartLoad, Idle, AllocInv
  <2>3. CASE LoadFails
    BY <1>0, <2>3 DEF LoadFails, Taken, AllocInv
  <2>4. CASE \E lo, hi \in Image : Segment(lo, hi)
    <3>1. PICK lo \in Image, hi \in Image : Segment(lo, hi)
      BY <2>4
    <3>2. Ask("frame") /\ lo \in lo .. hi /\ todo' = lo .. hi /\ op' = "segment" /\ todo = {}
          /\ op \in {"stack", "segment"}
      BY <3>1, SizesAssumption DEF Segment, Loaded, Image
    <3> QED BY <1>0, <1>2, <3>2 DEF AllocInv, HeldInv
  <2>5. CASE MarkDemand \/ MarkDone \/ Readd \/ EnterRing3 \/ SegmentCopied \/ ArgvBuilt \/ LoadRejected
    BY <1>0, <2>5 DEF MarkDemand, MarkDone, Readd, EnterRing3, SegmentCopied, ArgvBuilt,
                      LoadRejected, Loaded, AllocInv, HeldInv
  <2> QED BY <1>4, <2>1, <2>2, <2>3, <2>4, <2>5 DEF Load
<1>5. CASE Program
  <2>1. CASE \E p \in Pages : PageFault(p)
    BY <1>0, <1>2, <2>1 DEF PageFault, Idle, AllocInv
  <2>2. CASE \E lo, hi \in Pages, rw \in BOOLEAN : Mmap(lo, hi, rw)
    <3>1. PICK lo \in Pages, hi \in Pages, rw \in BOOLEAN : Mmap(lo, hi, rw)
      BY <2>2
    <3>2. Ask("frame") /\ lo \in lo .. hi /\ todo' = lo .. hi /\ op' = "mmap" /\ Idle
      BY <3>1, SizesAssumption DEF Mmap, Pages, Top
    <3> QED BY <1>0, <1>2, <3>2 DEF Idle, AllocInv
  <2>3. CASE \E lo, hi \in Pages : CopyOut(lo, hi)
    BY <1>0, <2>3 DEF CopyOut, Idle, AllocInv
  <2> QED BY <1>1, <1>5, <2>1, <2>2, <2>3 DEF Program, Access, Segfault, Exit
<1>6. CASE Handler
  <2>1. CASE NeedsFrame \/ NeedsTable \/ FaultIn
    BY <1>0, <1>2, <2>1 DEF NeedsFrame, NeedsTable, FaultIn, Prefault, AllocInv, HeldInv
  <2>2. CASE FrameGot \/ TableGot
    BY <1>0, <2>2 DEF FrameGot, TableGot, Done, Taken, Mapping, Growing, AllocInv, HeldInv
  <2>3. CASE MapHeld
    BY <1>0, <2>3 DEF MapHeld, PageDone, AllocInv, HeldInv
  <2>4. CASE MmapFails \/ FaultFails
    BY <1>0, <2>4 DEF MmapFails, FaultFails, NoFrame, Unresolved, Taken, AllocInv
  <2>5. CASE GrowthLost \/ DemandZero \/ SwapInPage
    BY <1>0, <2>5 DEF GrowthLost, DemandZero, SwapInPage, Done, Taken, PageDone, AllocInv
  <2>6. CASE SwapInFails
    BY <1>0, <2>6 DEF SwapInFails, Done, Unresolved, Taken, AllocInv
  <2>7. CASE AlreadyThere \/ Denied \/ CopyOutEnds
    BY <1>0, <2>7 DEF AlreadyThere, Denied, CopyOutEnds, Prefault, AllocInv, HeldInv
  <2> QED BY <1>6, <2>1, <2>2, <2>3, <2>4, <2>5, <2>6, <2>7 DEF Handler
<1>7. CASE Kernel
  BY <1>0, <1>2, <1>7 DEF Kernel, KernelTakes, KernelGives, KernelPage, KernelPageEnds, Taken,
                          KernelIdle, Idle, AllocInv
<1> QED BY <1>1, <1>3, <1>4, <1>5, <1>6, <1>7 DEF Next, Halted, vars

\* The loader visits the pages of the image and of the initial stack, and
\* stack_bottom is where each of its loops needs it.
LEMMA LoadStep ==
    ASSUME VInv, [Next]_vars
    PROVE  LoadInv'
<1> USE DEF memory, task, caller
<1>0. TypeOK /\ AllocInv /\ HeldInv /\ LoadInv
  BY DEF VInv, CallInv
<1>1. ASSUME op' = op, todo' \subseteq todo, UNCHANGED <<stack_bottom, image>> PROVE LoadInv'
  BY <1>0, <1>1 DEF LoadInv, InitialBottom
<1>2. ASSUME op' \notin {"mark", "stack", "segment"} PROVE LoadInv'
  BY <1>2 DEF LoadInv
<1>3. CASE ClockScan
  BY <1>1, <1>3 DEF ClockScan, SkipEmpty, DropStale, SecondChance, Evict, SwapOutFails, GiveUp,
                    ScanStep
<1>4. CASE Load
  <2>1. CASE \E n \in Image, known \in 0 .. ImagePages : Launch(n, known)
    BY <2>1 DEF Launch, StartLoad, CleanupMappings, LoadInv
  <2>2. CASE \E n \in Image : Execve(n)
    BY <2>2 DEF Execve, StartLoad, CleanupMappings, LoadInv
  <2>3. CASE LoadFails \/ LoadRejected \/ EnterRing3 \/ ArgvBuilt
    BY <1>2, <2>3 DEF LoadFails, LoadRejected, EnterRing3, ArgvBuilt
  <2>4. CASE \E lo, hi \in Image : Segment(lo, hi)
    <3>1. PICK lo \in Image, hi \in Image : Segment(lo, hi)
      BY <2>4
    <3>2. op' = "segment" /\ todo' = lo .. hi /\ hi <= image /\ UNCHANGED image
      BY <3>1 DEF Segment
    <3> QED BY <1>0, <3>2 DEF LoadInv, Image, TypeOK
  <2>5. CASE MarkDone
    BY <2>5 DEF MarkDone, LoadInv, InitialBottom
  <2>6. CASE MarkDemand \/ Readd \/ SegmentCopied
    BY <1>1, <2>6 DEF MarkDemand, Readd, SegmentCopied
  <2> QED BY <1>4, <2>1, <2>2, <2>3, <2>4, <2>5, <2>6 DEF Load
<1>5. CASE Program
  <2>1. CASE Exit
    BY <1>0, <1>2, <2>1 DEF Exit, Idle
  <2> QED BY <1>0, <1>1, <1>2, <1>5, <2>1
             DEF Program, Access, Segfault, PageFault, CopyOut, Mmap
<1>6. CASE Handler
  <2>1. CASE MapHeld
    <3>1. op \in {"fault", "out"} \/ stack_bottom' = stack_bottom
      BY <2>1 DEF MapHeld, BottomLowered, Growing
    <3>2. op' = op \/ op' = "none"
      BY <2>1 DEF MapHeld, PageDone
    <3>3. todo' \subseteq todo /\ UNCHANGED image
      BY <2>1 DEF MapHeld, PageDone
    <3> QED BY <1>1, <1>2, <3>1, <3>2, <3>3
  <2>2. CASE GrowthLost \/ DemandZero \/ SwapInPage \/ FaultFails \/ SwapInFails \/ MmapFails
    BY <1>2, <2>2 DEF GrowthLost, DemandZero, SwapInPage, FaultFails, SwapInFails, MmapFails,
                      PageDone, Unresolved
  <2> QED BY <1>1, <1>2, <1>6, <2>1, <2>2
             DEF Handler, NeedsFrame, FrameGot, NeedsTable, TableGot, AlreadyThere, FaultIn,
                 Denied, CopyOutEnds
<1>7. CASE Kernel
  BY <1>1, <1>2, <1>7 DEF Kernel, KernelTakes, KernelGives, KernelPage, KernelPageEnds
<1> QED BY <1>1, <1>3, <1>4, <1>5, <1>6, <1>7 DEF Next, Halted, vars

\* Nothing touches a frame in hand, and no page that is being brought in comes
\* in behind the caller's back.
LEMMA HeldStep ==
    ASSUME VInv, [Next]_vars
    PROVE  HeldInv'
<1> USE DEF memory, task, caller
<1>0. TypeOK /\ AllocInv /\ HeldInv /\ AllocInv' /\ FramesSound /\ PteInv
  BY AllocStep DEF VInv, CallInv
<1>1. ASSUME held' = None, op' \notin {"fault", "out"} \/ alloc' = "idle" PROVE HeldInv'
  BY <1>1 DEF HeldInv
<1>2. ASSUME UNCHANGED <<held, op, todo>>,
             held # None => mem'[held] = mem[held],
             op \in {"fault", "out"} /\ (alloc' # "idle" \/ held # None) =>
                (alloc # "idle" \/ held # None) /\ pte'[Page].kind = pte[Page].kind
      PROVE  HeldInv'
  <2>1. UNCHANGED Page
    BY <1>2 DEF Page
  <2> HIDE DEF Page
  <2> QED BY <1>0, <1>2, <2>1 DEF HeldInv
<1>3. ASSUME UNCHANGED <<alloc, held, op, todo, mem, pte>> PROVE HeldInv'
  BY <1>0, <1>2, <1>3
<1>4. ASSUME op \notin {"fault", "out"}, UNCHANGED <<held, op, todo, mem>> PROVE HeldInv'
  BY <1>2, <1>4
<1>5. CASE ClockScan
  <2>1. CASE SkipEmpty \/ DropStale \/ SwapOutFails \/ GiveUp
    BY <1>2, <2>1 DEF SkipEmpty, DropStale, SwapOutFails, GiveUp, ScanStep, Continues
  <2>2. CASE SecondChance
    <3>1. \A p \in Pages : pte'[p].kind = pte[p].kind
      BY <1>0, <2>2 DEF SecondChance, TypeOK
    <3>2. op \in {"fault", "out"} => Page \in Pages
      BY <1>0, <2>2, PageFact DEF SecondChance, ScanStep, AllocInv
    <3> QED BY <1>2, <2>2, <3>1, <3>2 DEF SecondChance, ScanStep, Continues
  <2>3. CASE Evict
    <3>1. Entry.page \in Pages /\ IsPresent(Entry.page) /\ g_clock.hand \in Tracked
          /\ Entry.frame \in Frames
      BY <1>0, <2>3 DEF Evict, IsVictim, Entry, VInv, EntryInv, Tracked, TypeOK
    <3>2. held # None => held # Entry.frame /\ held \in Frames
      BY <1>0, <3>1 DEF VInv, ClockSound, InHand, Entry, TypeOK
    <3>3. held # None => mem'[held] = mem[held]
      BY <1>0, <2>3, <3>1, <3>2 DEF Evict, TypeOK
    <3>4. \A p \in Pages \ {Entry.page} : pte'[p] = pte[p]
      BY <1>0, <2>3, <3>1 DEF Evict, TypeOK
    <3>5. op \in {"fault", "out"} => Page \in Pages /\ ~IsPresent(Page)
      BY <1>0, <2>3, PageFact DEF Evict, ScanStep, AllocInv, HeldInv, IsPresent
    <3>6. alloc = "scan" /\ UNCHANGED <<held, op, todo>>
      BY <2>3 DEF Evict, ScanStep
    <3> QED BY <1>2, <3>1, <3>3, <3>4, <3>5, <3>6
  <2> QED BY <1>5, <2>1, <2>2, <2>3 DEF ClockScan
<1>6. CASE Load
  <2>1. CASE \E n \in Image, known \in 0 .. ImagePages : Launch(n, known)
    BY <1>0, <1>1, <2>1 DEF Launch, StartLoad, Idle, AllocInv
  <2>2. CASE \E n \in Image : Execve(n)
    BY <1>0, <1>1, <2>2 DEF Execve, StartLoad, Idle, AllocInv
  <2>3. CASE \E lo, hi \in Image : Segment(lo, hi)
    BY <1>0, <1>1, <2>3 DEF Segment, Loaded, Ask, HeldInv
  <2>4. CASE LoadFails
    BY <1>1, <2>4 DEF LoadFails
  <2>5. CASE MarkDemand \/ MarkDone \/ Readd \/ EnterRing3 \/ SegmentCopied \/ ArgvBuilt \/ LoadRejected
    BY <1>0, <1>1, <2>5 DEF MarkDemand, MarkDone, Readd, EnterRing3, SegmentCopied, ArgvBuilt,
                      LoadRejected, Loaded, AllocInv, HeldInv
  <2> QED BY <1>6, <2>1, <2>2, <2>3, <2>4, <2>5 DEF Load
<1>7. CASE Program
  <2>1. ASSUME NEW p \in Pages, PageFault(p) PROVE HeldInv'
    <3>1. /\ todo' = {p} /\ op' = "fault" /\ held' = None /\ pte' = pte /\ Resolvable(p)
      BY <1>0, <2>1 DEF PageFault, Ask, Idle, AllocInv
    <3>2. Page' = p
      <4>1. {p} \in SUBSET Nat
        BY SizesAssumption DEF Pages, Top
      <4> QED BY <3>1, <4>1, FirstFact DEF Page
    <3> HIDE DEF Page
    <3> QED BY <3>1, <3>2 DEF HeldInv, Resolvable
  <2>2. CASE \E lo, hi \in Pages, rw \in BOOLEAN : Mmap(lo, hi, rw)
    BY <1>0, <1>1, <2>2 DEF Mmap, Ask, Idle, AllocInv
  <2>3. CASE \E lo, hi \in Pages : CopyOut(lo, hi)
    BY <1>0, <1>1, <2>3 DEF CopyOut, Idle, AllocInv
  <2>4. CASE Exit \/ \E p \in Pages, write \in BOOLEAN : Access(p, write) \/ Segfault(p, write)
    BY <1>0, <1>1, <2>4 DEF Exit, Access, Segfault, Idle, AllocInv
  <2> QED BY <1>7, <2>1, <2>2, <2>3, <2>4 DEF Program
<1>8. CASE Handler
  <2>1. CASE NeedsFrame
    BY <1>4, <2>1 DEF NeedsFrame, Ask
  <2>2. CASE NeedsTable
    BY <1>0, <1>2, <2>2 DEF NeedsTable, Ask, AllocInv
  <2>3. CASE FaultIn
    <3>1. todo # {} /\ op' = "out" /\ held' = None /\ pte' = pte /\ todo' = todo /\ Prefaultable(Page)
      BY <2>3 DEF FaultIn, Prefault, Ask
    <3>2. Page' = Page /\ Page \in Pages
      BY <1>0, <3>1, PageFact DEF Page
    <3> HIDE DEF Page
    <3> QED BY <1>0, <3>1, <3>2 DEF HeldInv, Prefaultable, PteInv
  <2>4. CASE FrameGot
    <3>1. /\ todo # {} /\ Mapping /\ held' = got /\ mem'[got] = Page /\ alloc = "done"
          /\ UNCHANGED <<op, todo, pte>>
      BY <1>0, <2>4 DEF FrameGot, Done, TypeOK
    <3>2. Page' = Page /\ op \in {"stack", "segment", "mmap", "fault", "out"}
      BY <3>1 DEF Page, Mapping, Growing
    <3>3. op \in {"fault", "out"} => pte[Page].kind = "none"
      BY <3>1 DEF Mapping, Growing
    <3> HIDE DEF Page
    <3> QED BY <1>0, <3>1, <3>2, <3>3 DEF HeldInv
  <2>5. CASE TableGot
    BY <1>2, <2>5 DEF TableGot, Taken
  <2>6. CASE MapHeld
    BY <1>1, <2>6 DEF MapHeld
  <2>7. CASE MmapFails \/ FaultFails \/ GrowthLost \/ DemandZero \/ SwapInPage
    BY <1>0, <1>1, <2>7 DEF MmapFails, FaultFails, GrowthLost, DemandZero, SwapInPage, NoFrame,
                            Unresolved, Done, Taken, AllocInv
  <2>8. CASE SwapInFails \/ AlreadyThere \/ Denied \/ CopyOutEnds
    BY <1>0, <1>1, <2>8 DEF SwapInFails, AlreadyThere, Denied, CopyOutEnds, Unresolved, Done,
                            Taken, Prefault, AllocInv, HeldInv
  <2> QED BY <1>8, <2>1, <2>2, <2>3, <2>4, <2>5, <2>6, <2>7, <2>8 DEF Handler
<1>9. CASE Kernel
  BY <1>0, <1>1, <1>9 DEF Kernel, KernelTakes, KernelGives, KernelPage, KernelPageEnds, Ask,
                          KernelIdle, Idle, AllocInv
<1> QED BY <1>3, <1>5, <1>6, <1>7, <1>8, <1>9 DEF Next, Halted, vars

\* The loader pins a page when it maps or marks it, and no other step maps one.
LEMMA PinnedPages ==
    ASSUME VInv, [Next]_vars, NEW p \in Pinned', IsPresent(p)'
    PROVE  \/ p \in Pinned /\ IsPresent(p) /\ pte'[p].at = pte[p].at
           \/ pte'[p].at \in InHand
<1> USE DEF memory, task, caller
<1>0. TypeOK /\ AllocInv /\ HeldInv /\ LoadInv /\ p \in Pages
  BY DEF VInv, CallInv, Pinned
<1>1. CASE MapHeld /\ p = Page
  <2>1. Page \in Pages /\ held \in InHand
    BY <1>0, <1>1, PageFact DEF MapHeld, HeldInv, InHand
  <2> QED BY <1>0, <1>1, <2>1 DEF MapHeld, Present, TypeOK
<1>2. CASE ~ (MapHeld /\ p = Page)
  <2>1. op' \in {"mark", "stack", "segment", "readd"}
    BY DEF Pinned
  <2>2. IsPresent(p) /\ pte'[p].at = pte[p].at
    <3>1. CASE PteQuiet
      BY <1>0, <3>1 DEF PteQuiet, IsPresent
    <3>2. CASE Evict
      <4>1. Entry.page \in Pages
        BY <1>0, <3>2 DEF Evict, IsVictim, Entry, VInv, EntryInv, Tracked, TypeOK
      <4> QED BY <1>0, <3>2, <4>1 DEF Evict, Swapped, IsPresent, TypeOK
    <3>3. CASE MarkDemand
      <4>1. Page \in Pages
        BY <1>0, <3>3, PageFact DEF MarkDemand
      <4> QED BY <1>0, <3>3, <4>1 DEF MarkDemand, Demand, NoPte, IsPresent, TypeOK
    <3>4. CASE MapHeld
      <4>1. Page \in Pages
        BY <1>0, <3>4, PageFact DEF MapHeld, HeldInv
      <4> QED BY <1>0, <1>2, <3>4, <4>1 DEF MapHeld, IsPresent, TypeOK
    <3>5. CASE DemandZero \/ SwapInPage
      BY <2>1, <3>5 DEF DemandZero, SwapInPage, PageDone
    <3>6. CASE Unmaps
      BY <1>0, <3>6, UnmapEntries DEF Unmaps, IsPresent
    <3> QED BY <3>1, <3>2, <3>3, <3>4, <3>5, <3>6, PteCases
  <2> SUFFICES p \in Pinned
    BY <2>2
  <2>3. ASSUME UNCHANGED <<op, todo, image>> PROVE p \in Pinned
    BY <2>3 DEF Pinned, InitialBottom
  <2>4. CASE ClockScan
    BY <2>3, <2>4 DEF ClockScan, SkipEmpty, DropStale, SecondChance, Evict, SwapOutFails, GiveUp,
                      ScanStep
  <2>5. CASE Load
    <3>1. CASE \E n \in Image, known \in 0 .. ImagePages : Launch(n, known)
      BY <3>1 DEF Launch, StartLoad, Pinned
    <3>2. CASE \E n \in Image : Execve(n)
      BY <3>2 DEF Execve, StartLoad, Pinned
    <3>3. CASE MarkDemand
      <4>1. Page \in Pages /\ pte' = [pte EXCEPT ![Page] = Demand]
        BY <1>0, <3>3, PageFact DEF MarkDemand
      <4>2. p # Page
        BY <1>0, <4>1 DEF Demand, NoPte, IsPresent, TypeOK
      <4> QED BY <3>3, <4>2 DEF MarkDemand, Pinned
    <3>4. CASE MarkDone
      BY <3>4 DEF MarkDone, Pinned, InitialBottom
    <3>5. CASE \E lo, hi \in Image : Segment(lo, hi)
      BY <3>5 DEF Segment, Loaded, Pinned, InitialBottom
    <3>6. CASE SegmentCopied
      BY <2>3, <3>6 DEF SegmentCopied
    <3>7. CASE ArgvBuilt
      BY <3>7 DEF ArgvBuilt, Loaded, Pinned, InitialBottom
    <3>8. CASE LoadRejected \/ LoadFails \/ EnterRing3
      BY <2>1, <3>8 DEF LoadRejected, LoadFails, EnterRing3
    <3>9. CASE Readd
      BY <3>9 DEF Readd, Pinned
    <3> QED BY <2>5, <3>1, <3>2, <3>3, <3>4, <3>5, <3>6, <3>7, <3>8, <3>9 DEF Load
  <2>6. CASE Program
    BY <2>1, <2>3, <2>6 DEF Program, Access, Segfault, PageFault, CopyOut, Mmap, Exit, Idle
  <2>7. CASE Handler
    <3>1. CASE MapHeld
      BY <1>2, <2>1, <3>1 DEF MapHeld, PageDone, Pinned, InitialBottom
    <3>2. CASE MmapFails \/ FaultFails \/ GrowthLost \/ DemandZero \/ SwapInPage \/ SwapInFails
               \/ AlreadyThere \/ Denied \/ CopyOutEnds
      BY <2>1, <3>2 DEF MmapFails, FaultFails, GrowthLost, DemandZero, SwapInPage, SwapInFails,
                        AlreadyThere, Denied, CopyOutEnds, Prefault, PageDone, Unresolved
    <3> QED BY <2>3, <2>7, <3>1, <3>2 DEF Handler, NeedsFrame, FrameGot, NeedsTable, TableGot, FaultIn
  <2>8. CASE Kernel
    BY <2>1, <2>3, <2>8 DEF Kernel, KernelTakes, KernelGives, KernelPage, KernelPageEnds
  <2>9. CASE UNCHANGED vars
    BY <2>3, <2>9 DEF vars
  <2> QED BY <2>4, <2>5, <2>6, <2>7, <2>8, <2>9 DEF Next, Halted
<1> QED BY <1>1, <1>2

\* No page the loader has mapped is in the clock under its present frame.
LEMMA PinnedStep ==
    ASSUME VInv, [Next]_vars
    PROVE  PinnedInv'
<1>1. ClockMove /\ FramesSound' /\ PteInv'
  BY ClockCases, FramesStep, PteStep
<1>2. \A f \in InHand, i \in Positions : g_clock.entries[i].frame # f
  BY FramesAssumption DEF VInv, ClockSound, Tracked, InHand
<1> SUFFICES ASSUME NEW p \in Pinned', IsPresent(p)', NEW i \in Positions
             PROVE  g_clock'.entries[i].frame # pte'[p].at
  BY DEF PinnedInv
<1>3. p \in Mapped' /\ pte'[p].at \in Frames
  BY <1>1 DEF Pinned, Mapped, PteInv
<1>4. CASE i \notin TrackedIn(g_clock')
  BY <1>3, <1>4, FramesAssumption DEF TrackedIn
<1>5. CASE g_clock'.entries[i] = g_clock.entries[i]
  BY <1>2, <1>5, PinnedPages DEF VInv, PinnedInv
<1>6. ASSUME LET e == g_clock'.entries[i]
             IN  e.page \in Mapped' /\ pte'[e.page].at = e.frame /\ e.page \notin Pinned'
      PROVE  g_clock'.entries[i].frame # pte'[p].at
  BY <1>1, <1>3, <1>6 DEF FramesSound
<1> QED BY <1>1, <1>4, <1>5, <1>6 DEF ClockMove

-----------------------------------------------------------------------------
(* Types *)

\* What a step does to the frame bitmap.
LEMMA FrameCases ==
    ASSUME VInv, [Next]_vars
    PROVE  \/ UNCHANGED g_frame_alloc
           \/ \E f \in Frames : g_frame_alloc' = FrameTaken(g_frame_alloc, f)
           \/ \E S : g_frame_alloc' = FrameFree(g_frame_alloc, S)
<1> USE DEF memory, task, caller
<1> DEFINE taken == \E f \in Frames : g_frame_alloc' = FrameTaken(g_frame_alloc, f)
           freed == \E S : g_frame_alloc' = FrameFree(g_frame_alloc, S)
<1>1. ASSUME NEW s, Ask(s) PROVE UNCHANGED g_frame_alloc \/ taken
  BY <1>1 DEF Ask, TakeFree, StartScan
<1>2. ASSUME NEW S, NEW spare, UnmapPages(S, spare) PROVE freed
  BY <1>2 DEF UnmapPages
<1>3. CASE ClockScan
  BY <1>3 DEF ClockScan, SkipEmpty, DropStale, SecondChance, Evict, SwapOutFails, GiveUp, ScanStep
<1>4. CASE Load
  BY <1>1, <1>2, <1>4
     DEF Load, Launch, Execve, StartLoad, CleanupMappings, MarkDemand, MarkDone, Segment,
         SegmentCopied, ArgvBuilt, LoadRejected, Readd, EnterRing3, LoadFails
<1>5. CASE Program
  BY <1>1, <1>2, <1>5
     DEF Program, Access, Segfault, PageFault, CopyOut, Mmap, Exit, CleanupMappings
<1>6. CASE Handler
  BY <1>1, <1>2, <1>6
     DEF Handler, NeedsFrame, FrameGot, NeedsTable, TableGot, MapHeld, MmapFails, FaultFails,
         GrowthLost, DemandZero, SwapInPage, SwapInFails, AlreadyThere, FaultIn, Denied, CopyOutEnds
<1>7. CASE Kernel
  BY <1>1, <1>7 DEF Kernel, KernelTakes, KernelGives, KernelPage, KernelPageEnds
<1> QED BY <1>3, <1>4, <1>5, <1>6, <1>7 DEF Next, Halted, vars

\* The three ledgers keep their types.
LEMMA LedgerTypes ==
    ASSUME VInv, [Next]_vars
    PROVE  /\ g_frame_alloc' \in [used : SUBSET Frames, free : 0 .. Cardinality(Frames)]
           /\ g_swap' \in [used : SUBSET Slots, free : 0 .. MAX_SWAP_SLOTS]
           /\ g_clock' \in [entries : [Positions -> [frame : Frames \cup {None}, page : Pages \cup {None}]],
                            hand : Positions, count : 0 .. CLOCK_SIZE]
<1>0. TypeOK /\ FramesSound' /\ SlotsSound'
  BY FramesStep, SlotsStep DEF VInv
<1>1. g_frame_alloc' \in [used : SUBSET Frames, free : 0 .. Cardinality(Frames)]
  <2>1. /\ g_frame_alloc' = [used |-> g_frame_alloc'.used, free |-> g_frame_alloc'.free]
        /\ g_frame_alloc'.used \subseteq Frames
    <3>1. /\ g_frame_alloc = [used |-> g_frame_alloc.used, free |-> g_frame_alloc.free]
          /\ g_frame_alloc.used \subseteq Frames
      BY <1>0 DEF TypeOK
    <3>2. ASSUME NEW f \in Frames, g_frame_alloc' = FrameTaken(g_frame_alloc, f) PROVE g_frame_alloc' = [used |-> g_frame_alloc'.used, free |-> g_frame_alloc'.free] /\ g_frame_alloc'.used \subseteq Frames
      BY <3>1, <3>2 DEF FrameTaken
    <3>3. ASSUME NEW S, g_frame_alloc' = FrameFree(g_frame_alloc, S) PROVE g_frame_alloc' = [used |-> g_frame_alloc'.used, free |-> g_frame_alloc'.free] /\ g_frame_alloc'.used \subseteq Frames
      BY <3>1, <3>3 DEF FrameFree
    <3> QED BY <3>1, <3>2, <3>3, FrameCases
  <2>2. g_frame_alloc'.free = Cardinality(Frames \ g_frame_alloc'.used)
    BY <1>0 DEF FramesSound
  <2>3. /\ Cardinality(Frames \ g_frame_alloc'.used) \in Nat /\ Cardinality(Frames) \in Nat
        /\ Cardinality(Frames \ g_frame_alloc'.used) <= Cardinality(Frames)
    BY SizesFinite, FS_Subset, FS_CardinalityType
  <2> QED BY <2>1, <2>2, <2>3
<1>2. g_swap' \in [used : SUBSET Slots, free : 0 .. MAX_SWAP_SLOTS]
  <2>1. \/ UNCHANGED g_swap
        \/ \E s \in Slots : g_swap' = SlotTaken(g_swap, s)
        \/ \E P : g_swap' = SwapFreeSlot(g_swap, P)
    BY PteCases, SwapAllocFact
       DEF PteQuiet, Evict, MarkDemand, MapHeld, DemandZero, SwapInPage, Unmaps, UnmapPages
  <2>2. /\ g_swap' = [used |-> g_swap'.used, free |-> g_swap'.free]
        /\ g_swap'.used \subseteq Slots
    BY <1>0, <2>1 DEF SlotTaken, SwapFreeSlot, TypeOK
  <2>3. g_swap'.free = Cardinality(Slots \ g_swap'.used)
    BY <1>0 DEF SlotsSound
  <2>4. /\ Cardinality(Slots \ g_swap'.used) \in Nat
        /\ Cardinality(Slots \ g_swap'.used) <= MAX_SWAP_SLOTS
    BY SizesFinite, FS_Subset, FS_CardinalityType
  <2> QED BY <2>2, <2>3, <2>4, SizesAssumption
<1>3. g_clock' \in [entries : [Positions -> [frame : Frames \cup {None}, page : Pages \cup {None}]],
                    hand : Positions, count : 0 .. CLOCK_SIZE]
  <2>1. g_clock' \in ClockType /\ g_clock'.count = Cardinality(TrackedIn(g_clock'))
    BY ClockCases DEF ClockMove, CountedOnce
  <2>2. TrackedIn(g_clock') \in SUBSET Positions
    BY DEF TrackedIn
  <2>3. g_clock'.count \in Nat /\ g_clock'.count <= CLOCK_SIZE
    BY <2>1, <2>2, SizesFinite, FS_Subset, FS_CardinalityType
  <2>4. g_clock'.count \in 0 .. CLOCK_SIZE
    BY <2>3, SizesAssumption
  <2> QED BY <2>1, <2>4 DEF ClockType
<1> QED BY <1>1, <1>2, <1>3

PteType == [kind : {"none", "identity", "demand", "present", "swapped"},
            at : Frames \cup Slots \cup {None}, accessed : BOOLEAN, rw : BOOLEAN]

\* Entries, page tables and contents keep their types.
LEMMA MemoryTypes ==
    ASSUME VInv, [Next]_vars
    PROVE  /\ table' \in [Tables -> Frames \cup {None, "boot"}]
           /\ pte' \in [Pages -> PteType]
           /\ mem' \in [Frames -> 1 .. Junk] /\ disk' \in [Slots -> 1 .. Junk]
<1> USE DEF memory, task, caller
<1>0. TypeOK /\ AllocInv /\ HeldInv /\ PteInv
  BY DEF VInv, CallInv
<1> DEFINE M == 1 .. Junk
<1>4. Junk \in M /\ Pages \subseteq M
  BY TopFact DEF Junk, Pages
<1>1. table' \in [Tables -> Frames \cup {None, "boot"}]
  <2>1. CASE TableGot
    BY <1>0, <2>1 DEF TableGot, TypeOK
  <2>2. ASSUME NEW s, Ask(s) PROVE UNCHANGED table
    BY <2>2 DEF Ask
  <2>3. ASSUME NEW S, NEW spare, UnmapPages(S, spare) PROVE UNCHANGED table
    BY <2>3 DEF UnmapPages
  <2>4. CASE ClockScan
    BY <1>0, <2>4 DEF ClockScan, SkipEmpty, DropStale, SecondChance, Evict, SwapOutFails, GiveUp,
                      ScanStep, TypeOK
  <2>5. CASE Load
    BY <1>0, <2>2, <2>3, <2>5
       DEF Load, Launch, Execve, StartLoad, CleanupMappings, MarkDemand, MarkDone, Segment,
           SegmentCopied, ArgvBuilt, LoadRejected, Readd, EnterRing3, LoadFails, TypeOK
  <2>6. CASE Program
    BY <1>0, <2>2, <2>3, <2>6
       DEF Program, Access, Segfault, PageFault, CopyOut, Mmap, Exit, CleanupMappings, TypeOK
  <2>7. CASE Handler
    BY <1>0, <2>1, <2>2, <2>3, <2>7
       DEF Handler, NeedsFrame, FrameGot, NeedsTable, MapHeld, MmapFails, FaultFails, TypeOK,
         GrowthLost, DemandZero, SwapInPage, SwapInFails, AlreadyThere, FaultIn, Denied, CopyOutEnds
  <2>8. CASE Kernel
    BY <1>0, <2>2, <2>8 DEF Kernel, KernelTakes, KernelGives, KernelPage, KernelPageEnds, TypeOK
  <2>9. CASE UNCHANGED vars
    BY <1>0, <2>9 DEF vars, TypeOK
  <2> QED BY <2>4, <2>5, <2>6, <2>7, <2>8, <2>9 DEF Next, Halted
<1>5. DemandZero \/ SwapInPage => todo # {}
  BY <1>0 DEF AllocInv, Done, DemandZero, SwapInPage
<1>6. /\ pte \in [Pages -> PteType]
      /\ mem \in [Frames -> M] /\ disk \in [Slots -> M]
      /\ got \in Frames \cup {None} /\ held \in Frames \cup {None}
      /\ todo # {} => Page \in Pages
  BY <1>0, PageFact DEF TypeOK, PteType
<1>7. MarkDemand \/ MapHeld => Page \in Pages
  BY <1>0, <1>6 DEF MarkDemand, MapHeld, HeldInv
<1>8. Evict => /\ Entry.page \in Pages /\ IsPresent(Entry.page) /\ Entry.frame \in Frames
               /\ SwapAllocSlot \in Slots
  <2> SUFFICES ASSUME Evict PROVE /\ Entry.page \in Pages /\ IsPresent(Entry.page) /\ Entry.frame \in Frames
                                  /\ SwapAllocSlot \in Slots
    OBVIOUS
  <2>1. g_clock.hand \in Positions /\ Entry \in [frame : Frames \cup {None}, page : Pages \cup {None}]
    BY <1>0 DEF TypeOK, Entry
  <2>2. Entry.frame # None /\ IsPresent(Entry.page) /\ FreeSlots # {}
    BY DEF Evict, IsVictim
  <2>3. Entry.page \in Pages
    BY <2>1, <2>2 DEF VInv, EntryInv, Tracked, Entry
  <2> QED BY <2>1, <2>2, <2>3, SwapAllocFact
<1>2. pte' \in [Pages -> PteType]
  <2> DEFINE G == pte' \in [Pages -> PteType]
  <2>1. ASSUME NEW S \in SUBSET Pages, Stored(S) \/ StoredOrPanic(S) PROVE G
    <3>1. \A p \in Pages : [pte[p] EXCEPT !.accessed = TRUE] \in PteType
      BY <1>6 DEF PteType
    <3>2. Stored(S) => G
      BY <1>6, <3>1 DEF Stored
    <3> QED BY <1>6, <2>1, <3>2 DEF StoredOrPanic
  <2>2. ASSUME NEW S, NEW spare, UnmapPages(S, spare) PROVE G
    <3>1. NoPte \in PteType
      BY DEF NoPte, PteType
    <3> QED BY <1>6, <2>2, <3>1 DEF UnmapPages
  <2>3. ASSUME NEW p \in Pages, NEW a \in BOOLEAN, pte' = [pte EXCEPT ![p].accessed = a] PROVE G
    BY <1>6, <2>3 DEF PteType
  <2>4. ASSUME NEW p \in Pages, NEW e \in PteType, pte' = [pte EXCEPT ![p] = e] PROVE G
    BY <1>6, <2>4
  <2>5. ASSUME NEW x \in Frames \cup Slots, NEW rw \in BOOLEAN PROVE Present(x, rw) \in PteType /\ Swapped(x, rw) \in PteType
    BY DEF Present, Swapped, PteType
  <2>6. ASSUME NEW s, Ask(s) PROVE UNCHANGED pte
    BY <2>6 DEF Ask
  <2>7. CASE ClockScan
    <3>1. CASE Evict
      <4>1. pte[Entry.page].rw \in BOOLEAN
        BY <1>6, <1>8, <3>1 DEF PteType
      <4>2. pte' = [pte EXCEPT ![Entry.page] = Swapped(SwapAllocSlot, pte[Entry.page].rw)]
        BY <1>6, <1>8, <3>1 DEF Evict
      <4> QED BY <1>8, <2>4, <2>5, <3>1, <4>1, <4>2
    <3>2. CASE SecondChance
      <4>1. Entry.page \in Pages
        BY <1>0, <3>2 DEF SecondChance, Entry, VInv, EntryInv, Tracked, TypeOK
      <4> QED BY <2>3, <3>2, <4>1 DEF SecondChance
    <3> QED BY <1>6, <2>7, <3>1, <3>2 DEF ClockScan, SkipEmpty, DropStale, SwapOutFails, GiveUp
  <2>8. CASE Load
    <3>1. CASE MarkDemand
      <4>1. Demand \in PteType
        BY DEF Demand, NoPte, PteType
      <4> QED BY <1>7, <2>4, <3>1, <4>1 DEF MarkDemand
    <3>2. CASE SegmentCopied \/ ArgvBuilt
      <4>1. span \in SUBSET Pages /\ {Top} \in SUBSET Pages
        BY <1>0, TopFact DEF TypeOK
      <4> QED BY <2>1, <3>2, <4>1 DEF SegmentCopied, ArgvBuilt
    <3>3. CASE ~ (MarkDemand \/ SegmentCopied \/ ArgvBuilt)
      BY <1>6, <2>2, <2>6, <2>8, <3>3
         DEF Load, Launch, Execve, StartLoad, CleanupMappings, MarkDone, Segment, LoadRejected,
             Readd, EnterRing3, LoadFails
    <3> QED BY <3>1, <3>2, <3>3
  <2>9. CASE Program
    <3>1. ASSUME NEW p \in Pages, NEW write, Access(p, write) PROVE G
      <4>1. PICK a \in {TRUE, pte[p].accessed} : pte' = [pte EXCEPT ![p].accessed = a]
        BY <3>1 DEF Access
      <4>2. a \in BOOLEAN
        BY <1>6 DEF PteType
      <4> QED BY <2>3, <4>1, <4>2
    <3> QED BY <1>6, <2>2, <2>6, <2>9, <3>1
            DEF Program, Segfault, PageFault, CopyOut, Mmap, Exit, CleanupMappings
  <2>10. CASE Handler
    <3>1. CASE MapHeld
      <4>1. held \in Frames /\ (op = "mmap" => prot) \in BOOLEAN
        BY <1>0, <1>6, <3>1 DEF MapHeld, TypeOK
      <4> QED BY <1>7, <2>4, <2>5, <3>1, <4>1 DEF MapHeld
    <3>2. CASE DemandZero \/ SwapInPage
      <4>1. Page \in Pages /\ got \in Frames /\ pte[Page].rw \in BOOLEAN
        BY <1>5, <1>6, <3>2 DEF DemandZero, SwapInPage, PteType
      <4>2. pte' = [pte EXCEPT ![Page] = Present(got, pte[Page].rw)]
        BY <1>6, <3>2, <4>1 DEF DemandZero, SwapInPage
      <4> QED BY <2>4, <2>5, <4>1, <4>2
    <3>3. CASE CopyOutEnds
      <4>1. span \in SUBSET Pages
        BY <1>0 DEF TypeOK
      <4> QED BY <1>6, <2>1, <3>3, <4>1 DEF CopyOutEnds
    <3> QED BY <1>6, <2>2, <2>6, <2>10, <3>1, <3>2, <3>3
            DEF Handler, NeedsFrame, FrameGot, NeedsTable, TableGot, MmapFails, FaultFails,
                GrowthLost, SwapInFails, AlreadyThere, FaultIn, Denied
  <2>11. CASE Kernel
    BY <1>6, <2>6, <2>11 DEF Kernel, KernelTakes, KernelGives, KernelPage, KernelPageEnds
  <2>12. CASE UNCHANGED vars
    BY <1>6, <2>12 DEF vars
  <2> QED BY <2>7, <2>8, <2>9, <2>10, <2>11, <2>12 DEF Next, Halted
<1>3. mem' \in [Frames -> M] /\ disk' \in [Slots -> M]
  <2>1. ASSUME NEW p \in Pages PROVE MemWithout(p) \in [Frames -> M] /\ DiskWithout(p) \in [Slots -> M]
    BY <1>4, <1>6 DEF MemWithout, DiskWithout
  <2>2. CASE FrameGot
    BY <1>4, <1>5, <1>6, <2>2 DEF FrameGot
  <2>3. CASE \E p \in Pages, write \in BOOLEAN : Access(p, write)
    BY <1>4, <1>6, <2>3 DEF Access
  <2>4. ASSUME NEW S \in SUBSET Pages, Stored(S), UNCHANGED disk
        PROVE  mem' \in [Frames -> M] /\ disk' \in [Slots -> M]
    BY <1>4, <1>6, <2>4 DEF Stored
  <2>5. CASE Evict
    <3>1. SavedFrame \in Frames
      BY <1>0, <1>8, <2>5 DEF SavedFrame, PteInv
    <3>2. /\ disk' = [disk EXCEPT ![SwapAllocSlot] = mem[SavedFrame]]
          /\ mem' = [mem EXCEPT ![Entry.frame] = Junk]
      BY <2>5 DEF Evict
    <3> QED BY <1>4, <1>6, <3>1, <3>2
  <2>6. CASE MarkDemand \/ MapHeld
    BY <1>7, <2>1, <2>6 DEF MarkDemand, MapHeld
  <2>7. CASE DemandZero
    BY <1>4, <1>5, <1>6, <2>7 DEF DemandZero
  <2>8. CASE SwapInPage
    <3>1. Page \in Pages /\ pte[Page].at \in Slots
      BY <1>0, <1>5, <1>6, <2>8 DEF SwapInPage, PteInv
    <3>2. /\ mem' = [mem EXCEPT ![got] = disk[pte[Page].at]]
          /\ disk' = [disk EXCEPT ![pte[Page].at] = Junk]
      BY <2>8 DEF SwapInPage
    <3> QED BY <1>4, <1>6, <3>1, <3>2
  <2>9. CASE Unmaps
    <3>1. PICK S \in SUBSET Pages, spare \in {{}, InHand} : UnmapPages(S, spare)
      BY <2>9 DEF Unmaps
    <3> DEFINE F == {pte[p].at : p \in {q \in S : IsPresent(q)}} \cup spare
               T == {p \in S : pte[p].kind = "swapped"}
    <3>2. /\ mem' = [f \in Frames |-> IF f \in F THEN Junk ELSE mem[f]]
          /\ disk' = [t \in Slots |-> IF \E p \in T : pte[p].at = t THEN Junk ELSE disk[t]]
      BY <3>1 DEF UnmapPages
    <3> HIDE DEF F, T, M
    <3> QED BY <1>4, <1>6, <3>2
  <2> QED BY <1>6, <2>2, <2>3, <2>4, <2>5, <2>6, <2>7, <2>8, <2>9, MemCases
<1> QED BY <1>1, <1>2, <1>3

\* The task and the call in progress keep their types.
LEMMA CallTypes ==
    ASSUME VInv, [Next]_vars
    PROVE  /\ kernel' \subseteq Frames
           /\ stack_bottom' \in Stack /\ code_pages' \in 0 .. ImagePages /\ suspended' \subseteq 0 .. ImagePages
           /\ launches' \in 0 .. MaxLaunches
           /\ mode' \in {"shell", "load", "run", "halted", "panic"} /\ back' \in {"shell", "run"}
           /\ image' \in 0 .. ImagePages
           /\ op' \in {"none", "mark", "stack", "segment", "readd", "fault", "out", "mmap", "kernel"}
           /\ todo' \subseteq Pages /\ span' \subseteq Pages /\ prot' \in BOOLEAN
           /\ stage' \in {"frame", "table"} /\ alloc' \in {"idle", "scan", "done"}
           /\ loops' \in 0 .. 2 * CLOCK_SIZE
           /\ got' \in Frames \cup {None} /\ held' \in Frames \cup {None}
<1> USE DEF memory, task, caller
<1>0. TypeOK /\ AllocInv /\ HeldInv
  BY DEF VInv, CallInv
<1> DEFINE taskOK == /\ kernel \subseteq Frames
                     /\ stack_bottom \in Stack /\ code_pages \in 0 .. ImagePages
                     /\ suspended \subseteq 0 .. ImagePages /\ launches \in 0 .. MaxLaunches
                     /\ mode \in {"shell", "load", "run", "halted", "panic"}
                     /\ back \in {"shell", "run"} /\ image \in 0 .. ImagePages
           loopOK == /\ op \in {"none", "mark", "stack", "segment", "readd", "fault", "out", "mmap",
                                "kernel"}
                     /\ todo \subseteq Pages /\ span \subseteq Pages /\ prot \in BOOLEAN
           askOK == /\ stage \in {"frame", "table"} /\ alloc \in {"idle", "scan", "done"}
                    /\ loops \in 0 .. 2 * CLOCK_SIZE
                    /\ got \in Frames \cup {None} /\ held \in Frames \cup {None}
<1>1. taskOK /\ loopOK /\ askOK
  BY <1>0 DEF TypeOK
<1>2. /\ ImagePages \in Nat /\ CLOCK_SIZE \in Nat /\ MaxLaunches \in Nat
      /\ 0 \in 0 .. 2 * CLOCK_SIZE /\ 0 \in 0 .. ImagePages
      /\ Image \subseteq 0 .. ImagePages
  BY SizesAssumption DEF Image
<1>3. todo # {} => Page \in Pages
  BY <1>0, PageFact
<1>4. taskOK'
  <2>1. CASE UNCHANGED task
    BY <1>1, <2>1
  <2>2. CASE Load
    <3>1. ASSUME NEW n \in Image, NEW known, StartLoad(n, known), suspended' \subseteq 0 .. ImagePages,
                 mode \in {"shell", "run"}
          PROVE  taskOK'
      BY <1>1, <1>2, <3>1, TopFact DEF StartLoad, CleanupMappings
    <3>2. CASE \E n \in Image, known \in 0 .. ImagePages : Launch(n, known)
      BY <1>1, <3>1, <3>2 DEF Launch
    <3>3. CASE \E n \in Image : Execve(n)
      BY <1>1, <3>1, <3>3 DEF Execve
    <3>4. CASE MarkDone
      BY <1>1, <3>4, TopFact DEF MarkDone
    <3>5. CASE SegmentCopied \/ ArgvBuilt
      BY <1>1, <3>5 DEF SegmentCopied, ArgvBuilt, StoredOrPanic
    <3>6. CASE LoadRejected \/ LoadFails \/ EnterRing3
      BY <1>1, <1>2, <3>6, TopFact DEF LoadRejected, LoadFails, EnterRing3, CleanupMappings
    <3> QED BY <2>1, <2>2, <3>2, <3>3, <3>4, <3>5, <3>6 DEF Load, MarkDemand, Segment, Readd
  <2>3. CASE Program
    BY <1>1, <1>2, <2>1, <2>3, TopFact
       DEF Program, Access, Segfault, PageFault, CopyOut, Mmap, Exit, CleanupMappings
  <2>4. CASE Handler
    <3>1. CASE MapHeld \/ GrowthLost
      <4>1. BottomLowered \in Stack
        BY <1>0, <1>1, <3>1 DEF BottomLowered, MapHeld, GrowthLost, Growing, HeldInv, NoFrame
      <4> QED BY <1>1, <3>1, <4>1 DEF MapHeld, GrowthLost
    <3>2. CASE FaultFails \/ SwapInFails
      BY <1>1, <3>2 DEF FaultFails, SwapInFails, Unresolved
    <3> QED BY <2>1, <2>4, <3>1, <3>2
            DEF Handler, NeedsFrame, FrameGot, NeedsTable, TableGot, MmapFails, DemandZero,
                SwapInPage, AlreadyThere, FaultIn, Denied, CopyOutEnds
  <2>5. CASE Kernel
    BY <1>1, <2>1, <2>5 DEF Kernel, KernelTakes, KernelGives, KernelPage, KernelPageEnds
  <2> QED BY <2>1, <2>2, <2>3, <2>4, <2>5
          DEF Next, Halted, vars, ClockScan, SkipEmpty, DropStale, SecondChance, Evict,
              SwapOutFails, GiveUp, ScanStep
<1>5. loopOK'
  <2>1. CASE UNCHANGED <<op, todo, span, prot>>
    BY <1>1, <2>1
  <2>2. CASE PageDone
    BY <1>1, <2>2 DEF PageDone
  <2>3. ASSUME op' = "none", todo' \in {{}, todo}, span' \in {{}, span}, prot' \in {FALSE, prot}
        PROVE  loopOK'
    BY <1>1, <2>3
  <2>4. CASE Load
    <3>1. \A n \in Image : 1 .. n \subseteq Pages
      BY TopFact, <1>2 DEF Image, Pages
    <3>2. CASE \E n \in Image, known \in 0 .. ImagePages : Launch(n, known)
      BY <1>1, <3>1, <3>2 DEF Launch, StartLoad
    <3>3. CASE \E n \in Image : Execve(n)
      BY <1>1, <3>1, <3>3 DEF Execve, StartLoad
    <3>4. CASE MarkDone
      BY <1>1, <3>4, TopFact DEF MarkDone
    <3>5. CASE \E lo, hi \in Image : Segment(lo, hi)
      <4>1. \A lo, hi \in Image : lo .. hi \subseteq Pages
        BY TopFact, <1>2 DEF Image, Pages
      <4> QED BY <1>1, <3>5, <4>1 DEF Segment
    <3>6. CASE ArgvBuilt
      <4>1. 1 .. image \cup InitialBottom .. Top \subseteq Pages
        <5>1. image \in 0 .. ImagePages
          BY <1>1
        <5>2. 1 .. image \subseteq Pages
          BY <1>2, <5>1, TopFact DEF Image
        <5> QED BY <5>2, TopFact
      <4> QED BY <1>1, <3>6, <4>1 DEF ArgvBuilt
    <3>7. CASE LoadRejected \/ LoadFails \/ EnterRing3
      BY <2>3, <3>7 DEF LoadRejected, LoadFails, EnterRing3
    <3> QED BY <1>1, <2>4, <3>2, <3>3, <3>4, <3>5, <3>6, <3>7
            DEF Load, MarkDemand, SegmentCopied, Readd
  <2>5. CASE Program
    <3>1. \A lo, hi \in Pages : lo .. hi \subseteq Pages
      BY TopFact DEF Pages
    <3>2. Shared \subseteq Pages
      BY TopFact
    <3> QED BY <1>1, <2>5, <3>1, <3>2
            DEF Program, Access, Segfault, PageFault, CopyOut, Mmap, Exit
  <2>6. CASE Handler
    BY <1>1, <2>2, <2>3, <2>6
       DEF Handler, NeedsFrame, FrameGot, NeedsTable, TableGot, MapHeld, MmapFails, FaultFails,
           GrowthLost, DemandZero, SwapInPage, SwapInFails, AlreadyThere, FaultIn, Denied,
           CopyOutEnds, Unresolved
  <2>7. CASE Kernel
    BY <1>1, <2>7 DEF Kernel, KernelTakes, KernelGives, KernelPage, KernelPageEnds
  <2> QED BY <2>1, <2>4, <2>5, <2>6, <2>7
          DEF Next, Halted, vars, ClockScan, SkipEmpty, DropStale, SecondChance, Evict,
              SwapOutFails, GiveUp, ScanStep
<1>6. askOK'
  <2>1. CASE UNCHANGED <<stage, alloc, loops, got, held>>
    BY <1>1, <2>1
  <2>2. ASSUME NEW s \in {"frame", "table"}, Ask(s) PROVE askOK'
    BY <1>1, <2>2 DEF Ask, TakeFree, StartScan
  <2>3. ASSUME Taken, held' \in {held, got, None} PROVE askOK'
    BY <1>1, <1>2, <2>3 DEF Taken
  <2>4. CASE ClockScan
    <3>1. ScanStep => loops' \in 0 .. 2 * CLOCK_SIZE /\ UNCHANGED <<stage, held>>
      BY <1>1, <1>2 DEF ScanStep
    <3>2. CASE Evict
      <4>1. Entry.frame \in Frames \cup {None}
        BY <1>0 DEF TypeOK, Entry
      <4> QED BY <1>1, <3>1, <3>2, <4>1 DEF Evict
    <3>3. CASE GiveUp
      BY <1>1, <3>3 DEF GiveUp
    <3> QED BY <1>1, <2>4, <3>1, <3>2, <3>3
            DEF ClockScan, SkipEmpty, DropStale, SecondChance, SwapOutFails, Continues
  <2>5. CASE Load
    BY <2>1, <2>2, <2>3, <2>5
       DEF Load, Launch, Execve, StartLoad, MarkDemand, MarkDone, Segment, SegmentCopied,
           ArgvBuilt, LoadRejected, Readd, EnterRing3, LoadFails
  <2>6. CASE Program
    BY <2>1, <2>2, <2>6 DEF Program, Access, Segfault, PageFault, CopyOut, Mmap, Exit
  <2>7. CASE Handler
    <3>1. CASE MapHeld
      BY <1>1, <3>1 DEF MapHeld
    <3> QED BY <2>1, <2>2, <2>3, <2>7, <3>1
            DEF Handler, NeedsFrame, FrameGot, NeedsTable, TableGot, MmapFails, FaultFails,
                GrowthLost, DemandZero, SwapInPage, SwapInFails, AlreadyThere, FaultIn, Denied,
                CopyOutEnds
  <2>8. CASE Kernel
    BY <2>1, <2>2, <2>3, <2>8 DEF Kernel, KernelTakes, KernelGives, KernelPage, KernelPageEnds
  <2> QED BY <2>1, <2>4, <2>5, <2>6, <2>7, <2>8 DEF Next, Halted, vars
<1> QED BY <1>4, <1>5, <1>6

\* Every step keeps the state in the types.
LEMMA TypeStep ==
    ASSUME VInv, [Next]_vars
    PROVE  TypeOK'
BY LedgerTypes, MemoryTypes, CallTypes DEF TypeOK, PteType

-----------------------------------------------------------------------------
(* The invariant and the properties *)

\* vmm_init: nothing is mapped, nothing is swapped out, the clock is empty.
LEMMA InitVInv == Init => VInv
<1> SUFFICES ASSUME Init PROVE VInv
  OBVIOUS
<1> USE DEF Init
<1>1. /\ Cardinality(Frames) \in Nat /\ Cardinality({}) = 0
      /\ MAX_SWAP_SLOTS \in Nat /\ CLOCK_SIZE \in Nat \ {0} /\ MaxLaunches \in Nat
      /\ ImagePages \in Nat
  BY SizesFinite, SizesAssumption, FS_CardinalityType, FS_EmptySet
<1>2. /\ \A p \in Pages : pte[p].kind \in {"identity", "none"}
      /\ pte \in [Pages -> PteType]
      /\ \A p \in Pages : pte[p].kind = "identity" => TableOf[p] \in BootTables
  BY DEF Identity, NoPte, PteType
<1>3. Mapped = {} /\ SwappedOut = {} /\ InHand = {}
  BY <1>2 DEF Mapped, IsPresent, SwappedOut, InHand
<1>4. Tracked = {} /\ \A i \in Positions : g_clock.entries[i] = EmptyEntry
  BY DEF Tracked, EmptyEntry
<1>5. OwnTables = {} /\ \A t \in BootTables : table[t] # None
  <2>1. \A t \in Tables : table[t] = IF t \in BootTables THEN "boot" ELSE None
    OBVIOUS
  <2>2. "boot" \notin Frames /\ None \notin Frames /\ None # "boot" /\ BootTables \subseteq Tables
    BY ONLY FramesAssumption, TablesAssumption
  <2> QED BY ONLY <2>1, <2>2 DEF OwnTables
<1>6. DataFrames = {} /\ TableFrames = {}
  BY <1>3, <1>5 DEF DataFrames, TableFrames
<1>7. TypeOK
  <2>1. g_clock \in [entries : [Positions -> [frame : Frames \cup {None}, page : Pages \cup {None}]],
                     hand : Positions, count : 0 .. CLOCK_SIZE]
    BY <1>1 DEF EmptyEntry, Positions
  <2>2. mem \in [Frames -> 1 .. Junk] /\ disk \in [Slots -> 1 .. Junk]
    BY TopFact DEF Junk
  <2>3. /\ g_frame_alloc \in [used : SUBSET Frames, free : 0 .. Cardinality(Frames)]
        /\ g_swap \in [used : SUBSET Slots, free : 0 .. MAX_SWAP_SLOTS]
    BY <1>1
  <2>4. table \in [Tables -> Frames \cup {None, "boot"}]
    <3>1. table = [t \in Tables |-> IF t \in BootTables THEN "boot" ELSE None]
      OBVIOUS
    <3> QED BY ONLY <3>1
  <2>5. stack_bottom \in Stack /\ loops \in 0 .. 2 * CLOCK_SIZE
    BY <1>1, TopFact
  <2>6. /\ kernel \subseteq Frames /\ code_pages \in 0 .. ImagePages
        /\ suspended \subseteq 0 .. ImagePages /\ launches \in 0 .. MaxLaunches
        /\ image \in 0 .. ImagePages
    BY <1>1
  <2>7. /\ mode = "shell" /\ back = "shell" /\ op = "none" /\ todo = {} /\ span = {}
        /\ prot = FALSE /\ stage = "frame" /\ alloc = "idle" /\ got = None /\ held = None
    OBVIOUS
  <2> QED BY ONLY <1>2, <2>1, <2>2, <2>3, <2>4, <2>5, <2>6, <2>7 DEF TypeOK, PteType
<1>8. PteInv /\ Intact
  <2>1. \A p \in Pages : pte[p].kind \notin {"present", "swapped"}
    BY <1>2
  <2>2. \A p \in Pages : ~ HasTable(p) => pte[p].kind = "none"
    BY ONLY <1>2, <1>5 DEF HasTable
  <2> QED BY ONLY <2>1, <2>2 DEF PteInv, Intact, IsPresent
<1>9. EntryInv /\ CallInv /\ PinnedInv
  BY <1>3, <1>4 DEF EntryInv, CallInv, AllocInv, HeldInv, LoadInv, PinnedInv, Pinned
<1>10. FramesSound
  <2>1. /\ g_frame_alloc.free = Cardinality(Frames) /\ g_frame_alloc.used = {}
        /\ kernel = {} /\ got = None
    OBVIOUS
  <2> QED BY ONLY <1>1, <1>3, <1>5, <1>6, <2>1 DEF FramesSound
<1>11. SlotsSound
  BY <1>3, SizesFinite DEF SlotsSound
<1>12. ClockSound
  BY <1>1, <1>4 DEF ClockSound
<1> QED BY <1>7, <1>8, <1>9, <1>10, <1>11, <1>12 DEF VInv

\* Every step keeps the invariant.
LEMMA StepVInv == VInv /\ [Next]_vars => VInv'
BY TypeStep, PteStep, ClockStep, AllocStep, HeldStep, LoadStep, PinnedStep, FramesStep,
   SlotsStep, IntactStep
   DEF VInv, CallInv

\* The inductive invariant holds in every state of the memory manager.
THEOREM Invariance == Spec => []VInv
<1>1. Init => VInv
  BY InitVInv
<1>2. VInv /\ [Next]_vars => VInv'
  BY StepVInv
<1> QED BY <1>1, <1>2, PTL DEF Spec

\* frame_alloc, clock_evict_page, swap_alloc_slot, vmm_map_page and
\* vmm_unmap_page, in whatever order faults, launches, evictions and failures
\* call them, never leave a frame or a slot with two owners or a wrong counter.
THEOREM MemoryStaysSound == Spec => []MemorySound
<1>1. VInv => MemorySound
  BY DEF VInv, MemorySound
<1> QED BY <1>1, Invariance, PTL

\* "Evicted user pages must remain logically intact": whatever the clock
\* evicts and whatever is swapped in, a page has its own data.
THEOREM PagesStayIntact == Spec => []Intact
<1>1. VInv => Intact
  BY DEF VInv
<1> QED BY <1>1, Invariance, PTL

-----------------------------------------------------------------------------
(* The stack *)

\* user_task_cleanup_mappings alone raises stack_bottom.
LEMMA BottomCases ==
    ASSUME VInv, [Next]_vars
    PROVE  \/ stack_bottom' <= stack_bottom
           \/ \E known \in 0 .. ImagePages : \E spare : CleanupMappings(known, spare)
<1> USE DEF memory, task, caller
<1>0. TypeOK /\ AllocInv /\ HeldInv /\ LoadInv
  BY DEF VInv, CallInv
<1>1. stack_bottom \in Nat /\ code_pages \in 0 .. ImagePages
  BY <1>0, TopFact DEF TypeOK, Pages
<1>2. ASSUME UNCHANGED stack_bottom PROVE stack_bottom' <= stack_bottom
  BY <1>1, <1>2
<1>3. CASE Load
  <2>1. CASE MarkDone
    <3>1. InitialBottom <= Top
      BY TopFact
    <3> QED BY <1>0, <2>1, <3>1 DEF LoadInv, MarkDone
  <2> QED BY <1>1, <1>2, <1>3, <2>1
          DEF Load, Launch, Execve, StartLoad, MarkDemand, Segment, SegmentCopied, ArgvBuilt,
              LoadRejected, Readd, EnterRing3, LoadFails
<1>4. CASE Program
  BY <1>1, <1>2, <1>4 DEF Program, Access, Segfault, PageFault, CopyOut, Mmap, Exit
<1>5. CASE Handler
  <2>1. CASE MapHeld \/ GrowthLost
    <3>1. Page \in Nat
      BY <1>0, <2>1, PageFact, TopFact DEF MapHeld, HeldInv, GrowthLost, NoFrame, AllocInv, Pages
    <3>2. BottomLowered <= stack_bottom
      BY <1>1, <3>1 DEF BottomLowered
    <3> QED BY <2>1, <3>2 DEF MapHeld, GrowthLost
  <2> QED BY <1>2, <1>5, <2>1
          DEF Handler, NeedsFrame, FrameGot, NeedsTable, TableGot, MmapFails, FaultFails,
              DemandZero, SwapInPage, SwapInFails, AlreadyThere, FaultIn, Denied, CopyOutEnds
<1>6. CASE Kernel
  BY <1>2, <1>6 DEF Kernel, KernelTakes, KernelGives, KernelPage, KernelPageEnds
<1>7. CASE ClockScan
  BY <1>2, <1>7 DEF ClockScan, SkipEmpty, DropStale, SecondChance, Evict, SwapOutFails, GiveUp,
                    ScanStep
<1> QED BY <1>2, <1>3, <1>4, <1>5, <1>6, <1>7 DEF Next, Halted, vars

\* Cleanup leaves no stack page from stack_bottom up, and a step that maps a
\* stack page maps it at stack_bottom or above, unless an mmap runs into it.
LEMMA StackStep ==
    ASSUME VInv, [Next]_vars, NEW p \in Stack,
           pte'[p].kind # "none", p < stack_bottom', op # "mmap"
    PROVE  pte[p].kind # "none" /\ p < stack_bottom
<1> USE DEF task
<1>0. TypeOK /\ AllocInv /\ HeldInv /\ LoadInv
  BY DEF VInv, CallInv
<1>1. /\ p \in Pages /\ p \notin Image /\ p \in Nat /\ Image = 1 .. ImagePages
      /\ stack_bottom \in Nat /\ image \in 0 .. ImagePages /\ ImagePages \in Nat
  BY <1>0, TopFact, SizesAssumption DEF TypeOK, Pages, Image
<1>2. ASSUME NEW known \in 0 .. ImagePages, NEW spare, CleanupMappings(known, spare)
      PROVE  pte[p].kind # "none" /\ p < stack_bottom
  <2> DEFINE S == 1 .. known \cup {q \in Stack : q >= stack_bottom}
  <2>1. S \in SUBSET Pages /\ UnmapPages(S, spare)
    BY <1>2, CleanupPages DEF CleanupMappings
  <2>2. p \notin S /\ pte'[p] = pte[p]
    <3> HIDE DEF S
    <3> QED BY <1>1, <2>1, UnmapEntries
  <2> QED BY <1>1, <2>2
<1>3. CASE stack_bottom' <= stack_bottom
  <2>1. p < stack_bottom
    <3>1. stack_bottom' \in Nat
      <4>1. stack_bottom' \in Stack
        BY CallTypes
      <4>2. Stack \subseteq Nat
        BY TopFact DEF Pages
      <4> QED BY ONLY <4>1, <4>2
    <3> QED BY <1>1, <1>3, <3>1
  <2>2. CASE PteQuiet
    BY <1>1, <2>1, <2>2 DEF PteQuiet
  <2>3. CASE Evict
    <3>1. Entry.page \in Pages /\ IsPresent(Entry.page)
      BY <1>0, <2>3 DEF Evict, IsVictim, Entry, VInv, EntryInv, Tracked, TypeOK
    <3> QED BY <1>0, <1>1, <2>1, <2>3, <3>1 DEF Evict, IsPresent, TypeOK
  <2>4. CASE MarkDemand
    <3>1. Page \in 1 .. image
      BY <1>0, <2>4, PageFact DEF MarkDemand, LoadInv
    <3>2. p # Page
      BY <1>1, <3>1
    <3> QED BY <1>0, <1>1, <2>1, <2>4, <3>2 DEF MarkDemand, TypeOK
  <2>5. CASE MapHeld
    <3>1. Page \in todo /\ Page \in Nat
      BY <1>0, <2>5, PageFact, TopFact DEF MapHeld, HeldInv, Pages
    <3>2. CASE p # Page
      BY <1>0, <1>1, <2>1, <2>5, <3>2 DEF MapHeld, TypeOK
    <3>3. CASE p = Page /\ op = "stack"
      <4>1. Page >= InitialBottom /\ stack_bottom = InitialBottom
        BY <1>0, <3>1, <3>3, TopFact DEF LoadInv
      <4>2. stack_bottom' = stack_bottom
        BY <2>5, <3>3 DEF MapHeld, BottomLowered, Growing
      <4> QED BY <1>1, <3>3, <4>1, <4>2
    <3>4. CASE p = Page /\ op = "segment"
      BY <1>0, <1>1, <3>1, <3>4 DEF LoadInv
    <3>5. CASE p = Page /\ op \in {"fault", "out"}
      <4>1. Growing
        BY <1>0, <2>5, <3>5 DEF HeldInv, MapHeld, Growing
      <4>2. stack_bottom' = IF Page < stack_bottom THEN Page ELSE stack_bottom
        BY <2>5, <4>1 DEF MapHeld, BottomLowered
      <4> QED BY <1>1, <3>5, <4>2
    <3> QED BY <1>0, <2>5, <3>2, <3>3, <3>4, <3>5 DEF HeldInv, MapHeld
  <2>6. CASE DemandZero \/ SwapInPage
    <3>1. Page \in Pages
      BY <1>0, <2>6, PageFact DEF DemandZero, SwapInPage, Done, AllocInv
    <3> QED BY <1>0, <1>1, <2>1, <2>6, <3>1 DEF DemandZero, SwapInPage, TypeOK
  <2>7. CASE Unmaps
    <3>1. PICK S \in SUBSET Pages, spare \in {{}, InHand} : UnmapPages(S, spare)
      BY <2>7 DEF Unmaps
    <3> QED BY <1>1, <2>1, <3>1, UnmapEntries
  <2> QED BY <2>2, <2>3, <2>4, <2>5, <2>6, <2>7, PteCases
<1> QED BY <1>2, <1>3, BottomCases

\* No page of the stack comes to lie below the stack_bottom by which
\* user_task_cleanup_mappings finds the stack, except through an mmap.
THEOREM StackStaysTracked == Spec => StackTracked
<1> DEFINE A == \A p \in Stack :
                    pte'[p].kind # "none" /\ p < stack_bottom'
                        => op = "mmap" \/ (pte[p].kind # "none" /\ p < stack_bottom)
<1>1. VInv /\ [Next]_vars => [A]_vars
  BY StackStep
<1> HIDE DEF A
<1>2. Spec => [][A]_vars
  BY <1>1, Invariance, PTL DEF Spec
<1> QED BY <1>2 DEF StackTracked, A
=============================================================================
