------------------------------- MODULE EynFs -------------------------------
(***************************************************************************)
(* The EYNFS driver (src/src/drivers/eynfs.c) under the calls that reach   *)
(* it: vfs_write_file, vfs_mkdir, vfs_unlink, vfs_rmdir and the reads of   *)
(* src/src/fs/vfs.c, the stream, open, read and seek system calls and the  *)
(* installer's format of src/src/cpu/isr.c.                                *)
(*                                                                         *)
(* A file or a directory is a chain of sectors that start with the number  *)
(* of the next one.  Three copies of the disk's state must agree: the      *)
(* sectors, the write-back cache of sectors and the cache of free block    *)
(* numbers.  Some functions read and write through the cache, others go to *)
(* the disk directly; every operator below goes where its function goes.   *)
(* A call is a sequence of steps, one for each sector it frees or writes.  *)
(***************************************************************************)
EXTENDS Integers, Sequences, FiniteSets, SequencesExt

CONSTANTS
    NBlocks,      \* blocks of the partition after the bitmap; 1 is the root
    CacheSize,    \* g_block_cache_capacity
    FreeCacheSize,\* EYNFS_FREE_BLOCK_CACHE_SIZE
    Slots,        \* directory entries in a sector
    TableMax,     \* entries that fit in write_file's 4096-byte table
    Payload,      \* cells of data in a sector (EYNFS_BLOCK_SIZE - 4 bytes)
    Paths,        \* paths the programs use: sequences of one or two names
    Handles,      \* USER_STREAM_MAX
    MaxSize,      \* bound: cells in a file
    MaxCalls,     \* bound: calls that change the disk
    Calls,        \* the calls the programs make
    Modes         \* whether programs keep to the discipline of Unused

Blocks == 1 .. NBlocks
Cells == 0 .. MaxCalls   \* values of a cell of file data, 0 for the rest of a sector
Root == 1
FILE == 1
DIR == 2

ASSUME EynFsAssumption ==
    /\ NBlocks \in Nat \ {0, 1} /\ CacheSize \in Nat \ {0}
    /\ FreeCacheSize \in Nat \ {0} /\ Slots \in Nat \ {0}
    /\ TableMax \in Nat \ {0} /\ Payload \in Nat \ {0}
    /\ MaxSize \in Nat /\ MaxCalls \in Nat
    /\ Modes \subseteq BOOLEAN
    /\ \A p \in Paths : Len(p) \in {1, 2}

VARIABLES
    fs,       \* disk, bitmap, block cache, free block cache
    job,      \* the call in progress
    streams,  \* g_user_streams, by handle
    fd,       \* a descriptor of a regular file
    calls,    \* calls started so far
    exclusive \* the programs' discipline, chosen once from Modes

vars == <<fs, job, streams, fd, calls, exclusive>>

-----------------------------------------------------------------------------
(* Sectors.  A sector is read as a directory or as data whatever it holds:  *)
(* data read as a directory shows names nobody asked for.                   *)

NoEntry == [name |-> "", type |-> 0, first |-> 0, size |-> 0]
Junk == [name |-> "?", type |-> 0, first |-> 0, size |-> 0]
NoSlots == [i \in 1 .. Slots |-> NoEntry]
Zeros == [i \in 1 .. Payload |-> 0]

DirBlock(n, s) ==
    [next |-> n, slots |-> s,
     data |-> IF s = NoSlots THEN Zeros ELSE [i \in 1 .. Payload |-> -1]]
DataBlock(n, d) ==
    [next |-> n, data |-> d,
     slots |-> IF d = Zeros THEN NoSlots ELSE [i \in 1 .. Slots |-> Junk]]
ZeroBlock == DirBlock(0, NoSlots)

(* The write-back cache: least recently used sector first, as last_use      *)
(* orders them.                                                             *)
Where(f, b) == {i \in DOMAIN f.cache : f.cache[i].blk = b}
IsCached(f, b) == Where(f, b) # {}
View(f, b) == IF IsCached(f, b) THEN f.cache[CHOOSE i \in Where(f, b) : TRUE].data
                                ELSE f.disk[b]

\* Clean sectors go first, the least recently used of them; a dirty one
\* only when there is no other.
Victim(cache) ==
    LET clean == {i \in DOMAIN cache : ~cache[i].dirty}
    IN  IF clean = {} THEN 1 ELSE CHOOSE i \in clean : \A j \in clean : i <= j

\* eynfs_block_cache_choose_victim_index and what follows it: the victim is
\* written back when dirty and the new sector takes its slot, clean.
WrittenBack(disk, e) == IF e.dirty THEN [disk EXCEPT ![e.blk] = e.data] ELSE disk
Insert(f, b, data) ==
    LET v == Victim(f.cache)
        room == Len(f.cache) < CacheSize
        new == [blk |-> b, data |-> data, dirty |-> FALSE]
    IN  [f EXCEPT
           !.disk = IF room THEN @ ELSE WrittenBack(@, f.cache[v]),
           !.cache = Append(IF room THEN @ ELSE RemoveAt(@, v), new)]

\* eynfs_cache_get_block: a hit becomes the most recently used sector.
GetBlock(f, b) ==
    IF IsCached(f, b)
    THEN LET i == CHOOSE i \in Where(f, b) : TRUE
         IN  [f EXCEPT !.cache = Append(RemoveAt(@, i), f.cache[i])]
    ELSE Insert(f, b, f.disk[b])

\* eynfs_cache_write_block: a cached sector only becomes dirty; any other
\* goes to the disk at once and into the cache as clean.
PutBlock(f, b, data) ==
    IF IsCached(f, b)
    THEN LET i == CHOOSE i \in Where(f, b) : TRUE
         IN  [f EXCEPT !.cache = Append(RemoveAt(@, i), [blk |-> b, data |-> data, dirty |-> TRUE])]
    ELSE Insert([f EXCEPT !.disk[b] = data], b, data)

\* ata_write_sector
WriteDisk(f, b, data) == [f EXCEPT !.disk[b] = data]

Flush(f) ==
    [f EXCEPT !.disk = [b \in Blocks |-> IF \E i \in Where(f, b) : f.cache[i].dirty
                                         THEN View(f, b) ELSE @[b]],
              !.cache = [i \in DOMAIN @ |-> [@[i] EXCEPT !.dirty = FALSE]]]

InvalidateNot(f, b) == f
Invalidate(f, b) == [f EXCEPT !.cache = SelectSeq(@, LAMBDA e : e.blk # b)]

CacheClear(f) == [Flush(f) EXCEPT !.cache = <<>>, !.free = {}]

(* The bitmap, always on the disk, and the free block cache, filled with    *)
(* the lowest free blocks in order and emptied from its end: a set will do. *)
FirstFree(f) ==
    {b \in Blocks \ f.used : Cardinality({x \in Blocks \ f.used : x < b}) < FreeCacheSize}
Candidates(f) == IF f.free # {} THEN f.free ELSE FirstFree(f)
CanAlloc(f) == Candidates(f) # {}
NewBlock(f) == Max(Candidates(f))
AllocBlockKept(f) == [f EXCEPT !.used = @ \cup {NewBlock(f)}, !.free = Candidates(f)]
AllocBlock(f) == LET b == NewBlock(f)
                 IN  [f EXCEPT !.used = @ \cup {b}, !.free = Candidates(f) \ {b}]
FreeBlock(f, b) == [f EXCEPT !.used = @ \ {b}, !.free = {}]

-----------------------------------------------------------------------------
(* Chains and directories.                                                  *)

\* The blocks from b on, following next; cut after every block was seen once,
\* which only a cycle can exceed.
Chain(next, b) ==
    LET from[c \in Seq(Blocks)] ==
            LET n == IF c = <<>> THEN b ELSE next[Last(c)]
            IN  IF n = 0 \/ Len(c) > NBlocks THEN c ELSE from[Append(c, n)]
    IN  from[<<>>]
ViewNext(f) == [b \in Blocks |-> View(f, b).next]
DiskNext(f) == [b \in Blocks |-> f.disk[b].next]
ViewChain(f, b) == Chain(ViewNext(f), b)
DiskChain(f, b) == Chain(DiskNext(f), b)
Cyclic(chain) == Len(chain) > NBlocks

GetBlocks(f, bs) == FoldLeft(GetBlock, f, bs)

\* The entries of a directory in order, read through the cache.
Table(f, dir) ==
    LET c == ViewChain(f, dir)
    IN  FlattenSeq([i \in DOMAIN c |-> View(f, c[i]).slots])
BlockOf(i) == ((i - 1) \div Slots) + 1
SlotOf(i) == ((i - 1) % Slots) + 1

\* eynfs_find_in_dir reads the chain up to the sector that holds the name.
\* Indices count from 1 and 0 stands for "not found".
EntryAt(f, dir, table, c, i) ==
    [fs |-> GetBlocks(f, IF i = 0 THEN c ELSE SubSeq(c, 1, BlockOf(i))),
     idx |-> i, dir |-> dir,
     ent |-> IF i = 0 THEN NoEntry ELSE table[i]]
FindInDir(f, dir, name) ==
    EntryAt(f, dir, Table(f, dir), ViewChain(f, dir),
            SelectInSeq(Table(f, dir), LAMBDA e : e.name = name))
Found(t) == t.idx # 0

\* eynfs_traverse_path of the parent, then of the path itself.
RootEntry == [name |-> "/", type |-> DIR, first |-> Root, size |-> 0]
Parent(f, p) ==
    IF Len(p) = 1 THEN [fs |-> f, idx |-> 1, dir |-> 0, ent |-> RootEntry]
                  ELSE FindInDir(f, Root, p[1])
IsDir(t) == Found(t) /\ t.ent.type = DIR
Base(p) == p[Len(p)]
FindUnder(up, p) ==
    IF IsDir(up) THEN FindInDir(up.fs, up.ent.first, Base(p))
                 ELSE [fs |-> up.fs, idx |-> 0, dir |-> 0, ent |-> NoEntry]
Traverse(f, p) == FindUnder(Parent(f, p), p)

\* The cells of the n-cell file whose chain starts at b, through next and data.
FirstCells(d, n) == SubSeq(d, 1, IF Len(d) < n THEN Len(d) ELSE n)
OtherCells(d, n) == SubSeq(d, n + 1, Len(d))
CellsOf(next, data, b, n) ==
    LET from[x \in 0 .. NBlocks, m \in 0 .. MaxSize] ==
            IF x = 0 \/ m = 0 THEN <<>>
            ELSE FirstCells(data[x], m) \o from[next[x], IF m < Payload THEN 0 ELSE m - Payload]
    IN  from[b, n]
ViewCells(f, b, n) == CellsOf(ViewNext(f), [x \in Blocks |-> View(f, x).data], b, n)
DiskCells(f, b, n) == CellsOf(DiskNext(f), [x \in Blocks |-> f.disk[x].data], b, n)

Least(a, b) == IF a < b THEN a ELSE b
BlockCount(n) == (n + Payload - 1) \div Payload

\* The slot of a directory: the sector is taken out of the cache first, so the
\* new version goes to the disk (delete_entry and stream_end).
SetSlot(f, dir, i, ent) ==
    LET c == ViewChain(f, dir)
        b == c[BlockOf(i)]
        g == GetBlocks(f, SubSeq(c, 1, BlockOf(i)))
        new == DirBlock(View(g, b).next, [View(g, b).slots EXCEPT ![SlotOf(i)] = ent])
    IN  PutBlock(Invalidate(g, b), b, new)
HasSlot(f, dir, i) == BlockOf(i) <= Len(ViewChain(f, dir))

-----------------------------------------------------------------------------
Streams0 == [open |-> FALSE, path |-> <<>>, dir |-> 0, idx |-> 0, cur |-> 0,
             first |-> 0, size |-> 0, pos |-> 0]
NoFd == [open |-> FALSE, path |-> <<>>, first |-> 0, size |-> 0, off |-> 0,
         cur |-> 0, curOff |-> 0]
NoJob == [call |-> "none", pc |-> "idle", path |-> <<>>, dir |-> 0, idx |-> 0,
          type |-> 0, cur |-> 0, prev |-> 0, first |-> 0, left |-> <<>>,
          size |-> 0, handle |-> 0]

\* A formatted partition: the root directory empty, all else free.
Init == /\ fs = [disk |-> [b \in Blocks |-> ZeroBlock], used |-> {Root},
                 cache |-> <<>>, free |-> {}]
        /\ job = NoJob
        /\ streams = [h \in Handles |-> Streams0]
        /\ fd = NoFd
        /\ calls = 0
        /\ exclusive \in Modes

Idle == job.pc = "idle"
Hung == job.pc = "hung"
Return(f) == fs' = f /\ job' = NoJob

\* Programs of the exclusive mode leave a file alone while it is open, write files
\* through streams only and format whole drives only.
Unused(p) == exclusive => \A h \in Handles : streams[h].path # p
Untouched(p) == Unused(p) /\ (exclusive => fd.path # p)

Starts(c) == Idle /\ c \in Calls /\ calls < MaxCalls /\ calls' = calls + 1

-----------------------------------------------------------------------------
(* Calls.  The kernel runs one at a time and is not preempted in it.        *)

Job(call, pc, p, t, d) ==
    [NoJob EXCEPT !.call = call, !.pc = pc, !.path = p, !.dir = t.dir, !.idx = t.idx,
                  !.type = FILE, !.cur = t.ent.first, !.left = d, !.size = Len(d)]
Creating(call, p, up, type, d) ==
    [NoJob EXCEPT !.call = call, !.pc = "create", !.path = p, !.dir = up.ent.first,
                  !.type = type, !.left = d, !.size = Len(d)]

CreateUnder(call, up, p, type, d) ==
    IF IsDir(up) THEN fs' = up.fs /\ job' = Creating(call, p, up, type, d)
                 ELSE Return(up.fs)

\* vfs_write_file: replace the contents, creating the file when it is new.
WriteWhole(call, t, p, d) ==
    IF ~Found(t) THEN CreateUnder(call, Parent(t.fs, p), p, FILE, d)
    ELSE IF t.ent.type = FILE THEN fs' = t.fs /\ job' = Job(call, "free", p, t, d)
    ELSE Return(t.fs)

VfsWrite(p, d) == /\ Starts("write") /\ ~exclusive
                  /\ WriteWhole("write", Traverse(fs, p), p, d)
                  /\ UNCHANGED <<streams, fd, exclusive>>

\* vfs_read_file_at: the first n cells of the entry, and the blocks read for
\* them or, at the end, for the whole file.
IsFile(t) == Found(t) /\ t.ent.type = FILE
ReadCells(f, t, n) == IF IsFile(t) THEN ViewCells(f, t.ent.first, Least(t.ent.size, n)) ELSE <<>>
AfterReading(f, t, n) ==
    IF n = 0 THEN t.fs
    ELSE GetBlocks(t.fs, SubSeq(ViewChain(f, t.ent.first), 1, BlockCount(n)))

\* append_output_to_file and write_shell_log_to_file: read, then replace.
AppendOutput(p, d) ==
    /\ Starts("append") /\ ~exclusive
    /\ \E t \in {Traverse(fs, p)} : \E old \in {ReadCells(fs, t, MaxSize)} :
        /\ Len(old) + Len(d) <= MaxSize
        /\ WriteWhole("write", Traverse(AfterReading(fs, t, Len(old)), p), p, old \o d)
        /\ UNCHANGED <<streams, fd, exclusive>>

\* write(2) on a descriptor of a file: the whole file is replaced.
WriteFd(d) == /\ Starts("write") /\ ~exclusive /\ fd.open /\ fd.off = 0
              /\ WriteWhole("fdwrite", Traverse(fs, fd.path), fd.path, d)
              /\ UNCHANGED <<streams, fd, exclusive>>

FreeIf(ok, call, p, t) ==
    IF ok THEN fs' = t.fs /\ job' = Job(call, "free", p, t, <<>>) ELSE Return(t.fs)

Unlink(p) ==
    /\ Starts("unlink") /\ Untouched(p)
    /\ \E t \in {Traverse(fs, p)} : FreeIf(IsFile(t), "unlink", p, t)
    /\ UNCHANGED <<streams, fd, exclusive>>

\* vfs_rmdir looks for entries on the disk, not through the cache.
EmptyOnDisk(f, b) == \A x \in ToSet(DiskChain(f, b)) : f.disk[x].slots = NoSlots
Rmdir(p) ==
    /\ Starts("rmdir") /\ Untouched(p)
    /\ \E t \in {Traverse(fs, p)} :
        FreeIf(IsDir(t) /\ EmptyOnDisk(fs, t.ent.first), "rmdir", p, t)
    /\ UNCHANGED <<streams, fd, exclusive>>

Mkdir(p) ==
    /\ Starts("mkdir") /\ Untouched(p)
    /\ CreateUnder("mkdir", Parent(fs, p), p, DIR, <<>>)
    /\ UNCHANGED <<streams, fd, exclusive>>

\* eynfs_stream_begin: an existing entry of any type is deleted first.
FreeHandles == {h \in Handles : ~streams[h].open}
StreamBegin(h, p) ==
    /\ Starts("stream") /\ Untouched(p)
    /\ h \in FreeHandles /\ \A k \in FreeHandles : h <= k
    /\ \E up \in {Parent(fs, p)} : \E t \in {FindUnder(up, p)} :
        IF ~IsDir(up) THEN Return(up.fs)
        ELSE /\ fs' = t.fs
             /\ job' = [IF Found(t) THEN Job("begin", "free", p, t, <<>>)
                                    ELSE Creating("begin", p, up, FILE, <<>>) EXCEPT !.handle = h]
    /\ UNCHANGED <<streams, fd, exclusive>>

-----------------------------------------------------------------------------
(* Steps of a call.                                                         *)

\* The loops that free a chain follow the links on the disk; only write_file
\* takes the freed sectors out of the cache.  A block linked to itself holds the
\* loop for ever.
Replaces == job.call \in {"write", "fdwrite"}
FreeNext ==
    /\ job.pc = "free" /\ job.cur # 0
    /\ fs' = FreeBlock(IF Replaces THEN Invalidate(fs, job.cur) ELSE fs, job.cur)
    /\ job' = [job EXCEPT !.cur = fs.disk[job.cur].next,
                          !.pc = IF fs.disk[job.cur].next = job.cur THEN "hung" ELSE @]
    /\ UNCHANGED <<streams, fd, calls, exclusive>>
FreeEnds ==
    /\ job.pc = "free" /\ job.cur = 0
    /\ job' = [job EXCEPT !.pc = IF Replaces THEN "data" ELSE "clear"]
    /\ UNCHANGED <<fs, streams, fd, calls, exclusive>>

\* The end of eynfs_delete_entry.  stream_begin creates the file next, in the
\* same directory, whether or not the entry could be cleared.
ClearSlot ==
    /\ job.pc = "clear"
    /\ fs' = IF HasSlot(fs, job.dir, job.idx) THEN SetSlot(fs, job.dir, job.idx, NoEntry) ELSE fs
    /\ job' = IF job.call = "begin" THEN [job EXCEPT !.pc = "create", !.idx = 0, !.cur = 0]
                                    ELSE NoJob
    /\ UNCHANGED <<streams, fd, calls, exclusive>>

(* eynfs_create_entry: the first sector of the directory that has the name  *)
(* (failure) or an empty slot; without one the directory grows by a sector. *)
EntryFor(b) == [name |-> Base(job.path), type |-> job.type, first |-> b, size |-> 0]
EmptySlots(f, b) == {i \in 1 .. Slots : View(f, b).slots[i].name = ""}
HasName(f, b) == \E i \in 1 .. Slots : View(f, b).slots[i].name = Base(job.path)
Stops(f, chain) == {i \in DOMAIN chain : HasName(f, chain[i]) \/ EmptySlots(f, chain[i]) # {}}

ZeroedIfDir(f, b) == IF job.type = DIR THEN WriteDisk(f, b, ZeroBlock) ELSE f
CreatedIn(f, b) ==
    LET i == CHOOSE x \in EmptySlots(f, b) : \A y \in EmptySlots(f, b) : x <= y
        n == NewBlock(f)
        new == DirBlock(View(f, b).next, [View(f, b).slots EXCEPT ![i] = EntryFor(n)])
    IN  Flush(PutBlock(ZeroedIfDir(AllocBlock(f), n), b, new))
CreatedAfter(f, last) ==
    LET nd == NewBlock(f)
        f1 == AllocBlock(f)
        ne == NewBlock(f1)
        f2 == AllocBlock(f1)
        f3 == PutBlock(GetBlock(f2, last), last, [View(f2, last) EXCEPT !.next = nd])
        new == DirBlock(0, [NoSlots EXCEPT ![1] = EntryFor(ne)])
    IN  IF CanAlloc(f1) THEN Flush(PutBlock(Invalidate(ZeroedIfDir(f3, ne), nd), nd, new))
                        ELSE FreeBlock(f1, nd)

\* What follows a successful create: the caller looks the entry up again.
AfterCreate(f) ==
    LET t == FindInDir(f, job.dir, Base(job.path))
    IN  IF job.call = "mkdir" \/ ~Found(t) THEN Return(f)
        ELSE /\ fs' = t.fs
             /\ job' = [Job(job.call, IF Replaces THEN "free" ELSE "init", job.path, t, job.left)
                          EXCEPT !.handle = job.handle]

CreateEntry ==
    LET c == ViewChain(fs, job.dir)
        stops == Stops(fs, c)
        k == CHOOSE i \in stops : \A j \in stops : i <= j
        g == GetBlocks(fs, IF stops = {} THEN c ELSE SubSeq(c, 1, k))
    IN  /\ job.pc = "create"
        /\ IF stops = {} /\ Cyclic(c) THEN fs' = g /\ job' = [job EXCEPT !.pc = "hung"]
           ELSE IF stops # {} /\ HasName(fs, c[k]) THEN Return(g)
           ELSE IF ~CanAlloc(g) THEN Return(g)
           ELSE IF stops # {} THEN AfterCreate(CreatedIn(g, c[k]))
           ELSE IF CanAlloc(AllocBlock(g)) THEN AfterCreate(CreatedAfter(g, Last(c)))
           ELSE Return(CreatedAfter(g, Last(c)))
        /\ UNCHANGED <<streams, fd, calls, exclusive>>

\* The end of eynfs_stream_begin: the block create_entry allocated becomes the
\* first block of the stream and is cleared.
InitStream ==
    /\ job.pc = "init"
    /\ streams' = [streams EXCEPT ![job.handle] =
                     [open |-> TRUE, path |-> job.path, dir |-> job.dir, idx |-> job.idx,
                      cur |-> job.cur, first |-> job.cur, size |-> 0, pos |-> 0]]
    /\ Return(PutBlock(Invalidate(fs, job.cur), job.cur, ZeroBlock))
    /\ UNCHANGED <<fd, calls, exclusive>>

\* One round of the loop of eynfs_write_file.  The link of the previous block
\* is read from the disk and written to the cache, where that block now is.
Padded(d) == [i \in 1 .. Payload |-> IF i <= Len(d) THEN d[i] ELSE 0]
Linked(f, prev, new) ==
    IF prev = 0 THEN f ELSE PutBlock(f, prev, [f.disk[prev] EXCEPT !.next = new])
WriteData ==
    LET new == NewBlock(fs)
        f == Linked(Invalidate(AllocBlock(fs), new), job.prev, new)
    IN  /\ job.pc = "data" /\ job.left # <<>>
        /\ IF ~CanAlloc(fs) THEN Return(fs)
           ELSE /\ fs' = PutBlock(f, new, DataBlock(0, Padded(FirstCells(job.left, Payload))))
                /\ job' = [job EXCEPT !.prev = new, !.first = IF @ = 0 THEN new ELSE @,
                                      !.left = OtherCells(@, Payload)]
        /\ UNCHANGED <<streams, fd, calls, exclusive>>

\* The rest of eynfs_write_file: the directory table is read from the disk into
\* a table of at most TableMax entries and written back to the disk, past the
\* cache, as a chain that ends where the table ends.
TableEntry == [name |-> Base(job.path), type |-> FILE, first |-> job.first, size |-> job.size]
WriteDirTable(f, dir, idx, ent) ==
    LET c == DiskChain(f, dir)
        all == FlattenSeq([i \in DOMAIN c |-> f.disk[c[i]].slots])
        count == IF Len(all) < TableMax THEN Len(all) ELSE TableMax
        tbl == [SubSeq(all, 1, count) EXCEPT ![IF idx > count THEN count ELSE idx] = ent]
        last == BlockOf(count)
        slots(k) == [i \in 1 .. Slots |-> IF (k - 1) * Slots + i <= count
                                          THEN tbl[(k - 1) * Slots + i] ELSE NoEntry]
        new(k) == DirBlock(IF k < last THEN c[k + 1] ELSE 0, slots(k))
    IN  FoldLeft(LAMBDA g, k : WriteDisk(g, c[k], new(k)), f, [k \in 1 .. last |-> k])
WriteDir ==
    /\ job.pc = "data" /\ job.left = <<>>
    /\ Return(WriteDirTable(fs, job.dir, job.idx, TableEntry))
    /\ fd' = IF job.call = "fdwrite" THEN [fd EXCEPT !.off = job.size, !.size = job.size] ELSE fd
    /\ UNCHANGED <<streams, calls, exclusive>>

-----------------------------------------------------------------------------
(* Streams.                                                                 *)

StreamWrite(h, d) ==
    /\ Idle /\ streams[h].open
    /\ streams[h].size + Len(d) <= MaxSize
    /\ job' = [NoJob EXCEPT !.call = "swrite", !.pc = "store", !.handle = h, !.left = d]
    /\ UNCHANGED <<fs, streams, fd, calls, exclusive>>

Current == streams[job.handle]
Full == Current.cur = 0 \/ Current.pos >= Payload

Extended(f, cur, new) ==
    LET f1 == PutBlock(Invalidate(AllocBlock(f), new), new, ZeroBlock)
        f2 == GetBlock(f1, cur)
        link == [View(f2, cur) EXCEPT !.next = new]
    IN  IF cur = 0 THEN f1 ELSE PutBlock(Invalidate(f2, cur), cur, link)
StreamExtend ==
    /\ job.pc = "store" /\ Full
    /\ IF ~CanAlloc(fs) THEN Return(fs) /\ UNCHANGED streams
       ELSE /\ fs' = Extended(fs, Current.cur, NewBlock(fs))
            /\ streams' = [streams EXCEPT ![job.handle].cur = NewBlock(fs),
                                          ![job.handle].first = IF @ = 0 THEN NewBlock(fs) ELSE @,
                                          ![job.handle].pos = 0]
            /\ UNCHANGED job
    /\ UNCHANGED <<fd, calls, exclusive>>

Overlaid(old, pos, d) ==
    [i \in 1 .. Payload |-> IF i > pos /\ i <= pos + Len(d) THEN d[i - pos] ELSE old[i]]
StreamStore ==
    LET s == Current
        d == FirstCells(job.left, Payload - s.pos)
        g == GetBlock(fs, s.cur)
        new == DataBlock(View(g, s.cur).next, Overlaid(View(g, s.cur).data, s.pos, d))
        rest == OtherCells(job.left, Payload - s.pos)
    IN  /\ job.pc = "store" /\ ~Full
        /\ fs' = PutBlock(Invalidate(g, s.cur), s.cur, new)
        /\ streams' = [streams EXCEPT ![job.handle].pos = @ + Len(d),
                                      ![job.handle].size = @ + Len(d)]
        /\ job' = IF rest = <<>> THEN NoJob ELSE [job EXCEPT !.left = rest]
        /\ UNCHANGED <<fd, calls, exclusive>>

\* eynfs_stream_end writes the entry to the slot found when the stream began.
StreamEntryPos(s) == [name |-> Base(s.path), type |-> FILE, first |-> s.first, size |-> s.pos]
StreamEntry(s) == [name |-> Base(s.path), type |-> FILE, first |-> s.first, size |-> s.size]
StreamEnd(h) ==
    LET s == streams[h]
    IN  /\ Idle /\ s.open
        /\ fs' = IF HasSlot(fs, s.dir, s.idx) THEN SetSlot(fs, s.dir, s.idx, StreamEntry(s)) ELSE fs
        /\ streams' = [streams EXCEPT ![h] = Streams0]
        /\ UNCHANGED <<job, fd, calls, exclusive>>

\* syscall_reset_user_streams, when a task starts or ends.
ResetStreams == /\ Idle /\ \E h \in Handles : streams[h].open
                /\ streams' = [h \in Handles |-> Streams0]
                /\ UNCHANGED <<fs, job, fd, calls, exclusive>>

-----------------------------------------------------------------------------
(* Reading.                                                                 *)

\* vfs_stat reads the start of a file for the FIFO marker.
Probed(t) == [t EXCEPT !.fs = IF t.ent.size = 0 \/ t.ent.first = 0 THEN @ ELSE GetBlock(@, t.ent.first)]
VfsStat(f, p) == Probed(Traverse(f, p))

\* open(2): the size comes from the stat, the first block from a second lookup.
OpenFd(p) ==
    /\ Starts("open") /\ ~fd.open
    /\ Unused(p)
    /\ \E t \in {VfsStat(fs, p)} :
        /\ IsFile(t)
        /\ fs' = Traverse(t.fs, p).fs
        /\ fd' = [NoFd EXCEPT !.open = TRUE, !.path = p, !.first = t.ent.first, !.size = t.ent.size]
        /\ UNCHANGED <<job, streams, exclusive>>

CloseFd == Idle /\ fd.open /\ fd' = NoFd /\ UNCHANGED <<fs, job, streams, calls, exclusive>>

\* eynfs_read_file_fast: from the cursor when the offset is not before it.
FromCursor(d) == d.cur # 0 /\ d.off >= d.curOff
NextCursor(c, i) == IF i <= Len(c) THEN c[i] ELSE 0
AdvancedOff(off, blocks, got) == off + blocks * Payload
ReadFast(f, d, n) ==
    LET start == IF FromCursor(d) THEN d.cur ELSE d.first
        c == ViewChain(f, start)
        ahead == IF FromCursor(d) THEN d.off - d.curOff ELSE d.off
        k == Least(ahead \div Payload, Len(c))
        skip == ahead - k * Payload
        want == Least(n, d.size - d.off)
        got == Least(want, Len(c) * Payload - ahead)
        m == BlockCount(skip + got)
        data == ViewCells(f, start, ahead + got)
    IN  IF d.off >= d.size THEN [fs |-> f, data |-> <<>>, cur |-> d.cur, curOff |-> d.curOff]
        ELSE IF k = Len(c) THEN [fs |-> GetBlocks(f, c), data |-> <<>>, cur |-> 0, curOff |-> d.off - skip]
        ELSE [fs |-> GetBlocks(f, SubSeq(c, 1, k + m)), data |-> SubSeq(data, ahead + 1, ahead + got),
              cur |-> NextCursor(c, k + m + 1), curOff |-> AdvancedOff(d.off - skip, m, got)]

\* vfs_read_file_at, for a file that had no block when it was opened.
ReadEntry(f, t, d, n) ==
    LET data == IF d.off < t.ent.size THEN OtherCells(ReadCells(f, t, d.off + n), d.off) ELSE <<>>
    IN  [fs |-> AfterReading(f, t, IF data = <<>> THEN 0 ELSE d.off + Len(data)),
         data |-> data, cur |-> d.cur, curOff |-> d.curOff]

ReadFd(n) ==
    /\ Idle /\ fd.open
    /\ \E r \in {IF fd.first # 0 THEN ReadFast(fs, fd, n)
                ELSE ReadEntry(fs, Traverse(fs, fd.path), fd, n)} :
        /\ fs' = r.fs
        /\ fd' = [fd EXCEPT !.off = @ + Len(r.data), !.cur = r.cur, !.curOff = r.curOff]
        /\ UNCHANGED <<job, streams, calls, exclusive>>

\* syscall_seek_fd keeps the cursor for a seek that does not go behind it.
SeekFd(o) ==
    LET keep == fd.cur # 0 /\ o >= fd.curOff
    IN  /\ Idle /\ fd.open /\ o <= fd.size
        /\ fd' = [fd EXCEPT !.off = o, !.cur = IF keep THEN @ ELSE 0, !.curOff = IF keep THEN @ ELSE 0]
        /\ UNCHANGED <<fs, job, streams, calls, exclusive>>

\* The installer's format writes sectors directly.  The call that prepares a drive
\* then clears the caches, which first writes back the dirty sectors they still
\* hold; the call that formats one partition leaves them as they are.
FormattedMap == {Root}
Formatted == [fs EXCEPT !.disk[Root] = ZeroBlock, !.used = FormattedMap]
Format == /\ Starts("format") /\ (exclusive => ~fd.open /\ FreeHandles = Handles)
          /\ fs' = CacheClear(Formatted)
          /\ UNCHANGED <<job, streams, fd, exclusive>>
FormatPartition == /\ Starts("format") /\ ~exclusive
                   /\ fs' = Formatted
                   /\ UNCHANGED <<job, streams, fd, exclusive>>

-----------------------------------------------------------------------------
\* What programs write: cells that tell which call they belong to.
Data == {[i \in 1 .. n |-> calls] : n \in 1 .. MaxSize}
Step == \/ FreeNext \/ FreeEnds \/ ClearSlot \/ CreateEntry \/ InitStream
        \/ WriteData \/ WriteDir \/ StreamExtend \/ StreamStore
Call == \/ \E p \in Paths, d \in Data \cup {<<>>} : VfsWrite(p, d)
        \/ \E p \in Paths, d \in Data : AppendOutput(p, d)
        \/ \E d \in Data : WriteFd(d)
        \/ \E p \in Paths : Unlink(p) \/ Rmdir(p) \/ Mkdir(p) \/ OpenFd(p)
        \/ \E h \in Handles, p \in Paths : StreamBegin(h, p)
        \/ \E h \in Handles, d \in Data : StreamWrite(h, d)
        \/ \E h \in Handles : StreamEnd(h)
        \/ ResetStreams \/ CloseFd \/ Format \/ FormatPartition
        \/ \E n \in 1 .. MaxSize : ReadFd(n)
        \/ \E o \in 0 .. MaxSize : SeekFd(o)
\* All calls made; nothing is left to do.
Done == ((Idle /\ calls = MaxCalls) \/ Hung) /\ UNCHANGED vars
Next == Step \/ Call \/ Done

Spec == Init /\ [][Next]_vars
\* The kernel runs a call it has begun: weak fairness of Step, which the
\* deadlock check shows to be enabled whenever a call is in progress.
FairSpec == Spec /\ ([]<>(Idle \/ Hung) \/ []<><<Step>>_vars)

-----------------------------------------------------------------------------
(* Properties.                                                              *)

BlockType == [next : 0 .. NBlocks, slots : Seq([name : STRING, type : 0 .. 2, first : 0 .. NBlocks, size : Nat]),
              data : Seq(Cells \cup {-1})]
\* The state has its shape: at most CacheSize sectors in the cache, no sector
\* twice, at most FreeCacheSize free blocks remembered.
TypeOK ==
    /\ \A b \in Blocks : fs.disk[b] \in BlockType
    /\ fs.used \subseteq Blocks
    /\ Len(fs.cache) <= CacheSize /\ Cardinality(fs.free) <= FreeCacheSize
    /\ \A i, j \in DOMAIN fs.cache : fs.cache[i].blk = fs.cache[j].blk => i = j
    /\ job.cur \in 0 .. NBlocks /\ job.pc \in {"idle", "free", "clear", "create", "init", "data", "store", "hung"}
    /\ calls \in 0 .. MaxCalls

\* eynfs_alloc_block never hands out a block that is in use: the remembered
\* free blocks are free in the bitmap, whatever calls were made and however
\* they failed.
FreeCacheFresh == fs.free \cap fs.used = {}

\* No call frees the root directory or links a chain to it, even one that
\* follows stale links of blocks with an earlier life.
RootSafe == /\ Root \in fs.used
            /\ \A b \in Blocks : View(fs, b).next # Root /\ fs.disk[b].next # Root
            /\ job.pc = "free" => job.cur # Root


\* Whatever calls are made on files others hold open, on a disk that is full or
\* through stale sectors: no block in use is handed out and the root survives.
BlocksSound == TypeOK /\ FreeCacheFresh /\ RootSafe

(* For programs that leave open files alone.                                *)
Entries == LET table == Table(fs, Root) IN {i \in DOMAIN table : table[i].name # ""}
Going(i) == job.pc \in {"free", "clear", "init"} /\ job.idx = i
Live == {i \in Entries : ~Going(i)}
ChainOf(i) == ToSet(ViewChain(fs, Table(fs, Root)[i].first))
RootChain == ToSet(ViewChain(fs, Root))

\* A block belongs to one file or to the directory and is marked as used; when
\* no call is in progress nothing else is marked, so nothing has leaked.
BlocksOwned ==
    /\ \A i, j \in Live : i # j => ChainOf(i) \cap ChainOf(j) = {}
    /\ \A i \in Live : ChainOf(i) \cap RootChain = {}
    /\ RootChain \cup UNION {ChainOf(i) : i \in Live} \subseteq fs.used
    /\ Idle => fs.used = RootChain \cup UNION {ChainOf(i) : i \in Live}

\* Nothing waits in the cache: after every step of these calls the disk holds
\* what the cache shows, so a power failure loses no finished file.
DiskCurrent == \A b \in Blocks : View(fs, b) = fs.disk[b]

\* A read through the cursor returns the cells at the offset, from whichever
\* block the last read or seek left it at.
FastReadSound ==
    fd.open /\ fd.first # 0 /\ Idle =>
      \A n \in 1 .. MaxSize :
         ReadFast(fs, fd, n).data
           = SubSeq(ViewCells(fs, fd.first, fd.size), fd.off + 1, Least(fd.size, fd.off + n))

\* Every block has one owner, and neither the block cache nor a cursor shows
\* anything but what the disk holds.
FilesSound == BlocksOwned /\ DiskCurrent /\ FastReadSound

\* The blocks, caches and slots behave as a map of paths to contents.
FileOf(p) ==
    LET named == {b \in ToSet(DiskChain(fs, Root)) \X (1 .. Slots) :
                    fs.disk[b[1]].slots[b[2]].name = Base(p)}
    IN  IF named = {} THEN <<-1>>
        ELSE LET b == CHOOSE x \in named : TRUE
                 e == fs.disk[b[1]].slots[b[2]]
             IN  DiskCells(fs, e.first, e.size)
WriterOf(h) == IF streams[h].open
               THEN [path |-> streams[h].path, buf |-> DiskCells(fs, streams[h].first, streams[h].size)]
               ELSE [path |-> <<>>, buf |-> <<>>]
Store == INSTANCE FileStore WITH files <- [p \in Paths |-> FileOf(p)],
                                 writer <- [h \in Handles |-> WriterOf(h)]
ImplementsFileStore == Store!Spec

(* What the code does not keep; the README says how it is lost.             *)

\* No call loops for ever.  A program that unlinks a file it is streaming links
\* the block it is handed again to itself; vfs_write_file frees the chain of a new
\* file's block, and that of an entry its directory's stale copy shows, though a
\* stream of somebody else has the blocks by then.
NoneHangs == ~Hung

\* A finished vfs_write_file is what a lookup shows: "Directory contents and
\* path traversal results are cached; invalidate so metadata updates are
\* visible immediately" (eynfs.c, end of eynfs_write_file).
MetadataVisible ==
    [][job.pc = "data" /\ job'.pc = "idle" /\ job.left = <<>>
         => Traverse(fs', job.path).ent.size = job.size]_vars
=============================================================================
