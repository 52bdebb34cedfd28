------------------------------ MODULE RamDrive ------------------------------
(***************************************************************************)
(* The RAM drive (vfs_ramdisk_* in src/src/fs/vfs.c): the boot module that *)
(* holds an EYNFS volume.  Every call finds the module, its partition and  *)
(* its superblock anew, so that a sector written meanwhile can change what *)
(* a path or an offset means.  A sector is whatever is read into it: one   *)
(* that is not a directory has no entries, one that is not a table ends    *)
(* without its signature.  A directory whose chain leads back into itself, *)
(* in which the search for a missing name never ends, is not modelled.     *)
(***************************************************************************)
EXTENDS Integers, Sequences, SequencesExt

CONSTANTS
    RamModules,          \* what the boot loader may have left
    RamWrites,           \* sectors that raw writes store
    RamPaths,            \* paths, as sequences of names
    RamCells,            \* bytes of a block behind the link
    EYNFS_SUPERBLOCK_LBA,
    MaxRamReads, MaxRamWrites   \* bounds on calls

VARIABLES
    modules,                \* the boot modules
    reader,              \* a program reading a file through to its end
    ramCalls             \* calls so far
ramvars == <<modules, reader, ramCalls>>

NoSuper == [magic |-> FALSE, root |-> 0, total |-> 0]
BlankSector == [table |-> <<>>, super |-> NoSuper, next |-> 0, slots |-> <<>>,
                data |-> [i \in 1..RamCells |-> 0]]
NoDirent == [name |-> "", type |-> "none", size |-> 0, first |-> 0]

\* The first module named a RAM disk, or else the first.
Picked(ms) ==
    LET named == {i \in 1..Len(ms) : ms[i].named}
    IN IF named = {} THEN 1 ELSE CHOOSE i \in named : \A j \in named : i <= j

Image == IF modules = <<>> THEN <<>> ELSE modules[Picked(modules)].sectors

\* The partition of the type, or the first that is not empty.
PartitionStart(img) ==
    LET t == img[1].table
        e == SelectInSeq(t, LAMBDA x : x.type = "eynfs" /\ x.count > 0)
        n == SelectInSeq(t, LAMBDA x : x.count > 0 /\ x.start > 0)
    IN IF e # 0 THEN t[e].start ELSE IF n # 0 THEN t[n].start ELSE EYNFS_SUPERBLOCK_LBA

\* The superblock is looked for in the partition, then where old images had it.
Probes(img) == <<PartitionStart(img), 0, EYNFS_SUPERBLOCK_LBA>>
Volume(img) ==
    LET good == {i \in 1..3 : Probes(img)[i] < Len(img) /\ img[Probes(img)[i] + 1].super.magic}
        i    == CHOOSE x \in good : \A y \in good : x <= y
    IN IF img = <<>> \/ PartitionStart(img) >= Len(img) \/ good = {}
       THEN [ok |-> FALSE, start |-> 0, root |-> 0, total |-> 0]
       ELSE [ok |-> TRUE, start |-> Probes(img)[i],
             root |-> img[Probes(img)[i] + 1].super.root,
             total |-> img[Probes(img)[i] + 1].super.total]

\* The block's sector, if the module has it.
InModule(v, b) == v.start + b < Len(Image)
SectorOf(v, b) == Image[v.start + b + 1]

\* The blocks of a chain, 0 at and after its end; a link outside ends it.
Links(v, b) ==
    LET at[k \in 0..Len(Image)] ==
            IF k = 0 THEN b
            ELSE IF at[k - 1] = 0 \/ ~InModule(v, at[k - 1]) THEN 0
            ELSE SectorOf(v, at[k - 1]).next
    IN at
EntriesAt(v, b) == IF b = 0 \/ ~InModule(v, b) THEN <<>> ELSE SectorOf(v, b).slots

FindInDirRam(v, b, name) ==
    LET at   == Links(v, b)
        hits == {k \in DOMAIN at : SelectInSeq(EntriesAt(v, at[k]), LAMBDA e : e.name = name) # 0}
        k    == CHOOSE x \in hits : \A y \in hits : x <= y
        es   == EntriesAt(v, at[k])
    IN IF hits = {} THEN NoDirent ELSE es[SelectInSeq(es, LAMBDA e : e.name = name)]

TraverseRam(v, path) ==
    LET t[i \in 0..Len(path)] ==
            IF i = 0 THEN [name |-> "/", type |-> "dir", size |-> 0, first |-> v.root]
            ELSE IF t[i - 1].type # "dir" THEN NoDirent
            ELSE FindInDirRam(v, t[i - 1].first, path[i])
    IN t[Len(path)]

\* vfs_ramdisk_read_file_at_internal: blocks before the offset are passed
\* over, then what is wanted is copied block by block.
Steps(v, want, s) ==
    LET sec  == SectorOf(v, s.cur)
        left == RamCells - s.skip
        take == IF want - Len(s.out) < left THEN want - Len(s.out) ELSE left
    IN IF s.cur = 0 \/ ~s.ok \/ Len(s.out) >= want THEN s
       ELSE IF s.cur >= v.total \/ ~InModule(v, s.cur) THEN [s EXCEPT !.ok = FALSE]
       ELSE IF s.skip >= RamCells THEN [s EXCEPT !.cur = sec.next, !.skip = s.skip - RamCells]
       ELSE [s EXCEPT !.cur = sec.next, !.skip = 0,
                      !.out = s.out \o SubSeq(sec.data, s.skip + 1, s.skip + take)]
ReadFileAt(v, ent, n, off) ==
    LET want == IF ent.size - off < n THEN ent.size - off ELSE n
        r[k \in 0..(2 + (off + n) \div RamCells)] ==
            IF k = 0 THEN [cur |-> ent.first, skip |-> off, out |-> <<>>, ok |-> TRUE]
            ELSE Steps(v, want, r[k - 1])
    IN IF ent.type # "file" THEN [ok |-> FALSE, out |-> <<>>]
       ELSE IF off >= ent.size THEN [ok |-> TRUE, out |-> <<>>]
       ELSE LET s == r[2 + (off + n) \div RamCells] IN [ok |-> s.ok, out |-> s.out]

\* vfs_stat and vfs_read_file_at on the RAM drive.
RamOpen ==
    /\ ramCalls.reads < MaxRamReads /\ Volume(Image).ok
    /\ \E p \in RamPaths :
         /\ TraverseRam(Volume(Image), p).type = "file"
         /\ reader' = [path |-> p, off |-> 0, from |-> 0, got |-> <<>>, last |-> "open"]
    /\ ramCalls' = [ramCalls EXCEPT !.reads = @ + 1] /\ UNCHANGED modules

RamRead ==
    /\ ramCalls.reads < MaxRamReads /\ reader.last \in {"open", "read", "failed"}
    /\ \E n \in 1..(RamCells + 1) :
         LET v == Volume(Image)
             r == ReadFileAt(v, TraverseRam(v, reader.path), n, reader.off)
         IN reader' = IF ~v.ok \/ ~r.ok THEN [reader EXCEPT !.last = "failed"]
                      ELSE [reader EXCEPT !.off = @ + Len(r.out), !.got = @ \o r.out,
                                          !.last = IF r.out = <<>> THEN "end" ELSE "read"]
    /\ ramCalls' = [ramCalls EXCEPT !.reads = @ + 1] /\ UNCHANGED modules

\* vfs_ramdisk_write_sector, for the installer and EYNFS through ata_write_sector.
RamWriteSector ==
    /\ ramCalls.writes < MaxRamWrites /\ Volume(Image).ok
    /\ \E lba \in 0..(Len(Image) - 1), s \in RamWrites :
         modules' = [modules EXCEPT ![Picked(modules)].sectors[lba + 1] = s]
    /\ reader' = [reader EXCEPT !.from = reader.off, !.got = <<>>,
                                !.last = IF @ = "closed" THEN @ ELSE "open"]
    /\ ramCalls' = [ramCalls EXCEPT !.writes = @ + 1]

RamInit ==
    /\ modules \in RamModules
    /\ reader = [path |-> <<>>, off |-> 0, from |-> 0, got |-> <<>>, last |-> "closed"]
    /\ ramCalls = [reads |-> 0, writes |-> 0]
RamNext == RamOpen \/ RamRead \/ RamWriteSector

-----------------------------------------------------------------------------
(* Properties.                                                              *)

\* The byte of a file at a position, where its chain has one.
HasByte(v, ent, p) ==
    LET at == Links(v, ent.first) IN
    /\ p < ent.size /\ p \div RamCells <= Len(Image)
    /\ \A k \in 0..(p \div RamCells) : at[k] # 0 /\ at[k] < v.total /\ InModule(v, at[k])
ByteAt(v, ent, p) == SectorOf(v, Links(v, ent.first)[p \div RamCells]).data[(p % RamCells) + 1]

\* Reading on from where the last call ended, in pieces of any size, gives the
\* bytes of the file in order and each once, whatever sector was written before;
\* the end is reported only where the file's size or its chain ends; and a module
\* whose table names an EYNFS partition with a superblock is read there.
RamSound ==
    LET v   == Volume(Image)
        ent == TraverseRam(v, reader.path)
        t   == Image[1].table
        e   == SelectInSeq(t, LAMBDA x : x.type = "eynfs" /\ x.count > 0)
    IN  /\ v.ok => \A i \in 1..Len(reader.got) :
                      /\ HasByte(v, ent, reader.from + i - 1)
                      /\ reader.got[i] = ByteAt(v, ent, reader.from + i - 1)
        /\ reader.last = "end" /\ v.ok => ~HasByte(v, ent, reader.off)
        /\ v.ok /\ e # 0 /\ t[e].start < Len(Image) /\ Image[t[e].start + 1].super.magic
             => v.start = t[e].start
=============================================================================
