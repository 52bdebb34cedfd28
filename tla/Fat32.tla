------------------------------- MODULE Fat32 -------------------------------
(***************************************************************************)
(* Files on a FAT32 volume (src/src/fs/vfs.c, src/src/drivers/fat32.c): a  *)
(* call reads and writes sectors one after the other, and any of them may  *)
(* fail (bound: one of a call, and one of the clearing-up after it).  The  *)
(* copies of the FAT are one table; entries past the volume, which fill up *)
(* its last sector, are there and free.  A sector holds one unit of data.  *)
(* Directories have one cluster, as those made here have.                  *)
(***************************************************************************)
EXTENDS Integers, Sequences, FiniteSets, SequencesExt

CONSTANTS
    FatNames,   \* names programs use
    Fat83,      \* to_fat32_83: the short name of each, not one to one
    LongNames,  \* names of more than 12 characters
    FatData,    \* data of a sector
    LastCluster,\* of the volume
    Padding,    \* entries of the FAT past the volume
    SecPerClus, \* sectors of a cluster
    DirSlots,   \* entries of a directory cluster, '.' and '..' not counted
    MaxFatSize, \* bound: sectors of a file
    MaxFatCalls \* bound: calls in a behaviour

ASSUME FatAssumption ==
    /\ Fat83 \in [FatNames -> STRING] /\ LongNames \subseteq FatNames
    /\ LastCluster \in Nat /\ LastCluster >= 2 /\ Padding \in Nat
    /\ SecPerClus \in Nat \ {0} /\ DirSlots \in Nat /\ MaxFatSize \in Nat
    /\ MaxFatCalls \in Nat

VARIABLES
    fat,    \* the FAT: 0 free, EOC the last of a chain, else the next
    sec,    \* contents of the clusters
    kept,   \* ghost: files and what was last written to them
    clean,  \* ghost: no call failed half way
    torn,   \* ghost: names whose entries were left with freed clusters
    unsure, \* ghost: names that were given twice, or of which a read or
            \* write was cut short and taken for complete
    wild,   \* ghost: the sectors of a directory were taken for free space
    done    \* calls made
fatvars == <<fat, sec, kept, clean, torn, unsure, wild, done>>

EOC == LastCluster + Padding + 1
Clusters == 2..(LastCluster + Padding)
RootClus == 2
Zero == "zero"

NoEntry == [key |-> "", dir |-> FALSE, first |-> 0, size |-> 0]
EmptyDir == [units |-> <<>>, ents |-> [i \in 1..DirSlots |-> NoEntry]]
DataOf(us) ==
    [units |-> [i \in 1..SecPerClus |-> IF i <= Len(us) THEN us[i] ELSE Zero],
     ents |-> <<>>]

-----------------------------------------------------------------------------
\* fat32_next_cluster_sector until the end of the chain, or of the table.
Chain(f, first) ==
    LET walk[n \in 0..Cardinality(Clusters)] ==
            IF n = 0 THEN <<first>>
            ELSE LET s == walk[n - 1] IN
                 IF f[Last(s)] = EOC THEN s ELSE Append(s, f[Last(s)])
    IN  IF first < 2 THEN <<>> ELSE walk[Cardinality(Clusters)]

\* fat32_free_chain_sector_all, as far as the j-th entry: a free entry leads
\* it to entry 0.
FreeFirst(f, first, j) ==
    LET cs == Chain(f, first) IN
    [c \in DOMAIN f |-> IF \E i \in 1..j : cs[i] = c THEN 0 ELSE f[c]]
FreeChain(f, first) == FreeFirst(f, first, Len(Chain(f, first)))

\* fat32_allocate_chain_sector_all: the first free entries of the table, each
\* marked as the end after the one before was linked to it.
FreeEntries(f) == SelectSeq([i \in 1..Cardinality(Clusters) |-> i + 1],
                            LAMBDA c : f[c] = 0)
Taken(f, n) == SubSeq(FreeEntries(f), 1, n)
CanTake(f, n) == Len(FreeEntries(f)) >= n
Linked(f, cs) ==
    [c \in DOMAIN f |->
        IF \E i \in DOMAIN cs : cs[i] = c
        THEN LET i == CHOOSE i \in DOMAIN cs : cs[i] = c
             IN  IF i = Len(cs) THEN EOC ELSE cs[i + 1]
        ELSE f[c]]

\* The allocation fails at the k-th entry, with its mark written or not.
CutShort(f, k) ==
    LET g == Linked(f, Taken(f, k)) IN {g, [g EXCEPT ![Taken(f, k)[k]] = 0]}

\* What was taken is freed again, or, if that fails too, the first j of it.
ClearUp(f, first) ==
    \E j \in 0..Len(Chain(f, first)) :
        /\ fat' = FreeFirst(f, first, j)
        /\ clean' = (clean /\ j = Len(Chain(f, first)))

\* fat32_find_entry_sector: the slot of a name, 0 if there is none.
Slot(d, key) ==
    LET S == {i \in 1..DirSlots : sec[d].ents[i].key = key}
    IN  IF S = {} THEN 0 ELSE CHOOSE i \in S : \A j \in S : i <= j
FreeSlot(d) ==
    LET S == {i \in 1..DirSlots : sec[d].ents[i] = NoEntry}
    IN  IF S = {} THEN 0 ELSE CHOOSE i \in S : \A j \in S : i <= j

\* fat32_path_to_entry: a name of more than 12 characters is taken apart, and
\* its beginning is not a directory that holds the rest.
Lookup(d, nm) == IF nm \in LongNames THEN 0 ELSE Slot(d, Fat83[nm])

\* The directories paths lead to: the root and those listed in it.
SubDirs == {e \in Range(sec[RootClus].ents) : e.dir}
Dirs == {RootClus} \cup {e.first : e \in SubDirs}
DirName(d) ==
    IF d = RootClus THEN "" ELSE (CHOOSE e \in SubDirs : e.first = d).key
ReachedBy(d) ==
    \/ d = RootClus
    \/ \E nm \in FatNames \ LongNames :
        /\ Fat83[nm] = DirName(d)
        /\ sec[RootClus].ents[Slot(RootClus, DirName(d))].first = d

\* vfs_read_file, vfs_read_file_at; a chain with freed clusters may lead
\* anywhere, and end early.
UnitsOf(c) ==
    IF c \in Clusters /\ sec[c].ents = <<>> THEN sec[c].units
    ELSE [i \in 1..SecPerClus |-> "other"]
Beginning(us, n) == SubSeq(us, 1, IF n < Len(us) THEN n ELSE Len(us))
ReadAt(e, offset, want) ==
    LET bytesPerClus == SecPerClus
        from == offset \div bytesPerClus
        cs == Chain(fat, e.first)
        left == IF e.size - offset < want THEN e.size - offset ELSE want
        rest == FlattenSeq([i \in 1..(Len(cs) - from) |-> UnitsOf(cs[from + i])])
        skip == offset % bytesPerClus
    IN  IF offset >= e.size \/ rest = <<>> THEN <<>>
        ELSE Beginning(SubSeq(rest, skip + 1, Len(rest)), left)

\* Clusters a file of a size needs.
Needed(size) == (size + SecPerClus - 1) \div SecPerClus

-----------------------------------------------------------------------------
Entries32 == {<<d, i>> \in Dirs \X (1..DirSlots) : sec[d].ents[i] # NoEntry}
Entry(p) == sec[p[1]].ents[p[2]]
NameOf(p) == <<DirName(p[1]), Entry(p).key>>
ChainOf(p) == Range(Chain(fat, Entry(p).first))
Doubtful(nm) == nm \in unsure \/ <<"", nm[1]>> \in unsure

\* Ghost: clusters are freed that the entry at slot i of d lists.  If they
\* were freed before, others may have taken them since.
Freeing(d, i, freed) ==
    LET others == {p \in Entries32 \ {<<d, i>>} : ChainOf(p) \cap freed # {}}
        nm == NameOf(<<d, i>>)
    IN  [names |-> IF nm \in torn THEN {NameOf(p) : p \in others} ELSE {},
         directory |-> nm \in torn /\ \E p \in others : Entry(p).dir,
         rest |-> IF Doubtful(nm) THEN torn ELSE torn \ {nm}]

\* vfs_write_file on FAT32: the transfer that fails.
Faults == {"none", "lookup", "alloc", "data", "next", "free", "entry"}

Stored(cs, us, n) ==
    [c \in DOMAIN sec |->
        IF \E i \in 1..n : cs[i] = c
        THEN LET i == CHOOSE i \in 1..n : cs[i] = c
             IN  DataOf(SubSeq(us, (i - 1) * SecPerClus + 1,
                    IF i * SecPerClus < Len(us) THEN i * SecPerClus ELSE Len(us)))
        ELSE sec[c]]

SetEntry(s, d, i, e) == [s EXCEPT ![d].ents[i] = e]


\* The clusters of the old file are freed before its entry is written.
FreeOld(f, old) == FreeChain(f, old)

\* The volume is full: words of the second FAT, of the root directory and of
\* data count as free entries.  Either their sectors are past the end of the
\* disk, writing them fails, and the words are made free again; or they exist
\* and the words stay written.
Overrun(us) ==
    /\ \/ /\ sec' = Stored(FreeEntries(fat), us, Len(FreeEntries(fat)))
          /\ UNCHANGED wild
       \/ wild' = TRUE /\ UNCHANGED sec
    /\ UNCHANGED <<fat, kept, clean, torn, unsure>>

\* A failed look-up takes the name for a new one.  A failed read of the next
\* cluster ends the data, and the call goes on; so it does when not all of the
\* old clusters could be freed.
Write(d, key, us, fault, whole) ==
    LET n == Needed(Len(us))
        cs == Taken(fat, n)
        first == IF n = 0 THEN 0 ELSE cs[1]
        known == Slot(d, key)
        old == IF fault = "lookup" THEN 0 ELSE known
        at == IF old # 0 THEN old ELSE FreeSlot(d)
        got == Linked(fat, cs)
        oldFirst == IF old # 0 THEN sec[d].ents[old].first ELSE 0
        oldChain == Chain(got, oldFirst)
        freed == Range(oldChain)
        gone == Freeing(d, old, freed)
        nm == <<DirName(d), key>>
        new == [key |-> key, dir |-> FALSE, first |-> first, size |-> Len(us)]
    IN  /\ old # 0 => ~sec[d].ents[old].dir
        /\ fault = "lookup" => known # 0
        /\ fault = "entry" => at # 0
        /\ \/ ~CanTake(fat, n) /\ fault = "none" /\ Overrun(us)
           \/ /\ CanTake(fat, n) /\ fault = "alloc"
              /\ \E k \in 1..n : \E g \in CutShort(fat, k) : ClearUp(g, first)
              /\ UNCHANGED <<sec, kept, torn, unsure, wild>>
           \/ /\ CanTake(fat, n) /\ fault = "data"
              /\ \E k \in 0..(n - 1) : sec' = Stored(cs, us, k)
              /\ n > 0 /\ ClearUp(got, first)
              /\ UNCHANGED <<kept, torn, unsure, wild>>
           \/ /\ CanTake(fat, n) /\ fault \notin {"alloc", "data"}
              /\ \E stored \in IF fault = "next" THEN 1..(n - 1) ELSE {n},
                    j \in IF fault = "free" THEN 0..(Len(oldChain) - 1)
                          ELSE {Len(oldChain)} :
                 LET written == Stored(cs, us, stored)
                     enters == fault # "entry" /\ at # 0
                 IN  /\ fat' = IF j = Len(oldChain) THEN FreeOld(got, oldFirst)
                               ELSE FreeFirst(got, oldFirst, j)
                     /\ sec' = IF enters THEN SetEntry(written, d, at, new)
                               ELSE written
                     /\ clean' = (clean /\ enters /\ fault # "free")
                     /\ kept' = IF ~enters THEN kept
                                ELSE {k \in kept : <<k.dir, k.key>> # nm} \cup
                                   {[dir |-> nm[1], key |-> key, data |-> us]}
              /\ torn' =
                    IF old = 0 THEN torn
                    ELSE gone.rest \cup gone.names
                         \cup (IF \/ fault = "entry" /\ freed # {}
                                  \/ nm \in torn /\ freed \cap Range(cs) # {}
                               THEN {nm} ELSE {})
              /\ wild' = (wild \/ (old # 0 /\ gone.directory))
              /\ unsure' = IF \/ fault = "lookup" /\ known # 0
                              \/ fault = "next" \/ ~whole
                           THEN unsure \cup {nm} ELSE unsure

\* Of the name only its short form counts.
VfsWriteFile(d, key, us, fault) ==
    ReachedBy(d) /\ Write(d, key, us, fault, TRUE)

\* append_output_to_file: what the file holds, if it is found, and the rest.
\* A read of the file's entry that fails finds no file, and one of the FAT
\* ends the content after a cluster.
AppendOutput(d, nm, u, fault) ==
    LET i == Lookup(d, nm)
        e == sec[d].ents[i]
        has == IF i # 0 /\ ~e.dir THEN ReadAt(e, 0, e.size) ELSE <<>>
    IN  /\ ReachedBy(d) /\ Len(has) < MaxFatSize
        /\ \/ Write(d, Fat83[nm], Append(has, u), fault, TRUE)
           \/ /\ fault = "none"
              /\ \E c \in 0..(Needed(Len(has)) - 1) :
                    Write(d, Fat83[nm], Append(Beginning(has, c * SecPerClus), u),
                          "none", FALSE)

\* vfs_mkdir in the root directory.
VfsMkdir(key, fault) ==
    LET known == Slot(RootClus, key)
        c == Taken(fat, 1)[1]
        got == Linked(fat, <<c>>)
        at == FreeSlot(RootClus)
        new == [key |-> key, dir |-> TRUE, first |-> c, size |-> 0]
        blank == [sec EXCEPT ![c] = EmptyDir]
    IN  /\ known # 0 <=> fault = "lookup"
        /\ \/ ~CanTake(fat, 1) /\ fault \in {"none", "lookup"} /\ Overrun(<<>>)
           \/ /\ CanTake(fat, 1) /\ UNCHANGED <<kept, torn, wild>>
              /\ \/ /\ fault = "alloc"
                    /\ \E g \in CutShort(fat, 1) : ClearUp(g, c)
                    /\ UNCHANGED <<sec, unsure>>
                 \/ /\ fault = "data" /\ ClearUp(got, c)
                    /\ UNCHANGED <<sec, unsure>>
                 \/ /\ fault \in {"none", "lookup"} /\ at = 0 /\ ClearUp(got, c)
                    /\ sec' = [sec EXCEPT ![c] = DataOf(<<>>)]
                    /\ UNCHANGED unsure
                 \/ /\ fault = "entry" /\ at # 0 /\ fat' = got
                    /\ sec' = [sec EXCEPT ![c] = DataOf(<<>>)] /\ clean' = FALSE
                    /\ UNCHANGED unsure
                 \/ /\ fault \in {"none", "lookup"} /\ at # 0 /\ fat' = got
                    /\ sec' = SetEntry(blank, RootClus, at, new)
                    /\ unsure' = IF known # 0 THEN unsure \cup {<<"", key>>}
                                 ELSE unsure
                    /\ UNCHANGED clean

\* The entry is marked as deleted, then its clusters are freed, or the first
\* of them if that fails.
RemoveEntry(d, i, fault) ==
    LET first == sec[d].ents[i].first
        chain == Chain(fat, first)
        gone == Freeing(d, i, Range(chain))
    IN  /\ sec' = SetEntry(sec, d, i, NoEntry)
        /\ \E j \in IF fault = "free" THEN 0..(Len(chain) - 1) ELSE {Len(chain)} :
              fat' = FreeFirst(fat, first, j)
        /\ clean' = (clean /\ fault # "free")
        /\ torn' = gone.rest \cup gone.names
        /\ wild' = (wild \/ gone.directory)
        /\ UNCHANGED unsure

\* vfs_rmdir: the directory must be empty.
VfsRmdir(nm, fault) ==
    LET i == Lookup(RootClus, nm)
        e == sec[RootClus].ents[i]
    IN  /\ i # 0 /\ e.dir
        /\ \A j \in 1..DirSlots : sec[e.first].ents[j] = NoEntry
        /\ RemoveEntry(RootClus, i, fault)
        /\ UNCHANGED kept

\* vfs_unlink: directories are refused.
VfsUnlink(d, nm, fault) ==
    LET i == Lookup(d, nm) IN
    /\ ReachedBy(d) /\ i # 0 /\ ~sec[d].ents[i].dir
    /\ kept' = {k \in kept : <<k.dir, k.key>> # <<DirName(d), Fat83[nm]>>}
    /\ RemoveEntry(d, i, fault)

FatInit ==
    /\ fat = [c \in {0, 1} \cup Clusters |-> IF c <= 2 THEN EOC ELSE 0]
    /\ sec = [c \in Clusters |-> IF c = RootClus THEN EmptyDir ELSE DataOf(<<>>)]
    /\ kept = {} /\ clean = TRUE /\ torn = {} /\ unsure = {} /\ wild = FALSE
    /\ done = 0

\* Bound: a volume whose directories were taken for free space is not used
\* any more.
FatNext ==
    /\ ~wild /\ done < MaxFatCalls /\ done' = done + 1
    /\ \/ \E d \in Dirs, key \in Range(Fat83), us \in {<<>>} \cup {<<u, u, u>> : u \in FatData},
             fault \in Faults : VfsWriteFile(d, key, us, fault)
       \/ \E d \in Dirs, nm \in FatNames, u \in FatData, fault \in Faults :
             AppendOutput(d, nm, u, fault)
       \/ \E key \in Range(Fat83), fault \in Faults : VfsMkdir(key, fault)
       \/ \E nm \in FatNames, fault \in {"none", "free"} : VfsRmdir(nm, fault)
       \/ \E d \in Dirs, nm \in FatNames, fault \in {"none", "free"} :
             VfsUnlink(d, nm, fault)

-----------------------------------------------------------------------------
\* Whatever failed at whatever step: the chains of two files or directories
\* never share a cluster, each ends, and has as many clusters as the size of
\* its entry asks for; clusters are lost only when a call failed half way, or
\* found no room in a directory.  Only of a name whose clusters were freed
\* before the write of its entry failed, and of those that took such clusters
\* before that name was written or removed again, is nothing said.
FatSound ==
    ~wild =>
    LET sound == {p \in Entries32 : NameOf(p) \notin torn}
        chains == [p \in Entries32 |-> ChainOf(p)]
    IN
    /\ \A p \in sound :
        LET e == Entry(p) cs == Chain(fat, e.first) IN
        /\ Len(cs) = IF e.dir THEN 1 ELSE Needed(e.size)
        /\ \A i \in DOMAIN cs : fat[cs[i]] # 0
        /\ cs # <<>> => fat[Last(cs)] = EOC
    /\ \A p, q \in sound : p # q => chains[p] \cap chains[q] = {}
    /\ \A p, q \in Entries32 :
        p # q /\ p[1] = q[1] /\ ~Doubtful(NameOf(p)) => Entry(p).key # Entry(q).key
    /\ fat[RootClus] = EOC
    /\ clean => {c \in Clusters : fat[c] # 0} =
                  {RootClus} \cup UNION Range(chains)

\* Every other file, read from any offset, holds what was last written to its
\* short name, whatever calls and failures came after; save those that a
\* failed read made the kernel double or cut short without an error.
FatKept ==
    ~wild =>
    LET told(nm) == nm \notin torn /\ ~Doubtful(nm)
        files == {p \in Entries32 : ~Entry(p).dir /\ told(NameOf(p))}
    IN
    /\ {[dir |-> NameOf(p)[1], key |-> NameOf(p)[2],
         data |-> ReadAt(Entry(p), 0, MaxFatSize)] : p \in files} =
            {k \in kept : told(<<k.dir, k.key>>)}
    /\ \A p \in files :
        LET all == ReadAt(Entry(p), 0, MaxFatSize) IN
        \A o \in 0..MaxFatSize :
            ReadAt(Entry(p), o, 1) = IF o < Len(all) THEN <<all[o + 1]>> ELSE <<>>
====
