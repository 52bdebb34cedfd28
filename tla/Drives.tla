------------------------------- MODULE Drives -------------------------------
(***************************************************************************)
(* Which disks there are (src/src/drivers/ata.c), the logical numbers that *)
(* programs name them by, the partitions of the first disk that boot       *)
(* mounts (src/src/drivers/partition.c, src/src/entry/kernel.c), and the   *)
(* installer's formatting of a disk (src/src/cpu/isr.c).  The drives that  *)
(* answer at the ports of a controller are external and do not change.     *)
(***************************************************************************)
EXTENDS Integers, Sequences, FiniteSets

CONSTANTS
    PciBuses,      \* IDE controllers in the order PCI lists them
    DriveSlots,    \* subset of 0..3 that may hold a drive
    PartTables,    \* partition tables a disk may have
    DiskSectors,   \* its size
    InstallStart,  \* 2048: first sector of the installer's partition
    PageSectors,   \* 8: sectors of a swapped page
    BlockBits,     \* 4096: blocks a bitmap block describes
    MaxScans       \* bound: scans in a behaviour

ASSUME DrivesAssumption ==
    /\ DriveSlots \subseteq 0..3 /\ DiskSectors \in Nat
    /\ InstallStart \in Nat \ {0} /\ PageSectors \in Nat \ {0}
    /\ BlockBits \in Nat \ {0} /\ MaxScans \in Nat

Legacy == "legacy"
NoController == [id |-> "none", native |-> {}, safe |-> FALSE]
NoRange == [start |-> 0, count |-> 0]
RAM == 255    \* VFS_DRIVE_RAM
NotMapped == 255

VARIABLES
    pci,      \* controllers
    answers,  \* external: drives that answer at a set of ports
    ports,    \* g_ata_channel_io_base: whose ports each channel uses
    present,  \* detected_drives[].present
    chosen,   \* g_ata_prev_selected_candidate
    weights,  \* g_ata_prev_selected_weight, g_ata_prev_legacy_weight
    maps,     \* logical_to_physical_map, physical_to_logical_map
    current,  \* g_current_drive
    table,    \* the partition table of each drive
    vdrive, swap, moved,  \* ranges mounted, and the last range swapped
    layout,   \* the file system last formatted
    scans
dvars == <<pci, answers, ports, present, chosen, weights, maps, current,
           table, vdrive, swap, moved, layout, scans>>

Channel(d) == d \div 2
Clamp(x, lo, hi) == IF x < lo THEN lo ELSE IF x > hi THEN hi ELSE x
First(S) == CHOOSE x \in S : \A y \in S : x <= y

\* ata_candidate_layout_is_safe: the port ranges of its channels do not overlap.
LayoutSafe(c) == c.safe

ScoreShunsChosen(c) ==
    Clamp((IF 0 \in c.native THEN 16 ELSE 2) + (IF 1 \in c.native THEN 16 ELSE 2)
            + (IF c.native = {0, 1} THEN 1 ELSE 0)
            + (IF c.id = chosen THEN -weights.selected ELSE 0)
            + weights.legacy * (2 - Cardinality(c.native))
            - weights.legacy * Cardinality(c.native), -200, 200)

\* ata_score_ide_candidate, of a controller with a safe layout.
Score(c) ==
    Clamp((IF 0 \in c.native THEN 16 ELSE 2) + (IF 1 \in c.native THEN 16 ELSE 2)
            + (IF c.native = {0, 1} THEN 1 ELSE 0)
            + (IF c.id = chosen THEN weights.selected ELSE 0)
            + weights.legacy * (2 - Cardinality(c.native))
            - weights.legacy * Cardinality(c.native), -200, 200)

\* ata_ide_pci_enum_cb: the best candidate, the first among equals.
Best(cs) ==
    LET S == {i \in DOMAIN pci : LayoutSafe(pci[i]) /\ pci[i] \in cs}
        T == {i \in S : \A j \in S : Score(pci[i]) >= Score(pci[j])}
    IN  IF S = {} THEN NoController ELSE pci[First(T)]

Controllers == {pci[i] : i \in DOMAIN pci}

\* ata_apply_pci_ide_candidate, ata_set_legacy_channels.
PortsOf(c) == [ch \in {0, 1} |-> IF ch \in c.native THEN c.id ELSE Legacy]
LegacyPorts == [ch \in {0, 1} |-> Legacy]

\* ata_probe_standard_slots_with_health, after the state was cleared.
Probe(p) == {d \in DriveSlots : d \in answers[p[Channel(d)]]}

\* init_logical_drive_mapping: present drives are numbered in order.
Rank(s, d) == Cardinality({e \in s : e < d})
Mapping(s) ==
    [physical |-> [l \in 0..(Cardinality(s) - 1) |->
                        CHOOSE d \in s : Rank(s, d) = l],
     logical |-> [d \in DriveSlots |->
                        IF d \in s THEN Rank(s, d) ELSE NotMapped]]

\* ata_init_drives: the best controller, then the legacy ports if it was
\* native, then the second best.
Tries ==
    LET best == Best(Controllers)
        second == Best(Controllers \ {best})
        t1 == [by |-> best, ports |-> PortsOf(best)]
        t2 == [by |-> best, ports |-> LegacyPorts]
        t3 == [by |-> second, ports |-> PortsOf(second)]
    IN  <<t1>> \o (IF best.native # {} THEN <<t2>> ELSE <<>>)
             \o (IF LayoutSafe(second) THEN <<t3>> ELSE <<>>)

InitDrives ==
    /\ scans < MaxScans /\ scans' = scans + 1
    /\ LET found == {i \in DOMAIN Tries : Probe(Tries[i].ports) # {}}
           used == IF found = {} THEN Len(Tries) ELSE First(found)
           best == Best(Controllers)
           legacyTried == best.native # {} /\ used > 1
       IN  /\ ports' = Tries[used].ports
           /\ present' = Probe(Tries[used].ports)
           /\ maps' = Mapping(present')
           /\ chosen' = IF LayoutSafe(best)
                        THEN IF found = {} THEN best.id ELSE Tries[used].by.id
                        ELSE chosen
           /\ weights' =
                [selected |->
                    IF LayoutSafe(best)
                    THEN Clamp(weights.selected
                                + (IF found # {} THEN 8 ELSE -16), -64, 32)
                    ELSE weights.selected,
                 legacy |->
                    IF legacyTried
                    THEN Clamp(weights.legacy
                                + (IF Probe(LegacyPorts) # {} THEN 4 ELSE -8),
                               -32, 16)
                    ELSE weights.legacy]

\* partition_read_table: entries of no size or no type are not counted.
Entries == {i \in DOMAIN table[0] : table[0][i].type # "empty" /\ table[0][i].count > 0}

\* The boot scan looks at as many slots of drive 0 as there are partitions.
FirstOfType(t) ==
    LET S == {i \in 1..Cardinality(Entries) : table[0][i].type = t}
    IN  IF S = {} THEN NoRange
        ELSE [start |-> table[0][First(S)].start, count |-> table[0][First(S)].count]

Boot ==
    /\ scans = 0 /\ InitDrives
    /\ vdrive' = IF 0 \in present' THEN FirstOfType("eynfs") ELSE NoRange
    /\ swap' = IF 0 \in present' THEN FirstOfType("swap") ELSE NoRange
    /\ UNCHANGED <<pci, answers, current, table, moved, layout>>

\* SYSCALL_INIT_SERVICES.
Rescan ==
    /\ scans > 0 /\ InitDrives
    /\ UNCHANGED <<pci, answers, current, table, vdrive, swap, moved, layout>>

Logicals == DOMAIN maps.physical

\* SYSCALL_DRIVE_SET_LOGICAL: the number past the last is the RAM drive.
DriveSetLogical(l) ==
    /\ scans > 0
    /\ \/ l = Cardinality(Logicals) /\ current' = RAM
       \/ l \in Logicals /\ current' = maps.physical[l]
    /\ UNCHANGED <<pci, answers, ports, present, chosen, weights, maps, table,
                   vdrive, swap, moved, layout, scans>>

\* swap_partition_init: pages of the swap partition.
TotalPages == swap.count \div PageSectors

\* swap_partition_write_page, swap_partition_read_page.
SwapPage(p) ==
    /\ scans > 0 /\ p < TotalPages
    /\ moved' = [start |-> swap.start + p * PageSectors, count |-> PageSectors]
    /\ UNCHANGED <<pci, answers, ports, present, chosen, weights, maps, current,
                   table, vdrive, swap, layout, scans>>

\* syscall_installer_format_eynfs_partition: superblock, bitmap, names, root.
Format(d, start, total) ==
    LET bitmaps == (total + BlockBits - 1) \div BlockBits
        root == bitmaps + 2
    IN  [drive |-> d, start |-> start, total |-> total, bitmaps |-> bitmaps, root |-> root,
         used |-> {b \in 0..root : b < bitmaps * BlockBits}, whole |-> TRUE]

\* What the drive may hold afterwards.  A partition that is too small is refused
\* before anything is written; the first sector that cannot be written ends the
\* call, with the sectors before it on the disk; what stands in a bitmap that
\* was not reached is not told apart from nothing.
Formatted(f) ==
    IF f.root >= f.total THEN {layout}
    ELSE {layout, f}
           \cup {[f EXCEPT !.whole = FALSE, !.used = {b \in @ : b < k * BlockBits}] : k \in 0..f.bitmaps}

\* SYSCALL_INSTALLER_FORMAT_EYNFS_PARTITION.
InstallerFormat(l, i) ==
    LET d == maps.physical[l] IN
    /\ scans > 0
    /\ table[d][i].type # "empty" /\ table[d][i].count >= PageSectors
    /\ layout' \in Formatted(Format(d, table[d][i].start, table[d][i].count))
    /\ UNCHANGED <<pci, answers, ports, present, chosen, weights, maps, current,
                   table, vdrive, swap, moved, scans>>

\* syscall_installer_prepare_drive: one bootable partition, then formatted; the
\* table stays when the formatting fails.
InstallerPrepare(l) ==
    LET d == maps.physical[l] IN
    /\ scans > 0 /\ table[d] # <<>>
    /\ DiskSectors > 2 * InstallStart
    /\ table' = [table EXCEPT ![d] = [i \in DOMAIN @ |->
                    IF i = 1 THEN [type |-> "eynfs", start |-> InstallStart,
                                   count |-> DiskSectors - InstallStart]
                    ELSE [type |-> "empty", start |-> 0, count |-> 0]]]
    /\ layout' \in Formatted(Format(d, InstallStart, DiskSectors - InstallStart))
    /\ UNCHANGED <<pci, answers, ports, present, chosen, weights, maps, current,
                   vdrive, swap, moved, scans>>

NoLayout == [drive |-> 0, start |-> 0, total |-> 0, bitmaps |-> 0, root |-> 0, used |-> {},
             whole |-> FALSE]
NoTables == [d \in DriveSlots |-> <<>>]

NothingScanned ==
    /\ ports = LegacyPorts /\ present = {} /\ chosen = "none"
    /\ weights = [selected |-> 0, legacy |-> 0]
    /\ maps = Mapping({}) /\ current = 0
    /\ vdrive = NoRange /\ swap = NoRange /\ moved = NoRange
    /\ layout = NoLayout /\ scans = 0

\* Bound: a behaviour varies the controllers and the drives that answer, or
\* the partitions of a disk at the legacy ports.
DrivesInit ==
    /\ \/ /\ pci \in PciBuses
          /\ answers \in [{Legacy} \cup {c.id : c \in Controllers}
                            -> SUBSET DriveSlots]
          /\ table = NoTables
       \/ /\ pci = <<>> /\ answers \in [{Legacy} -> SUBSET DriveSlots]
          /\ \E t \in PartTables : table = [d \in DriveSlots |-> t]
    /\ NothingScanned

DrivesNext ==
    \/ Boot
    \/ Rescan
    \/ \E l \in 0..Cardinality(DriveSlots) : DriveSetLogical(l)
    \/ \E p \in 0..(DiskSectors \div PageSectors) : SwapPage(p)
    \/ \E l \in Logicals : \E i \in DOMAIN table[maps.physical[l]] : InstallerFormat(l, i)
    \/ \E l \in Logicals : InstallerPrepare(l)

-----------------------------------------------------------------------------
\* Once a scan found drives, a scan of the same hardware finds the same ones
\* behind the same ports, whatever the weights of earlier scans: the number
\* a program knows a drive by, and the drive it is on, keep their meaning.
DrivesStable ==
    [][present # {} => ports' = ports /\ present' = present /\ maps' = maps]_dvars

\* Logical numbers name the drives that answer, all of them, one each; a page
\* swapped stays inside the swap partition boot found; what the installer
\* formats lies inside its partition, with its metadata marked as used, and
\* nothing else marked when it failed half-way.
DrivesSound ==
    /\ scans > 0 =>
        /\ present = {d \in DriveSlots : d \in answers[ports[Channel(d)]]}
        /\ {maps.physical[l] : l \in Logicals} = present
        /\ \A l \in Logicals : maps.logical[maps.physical[l]] = l
    /\ moved # NoRange => /\ moved.start >= swap.start
                          /\ moved.start + moved.count <= swap.start + swap.count
    /\ layout # NoLayout => /\ IF layout.whole THEN layout.used = 0..layout.root
                               ELSE layout.used \subseteq 0..layout.root
                            /\ layout.drive \in present
                            /\ layout.root < layout.total
                            /\ layout.bitmaps * BlockBits >= layout.total
====
