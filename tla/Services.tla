------------------------------ MODULE Services ------------------------------
(***************************************************************************)
(* The parts of the kernel that share no state in these models: the frames *)
(* of memory, the heap and its slabs, the network cards, scripts,          *)
(* consoles, keyboard and mouse, the shell's dispatch, the links of the    *)
(* run queue, and the disks: the sectors of a drive, the drives and        *)
(* partitions there are, the files of a FAT32 volume and those of the RAM  *)
(* drive.  The layers of the disks use one another by calls that return;   *)
(* the failures of a sector's transfer are the faults of the FAT32 calls.  *)
(* A behaviour exercises one part.                                         *)
(***************************************************************************)
EXTENDS Ata, Drives, Fat32, RamDrive, BootMemory, Heap, Nic, Script, Console, Input, Shell, RunQueue

VARIABLE part
diskvars == <<avars, dvars, fatvars, ramvars>>
kernelvars == <<bootvars, heapvars, nicvars, inputvars>>
servicevars == <<part, diskvars, kernelvars, scriptvars, consolevars, shellvars, queuevars>>

Parts == {"heap", "nic", "script", "console", "input", "shell", "sectors", "drives", "files", "ram", "boot", "queue"}

\* A part not exercised stands in one of its initial states.
ServicesInit ==
    /\ part \in Parts
    /\ BootInit /\ (part # "boot" => machine = CHOOSE m \in BootMaps : TRUE)
    /\ HeapInit /\ (part # "heap" => SmallestBoot)
    /\ NicInit
    /\ ScriptInit /\ (part # "script" => script = <<>> /\ files = CHOOSE f \in FileSystems : TRUE)
    /\ ConsoleInit /\ (part # "console" => desk = "stdin")
    /\ InputInit /\ (part # "input" => hand = "mouse")
    /\ ShellInit /\ (part # "shell" => tree = CHOOSE f \in FileSets : TRUE)
    /\ AtaInit /\ (part # "sectors" => disk = CHOOSE d \in AtaDisks : TRUE)
    /\ IF part = "drives" THEN DrivesInit
       ELSE pci = <<>> /\ answers = [p \in {Legacy} |-> {}] /\ table = NoTables /\ NothingScanned
    /\ FatInit
    /\ QueueInit
    /\ RamInit /\ (part # "ram" => modules = <<>>)

ServicesNext ==
    /\ UNCHANGED part
    /\ \/ /\ part = "heap" /\ HeapNext
          /\ UNCHANGED <<diskvars, bootvars, nicvars, inputvars, scriptvars, consolevars, shellvars, queuevars>>
       \/ /\ part = "boot" /\ BootNext
          /\ UNCHANGED <<diskvars, heapvars, nicvars, inputvars, scriptvars, consolevars, shellvars, queuevars>>
       \/ /\ part = "nic" /\ NicNext
          /\ UNCHANGED <<diskvars, bootvars, heapvars, inputvars, scriptvars, consolevars, shellvars, queuevars>>
       \/ /\ part = "input" /\ InputNext
          /\ UNCHANGED <<diskvars, bootvars, heapvars, nicvars, scriptvars, consolevars, shellvars, queuevars>>
       \/ /\ part = "script" /\ ScriptNext
          /\ UNCHANGED <<diskvars, kernelvars, consolevars, shellvars, queuevars>>
       \/ /\ part = "console" /\ ConsoleNext
          /\ UNCHANGED <<diskvars, kernelvars, scriptvars, shellvars, queuevars>>
       \/ /\ part = "shell" /\ ShellNext
          /\ UNCHANGED <<diskvars, kernelvars, scriptvars, consolevars, queuevars>>
       \/ /\ part = "sectors" /\ AtaNext
          /\ UNCHANGED <<dvars, fatvars, ramvars, kernelvars, scriptvars, consolevars, shellvars, queuevars>>
       \/ /\ part = "drives" /\ DrivesNext
          /\ UNCHANGED <<avars, fatvars, ramvars, kernelvars, scriptvars, consolevars, shellvars, queuevars>>
       \/ /\ part = "files" /\ FatNext
          /\ UNCHANGED <<avars, dvars, ramvars, kernelvars, scriptvars, consolevars, shellvars, queuevars>>
       \/ /\ part = "ram" /\ RamNext
          /\ UNCHANGED <<avars, dvars, fatvars, kernelvars, scriptvars, consolevars, shellvars, queuevars>>
       \/ /\ part = "queue" /\ QueueNext
          /\ UNCHANGED <<diskvars, kernelvars, scriptvars, consolevars, shellvars>>

\* A sector's transfer is code that goes on to its end; its waits are counted.
TransfersRun ==
    WF_servicevars(/\ AtaStep
                   /\ UNCHANGED <<part, dvars, fatvars, ramvars, kernelvars, scriptvars, consolevars, shellvars, queuevars>>)
ServicesSpec == ServicesInit /\ [][ServicesNext]_servicevars /\ TransfersRun

-----------------------------------------------------------------------------
\* The kernel's memory: its image, page tables, heap and the frames it hands
\* out are apart, the heap leaves room for the frames of others, its
\* blocks and slabs account for every byte callers hold, and nothing given
\* back is lost, through any order of malloc, calloc and free.
MemorySound == BootSound /\ HeapFits /\ HeapSound /\ SlabSound

\* The cards' rings: frames go up in the order they came and out in the order
\* they were sent, each once, at any speed of card, interrupts and polls.
CardsSound == ReceivesInOrder /\ SentIsSent

\* Consoles: what is edited is what is shown, and what is typed for a program
\* reaches it in order, each key once; a key may be lost only when it comes
\* while a read is shortening the buffer.
ConsoleSound == EditSound /\ StdinInOrder

\* A sector holds what was last written to it, a drive's number names one drive
\* and a swap page or an installed file system stays in its partition, however
\* often a transfer or a scan was repeated; and a file of the RAM drive reads as
\* its chain of blocks has it.  The disks of the run are small: no sector number
\* needs more than the 28 bits of the short commands, above which the long ones
\* address another sector (ata.c:795).
DisksSound == AtaSound /\ DrivesSound /\ RamSound

\* A FAT32 volume, whatever sector's transfer failed at whatever step and however
\* full it was: chains of clusters belong to one name each and a file holds what
\* was written last.  Four outcomes are the code's own exceptions, and are marked
\* by ghosts: a name whose entry could not be written after its old clusters were
\* freed, and those that took such clusters since (torn); a name that a failed
\* look-up made twice, or of which a read of the FAT cut the data short without
\* an error (unsure); clusters lost by a call that failed half way (not clean);
\* and a volume whose directories were taken for free space (wild).
FilesSound == FatSound /\ FatKept
=============================================================================
