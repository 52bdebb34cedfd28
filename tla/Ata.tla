-------------------------------- MODULE Ata --------------------------------
(***************************************************************************)
(* Sector input and output of one disk (src/src/drivers/ata.c): the range  *)
(* check, the translation of a sector number into the registers of the     *)
(* drive, at most three attempts with a reset between them, the back-off   *)
(* between resets, and the flag that is meant to keep a second call out.   *)
(* Registers hold digits of base Radix, the drive register one of base     *)
(* Nibble.  The device is external: an attempt may fail before or after    *)
(* the sector was transferred.                                             *)
(***************************************************************************)
EXTENDS Integers, Sequences, FiniteSets

CONSTANTS
    Radix,         \* 256: a register
    Nibble,        \* 16: the address bits of the drive register
    MaxSpt,        \* 63: sectors of a track that can be named
    AtaDisks,      \* disks: what IDENTIFY may answer
    AtaLbas,       \* sectors asked for
    AtaVals,       \* contents of a sector
    ATA_PIO_MAX_ATTEMPTS,
    ATA_RESET_BACKOFF_MAX_SHIFT,
    MaxAtaCalls    \* bound: calls in a behaviour

ASSUME AtaAssumption ==
    /\ Radix \in Nat \ {0} /\ Nibble \in 1..Radix /\ MaxSpt \in 1..(Radix - 1)
    /\ AtaLbas \subseteq Nat /\ 0 \in AtaVals
    /\ ATA_PIO_MAX_ATTEMPTS \in Nat \ {0}
    /\ ATA_RESET_BACKOFF_MAX_SHIFT \in Nat /\ MaxAtaCalls \in Nat

VARIABLES
    disk,    \* the disk detected
    media,   \* contents of the sectors that may be asked for
    regs,    \* the sector the registers name
    busy,    \* g_ata_busy
    calls,   \* calls under way, the innermost last
    backoff, \* g_ata_reset_backoff_shift
    cool,    \* g_ata_reset_cooldown_until less g_ata_recovery_epoch
    made,    \* calls made so far
    told,    \* ghost: the contents callers may expect of a sector
    answer,  \* what the last call returned
    mixed    \* ghost: a call ran inside another
avars == <<disk, media, regs, busy, calls, backoff, cool, made, told, answer,
           mixed>>

ATA_LBA28_MAX_SECTOR == Radix * Radix * Radix * Nibble - 1
U32 == Radix * Radix * Radix * Radix

NoAnswer == [op |-> "none", lba |-> 0, ok |-> FALSE, val |-> 0]

Least(a, b) == IF a < b THEN a ELSE b

\* ata_detect_drive: sectors of a disk, 32 bits wide.
Sectors28(d) ==
    IF ~d.lba THEN d.cyl * d.heads * d.spt
    ELSE IF d.lba48 /\ d.sectors48 # 0 THEN Least(d.sectors48, U32 - 1)
    ELSE d.sectors

\* ata_get_chs_geometry.
HasGeometry(d) == d.cyl # 0 /\ d.heads \in 1..Nibble /\ d.spt \in 1..MaxSpt

\* ata_compute_drive_max_lba: -1 when the capacity is not known.
MaxLba(d) ==
    IF d.lba
    THEN IF d.lba48 /\ d.sectors48 # 0 THEN Least(d.sectors48 - 1, U32 - 1)
         ELSE IF Sectors28(d) = 0 THEN -1
         ELSE Least(Sectors28(d) - 1, ATA_LBA28_MAX_SECTOR)
    ELSE IF HasGeometry(d) THEN d.cyl * d.heads * d.spt - 1 ELSE -1

Digit(n, k) == (n \div Radix^k) % Radix

\* What the drive makes of its registers in each of the three modes.
Of28(lba) ==
    Digit(lba, 0) + Radix * Digit(lba, 1) + Radix^2 * Digit(lba, 2)
        + Radix^3 * ((lba \div Radix^3) % Nibble)
Of48(lba) == Digit(lba, 0) + Radix * Digit(lba, 1) + Radix^2 * Digit(lba, 2)
SectorOfChs(d, c, h, s) == (c * d.heads + h) * d.spt + s - 1

ChsFromZero(d, lba) ==
    LET rem == lba % (d.heads * d.spt)
    IN  SectorOfChs(d, lba \div (d.heads * d.spt), rem \div d.spt, rem % d.spt)

OfChs(d, lba) ==
    LET rem == lba % (d.heads * d.spt)
    IN  SectorOfChs(d, (lba \div (d.heads * d.spt)) % (Radix * Radix),
                    (rem \div d.spt) % Nibble, ((rem % d.spt) + 1) % Radix)

\* ata_program_sector_address.
InRange(d, lba) == lba <= MaxLba(d)
Programmed(d, lba) ==
    IF ~d.lba THEN OfChs(d, lba)
    ELSE IF lba > ATA_LBA28_MAX_SECTOR THEN Of48(lba)
    ELSE Of28(lba)

-----------------------------------------------------------------------------
Top == calls[Len(calls)]
SetTop(c) == [calls EXCEPT ![Len(calls)] = c]
Return(ok, val) ==
    /\ calls' = SubSeq(calls, 1, Len(calls) - 1)
    /\ answer' = [op |-> Top.op, lba |-> Top.lba, ok |-> ok, val |-> val]

\* ata_read_sector and ata_write_sector.  A second call may come from an
\* interrupt or a page fault while the first has interrupts on: before its
\* command is sent.
AtaCall(op, lba, v) ==
    /\ made < MaxAtaCalls /\ Len(calls) < 2
    /\ calls # <<>> => Top.at \in {"program", "command"}
    /\ made' = made + 1
    /\ calls' = Append(calls, [op |-> op, lba |-> lba, val |-> v,
                               attempt |-> 1, at |-> "enter"])
    /\ mixed' = (mixed \/ calls # <<>>)
    /\ UNCHANGED <<disk, media, regs, busy, backoff, cool, told, answer>>

\* The flag is waited for, for a while, then taken in any case.
AtaEnter ==
    /\ calls # <<>> /\ Top.at = "enter"
    /\ busy' = TRUE
    /\ calls' = SetTop([Top EXCEPT !.at = "program"])
    /\ UNCHANGED <<disk, media, regs, backoff, cool, made, told, answer, mixed>>

AtaProgram ==
    /\ calls # <<>> /\ Top.at = "program"
    /\ IF InRange(disk, Top.lba)
       THEN /\ regs' = Programmed(disk, Top.lba)
            /\ calls' = SetTop([Top EXCEPT !.at = "command"])
            /\ UNCHANGED <<busy, answer>>
       ELSE /\ busy' = FALSE /\ Return(FALSE, 0)
            /\ UNCHANGED regs
    /\ UNCHANGED <<disk, media, backoff, cool, made, told, mixed>>

\* ata_note_io_success.
NoteSuccess ==
    /\ backoff' = IF backoff > 0 THEN backoff - 1 ELSE 0
    /\ cool' = IF backoff <= 1 THEN 0 ELSE cool

RetryForEver ==
    /\ calls' = SetTop([Top EXCEPT !.at = "program"])
    /\ UNCHANGED <<backoff, cool, busy, answer>>

\* ata_try_recover_after_failure and what follows it: the last attempt ends
\* the call, a reset is deferred while the channel cools down.
Recover ==
    LET left == IF cool > 0 THEN cool - 1 ELSE 0 IN
    IF Top.attempt >= ATA_PIO_MAX_ATTEMPTS
    THEN /\ cool' = left /\ busy' = FALSE
         /\ Return(FALSE, 0) /\ UNCHANGED backoff
    ELSE /\ calls' = SetTop([Top EXCEPT !.at = "program", !.attempt = @ + 1])
         /\ UNCHANGED <<answer, busy>>
         /\ IF left > 0
            THEN cool' = left /\ UNCHANGED backoff
            ELSE /\ cool' = 2^backoff
                 /\ backoff' = Least(backoff + 1, ATA_RESET_BACKOFF_MAX_SHIFT)

Held(s) == IF s \in DOMAIN media THEN media[s] ELSE 0

\* The command of a read, with interrupts off: the data arrives, or the drive
\* stays busy, reports an error or never asks for the data.
ReadCommand(ok) ==
    /\ calls # <<>> /\ Top.at = "command" /\ Top.op = "read"
    /\ IF ok THEN /\ NoteSuccess /\ busy' = FALSE
                  /\ Return(TRUE, Held(regs))
       ELSE Recover
    /\ UNCHANGED <<disk, media, regs, made, told, mixed>>

\* The command of a write: it may fail with the sector written, and the next
\* attempt writes it again.
WriteCommand(ok, stored) ==
    /\ calls # <<>> /\ Top.at = "command" /\ Top.op = "write"
    /\ media' = IF stored THEN [s \in DOMAIN media \cup {regs} |->
                                    IF s = regs THEN Top.val ELSE media[s]]
                ELSE media
    /\ told' = [told EXCEPT ![Top.lba] =
                    IF ok THEN {Top.val} ELSE @ \cup {Top.val}]
    /\ IF ok THEN NoteSuccess /\ busy' = FALSE /\ Return(TRUE, Top.val)
       ELSE Recover
    /\ UNCHANGED <<disk, regs, made, mixed>>

AtaInit ==
    /\ disk \in AtaDisks
    /\ media = [s \in AtaLbas |-> 0] /\ told = [s \in AtaLbas |-> {0}]
    /\ regs = 0 /\ busy = FALSE /\ calls = <<>>
    /\ backoff = 0 /\ cool = 0 /\ made = 0
    /\ answer = NoAnswer /\ mixed = FALSE

AtaStep ==
    \/ AtaEnter
    \/ AtaProgram
    \/ \E ok \in BOOLEAN : ReadCommand(ok)
    \/ WriteCommand(TRUE, TRUE)
    \/ \E stored \in BOOLEAN : WriteCommand(FALSE, stored)

AtaNext ==
    \/ \E lba \in AtaLbas, v \in AtaVals : AtaCall("write", lba, v)
    \/ \E lba \in AtaLbas : AtaCall("read", lba, 0)
    \/ AtaStep

-----------------------------------------------------------------------------
\* As long as no call ran inside another, every sector holds what its last
\* write left, a failed write the old or the new contents, and no sector
\* beyond the disk is ever transferred: a read that succeeded returned the
\* sector it was asked for, through any number of failed attempts.
AtaSound ==
    /\ ~mixed => \A s \in DOMAIN media :
                    IF s \in AtaLbas THEN media[s] \in told[s] ELSE FALSE
    /\ ~mixed /\ answer.ok => /\ answer.lba < Sectors28(disk)
                              /\ answer.val \in told[answer.lba]
    /\ calls = <<>> => ~busy
    /\ backoff = 0 => cool = 0

\* Every call returns: attempts are counted, and a second call that finds the
\* flag taken does not wait for the first one, which cannot go on.
AtaReturns == calls # <<>> ~> calls = <<>>

(* What the code does not keep; the README says how it is lost.            *)

\* The registers of the drive name the sector that was asked for, in the
\* three ways of addressing one.
SectorAddressed ==
    calls # <<>> /\ Top.at = "command" /\ ~mixed => regs = Top.lba
====
