------------------------------ MODULE BootGuard ------------------------------
(***************************************************************************)
(* The persistent state of the GD32 coprocessor and every routine that     *)
(* writes it: its internal flash, the three 64 KB firmware slots and the   *)
(* superblock of the SPI flash (spi_flash.c), the boot guard that runs     *)
(* before the main loop, the host commands that reach these routines       *)
(* (protocol_engine.c) and the RAM-resident flasher (flasher.c).           *)
(*                                                                         *)
(* Each erase and each page program is a step of its own, so that a power  *)
(* cut, a watchdog reset of a crashing firmware or a failing SPI operation *)
(* can fall between any two of them.  A slot's contents are the first      *)
(* pages of some image; the size and CRC32 of a superblock entry are       *)
(* represented by the image they describe.                                 *)
(***************************************************************************)
EXTENDS Naturals

CONSTANTS
  Image,       \* the firmware images that exist
  NoImage,     \* "no image": an erased slot, a zero size and CRC in an entry
  Size,        \* Size[i]: the pages image i occupies
  Block,       \* the pages of a slot and of the internal flash (64 KB)
  Sound,       \* the images that run; another one hangs or faults at run time
  Commands,    \* the state-changing commands the host uses
  MaxCuts,     \* bound: power cuts
  MaxFaults    \* bound: SPI or FMC operations that fail

ASSUME ImageAssumption ==
  /\ NoImage \notin Image
  /\ Block \in Nat \ {0}
  /\ Size \in [Image -> 1..Block]
  /\ Sound \subseteq Image
  /\ MaxCuts \in Nat
  /\ MaxFaults \in Nat

VARIABLES
  flash,    \* internal flash at 0x08000000
  slot,     \* the contents of the SPI slots
  sb,       \* the superblock sector, or NoSb when it reads back as invalid
  spi,      \* did this boot's JEDEC probe find the chip (is_detected)?
  pc,       \* what the GD32 is executing
  task,     \* on whose behalf the running backup, superblock write or restore is
  at,       \* the slot that task reads or writes
  k,        \* pages programmed so far by it
  len,      \* pages a restore will copy
  ram,      \* the superblock copy in RAM that write_superblock programs
  dirty,    \* history: slots erased since an entry describing them was written
  cuts, faults

vars == <<flash, slot, sb, spi, pc, task, at, k, len, ram, dirty, cuts, faults>>

-----------------------------------------------------------------------------
(* Data *)

A == 0  \* golden slot
B == 1  \* rollback slot
S == 2  \* staging slot
Slot == {A, B, S}

MaxAttempts == 3

Content == [img : Image \cup {NoImage}, pages : 0..Block]
Blank == [img |-> NoImage, pages |-> 0]
Full(i) == [img |-> i, pages |-> Size[i]]
Whole(c) == c.img \in Image /\ c = Full(c.img)

\* What a copy of the first n pages of c leaves in freshly erased memory.
CopyOf(c, n) ==
  IF n = 0 \/ c.pages = 0 THEN Blank
  ELSE [img |-> c.img, pages |-> IF n < c.pages THEN n ELSE c.pages]

\* active_fw_slot is left out: the firmware writes it and never reads it.
Superblock == [status : {"CONFIRMED", "TESTING"}, attempts : 0..MaxAttempts,
               entry : [Slot -> Image \cup {NoImage}]]
NoSb == [status |-> "UNREADABLE"]

\* The zero-filled superblock that backup_firmware and confirm_boot start
\* from when the sector does not hold a valid one.
FreshSb == [status |-> "CONFIRMED", attempts |-> 0,
            entry |-> [s \in Slot |-> NoImage]]

\* spi_flash_read_superblock, with the fallback of its callers.
SbOrFresh == IF sb = NoSb THEN FreshSb ELSE sb

\* Mutant: the golden slot's size is used for every slot.
RestoreLen_GoldenSize(s) ==
  IF sb = NoSb THEN Block
  ELSE IF sb.entry[A] = NoImage THEN Block ELSE Size[sb.entry[A]]

\* Length a restore of slot s copies: the entry's size, or 65536 when it is 0.
RestoreLen(s) ==
  IF sb = NoSb THEN Block
  ELSE IF sb.entry[s] = NoImage THEN Block ELSE Size[sb.entry[s]]

BackupTasks == {"goldenCopy", "rollbackCopy", "cmdBackup"}
GuardTasks  == {"goldenCopy", "rollbackCopy", "count", "rollback"}
HostTasks   == {"cmdBackup", "cmdConfirm", "cmdArm"}
Tasks == GuardTasks \cup HostTasks \cup {"none", "cmdRestore", "romRestore"}

BackupPcs  == {"bkErase", "bkProgram"}
SbPcs      == {"sbErase", "sbProgram"}
RestorePcs == {"rsErase", "rsCopy"}
FirmwarePcs == {"boot", "app"} \cup BackupPcs \cup SbPcs
Pcs == FirmwarePcs \cup RestorePcs \cup {"flasher", "off", "dead"}

TypeOK ==
  /\ flash \in Content
  /\ slot \in [Slot -> Content]
  /\ sb \in Superblock \cup {NoSb}
  /\ spi \in BOOLEAN
  /\ pc \in Pcs
  /\ task \in Tasks
  /\ at \in Slot
  /\ k \in 0..Block
  /\ len \in 1..Block
  /\ ram \in Superblock
  /\ dirty \in SUBSET Slot
  /\ cuts \in 0..MaxCuts
  /\ faults \in 0..MaxFaults

\* A board as it leaves conversion: a sound image, an SPI flash never written.
Init ==
  /\ \E i \in Sound : flash = Full(i)
  /\ slot = [s \in Slot |-> Blank]
  /\ sb = NoSb
  /\ spi = TRUE
  /\ pc = "boot"
  /\ task = "none"
  /\ at = A
  /\ k = 0
  /\ len = Block
  /\ ram = FreshSb
  /\ dirty = {}
  /\ cuts = 0
  /\ faults = 0

-----------------------------------------------------------------------------
(* Resets and power *)

\* The vector table is fetched from internal flash: with an image that is not
\* complete there is nothing to run, and only an SWD probe can help.
ResetInto(c) == IF Whole(c) THEN "boot" ELSE "dead"

\* A routine's locals end with it.
EndTask ==
  /\ task' = "none"
  /\ at' = A
  /\ k' = 0
  /\ len' = Block
  /\ ram' = FreshSb

\* Guards and bookkeeping shared by the steps in which hardware fails.
Fault == faults < MaxFaults /\ faults' = faults + 1

PowerCut ==
  /\ pc \notin {"off", "dead"}
  /\ cuts < MaxCuts
  /\ cuts' = cuts + 1
  /\ pc' = "off"
  /\ EndTask
  /\ UNCHANGED <<flash, slot, sb, spi, dirty, faults>>

PowerOn ==
  /\ pc = "off"
  /\ pc' = ResetInto(flash)
  /\ UNCHANGED <<flash, slot, sb, spi, task, at, k, len, ram, dirty, cuts, faults>>

\* An unsound image stops kicking the watchdog, or faults, once the main loop
\* runs: in the loop itself or inside a command it is executing.
Crash ==
  /\ flash.img \notin Sound
  /\ \/ pc = "app"
     \/ pc \in BackupPcs \cup SbPcs /\ task \in HostTasks
  /\ pc' = "boot"
  /\ EndTask
  /\ UNCHANGED <<flash, slot, sb, spi, dirty, cuts, faults>>

-----------------------------------------------------------------------------
(* spi_flash_backup_firmware and spi_flash_write_superblock *)

StartBackup(s, for) ==
  /\ pc' = "bkErase"
  /\ task' = for
  /\ at' = s
  /\ k' = 0

StartSbWrite(record, for) ==
  /\ pc' = "sbErase"
  /\ task' = for
  /\ ram' = record

\* Where control goes when the routine that `task` called returns, whatever it
\* returned: every caller but the host ignores the result.
Return ==
  \/ /\ task = "goldenCopy"
     /\ StartBackup(B, "rollbackCopy")
     /\ len' = Block
     /\ ram' = FreshSb
  \/ /\ task = "rollback"
     /\ pc' = "rsErase"
     /\ UNCHANGED <<task, at, k, len, ram>>
  \/ /\ task \notin {"goldenCopy", "rollback"}
     /\ pc' = "app"
     /\ EndTask

BkErase ==
  /\ pc = "bkErase"
  /\ slot' = [slot EXCEPT ![at] = Blank]
  /\ dirty' = dirty \cup {at}
  /\ pc' = "bkProgram"
  /\ k' = 0
  /\ UNCHANGED <<flash, sb, spi, task, at, len, ram, cuts, faults>>

\* The erase times out; the chip may or may not have erased the block.
BkEraseFails ==
  /\ pc = "bkErase"
  /\ Fault
  /\ \/ UNCHANGED <<slot, dirty>>
     \/ slot' = [slot EXCEPT ![at] = Blank] /\ dirty' = dirty \cup {at}
  /\ Return
  /\ UNCHANGED <<flash, sb, spi, cuts>>

\* A page is programmed from internal flash; a page that programs badly
\* without an error leaves contents no image has.
BkProgram ==
  /\ pc = "bkProgram"
  /\ k < Size[flash.img]
  /\ k' = k + 1
  /\ \/ /\ slot' = [slot EXCEPT ![at] =
                [img |-> IF k = 0 THEN flash.img ELSE @.img, pages |-> k + 1]]
        /\ UNCHANGED faults
     \/ /\ Fault
        /\ slot' = [slot EXCEPT ![at] = [img |-> NoImage, pages |-> k + 1]]
  /\ UNCHANGED <<flash, sb, spi, pc, task, at, len, ram, dirty, cuts>>

BkProgramFails ==
  /\ pc = "bkProgram"
  /\ k < Size[flash.img]
  /\ Fault
  /\ Return
  /\ UNCHANGED <<flash, slot, sb, spi, dirty, cuts>>

\* Mutant: whatever slot was copied, the rollback slot's entry is filled in.
BkVerify_WrongSlot ==
  /\ pc = "bkProgram"
  /\ k = Size[flash.img]
  /\ slot[at] = flash
  /\ StartSbWrite([SbOrFresh EXCEPT !.entry[B] = flash.img], task)
  /\ k' = 0
  /\ UNCHANGED <<flash, slot, sb, spi, at, len, dirty, cuts, faults>>

\* Mutant: the copy is entered without the CRC32 comparison.
BkVerify_NoCrc ==
  /\ pc = "bkProgram"
  /\ k = Size[flash.img]
  /\ StartSbWrite([SbOrFresh EXCEPT !.entry[at] = flash.img], task)
  /\ k' = 0
  /\ UNCHANGED <<flash, slot, sb, spi, at, len, dirty, cuts, faults>>

\* The copy is compared by CRC32 with internal flash, and only then entered in
\* the superblock, which is read here and not before the copy.
BkVerify ==
  /\ pc = "bkProgram"
  /\ k = Size[flash.img]
  /\ slot[at] = flash
  /\ StartSbWrite([SbOrFresh EXCEPT !.entry[at] = flash.img], task)
  /\ k' = 0
  /\ UNCHANGED <<flash, slot, sb, spi, at, len, dirty, cuts, faults>>

BkVerifyFails ==
  /\ pc = "bkProgram"
  /\ k = Size[flash.img]
  /\ slot[at] # flash
  /\ Return
  /\ UNCHANGED <<flash, slot, sb, spi, dirty, cuts, faults>>

\* From the sector erase until the page program has finished the sector does
\* not hold a valid superblock.
SbErase ==
  /\ pc = "sbErase"
  /\ sb' = NoSb
  /\ pc' = "sbProgram"
  /\ UNCHANGED <<flash, slot, spi, task, at, k, len, ram, dirty, cuts, faults>>

SbEraseFails ==
  /\ pc = "sbErase"
  /\ Fault
  /\ sb' \in {sb, NoSb}
  /\ Return
  /\ UNCHANGED <<flash, slot, spi, dirty, cuts>>

SbProgram ==
  /\ pc = "sbProgram"
  /\ sb' = ram
  /\ dirty' = IF task \in BackupTasks THEN dirty \ {at} ELSE dirty
  /\ Return
  /\ UNCHANGED <<flash, slot, spi, cuts, faults>>

SbProgramFails ==
  /\ pc = "sbProgram"
  /\ Fault
  /\ Return
  /\ UNCHANGED <<flash, slot, sb, spi, dirty, cuts>>

-----------------------------------------------------------------------------
(* spi_flash_boot_guard_check *)

AtGuard == pc = "boot" /\ spi' = TRUE

\* The one JEDEC probe of spi_flash_init failed: the guard is skipped, and
\* every flash command of this session is refused.
GuardNoFlash ==
  /\ pc = "boot"
  /\ spi' = FALSE
  /\ Fault
  /\ pc' = "app"
  /\ UNCHANGED <<flash, slot, sb, task, at, k, len, ram, dirty, cuts>>

\* An unreadable superblock is taken for a first boot: whatever firmware is
\* running is copied into the golden slot and then into the rollback slot.
GuardFirstBoot ==
  /\ AtGuard
  /\ sb = NoSb
  /\ StartBackup(A, "goldenCopy")
  /\ UNCHANGED <<flash, slot, sb, len, ram, dirty, cuts, faults>>

GuardConfirmed ==
  /\ AtGuard
  /\ sb.status = "CONFIRMED"
  /\ pc' = "app"
  /\ UNCHANGED <<flash, slot, sb, task, at, k, len, ram, dirty, cuts, faults>>

\* Mutant: the attempt is counted in RAM and not written back.
GuardCount_NotSaved ==
  /\ AtGuard
  /\ sb.status = "TESTING"
  /\ sb.attempts < MaxAttempts
  /\ pc' = "app"
  /\ UNCHANGED <<flash, slot, sb, task, at, k, len, ram, dirty, cuts, faults>>

GuardCount ==
  /\ AtGuard
  /\ sb.status = "TESTING"
  /\ sb.attempts < MaxAttempts
  /\ StartSbWrite([sb EXCEPT !.attempts = @ + 1], "count")
  /\ UNCHANGED <<flash, slot, sb, at, k, len, dirty, cuts, faults>>

\* Mutant: the attempts start over, but the trial stays open.
GuardRollback_TrialLeftOpen ==
  /\ AtGuard
  /\ sb.status = "TESTING"
  /\ sb.attempts >= MaxAttempts
  /\ StartSbWrite([sb EXCEPT !.attempts = 0], "rollback")
  /\ at' = B
  /\ len' = RestoreLen(B)
  /\ UNCHANGED <<flash, slot, sb, k, dirty, cuts, faults>>

\* The trial is closed in the superblock before internal flash is touched.
GuardRollback ==
  /\ AtGuard
  /\ sb.status = "TESTING"
  /\ sb.attempts >= MaxAttempts
  /\ StartSbWrite([sb EXCEPT !.status = "CONFIRMED", !.attempts = 0],
                  "rollback")
  /\ at' = B
  /\ len' = RestoreLen(B)
  /\ UNCHANGED <<flash, slot, sb, k, dirty, cuts, faults>>

-----------------------------------------------------------------------------
(* flasher_restore_from_slot, and the reset that ends a restore *)

\* The slot's CRC is not checked before internal flash is erased.
RsErase ==
  /\ pc = "rsErase"
  /\ flash' = Blank
  /\ pc' = "rsCopy"
  /\ k' = 0
  /\ UNCHANGED <<slot, sb, spi, task, at, len, ram, dirty, cuts, faults>>

RsCopy ==
  /\ pc = "rsCopy"
  /\ k < len
  /\ flash' = CopyOf(slot[at], k + 1)
  /\ k' = k + 1
  /\ UNCHANGED <<slot, sb, spi, pc, task, at, len, ram, dirty, cuts, faults>>

\* Finished or not, flasher_restore_and_reboot resets; the flasher's own
\* RESTORE command goes back to its loop instead.
RsEnd ==
  /\ pc' = IF task = "romRestore" THEN "flasher" ELSE ResetInto(flash')
  /\ EndTask

RsDone ==
  /\ pc = "rsCopy"
  /\ k = len
  /\ UNCHANGED flash
  /\ RsEnd
  /\ UNCHANGED <<slot, sb, spi, dirty, cuts, faults>>

RsFails ==
  /\ pc \in RestorePcs
  /\ Fault
  /\ \/ UNCHANGED flash
     \/ pc = "rsErase" /\ flash' = Blank
  /\ RsEnd
  /\ UNCHANGED <<slot, sb, spi, dirty, cuts>>

-----------------------------------------------------------------------------
(* Commands of the host, executed from the main loop (protocol_engine.c) *)

Accepts(command) == pc = "app" /\ spi /\ command \in Commands

\* FLASH_BACKUP_FW
CmdBackup(s) ==
  /\ Accepts("backup")
  /\ StartBackup(s, "cmdBackup")
  /\ UNCHANGED <<flash, slot, sb, spi, len, ram, dirty, cuts, faults>>

\* FLASH_CONFIRM_BOOT
CmdConfirm ==
  /\ Accepts("confirm")
  /\ StartSbWrite([SbOrFresh EXCEPT !.status = "CONFIRMED", !.attempts = 0],
                  "cmdConfirm")
  /\ UNCHANGED <<flash, slot, sb, spi, at, k, len, dirty, cuts, faults>>

\* FLASH_RESTORE_FW with the right key
CmdRestore(s) ==
  /\ Accepts("restore")
  /\ pc' = "rsErase"
  /\ task' = "cmdRestore"
  /\ at' = s
  /\ k' = 0
  /\ len' = RestoreLen(s)
  /\ UNCHANGED <<flash, slot, sb, spi, ram, dirty, cuts, faults>>

\* FLASH_ERASE_SECTOR and FLASH_WRITE_CHUNK on sector 0: the only way the
\* protocol offers to put an image on trial.  No function of the firmware
\* writes the status TESTING.
CmdArm ==
  /\ Accepts("arm")
  /\ sb # NoSb
  /\ StartSbWrite([sb EXCEPT !.status = "TESTING", !.attempts = 0], "cmdArm")
  /\ UNCHANGED <<flash, slot, sb, spi, at, k, len, dirty, cuts, faults>>

\* FLASH_ERASE_BLOCK of the staging slot.  Its superblock entry is not touched.
CmdEraseStaging ==
  /\ Accepts("stage")
  /\ \/ slot' = [slot EXCEPT ![S] = Blank] /\ UNCHANGED faults
     \/ Fault /\ slot' \in {slot, [slot EXCEPT ![S] = Blank]}
  /\ dirty' = dirty \cup {S}
  /\ UNCHANGED <<flash, sb, spi, pc, task, at, k, len, ram, cuts>>

\* What programming page p of image i leaves in memory that holds c: NOR
\* flash only clears bits, so a page over another image or past a gap gives
\* contents no image has.
ProgramOver(c, i, p) ==
  IF p = c.pages /\ (p = 0 \/ c.img = i) THEN [img |-> i, pages |-> p + 1]
  ELSE IF c.img = i /\ p < c.pages THEN c
  ELSE [img |-> NoImage, pages |-> IF p < c.pages THEN c.pages ELSE p + 1]

\* FLASH_WRITE_CHUNK of page p of image i into the staging slot
CmdWriteStaging(i, p) ==
  /\ Accepts("stage")
  /\ p < Size[i]
  /\ \/ slot' = [slot EXCEPT ![S] = ProgramOver(@, i, p)] /\ UNCHANGED faults
     \/ Fault /\ slot' = [slot EXCEPT ![S] = [img |-> NoImage, pages |-> p + 1]]
  /\ dirty' = dirty \cup {S}
  /\ UNCHANGED <<flash, sb, spi, pc, task, at, k, len, ram, cuts>>

\* ENTER_BOOTLOADER with the right key: interrupts off, flasher_run in RAM.
CmdEnterBootloader ==
  /\ pc = "app"
  /\ "flash" \in Commands
  /\ pc' = "flasher"
  /\ UNCHANGED <<flash, slot, sb, spi, task, at, k, len, ram, dirty, cuts, faults>>

-----------------------------------------------------------------------------
(* The flasher's command loop (flasher_run) *)

FlErase ==
  /\ pc = "flasher"
  /\ \/ flash' = Blank /\ UNCHANGED faults
     \/ Fault /\ flash' \in {flash, Blank}
  /\ UNCHANGED <<slot, sb, spi, pc, task, at, k, len, ram, dirty, cuts>>

\* WRITE of page p of image i.  Each word is read back, so that programming over
\* what is not erased is refused and changes nothing.
FlWrite(i, p) ==
  /\ pc = "flasher"
  /\ p < Size[i]
  /\ p >= flash.pages
  /\ \/ flash' = ProgramOver(flash, i, p) /\ UNCHANGED faults
     \/ Fault /\ flash' = [img |-> NoImage, pages |-> p + 1]
  /\ UNCHANGED <<slot, sb, spi, pc, task, at, k, len, ram, dirty, cuts>>

\* GO loads the stack pointer and jumps, whatever is there.
FlGo ==
  /\ pc = "flasher"
  /\ pc' = ResetInto(flash)
  /\ UNCHANGED <<flash, slot, sb, spi, task, at, k, len, ram, dirty, cuts, faults>>

\* RESTORE_SLOT with the size the host gives
FlRestore(s, n) ==
  /\ pc = "flasher"
  /\ "restore" \in Commands
  /\ pc' = "rsErase"
  /\ task' = "romRestore"
  /\ at' = s
  /\ k' = 0
  /\ len' = n
  /\ UNCHANGED <<flash, slot, sb, spi, ram, dirty, cuts, faults>>

-----------------------------------------------------------------------------
Firmware ==
  \/ BkErase \/ BkEraseFails \/ BkProgram \/ BkProgramFails
  \/ BkVerify \/ BkVerifyFails
  \/ SbErase \/ SbEraseFails \/ SbProgram \/ SbProgramFails
  \/ GuardNoFlash \/ GuardFirstBoot \/ GuardConfirmed \/ GuardCount \/ GuardRollback
  \/ RsErase \/ RsCopy \/ RsDone \/ RsFails

Host ==
  \/ \E s \in Slot : CmdBackup(s) \/ CmdRestore(s)
  \/ CmdConfirm \/ CmdArm \/ CmdEraseStaging \/ CmdEnterBootloader
  \/ \E i \in Image, p \in 0..Block : CmdWriteStaging(i, p) \/ FlWrite(i, p)
  \/ FlErase \/ FlGo
  \/ \E s \in Slot, n \in 1..Block : FlRestore(s, n)

Next == Firmware \/ Host \/ Crash \/ PowerCut \/ PowerOn

Spec == Init /\ [][Next]_vars

\* The main loop and the routines it calls never wait for anybody, an unsound
\* image does fail, and somebody switches the device on again.  Nothing is
\* assumed of the host.
Fairness == WF_vars(Firmware) /\ WF_vars(Crash) /\ WF_vars(PowerOn)

FairSpec == Spec /\ Fairness

-----------------------------------------------------------------------------
(* Properties *)

\* The superblock lies about a slot only after a rewrite of that slot was cut
\* short: an entry of any other slot names exactly what the slot holds.  The
\* backup erases the slot long before it enters the new size and CRC
\* (spi_flash_backup_firmware), and every write replaces the whole record.
EntriesTrue ==
  sb # NoSb => \A s \in Slot \ dirty :
                 sb.entry[s] # NoImage => slot[s] = Full(sb.entry[s])

\* A restore of a slot whose entry can be trusted ends with that very image,
\* complete, in internal flash: the length read from the superblock and the
\* contents of the slot still belong together when the copy has run
\* (spi_flash_boot_guard_check, FLASH_RESTORE_FW, flasher_restore_from_slot).
RestoreIsWhole ==
  /\ pc = "rsCopy" /\ k = len /\ task \in {"rollback", "cmdRestore"}
  /\ sb # NoSb /\ at \notin dirty /\ sb.entry[at] # NoImage
  => flash = Full(sb.entry[at])

\* The guard never erases internal flash while the superblock would make the
\* next boot roll back again: unless an SPI operation failed, the trial is
\* closed before the restore starts (order in spi_flash_boot_guard_check).
RollbackClosesTrial ==
  pc \in RestorePcs /\ task = "rollback" /\ faults = 0
  => sb # NoSb /\ sb.status = "CONFIRMED"

\* What makes the three properties above inductive.

\* The firmware only runs from a complete image, so its size is known.
RunsWhole == pc \in FirmwarePcs => Whole(flash)

\* A copy has an owner, and its slot is dirty from the erase on.
CopyOwned ==
  /\ pc \in BackupPcs => task \in BackupTasks
  /\ pc = "bkProgram" => at \in dirty

\* The record about to be written is as true as the one it replaces, and also
\* true of the slot whose copy was just verified.
RamTrue ==
  pc \in SbPcs =>
    \A s \in Slot :
      /\ ram.entry[s] # NoImage
      /\ s \notin dirty \/ (task \in BackupTasks /\ s = at)
      => slot[s] = Full(ram.entry[s])

\* The length a restore uses is still the one the superblock gives.
LenOf(e) == IF e = NoImage THEN Block ELSE Size[e]
LenKept ==
  /\ pc \in SbPcs /\ task = "rollback" =>
       /\ ram.status = "CONFIRMED"
       /\ len = LenOf(ram.entry[at])
       /\ sb # NoSb => sb.entry = ram.entry
  /\ pc \in RestorePcs /\ task \in {"rollback", "cmdRestore"} /\ sb # NoSb =>
       (sb.entry[at] # NoImage => len = Size[sb.entry[at]])

\* Internal flash holds the part of the slot copied so far.
CopyInProgress == pc = "rsCopy" => k <= len /\ flash = CopyOf(slot[at], k)

IInv ==
  /\ TypeOK
  /\ EntriesTrue
  /\ RollbackClosesTrial
  /\ RunsWhole
  /\ CopyOwned
  /\ RamTrue
  /\ LenKept
  /\ CopyInProgress

\* An unsound image on trial does not run for ever: unless the host steps in
\* (into the flasher, or with another superblock write) or an operation on a flash
\* has failed, it uses up its attempts and the guard takes it out of internal flash.
OnTrial(i) == sb # NoSb /\ sb.status = "TESTING" /\ flash = Full(i)
TrialEnds ==
  \A i \in Image \ Sound :
    OnTrial(i) ~> \/ flash # Full(i)
                  \/ pc = "flasher" \/ task \in {"cmdArm", "cmdBackup"}
                  \/ faults > 0
=============================================================================
