-------------------------- MODULE BootGuard_proofs --------------------------
(***************************************************************************)
(* Theorems about BootGuard, for every set of images, every size of theirs,*)
(* every set of host commands and every number of power cuts and faults.   *)
(* IInv is inductive: one lemma per conjunct, and in it one step per       *)
(* action that can disturb the conjunct.                                   *)
(***************************************************************************)
EXTENDS BootGuard, TLAPS

USE ImageAssumption

-----------------------------------------------------------------------------
(* The data *)

\* Every value the actions give to flash and slot is a Content.
LEMMA ContentFacts ==
  /\ Blank \in Content
  /\ \A i \in Image : Full(i) \in Content /\ Size[i] \in 1..Block
  /\ \A c \in Content, n \in Nat : CopyOf(c, n) \in Content
BY DEF Blank, Content, Full, CopyOf

\* Programming a page leaves a Content, whatever was there.
LEMMA ProgramOverType ==
  ASSUME NEW c \in Content, NEW i \in Image, NEW p \in Nat, p < Size[i]
  PROVE  ProgramOver(c, i, p) \in Content
BY DEF ProgramOver, Content

\* The marker of an unreadable sector is told apart from every record.
LEMMA NoSbIsNoSuperblock == NoSb \notin Superblock
BY DEF NoSb, Superblock

\* The record that replaces an unreadable one vouches for no slot.
LEMMA FreshSbType == FreshSb \in Superblock /\ \A s \in Slot : FreshSb.entry[s] = NoImage
BY DEF FreshSb, Superblock, MaxAttempts

\* What the callers of spi_flash_read_superblock go on with.
LEMMA SbOrFreshType ==
  ASSUME TypeOK
  PROVE  /\ SbOrFresh \in Superblock
         /\ sb # NoSb => sb \in Superblock /\ SbOrFresh = sb
BY FreshSbType DEF TypeOK, SbOrFresh

\* A record with a real boot status was read from the sector.
LEMMA StatusRead ==
  ASSUME TypeOK, sb.status \in {"CONFIRMED", "TESTING"}
  PROVE  sb \in Superblock /\ sb # NoSb
BY NoSbIsNoSuperblock DEF TypeOK, NoSb

\* A restore copies at least a page, and as many as the entry says.
LEMMA RestoreLenFacts ==
  ASSUME TypeOK, NEW s \in Slot
  PROVE  /\ RestoreLen(s) \in 1..Block
         /\ sb # NoSb => RestoreLen(s) = LenOf(sb.entry[s])
BY ContentFacts DEF TypeOK, RestoreLen, LenOf, Superblock

\* A copy of all the pages of an image is that image.
LEMMA WholeCopy ==
  ASSUME NEW i \in Image
  PROVE  CopyOf(Full(i), Size[i]) = Full(i)
BY ContentFacts DEF CopyOf, Full
-----------------------------------------------------------------------------
(* The invariant holds initially and every action keeps it. *)

LEMMA InitIInv == Init => IInv
<1> SUFFICES ASSUME Init PROVE IInv
  OBVIOUS
<1>1. TypeOK
  BY ContentFacts, FreshSbType
  DEF Init, TypeOK, Slot, A, B, S, Pcs, FirmwarePcs, Tasks
<1>2. RunsWhole
  BY DEF Init, RunsWhole, Whole, Full
<1> QED
  BY <1>1, <1>2 DEF Init, IInv, EntriesTrue, RollbackClosesTrial, CopyOwned,
     RamTrue, LenKept, CopyInProgress, BackupPcs, SbPcs, RestorePcs

\* The record that closes a trial, and the one that opens it.
LEMMA ClosedOrOpened ==
  \A r \in Superblock, st \in {"CONFIRMED", "TESTING"} :
    [r EXCEPT !.status = st, !.attempts = 0] \in Superblock
<1> SUFFICES ASSUME NEW r \in Superblock, NEW st \in {"CONFIRMED", "TESTING"}
             PROVE  [r EXCEPT !.status = st, !.attempts = 0] \in Superblock
  OBVIOUS
<1>1. 0 \in 0..MaxAttempts
  BY DEF MaxAttempts
<1> QED
  BY <1>1 DEF Superblock

\* Returning from a copy or a superblock write, to whichever caller.
LEMMA ReturnType ==
  ASSUME TypeOK, Return
  PROVE  /\ pc' \in Pcs /\ task' \in Tasks
         /\ at' \in Slot /\ k' \in 0..Block /\ len' \in 1..Block
         /\ ram' \in Superblock
BY FreshSbType DEF TypeOK, Return, StartBackup, EndTask, Pcs, FirmwarePcs, BackupPcs,
   RestorePcs, Tasks, GuardTasks, Slot, A, B, S

\* The page counter stays within a slot because the firmware runs from a
\* complete image, whose size is known.
LEMMA StepTypeOK ==
  ASSUME TypeOK, RunsWhole, [Next]_vars
  PROVE  TypeOK'
<1>1. CASE BkErase
  BY <1>1, ContentFacts DEF BkErase, Pcs, FirmwarePcs, BackupPcs, SbPcs,
         RestorePcs, TypeOK
<1>2. CASE BkEraseFails
  <2>1. faults' \in 0..MaxFaults
    BY <1>2 DEF BkEraseFails, Fault, TypeOK
  <2>2. slot' \in [Slot -> Content] /\ dirty' \in SUBSET Slot
    BY <1>2, ContentFacts DEF BkEraseFails, TypeOK
  <2> QED
    BY <1>2, <2>1, <2>2, ReturnType DEF BkEraseFails, TypeOK
<1>3. CASE BkProgram
  <2>1. Size[flash.img] \in 1..Block /\ k' = k + 1 /\ k < Size[flash.img]
    BY <1>3, ContentFacts DEF BkProgram, RunsWhole, Whole, FirmwarePcs, BackupPcs
  <2>2. k' \in 1..Block
    BY <2>1 DEF TypeOK
  <2>3. flash.img \in Image
    BY <1>3 DEF BkProgram, RunsWhole, Whole, FirmwarePcs, BackupPcs
  <2>4. slot' \in [Slot -> Content]
    BY <1>3, <2>1, <2>2, <2>3 DEF BkProgram, TypeOK, Content
  <2>5. faults' \in 0..MaxFaults
    BY <1>3 DEF BkProgram, Fault, TypeOK
  <2> QED
    BY <1>3, <2>2, <2>4, <2>5 DEF BkProgram, TypeOK
<1>4. CASE BkProgramFails
  <2>1. faults' \in 0..MaxFaults
    BY <1>4 DEF BkProgramFails, Fault, TypeOK
  <2> QED
    BY <1>4, <2>1, ReturnType DEF BkProgramFails, TypeOK
<1>5. CASE BkVerify
  <2>1. flash.img \in Image
    BY <1>5 DEF BkVerify, RunsWhole, Whole, FirmwarePcs, BackupPcs
  <2>2. ram' \in Superblock
    BY <1>5, <2>1, SbOrFreshType DEF BkVerify, StartSbWrite, TypeOK, Superblock
  <2> QED
    BY <1>5, <2>2 DEF BkVerify, StartSbWrite, Pcs, FirmwarePcs, SbPcs, TypeOK
<1>6. CASE BkVerifyFails
  BY <1>6, ReturnType DEF BkVerifyFails, TypeOK
<1>7. CASE SbErase
  BY <1>7 DEF SbErase, Pcs, FirmwarePcs, BackupPcs, SbPcs, RestorePcs, TypeOK
<1>8. CASE SbEraseFails
  <2>1. faults' \in 0..MaxFaults
    BY <1>8 DEF SbEraseFails, Fault, TypeOK
  <2> QED
    BY <1>8, <2>1, ReturnType DEF SbEraseFails, TypeOK
<1>9. CASE SbProgram
  <2>1. dirty' \in SUBSET Slot
    BY <1>9 DEF SbProgram, TypeOK
  <2> QED
    BY <1>9, <2>1, ReturnType DEF SbProgram, TypeOK
<1>10. CASE SbProgramFails
  <2>1. faults' \in 0..MaxFaults
    BY <1>10 DEF SbProgramFails, Fault, TypeOK
  <2> QED
    BY <1>10, <2>1, ReturnType DEF SbProgramFails, TypeOK
<1>11. CASE GuardNoFlash
  <2>1. spi' \in BOOLEAN
    BY <1>11 DEF GuardNoFlash
  <2>2. faults' \in 0..MaxFaults
    BY <1>11 DEF GuardNoFlash, Fault, TypeOK
  <2> QED
    BY <1>11, <2>1, <2>2 DEF GuardNoFlash, Pcs, FirmwarePcs, TypeOK
<1>12. CASE GuardFirstBoot
  BY <1>12 DEF GuardFirstBoot, StartBackup, AtGuard, Pcs, FirmwarePcs,
         BackupPcs, SbPcs, RestorePcs, Tasks, GuardTasks, HostTasks,
         BackupTasks, Slot, A, B, S, TypeOK
<1>13. CASE GuardConfirmed
  BY <1>13 DEF GuardConfirmed, AtGuard, Pcs, FirmwarePcs, BackupPcs, SbPcs,
         RestorePcs, TypeOK
<1>14. CASE GuardCount
  <2>1. spi' \in BOOLEAN
    BY <1>14 DEF GuardCount, AtGuard
  <2>2. ram' \in Superblock
    <3>1. sb \in Superblock /\ sb.attempts + 1 \in 0..MaxAttempts
      BY <1>14, StatusRead DEF GuardCount, Superblock, MaxAttempts
    <3> QED
      BY <1>14, <3>1 DEF GuardCount, StartSbWrite, Superblock
  <2> QED
    BY <1>14, <2>1, <2>2 DEF GuardCount, StartSbWrite, Pcs, FirmwarePcs, SbPcs,
       Tasks, GuardTasks, TypeOK
<1>15. CASE GuardRollback
  <2>1. spi' \in BOOLEAN
    BY <1>15 DEF GuardRollback, AtGuard
  <2>2. ram' \in Superblock
    <3>1. sb \in Superblock /\ ram' = [sb EXCEPT !.status = "CONFIRMED", !.attempts = 0]
      BY <1>15, StatusRead DEF GuardRollback, StartSbWrite
    <3> QED
      BY <3>1, ClosedOrOpened
  <2>3. at' \in Slot /\ len' \in 1..Block
    BY <1>15, RestoreLenFacts DEF GuardRollback, Slot
  <2> QED
    BY <1>15, <2>1, <2>2, <2>3 DEF GuardRollback, StartSbWrite, Pcs, FirmwarePcs,
       SbPcs, Tasks, GuardTasks, TypeOK
<1>16. CASE RsErase
  BY <1>16, ContentFacts DEF RsErase, Pcs, FirmwarePcs, BackupPcs, SbPcs,
         RestorePcs, TypeOK
<1>17. CASE RsCopy
  BY <1>17, ContentFacts DEF RsCopy, TypeOK
<1>18. CASE RsDone
  BY <1>18, FreshSbType DEF RsDone, ResetInto, EndTask, RsEnd, Pcs,
         FirmwarePcs, BackupPcs, SbPcs, RestorePcs, Tasks, GuardTasks,
         HostTasks, BackupTasks, Slot, A, B, S, TypeOK
<1>19. CASE RsFails
  <2>1. task' \in Tasks /\ at' \in Slot /\ k' \in 0..Block /\ len' \in 1..Block
        /\ ram' \in Superblock
    BY <1>19, FreshSbType DEF RsFails, RsEnd, EndTask, Tasks, Slot
  <2>2. flash' \in Content
    BY <1>19, ContentFacts DEF RsFails, TypeOK
  <2>3. faults' \in 0..MaxFaults
    BY <1>19 DEF RsFails, Fault, TypeOK
  <2> QED
    BY <1>19, <2>1, <2>2, <2>3
    DEF RsFails, RsEnd, ResetInto, Pcs, FirmwarePcs, TypeOK
<1>20. CASE CmdConfirm
  <2>1. \E r \in Superblock : ram' = [r EXCEPT !.status = "CONFIRMED", !.attempts = 0]
    BY <1>20, SbOrFreshType DEF CmdConfirm, StartSbWrite
  <2>2. ram' \in Superblock
    BY <2>1, ClosedOrOpened
  <2> QED
    BY <1>20, <2>2 DEF CmdConfirm, StartSbWrite, Pcs, FirmwarePcs, SbPcs, Tasks,
       HostTasks, TypeOK
<1>21. CASE CmdArm
  <2>1. \E r \in Superblock : ram' = [r EXCEPT !.status = "TESTING", !.attempts = 0]
    BY <1>21, SbOrFreshType DEF CmdArm, StartSbWrite
  <2>2. ram' \in Superblock
    BY <2>1, ClosedOrOpened
  <2> QED
    BY <1>21, <2>2 DEF CmdArm, StartSbWrite, Pcs, FirmwarePcs, SbPcs, Tasks,
       HostTasks, TypeOK
<1>22. CASE CmdEraseStaging
  BY <1>22, ContentFacts
  DEF CmdEraseStaging, Fault, Accepts, ImageAssumption, Slot, A, B, S, TypeOK
<1>23. CASE CmdEnterBootloader
  BY <1>23 DEF CmdEnterBootloader, Pcs, FirmwarePcs, BackupPcs, SbPcs,
         RestorePcs, TypeOK
<1>24. CASE FlErase
  BY <1>24, ContentFacts DEF FlErase, Fault, ImageAssumption, TypeOK
<1>25. CASE FlGo
  BY <1>25 DEF FlGo, ResetInto, Pcs, FirmwarePcs, BackupPcs, SbPcs,
         RestorePcs, TypeOK
<1>26. CASE Crash
  BY <1>26, FreshSbType DEF Crash, EndTask, Pcs, FirmwarePcs, BackupPcs,
         SbPcs, RestorePcs, Tasks, GuardTasks, HostTasks, BackupTasks, Slot,
         A, B, S, TypeOK
<1>27. CASE PowerCut
  BY <1>27, FreshSbType DEF PowerCut, EndTask, Pcs, FirmwarePcs, BackupPcs,
         SbPcs, RestorePcs, Tasks, GuardTasks, HostTasks, BackupTasks, Slot,
         A, B, S, TypeOK
<1>28. CASE PowerOn
  BY <1>28 DEF PowerOn, ResetInto, Pcs, FirmwarePcs, BackupPcs, SbPcs,
         RestorePcs, TypeOK
<1>29. ASSUME NEW s \in Slot, CmdBackup(s) PROVE TypeOK'
  BY <1>29 DEF CmdBackup, StartBackup, Accepts, Pcs, FirmwarePcs, BackupPcs,
         SbPcs, RestorePcs, Tasks, GuardTasks, HostTasks, BackupTasks, Slot,
         A, B, S, TypeOK
<1>30. ASSUME NEW s \in Slot, CmdRestore(s) PROVE TypeOK'
  BY <1>30, RestoreLenFacts DEF CmdRestore, Accepts, Pcs, FirmwarePcs,
         BackupPcs, SbPcs, RestorePcs, Tasks, GuardTasks, HostTasks,
         BackupTasks, Slot, A, B, S, TypeOK
<1>31. ASSUME NEW i \in Image, NEW p \in 0..Block, CmdWriteStaging(i, p) PROVE TypeOK'
  BY <1>31, ProgramOverType DEF CmdWriteStaging, Fault, Accepts, Slot, A, B,
         S, Content, TypeOK
<1>32. ASSUME NEW i \in Image, NEW p \in 0..Block, FlWrite(i, p) PROVE TypeOK'
  BY <1>32, ProgramOverType DEF FlWrite, Fault, ImageAssumption, Content, TypeOK
<1>33. ASSUME NEW s \in Slot, NEW n \in 1..Block, FlRestore(s, n) PROVE TypeOK'
  BY <1>33 DEF FlRestore, Pcs, FirmwarePcs, BackupPcs, SbPcs, RestorePcs,
         Tasks, GuardTasks, HostTasks, BackupTasks, Slot, A, B, S, TypeOK
<1>34. CASE UNCHANGED vars
  BY <1>34 DEF TypeOK, vars
<1> QED
  BY <1>1, <1>2, <1>3, <1>4, <1>5, <1>6, <1>7, <1>8, <1>9, <1>10, <1>11,
         <1>12, <1>13, <1>14, <1>15, <1>16, <1>17, <1>18, <1>19, <1>20, <1>21,
         <1>22, <1>23, <1>24, <1>25, <1>26, <1>27, <1>28, <1>29, <1>30, <1>31,
         <1>32, <1>33, <1>34
     DEF Next, Firmware, Host

\* Firmware only starts through ResetInto, and internal flash is only written
\* from the flasher and the restore loop.
LEMMA StepRunsWhole ==
  ASSUME TypeOK, RunsWhole, [Next]_vars
  PROVE  RunsWhole'
<1>1. CASE flash' = flash /\ (pc' \in FirmwarePcs => pc \in FirmwarePcs)
  BY <1>1 DEF RunsWhole, Whole
<1>2. CASE pc' \notin FirmwarePcs
  BY <1>2 DEF RunsWhole
<1>3. CASE PowerOn \/ RsDone \/ RsFails \/ FlGo
  BY <1>3 DEF PowerOn, RsDone, RsFails, FlGo, RsEnd, ResetInto, RunsWhole, Whole,
     FirmwarePcs, BackupPcs, SbPcs
<1> QED
  BY <1>1, <1>2, <1>3 DEF Next, Firmware, Host, vars, BkErase, BkEraseFails, BkProgram,
     BkProgramFails, BkVerify, BkVerifyFails, SbErase, SbEraseFails, SbProgram,
     SbProgramFails, GuardNoFlash, GuardFirstBoot, GuardConfirmed, GuardCount,
     GuardRollback, AtGuard, RsErase, RsCopy, CmdBackup, CmdConfirm, CmdRestore, CmdArm,
     CmdEraseStaging, CmdWriteStaging, CmdEnterBootloader, Accepts, FlErase,
     FlWrite, FlRestore, Crash, PowerCut, Return, StartBackup, StartSbWrite,
     FirmwarePcs, BackupPcs, SbPcs

LEMMA StepCopyOwned ==
  ASSUME TypeOK, CopyOwned, [Next]_vars
  PROVE  CopyOwned'
<1>1. CASE UNCHANGED <<pc, task, at>> /\ dirty \subseteq dirty'
  BY <1>1 DEF CopyOwned
<1>2. CASE pc' \notin BackupPcs
  BY <1>2 DEF CopyOwned, BackupPcs
<1>3. CASE BkErase
  BY <1>3 DEF BkErase, CopyOwned, BackupPcs
<1>4. CASE pc' = "bkErase" /\ task' \in BackupTasks
  BY <1>4 DEF CopyOwned
<1> QED
  BY <1>1, <1>2, <1>3, <1>4 DEF Next, Firmware, Host, vars, BkEraseFails, BkProgram,
     BkProgramFails, BkVerify, BkVerifyFails, SbErase, SbEraseFails, SbProgram,
     SbProgramFails, GuardNoFlash, GuardFirstBoot, GuardConfirmed, GuardCount,
     GuardRollback, RsErase, RsCopy, RsDone, RsFails, RsEnd, ResetInto, CmdBackup,
     CmdConfirm, CmdRestore, CmdArm, CmdEraseStaging, CmdWriteStaging,
     CmdEnterBootloader, Accepts, FlErase, FlWrite, FlGo, FlRestore, Crash, PowerCut,
     PowerOn, Return, StartBackup, StartSbWrite, BackupPcs, BackupTasks

\* The superblock, and the record in RAM that will replace it, are rewritten only
\* from the superblock itself and from a copy that was just verified.
LEMMA StepTruth ==
  ASSUME TypeOK, EntriesTrue, RamTrue, RunsWhole, CopyOwned, [Next]_vars
  PROVE  EntriesTrue' /\ RamTrue'
<1>1. CASE UNCHANGED <<slot, sb, ram, dirty, task, at>> /\ (pc' \in SbPcs => pc \in SbPcs)
  BY <1>1 DEF EntriesTrue, RamTrue, Full
<1>2. CASE UNCHANGED <<slot, sb, dirty>> /\ pc' \notin SbPcs
  BY <1>2 DEF EntriesTrue, RamTrue, Full
<1>3. CASE BkErase
  BY <1>3 DEF BkErase, EntriesTrue, RamTrue, SbPcs, Full, TypeOK
<1>4. CASE BkEraseFails
  BY <1>4 DEF BkEraseFails, Return, StartBackup, EntriesTrue, RamTrue, BackupPcs, SbPcs,
     CopyOwned, BackupTasks, Full, TypeOK
<1>5. CASE BkProgram
  BY <1>5 DEF BkProgram, EntriesTrue, RamTrue, SbPcs, CopyOwned, Full, TypeOK
<1>6. CASE BkVerify
  <2>1. flash = Full(flash.img) /\ slot[at] = flash
    BY <1>6 DEF BkVerify, RunsWhole, Whole, FirmwarePcs, BackupPcs
  <2>2. ram' = [SbOrFresh EXCEPT !.entry[at] = flash.img] /\ at' = at /\ dirty' = dirty
        /\ slot' = slot /\ sb' = sb
    BY <1>6 DEF BkVerify, StartSbWrite
  <2>3. \A s \in Slot \ dirty : SbOrFresh.entry[s] # NoImage => slot[s] = Full(SbOrFresh.entry[s])
    BY FreshSbType DEF EntriesTrue, SbOrFresh
  <2>4. ram'.entry = [SbOrFresh.entry EXCEPT ![at] = flash.img] /\ SbOrFresh.entry \in [Slot -> Image \cup {NoImage}]
    BY <2>2, SbOrFreshType DEF Superblock, TypeOK
  <2> QED
    BY <2>1, <2>2, <2>3, <2>4 DEF EntriesTrue, RamTrue, Full, TypeOK
<1>7. CASE SbErase
  BY <1>7 DEF SbErase, EntriesTrue, RamTrue, SbPcs, Full
<1>8. CASE SbEraseFails
  BY <1>8 DEF SbEraseFails, Return, StartBackup, EntriesTrue, RamTrue, SbPcs, Full
<1>9. CASE SbProgram
  BY <1>9 DEF SbProgram, Return, StartBackup, EntriesTrue, RamTrue, SbPcs, Full
<1>10. CASE GuardCount \/ GuardRollback \/ CmdConfirm \/ CmdArm
  <2>1. ram'.entry = SbOrFresh.entry /\ task' \notin BackupTasks
    BY <1>10, SbOrFreshType, StatusRead DEF GuardCount, GuardRollback, CmdConfirm, CmdArm, StartSbWrite,
       SbOrFresh, Superblock, BackupTasks
  <2>2. UNCHANGED <<slot, sb, dirty>>
    BY <1>10 DEF GuardCount, GuardRollback, CmdConfirm, CmdArm
  <2> QED
    BY <2>1, <2>2, FreshSbType DEF EntriesTrue, RamTrue, SbOrFresh, Full
<1>11. CASE CmdEraseStaging
  BY <1>11 DEF CmdEraseStaging, Accepts, EntriesTrue, RamTrue, SbPcs, Full, TypeOK
<1>12. ASSUME NEW i \in Image, NEW p \in 0..Block, CmdWriteStaging(i, p)
       PROVE  EntriesTrue' /\ RamTrue'
  BY <1>12 DEF CmdWriteStaging, Accepts, EntriesTrue, RamTrue, SbPcs, Full, TypeOK
<1> QED
  BY <1>1, <1>2, <1>3, <1>4, <1>5, <1>6, <1>7, <1>8, <1>9, <1>10, <1>11, <1>12
  DEF Next, Firmware, Host, vars, BkProgramFails, BkVerifyFails, SbProgramFails,
     GuardNoFlash, GuardFirstBoot, GuardConfirmed, RsErase, RsCopy, RsDone, RsFails,
     RsEnd, ResetInto, CmdBackup, CmdRestore, CmdEnterBootloader, Accepts, FlErase,
     FlWrite, FlGo, FlRestore, Crash, PowerCut, PowerOn, Return, StartBackup, SbPcs

\* A rollback keeps the length it read, and closes the trial on the way.
LEMMA StepLenKept ==
  ASSUME TypeOK, LenKept, RollbackClosesTrial, CopyOwned, [Next]_vars
  PROVE  LenKept' /\ RollbackClosesTrial'
<1>1. CASE UNCHANGED <<sb, ram, len, at, task, faults>>
           /\ (pc' \in SbPcs => pc \in SbPcs) /\ (pc' \in RestorePcs => pc \in RestorePcs)
  BY <1>1 DEF LenKept, LenOf, RollbackClosesTrial
<1>2. CASE pc' \notin SbPcs \cup RestorePcs
  BY <1>2 DEF LenKept, RollbackClosesTrial
<1>3. CASE task' \notin {"rollback", "cmdRestore"}
  BY <1>3 DEF LenKept, RollbackClosesTrial
<1>4. CASE SbErase
  BY <1>4 DEF SbErase, LenKept, LenOf, RollbackClosesTrial, SbPcs, RestorePcs
<1>5. CASE SbEraseFails \/ SbProgramFails
  BY <1>5 DEF SbEraseFails, SbProgramFails, Return, StartBackup, EndTask, Fault, LenKept,
     LenOf, RollbackClosesTrial, SbPcs, RestorePcs, TypeOK
<1>6. CASE SbProgram
  BY <1>6, NoSbIsNoSuperblock DEF SbProgram, Return, StartBackup, EndTask, LenKept,
     LenOf, RollbackClosesTrial, SbPcs, RestorePcs, TypeOK
<1>7. CASE GuardRollback
  <2>1. sb \in Superblock /\ len' = LenOf(sb.entry[B]) /\ at' = B /\ sb' = sb
    BY <1>7, StatusRead, RestoreLenFacts DEF GuardRollback, Slot
  <2>2. ram'.entry = sb.entry /\ ram'.status = "CONFIRMED" /\ pc' = "sbErase"
    BY <1>7, <2>1 DEF GuardRollback, StartSbWrite, Superblock
  <2> QED
    BY <2>1, <2>2 DEF LenKept, LenOf, RollbackClosesTrial, RestorePcs
<1>8. ASSUME NEW s \in Slot, CmdRestore(s)
      PROVE  LenKept' /\ RollbackClosesTrial'
  BY <1>8, RestoreLenFacts DEF CmdRestore, LenKept, LenOf, RollbackClosesTrial, SbPcs
<1> QED
  BY <1>1, <1>2, <1>3, <1>4, <1>5, <1>6, <1>7, <1>8
  DEF Next, Firmware, Host, vars, BkErase, BkEraseFails, BkProgram, BkProgramFails,
     BkVerify, BkVerifyFails, GuardNoFlash, GuardFirstBoot, GuardConfirmed, GuardCount,
     RsErase, RsCopy, RsDone, RsFails, RsEnd, ResetInto, EndTask, CmdBackup, CmdConfirm,
     CmdArm, CmdEraseStaging, CmdWriteStaging, CmdEnterBootloader, Accepts, FlErase,
     FlWrite, FlGo, FlRestore, Crash, PowerCut, PowerOn, Return, StartBackup,
     StartSbWrite, SbPcs, RestorePcs, BackupPcs, BackupTasks, CopyOwned

LEMMA StepCopyInProgress ==
  ASSUME TypeOK, CopyInProgress, [Next]_vars
  PROVE  CopyInProgress'
<1>1. CASE UNCHANGED <<pc, flash, slot, at, k, len>>
  BY <1>1 DEF CopyInProgress, CopyOf
<1>2. CASE pc' # "rsCopy"
  BY <1>2 DEF CopyInProgress
<1>3. CASE RsErase
  BY <1>3 DEF RsErase, CopyInProgress, CopyOf, TypeOK
<1>4. CASE RsCopy
  BY <1>4 DEF RsCopy, CopyInProgress, CopyOf, TypeOK
<1> QED
  BY <1>1, <1>2, <1>3, <1>4
  DEF Next, Firmware, Host, vars, BkErase, BkEraseFails, BkProgram, BkProgramFails,
     BkVerify, BkVerifyFails, SbErase, SbEraseFails, SbProgram, SbProgramFails,
     GuardNoFlash, GuardFirstBoot, GuardConfirmed, GuardCount, GuardRollback,
     RsDone, RsFails, RsEnd, ResetInto, CmdBackup, CmdConfirm, CmdRestore,
     CmdArm, CmdEraseStaging, CmdWriteStaging, CmdEnterBootloader, Accepts, FlErase,
     FlWrite, FlGo, FlRestore, Crash, PowerCut, PowerOn, Return, StartBackup, StartSbWrite

LEMMA StepIInv == IInv /\ [Next]_vars => IInv'
BY StepTypeOK, StepRunsWhole, StepCopyOwned, StepTruth, StepLenKept, StepCopyInProgress
DEF IInv

\* IInv is an invariant.
THEOREM Invariance == Spec => []IInv
BY InitIInv, StepIInv, PTL DEF Spec

\* Type correctness: no page counter leaves its slot and no attempt is counted
\* beyond the third, whatever the sizes of the images.
THEOREM TypeCorrect == Spec => []TypeOK
<1>1. IInv => TypeOK
  BY DEF IInv
<1> QED
  BY Invariance, <1>1, PTL

\* Whatever is cut off or fails, and whatever the host asks for, a superblock
\* entry names what its slot holds unless a rewrite of that slot is unfinished.
THEOREM SuperblockTruthful == Spec => []EntriesTrue
<1>1. IInv => EntriesTrue
  BY DEF IInv
<1> QED
  BY Invariance, <1>1, PTL

\* A restore from a slot with a true entry leaves that image, complete.
THEOREM RestoreComplete == Spec => []RestoreIsWhole
<1>1. IInv => RestoreIsWhole
  <2> SUFFICES ASSUME IInv, pc = "rsCopy", k = len, task \in {"rollback", "cmdRestore"},
                      sb # NoSb, at \notin dirty, sb.entry[at] # NoImage
               PROVE  flash = Full(sb.entry[at])
    BY DEF RestoreIsWhole
  <2>1. sb.entry[at] \in Image /\ at \in Slot
    BY DEF IInv, TypeOK, Superblock
  <2>2. slot[at] = Full(sb.entry[at])
    BY <2>1 DEF IInv, EntriesTrue
  <2>3. k = Size[sb.entry[at]]
    BY DEF IInv, LenKept, RestorePcs
  <2>4. flash = CopyOf(slot[at], k)
    BY DEF IInv, CopyInProgress
  <2> QED
    BY <2>1, <2>2, <2>3, <2>4, WholeCopy
<1> QED
  BY Invariance, <1>1, PTL

\* Without a failed SPI operation the trial is closed before the restore starts.
THEOREM TrialClosedFirst == Spec => []RollbackClosesTrial
<1>1. IInv => RollbackClosesTrial
  BY DEF IInv
<1> QED
  BY Invariance, <1>1, PTL
=============================================================================
