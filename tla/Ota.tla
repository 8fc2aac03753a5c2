--------------------------------- MODULE Ota ---------------------------------
(***************************************************************************)
(* A firmware update of the GD32 by the ESP32 (execute_ota), from the      *)
(* backup of the running image to the GO command, over the serial link and *)
(* against the GD32 of module BootGuard.  The GD32's own steps are those of*)
(* BootGuard; this module adds the ESP32 and the two directions of the     *)
(* link, and decides when the GD32 takes a command.                        *)
(*                                                                         *)
(* The three-message handshake inside one ROM command is one exchange here:*)
(* the flasher changes nothing before its last message.                    *)
(***************************************************************************)
EXTENDS BootGuard, Sequences

CONSTANTS
  Syncs,      \* attempts to synchronise with the flasher (10 in the code)
  MaxUpsets   \* bound: messages lost and ESP resets

ASSUME OtaAssumption == Syncs \in Nat \ {0} /\ MaxUpsets \in Nat

VARIABLES
  stage,   \* where execute_ota is waiting, "idle" outside it
  img,     \* the image it installs
  off,     \* the page it is writing, or the attempts to synchronise so far
  ack,     \* last_flash_ack_cmd_ and last_flash_ack_status_
  viaSpi,  \* has_spi_flash
  known,   \* spi_flash_status_: what the GD32 told about its chip
  res,     \* what the last execute_ota returned
  down,    \* link, ESP32 to GD32
  up,      \* link, GD32 to ESP32
  upsets

esp  == <<stage, img, off, ack, viaSpi, known, res>>
link == <<down, up>>
allVars == <<vars, esp, link, upsets>>

-----------------------------------------------------------------------------
(* Messages *)

SpiStages == {"backup", "stageErase", "stageWrite", "stageVerify"}
RomStages == {"sync", "erase", "write", "go"}
Stages == SpiStages \cup RomStages \cup {"idle", "enter"}
Results == {"none", "ok", "upToDate", "error"}

\* Every message of the ESP32 bears the name of the stage that sends it.
Request(s, i, p) == [cmd |-> s, img |-> i, page |-> p]
Offsets == 0..Block \cup 0..Syncs
Requests == [cmd : Stages \ {"idle"}, img : Image, page : Offsets]

\* A PKT_TYPE_FLASH_ACK; that of the backup carries the CRC32 of the firmware.
FlashAck(s, good, i) == [cmd |-> s, good |-> good, img |-> i]
NoAck == FlashAck("none", FALSE, NoImage)

\* One byte of the flasher, 0x79 or 0x1F.
Rom(good) == [cmd |-> "rom", good |-> good, img |-> NoImage]

\* The application's answer to ENTER_BOOTLOADER, a frame that starts with 0xAA.
EnterAck == [cmd |-> "enter", good |-> TRUE, img |-> NoImage]
Answers == [cmd : SpiStages \cup {"rom", "enter", "none"}, good : BOOLEAN,
            img : Image \cup {NoImage}]

OtaTypeOK ==
  /\ TypeOK
  /\ stage \in Stages
  /\ img \in Image
  /\ off \in Offsets
  /\ ack \in Answers
  /\ viaSpi \in BOOLEAN
  /\ known \in {"unknown", "yes", "no"}
  /\ res \in Results
  /\ down \in Seq(Requests)
  /\ up \in Seq(Answers)
  /\ upsets \in 0..MaxUpsets

OtaInit ==
  /\ Init
  /\ stage = "idle"
  /\ img \in Image
  /\ off = 0
  /\ ack = NoAck
  /\ viaSpi = FALSE
  /\ known = "unknown"
  /\ res = "none"
  /\ down = <<>>
  /\ up = <<>>
  /\ upsets = 0

-----------------------------------------------------------------------------
(* The ESP32: execute_ota *)

Send(s, p) == down' = Append(down, Request(s, img, p))

\* Before each flash command the ESP32 forgets the last acknowledgement.
Ask(s, p) ==
  /\ stage' = s
  /\ off' = p
  /\ ack' = NoAck
  /\ Send(s, p)

Finish(result) ==
  /\ stage' = "idle"
  /\ res' = result
  /\ UNCHANGED <<img, off, ack, viaSpi, known, down>>

\* Mutant: the staging stages are gone through without asking for the chip.
Start_AssumesChip(i) ==
  /\ stage = "idle"
  /\ pc \notin {"off", "dead"}
  /\ down = <<>> /\ task # "cmdBackup"
  /\ img' = i
  /\ res' = "none"
  /\ up' = <<>>
  /\ viaSpi' = TRUE
  /\ off' = 0
  /\ ack' = NoAck
  /\ stage' = "backup" /\ down' = Append(down, Request("backup", i, 0))
  /\ UNCHANGED <<known, upsets, vars>>

\* An HTTP request with image i, while the ESP32 has the supply that the GD32
\* switches.  Receiving the image takes seconds, in which the GD32 works off what
\* an earlier attempt had sent it; the answers to that are drained.
Start(i) ==
  /\ stage = "idle"
  /\ pc \notin {"off", "dead"}
  /\ down = <<>> /\ task # "cmdBackup"
  /\ img' = i
  /\ res' = "none"
  /\ up' = <<>>
  /\ viaSpi' = (known = "yes")
  /\ off' = 0
  /\ ack' = NoAck
  /\ IF known = "yes"
     THEN stage' = "backup" /\ down' = Append(down, Request("backup", i, 0))
     ELSE stage' = "enter" /\ down' = Append(down, Request("enter", i, 0))
  /\ UNCHANGED <<known, upsets, vars>>

\* pump_rx_ hands the next packet to process_packet_, which in OTA mode keeps
\* flash acknowledgements only.
Receive ==
  /\ stage \in SpiStages
  /\ ack.cmd # stage
  /\ up # <<>>
  /\ up' = Tail(up)
  /\ ack' = IF Head(up).cmd \in SpiStages THEN Head(up) ELSE ack
  /\ UNCHANGED <<stage, img, off, viaSpi, known, res, down, upsets, vars>>

Answered == stage \in SpiStages /\ ack.cmd = stage

\* The backup's failure is a warning only.
AfterBackup ==
  /\ stage = "backup"
  /\ IF ack.cmd = "backup" /\ ack.good /\ ack.img = img
     THEN Finish("upToDate")
     ELSE Ask("stageErase", 0) /\ UNCHANGED <<img, viaSpi, known, res>>
  /\ UNCHANGED <<up, upsets, vars>>

\* Mutant: the chunks' acknowledgements are taken for a verified image.
AfterStaging_NoVerify ==
  /\ Answered
  /\ stage # "backup"
  /\ ack.good
  /\ \/ stage = "stageErase" /\ Ask("stageWrite", 0)
     \/ stage = "stageWrite" /\ off + 1 < Size[img] /\ Ask("stageWrite", off + 1)
     \/ stage = "stageWrite" /\ off + 1 = Size[img] /\ Ask("enter", 0)
  /\ up' = IF stage = "stageWrite" /\ off + 1 = Size[img] THEN <<>> ELSE up
  /\ UNCHANGED <<img, viaSpi, known, res, upsets, vars>>

AfterStaging ==
  /\ Answered
  /\ stage # "backup"
  /\ ack.good
  /\ \/ stage = "stageErase" /\ Ask("stageWrite", 0)
     \/ stage = "stageWrite" /\ off + 1 < Size[img] /\ Ask("stageWrite", off + 1)
     \/ stage = "stageWrite" /\ off + 1 = Size[img] /\ Ask("stageVerify", 0)
     \/ stage = "stageVerify" /\ Ask("enter", 0)
  /\ up' = IF stage = "stageVerify" THEN <<>> ELSE up
  /\ UNCHANGED <<img, viaSpi, known, res, upsets, vars>>

\* The acknowledgement is negative, or has not come in time: the operations the
\* GD32 does meanwhile may take longer than the ESP32 waits.
StagingFails ==
  /\ stage \in SpiStages \ {"backup"}
  /\ ~(Answered /\ ack.good)
  /\ Finish("error")
  /\ UNCHANGED <<up, upsets, vars>>

\* The flasher has answered whatever it was sent: it needs a fraction of every
\* timeout of this phase, and of the 50 ms between two attempts.
Settled == pc = "flasher" => down = <<>>
Silence == up = <<>> /\ Settled

\* 150 ms for an answer nobody checks, 50 ms more, and the buffer is drained.
EnterDone ==
  /\ stage = "enter"
  /\ Settled
  /\ Ask("sync", 1)
  /\ up' = <<>>
  /\ UNCHANGED <<img, viaSpi, known, res, upsets, vars>>

\* Mutant: the receive buffer is not drained before an attempt.
SyncFails_NotDrained ==
  /\ stage = "sync"
  /\ Settled
  /\ up # <<>> => Head(up).cmd # "rom"
  /\ up' = IF up = <<>> THEN up ELSE Tail(up)
  /\ IF off < Syncs
     THEN Ask("sync", off + 1) /\ UNCHANGED <<img, viaSpi, known, res>>
     ELSE Finish("error")
  /\ UNCHANGED <<upsets, vars>>

\* Mutant: one attempt too many.
SyncFails_OneMore ==
  /\ stage = "sync"
  /\ Settled
  /\ up # <<>> => Head(up).cmd # "rom"
  /\ up' = <<>>
  /\ IF off <= Syncs
     THEN Ask("sync", off + 1) /\ UNCHANGED <<img, viaSpi, known, res>>
     ELSE Finish("error")
  /\ UNCHANGED <<upsets, vars>>

\* A wrong byte, or no byte within 300 ms: once more, or give up after ten.
\* What has come in meanwhile is drained before the next attempt.
SyncFails ==
  /\ stage = "sync"
  /\ Settled
  /\ up # <<>> => Head(up).cmd # "rom"
  /\ up' = <<>>
  /\ IF off < Syncs
     THEN Ask("sync", off + 1) /\ UNCHANGED <<img, viaSpi, known, res>>
     ELSE Finish("error")
  /\ UNCHANGED <<upsets, vars>>

\* ACK and NACK both count as synchronised; after that only an ACK will do.
RomAnswer ==
  /\ stage \in RomStages
  /\ up # <<>>
  /\ Head(up) = Rom(TRUE) \/ (stage = "sync" /\ Head(up) = Rom(FALSE))
  /\ up' = Tail(up)
  /\ \/ /\ stage = "sync" /\ Ask("erase", 0)
        /\ UNCHANGED res
     \/ /\ stage = "erase" /\ Ask("write", 0)
        /\ UNCHANGED res
     \/ /\ stage = "write" /\ off + 1 < Size[img] /\ Ask("write", off + 1)
        /\ UNCHANGED res
     \/ /\ stage = "write" /\ off + 1 = Size[img] /\ Ask("go", 0)
        /\ UNCHANGED res
     \/ /\ stage = "go" /\ stage' = "idle" /\ res' = "ok"
        /\ UNCHANGED <<off, ack, down>>
  /\ UNCHANGED <<img, viaSpi, known, upsets, vars>>

\* Mutant: what failed is not told apart from what went well, and GO ends it all.
RomFails_GoesAnyway ==
  /\ stage \in RomStages \ {"sync"}
  /\ Silence \/ (up # <<>> /\ Head(up) # Rom(TRUE))
  /\ up' = <<>>
  /\ IF stage = "go"
     THEN Finish("ok")
     ELSE Ask("go", 0) /\ UNCHANGED <<img, viaSpi, known, res>>
  /\ UNCHANGED <<upsets, vars>>

\* The result of rom_go is ignored: the update is reported as done.
RomFails ==
  /\ stage \in RomStages \ {"sync"}
  /\ Silence \/ (up # <<>> /\ Head(up) # Rom(TRUE))
  /\ up' = <<>>
  /\ Finish(IF stage = "go" THEN "ok" ELSE "error")
  /\ UNCHANGED <<upsets, vars>>

\* FLASH_INFO, asked for at a hello while nothing is known and never again.
Learn ==
  /\ stage = "idle"
  /\ known = "unknown"
  /\ pc = "app" /\ down = <<>>
  /\ known' = IF spi THEN "yes" ELSE "no"
  /\ UNCHANGED <<stage, img, off, ack, viaSpi, res, link, upsets, vars>>

\* The ESP32 alone restarts; the GD32 keeps its supply.
EspReset ==
  /\ upsets < MaxUpsets
  /\ upsets' = upsets + 1
  /\ stage' = "idle"
  /\ res' = "none"
  /\ known' = "unknown"
  /\ viaSpi' = FALSE
  /\ ack' = NoAck
  /\ off' = 0
  /\ up' = <<>>
  /\ UNCHANGED <<img, down, vars>>

-----------------------------------------------------------------------------
(* The GD32: what it does with the next message *)

Msg == Head(down)
Takes(m) == down # <<>> /\ Msg.cmd = m /\ down' = Tail(down)
Reply(a) == up' = Append(up, a)
Worked == faults' = faults

\* Without a chip every flash command is answered with an error.
GdNoFlash ==
  /\ pc = "app" /\ ~spi
  /\ \E m \in SpiStages : Takes(m) /\ Reply(FlashAck(m, FALSE, NoImage))
  /\ UNCHANGED vars

GdBackup ==
  /\ Takes("backup")
  /\ CmdBackup(B)
  /\ UNCHANGED up

GdEraseStaging ==
  /\ Takes("stageErase")
  /\ CmdEraseStaging
  /\ Reply(FlashAck("stageErase", Worked, NoImage))

\* A page that programs badly may go unnoticed.
GdWriteStaging ==
  /\ Takes("stageWrite")
  /\ CmdWriteStaging(Msg.img, Msg.page)
  /\ \E good \in {TRUE, Worked} : Reply(FlashAck("stageWrite", good, NoImage))

GdVerify ==
  /\ pc = "app" /\ spi
  /\ Takes("stageVerify")
  /\ Reply(FlashAck("stageVerify", slot[S] = Full(Msg.img), NoImage))
  /\ UNCHANGED vars

\* The flasher no longer reads the receive ring the application filled; only
\* what is still on the wire can reach it.
GdEnter ==
  /\ down # <<>> /\ Msg.cmd = "enter"
  /\ CmdEnterBootloader
  /\ \/ down' = <<>>
     \/ Len(down) > 1 /\ down' = <<down[Len(down)]>>
  /\ Reply(EnterAck)

GdSync ==
  /\ pc = "flasher"
  /\ Takes("sync")
  /\ Reply(Rom(TRUE))
  /\ UNCHANGED vars

GdErase ==
  /\ Takes("erase")
  /\ FlErase
  /\ Reply(Rom(Worked))

\* A WRITE only ever finds erased pages: UpdateEnds would fail if it did not.
GdWrite ==
  /\ Takes("write")
  /\ FlWrite(Msg.img, Msg.page)
  /\ Reply(Rom(Worked))

GdGo ==
  /\ Takes("go")
  /\ FlGo
  /\ Reply(Rom(TRUE))

\* The application skips what is not a frame, the flasher what is not one of its
\* commands.
GdIgnores ==
  /\ \/ pc = "app" /\ \E m \in RomStages : Takes(m)
     \/ pc = "flasher" /\ \E m \in SpiStages \cup {"enter"} : Takes(m)
  /\ UNCHANGED <<up, vars>>

\* A routine of the firmware goes on.  The backup reports when it returns, as a
\* success once the copy has been verified, with or without a superblock.
GdFirmware ==
  /\ Firmware
  /\ up' = IF task = "cmdBackup" /\ pc' = "app"
           THEN Append(up, IF pc \in SbPcs THEN FlashAck("backup", TRUE, flash.img)
                           ELSE FlashAck("backup", FALSE, NoImage))
           ELSE up
  /\ UNCHANGED down

\* A reset loses the receive ring.
GdCrash == Crash /\ down' = <<>> /\ UNCHANGED up

-----------------------------------------------------------------------------
(* The link and the supply *)

\* A message is lost or fails its CRC.  The flasher, left waiting for the rest
\* of one of its commands, may still say NACK.
LoseRequest ==
  /\ down # <<>>
  /\ upsets < MaxUpsets
  /\ upsets' = upsets + 1
  /\ down' = Tail(down)
  /\ \/ UNCHANGED up
     \/ pc = "flasher" /\ Msg.cmd \in RomStages \ {"sync"} /\ Reply(Rom(FALSE))
  /\ UNCHANGED <<esp, vars>>

LoseAnswer ==
  /\ up # <<>>
  /\ upsets < MaxUpsets
  /\ upsets' = upsets + 1
  /\ up' = Tail(up)
  /\ UNCHANGED <<esp, down, vars>>

\* The ESP32 hangs on a supply the GD32 switches.
SupplyFails ==
  /\ PowerCut
  /\ stage' = "idle" /\ res' = "none" /\ known' = "unknown"
  /\ viaSpi' = FALSE /\ ack' = NoAck /\ off' = 0
  /\ down' = <<>> /\ up' = <<>>
  /\ UNCHANGED <<img, upsets>>

SupplyBack == PowerOn /\ UNCHANGED <<esp, link, upsets>>

-----------------------------------------------------------------------------
User == \E i \in Image : Start(i)

Esp ==
  \/ Receive \/ AfterBackup \/ AfterStaging \/ StagingFails \/ EnterDone
  \/ SyncFails \/ RomAnswer \/ RomFails \/ Learn

Gd ==
  /\ \/ GdNoFlash \/ GdBackup \/ GdEraseStaging \/ GdWriteStaging \/ GdVerify
     \/ GdEnter \/ GdSync \/ GdErase \/ GdWrite \/ GdGo
     \/ GdIgnores \/ GdFirmware \/ GdCrash
  /\ UNCHANGED <<esp, upsets>>

OtaNext ==
  \/ User \/ Esp \/ EspReset \/ Gd
  \/ LoseRequest \/ LoseAnswer \/ SupplyFails \/ SupplyBack

OtaSpec == OtaInit /\ [][OtaNext]_allVars

\* execute_ota never waits without a timeout, and the GD32 serves its link.
OtaFairness == WF_allVars(Esp) /\ WF_allVars(Gd) /\ WF_allVars(SupplyBack)
OtaFairSpec == OtaSpec /\ OtaFairness

\* ... and an owner whose update failed tries again.
OtaRetrySpec == OtaFairSpec /\ WF_allVars(User)

-----------------------------------------------------------------------------
(* Properties *)

\* What execute_ota reports as done is done: the image, all of it, is in
\* internal flash, whatever answers were lost, late or left over from an
\* earlier attempt (acknowledgements name a command, not an address).
OkMeansFlashed ==
  stage = "idle" /\ res \in {"ok", "upToDate"} => flash = Full(img)

\* With a chip, the flasher is not asked to do anything before the image is
\* complete in the staging slot (the staging stages of execute_ota).
StagedFirst ==
  viaSpi /\ stage \in RomStages \cup {"enter"} => slot[S] = Full(img)

\* What makes the two properties above inductive: what each stage of execute_ota may
\* find on the link, and what an answer there says of the GD32.

Has(q, cmd) == \E i \in 1 .. Len(q) : q[i].cmd = cmd
AllIn(q, cmds) == \A i \in 1 .. Len(q) : q[i].cmd \in cmds
OnlyLast(q, cmd) == \A i \in 1 .. Len(q) : q[i].cmd = cmd => i = Len(q)

\* An update puts nothing on trial, so the guard restores nothing and internal flash
\* changes in the flasher only; a backup leaves the staging slot alone.
NoTrial ==
  /\ sb # NoSb => sb.status = "CONFIRMED"
  /\ pc \in SbPcs => ram.status = "CONFIRMED"
  /\ pc \notin RestorePcs /\ task # "rollback"
  /\ pc \in BackupPcs => at \in {A, B}
  /\ task = "cmdBackup" => pc \in BackupPcs \cup SbPcs

\* What can still be on its way to the GD32: a backup that was given up waits before
\* the erase, an ENTER_BOOTLOADER before the attempts to synchronise.
Sayable ==
  CASE stage = "stageErase" -> {"backup", "stageErase"}
    [] stage = "sync" -> {"enter", "sync"}
    [] stage = "idle" -> IF res \in {"ok", "upToDate"} THEN Stages \ {"erase", "write"} ELSE Stages
    [] OTHER -> {stage}

Asked ==
  /\ AllIn(down, Sayable)
  /\ stage # "idle" => \A i \in 1 .. Len(down) : down[i].img = img
  /\ stage \in {"stageErase", "stageWrite", "stageVerify", "enter"} => OnlyLast(down, stage)
  /\ stage \in Stages \ {"idle", "backup", "stageErase"} => task # "cmdBackup"

\* An answer to the stage that waits is the last there is, and nothing is under way.
AnsweredLast ==
  /\ stage = "backup" => ~Has(up, "stageErase")
  /\ stage \in SpiStages \ {"backup"} =>
       /\ Has(up, stage) => OnlyLast(up, stage) /\ down = <<>> /\ task # "cmdBackup"
       /\ ack.cmd = stage => up = <<>> /\ down = <<>> /\ task # "cmdBackup"

\* What an acknowledgement says holds until the stage that waits for it is over.
Says(a) ==
  /\ a.cmd = "backup" /\ a.good => flash = Full(a.img)
  /\ stage = "stageVerify" /\ a.cmd = "stageVerify" /\ a.good => slot[S] = Full(img)
AcksTrue == stage \in SpiStages => Says(ack) /\ \A i \in 1 .. Len(up) : Says(up[i])

\* A byte of the flasher answers the one attempt that reached it.
SyncOnce ==
  stage = "sync" =>
    /\ down # <<>> => down[Len(down)].cmd = "sync"
    /\ pc = "flasher" => Len(down) <= 1 /\ AllIn(down, {"sync"})
    /\ Has(up, "rom") => pc = "flasher" /\ down = <<>> /\ OnlyLast(up, "rom")

\* The first n pages of the image are in internal flash, and nothing else.
Written(n) == flash = IF n = 0 THEN Blank ELSE [img |-> img, pages |-> n]

\* One command at a time: before its answer flash is as the last one left it.
RomSteps ==
  /\ stage \in {"erase", "write"} =>
       /\ pc = "flasher" /\ Len(down) + Len(up) <= 1
       /\ up # <<>> /\ Head(up) = Rom(TRUE) => Written(IF stage = "erase" THEN 0 ELSE off + 1)
  /\ stage = "write" =>
       /\ off < Size[img]
       /\ down # <<>> => Head(down).page = off /\ Written(off)
  /\ stage = "go" => flash = Full(img)

\* A GO on its way is the last thing said, and said of a complete image.
GoIsLast == Has(down, "go") => AllIn(down, {"go"}) /\ Whole(flash)

UpdateInv ==
  /\ IInv
  /\ OtaTypeOK
  /\ NoTrial
  /\ Asked
  /\ AnsweredLast
  /\ AcksTrue
  /\ SyncOnce
  /\ RomSteps
  /\ GoIsLast
  /\ OkMeansFlashed
  /\ StagedFirst

\* Between the mass erase and the last page internal flash is incomplete, and no
\* lost, late or garbled message, no failing write and no restart of the ESP32 makes
\* the GD32 start it: it stays in the flasher, where the next attempt finds it. Only
\* a power cut bricks the board (error returns of execute_ota, rom_go).
OnlyPowerCutBricks == [][pc' = "dead" /\ pc # "dead" => pc = "off"]_allVars

\* Every update ends, with a result or with the ESP32.
UpdateEnds == stage # "idle" ~> stage = "idle"

\* An update that failed half way can be repeated as long as the supply holds,
\* by an ESP32 that does not remember a chip the flasher cannot serve.
RetryHealsWithoutChip ==
  pc = "flasher" /\ stage = "idle" /\ known # "yes" ~> pc = "app"

\* An update comes to an end, and its repetition to a working GD32.
RetriesHeal == UpdateEnds /\ RetryHealsWithoutChip
=============================================================================
