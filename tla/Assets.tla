------------------------------- MODULE Assets -------------------------------
(* The upload of graphic assets into the SPI flash of the GD32                 *)
(* (execute_assets_upload_chunked): by the HTTP task for POST /gd32_assets, by *)
(* the main loop in the update from the releases. Nothing keeps the two apart: *)
(* they share the link, ota_mode_ and the last answer.                         *)
EXTENDS Board

CONSTANT Pages    \* how many chunks the assets have

ASSUME PagesAssumption == Pages \in Nat \ {0}

VARIABLES
  upload,   \* of each uploader: where it is, and the page it writes
  answer,   \* the result of its last upload
  cmds,     \* flash commands the GD32 has not carried out
  lastAck,  \* last_flash_ack_cmd_ and last_flash_ack_status_
  chip,     \* the GD32 has told the ESP32 of its flash chip
  flash,    \* block 4, page by page
  overlap,  \* history: the two were at it at once
  strays    \* history: commands of an earlier upload were still to be carried out when
            \* the present one began

assetVars == << upload, answer, cmds, lastAck, chip, flash, overlap, strays >>

Uploaders == {"http", "loop"}
PageNumbers == 1 .. Pages
Stages == {"idle", "erase", "write", "verify"}
NoAck == [cmd |-> "none", ok |-> FALSE]
Resting == [at |-> "idle", page |-> 0]
Active(a) == upload[a].at # "idle"
SomeUpload == \E a \in Uploaders : Active(a)

Command(a, what, page) == [cmd |-> what, page |-> page, image |-> a]

\* The GD32's USART comes up in the course of its start: what comes before is lost.
Send(c) == \/ cmds' = Append(cmds, c)
           \/ gd = "boot" /\ UNCHANGED cmds

-----------------------------------------------------------------------------
(* The uploaders. *)

\* The LEDs, OTA mode, everything received so far thrown away, and the erase.
Begin(a) ==
  /\ ~Active(a) /\ chip
  /\ upload' = [upload EXCEPT ![a] = [at |-> "erase", page |-> 0]]
  /\ answer' = [answer EXCEPT ![a] = "none"]
  /\ ota' = TRUE /\ uplink' = << >> /\ Light({"red", "yellow"})
  /\ lastAck' = NoAck /\ Send(Command(a, "erase", 0))
  /\ overlap' = \E b \in Uploaders \ {a} : Active(b)
  /\ strays' = (cmds # << >>)
  /\ UNCHANGED << gd, chip, flash >>

\* Mutant: one page too many.
Following_over(u) ==
  IF u.at = "erase" \/ (u.at = "write" /\ u.page <= Pages)
  THEN [at |-> "write", page |-> u.page + 1]
  ELSE [at |-> "verify", page |-> 0]

\* What comes after the answer to the command of stage u.
Following(u) ==
  IF u.at = "erase" \/ (u.at = "write" /\ u.page < Pages)
  THEN [at |-> "write", page |-> u.page + 1]
  ELSE [at |-> "verify", page |-> 0]

\* The answer to the stage's command has come. It names no page.
Answered(a) == Active(a) /\ lastAck.cmd = upload[a].at

\* A good answer, and something left to do: last_flash_ack_cmd_ is reset first.
Proceed(a) ==
  /\ Answered(a) /\ lastAck.ok /\ upload[a].at # "verify"
  /\ LET next == Following(upload[a])
     IN /\ upload' = [upload EXCEPT ![a] = next]
        /\ Send(Command(a, next.at, next.page))
  /\ lastAck' = NoAck
  /\ UNCHANGED << boardVars, answer, chip, flash, overlap, strays >>

\* An answer takes less than the time the ESP32 waits: a wait ends without it once
\* none is on its way.
Acks == \E i \in DOMAIN uplink : uplink[i].kind = "ack"
NoAnswer(a) == Active(a) /\ lastAck.cmd # upload[a].at /\ cmds = << >> /\ ~Acks
Refused(a) == Answered(a) /\ ~lastAck.ok

\* Mutant: the failure of an upload is not noticed when no answer comes.
Failing_deaf(a) == Refused(a)

Failing(a) == Refused(a) \/ NoAnswer(a)

\* Mutant: a good answer to another command is taken for the verification's.
Verified_any(a) == Active(a) /\ lastAck.ok

Verified(a) == Answered(a) /\ upload[a].at = "verify" /\ lastAck.ok

\* What every return does; the LEDs and the request for a repaint are Device's.
Return(a, result) ==
  /\ upload' = [upload EXCEPT ![a] = Resting] /\ answer' = [answer EXCEPT ![a] = result]
  /\ overlap' = (overlap /\ \E b \in Uploaders \ {a} : Active(b))
  /\ strays' = FALSE
  /\ UNCHANGED << gd, cmds, lastAck, chip, flash >>

\* No answer to the erase within 3 s, or a bad one.
EraseFails(a) ==
  /\ upload[a].at = "erase" /\ Failing(a) /\ ota' = FALSE
  /\ Return(a, "failed") /\ UNCHANGED uplink

\* Mutant: OTA mode is left on.
WriteFails_stays(a) ==
  /\ upload[a].at = "write" /\ Failing(a) /\ UNCHANGED ota
  /\ Return(a, "failed") /\ UNCHANGED uplink

\* The same of a page, within 1 s.
WriteFails(a) ==
  /\ upload[a].at = "write" /\ Failing(a) /\ ota' = FALSE
  /\ Return(a, "failed") /\ UNCHANGED uplink

\* The same of the verification, within 3 s.
VerifyFails(a) ==
  /\ upload[a].at = "verify" /\ Failing(a) /\ ota' = FALSE
  /\ Return(a, "failed") /\ UNCHANGED uplink

\* What is in rx_buffer_ is thrown away: it may be the first part of a packet.
Succeeds(a) ==
  /\ Verified(a) /\ ota' = FALSE /\ Return(a, "ok")
  /\ \/ UNCHANGED uplink
     \/ uplink # << >> /\ uplink' = Tail(uplink)

\* pump_rx_ inside the waits.
TakeAck(p) == lastAck' = IF p.kind = "ack" THEN [cmd |-> p.cmd, ok |-> p.ok] ELSE lastAck

\* The hello that comes with a start and with telemetry makes the ESP32 ask for the
\* chip, and it is told; not in OTA mode.
LearnChip(p) == chip' = (chip \/ (~ota /\ p.kind \in {"hello", "telemetry"}))

-----------------------------------------------------------------------------
(* The GD32. *)

\* NOR flash: what is not erased first is neither the old nor the new.
Programmed(old, image) == IF old \in {"erased", image} THEN image ELSE "mixed"

Done(c, good) ==
  flash' = IF ~good THEN flash
           ELSE IF c.cmd = "erase" THEN [p \in PageNumbers |-> "erased"]
           ELSE IF c.cmd = "write" THEN [flash EXCEPT ![c.page] = Programmed(@, c.image)]
           ELSE flash

Holds(image) == \A p \in PageNumbers : flash[p] = image

\* protocol_process_rx carries out the flash commands in order and answers each with
\* its name and a status. The chip can fail an erase or a write.
GdFlash ==
  /\ gd = "run" /\ cmds # << >> /\ cmds' = Tail(cmds)
  /\ LET c == Head(cmds)
     IN \E good \in BOOLEAN :
          /\ IF c.cmd = "verify" THEN good = Holds(c.image) /\ UNCHANGED events
             ELSE IF good THEN UNCHANGED events ELSE Ask("mishap")
          /\ Done(c, good)
          /\ Sent([kind |-> "ack", cmd |-> c.cmd, ok |-> good])
  /\ UNCHANGED << esp, ota, gd, panel, upload, answer, lastAck, chip, overlap, strays >>

\* A packet of either direction is lost on the wire.
Lose ==
  /\ Ask("mishap")
  /\ \/ uplink # << >> /\ uplink' = Tail(uplink) /\ UNCHANGED cmds
     \/ cmds # << >> /\ cmds' = Tail(cmds) /\ UNCHANGED uplink
  /\ UNCHANGED << esp, ota, gd, panel, upload, answer, lastAck, chip, flash, overlap,
                  strays >>

-----------------------------------------------------------------------------
AssetsBoot ==
  /\ upload' = [a \in Uploaders |-> Resting] /\ answer' = [a \in Uploaders |-> "none"]
  /\ lastAck' = NoAck /\ chip' = FALSE /\ overlap' = FALSE /\ strays' = FALSE
  /\ UNCHANGED flash

AssetsInit ==
  /\ upload = [a \in Uploaders |-> Resting] /\ answer = [a \in Uploaders |-> "none"]
  /\ cmds = << >> /\ lastAck = NoAck /\ chip = FALSE
  /\ flash = [p \in PageNumbers |-> "old"] /\ overlap = FALSE /\ strays = FALSE

AssetsTypeOK ==
  /\ upload \in [Uploaders -> [at : Stages, page : 0 .. Pages]]
  /\ answer \in [Uploaders -> {"none", "ok", "failed"}]
  /\ flash \in [PageNumbers -> Uploaders \cup {"old", "erased", "mixed"}]
  /\ lastAck \in [cmd : Stages \cup {"none"}, ok : BOOLEAN]
  /\ chip \in BOOLEAN /\ overlap \in BOOLEAN /\ strays \in BOOLEAN
=============================================================================
