-------------------------------- MODULE Link --------------------------------
(* The serial link between the two chips: the ESP32 draws through it in      *)
(* chunks (htram_gd32.cpp), the GD32 takes the bytes in an interrupt and     *)
(* parses them in its main loop (protocol_engine.c), which every now and     *)
(* then stands still to read the CO2 sensor and asks the ESP32 to hold the   *)
(* stream meanwhile (main.c). A packet is a head, for a rectangle its        *)
(* pixels, and a CRC; the ring of the receiver holds RingSize such units.    *)
EXTENDS Codec, Melody

CONSTANTS MaxSent,     \* bound: packets in a behaviour
          RingSize,    \* units the receive ring of the GD32 holds (2047 bytes)
          MaxUp,       \* bound: packets on their way to the ESP32
          MaxFaults,   \* bound: what the wire loses or garbles
          MaxGarbage,  \* bound: what a garbled length makes a parser take
          Image        \* the rows the ESP32 draws

ASSUME LinkAssumption == /\ MaxSent \in Nat /\ RingSize \in Nat \ {0} /\ MaxUp \in Nat
                         /\ MaxFaults \in Nat /\ MaxGarbage \in Nat
                         /\ Image \in Seq(Seq(Nat))

VARIABLES
  sent,     \* how many packets the ESP32 has begun; they are numbered from 1
  done,     \* the packets the GD32 carried out, in order
  draw,     \* draw_pixels_at in the ESP32's loop: [at, left, id]
  paused,   \* flow_paused_
  ota,      \* ota_mode_, set and cleared by the HTTP task
  rx,       \* what the GD32 sent and the ESP32 has not dispatched
  ring,     \* rx_ring of the GD32
  parser,   \* rx_state of the GD32: [at, left, id]; id is 0 once the CRC cannot fit
  gd,       \* the main loop of the GD32: in a poll it serves nothing; "landing" while
            \* a chunk begun before PAUSE is not through
  spell,    \* of a waiting draw: what it may still see of the polls, see Await
  word,     \* history: what became of the PAUSE of the last poll
  faults,   \* faults of the wire so far
  harm,     \* history: what damaged the stream since it was last at rest
  rested    \* history: how many packets had been begun when it was

vars == << sent, done, draw, paused, ota, rx, ring, parser, gd, spell, word,
           faults, harm, rested >>
gdVars == << parser, gd, done >>

Ids == 1 .. MaxSent
Units == [id : 0 .. MaxSent, part : {"rect", "command", "pixels", "crc", "bad"}]
Up == [kind : {"pause", "resume", "other", "garbled"}, need : 0 .. MaxGarbage]
Chunks == Len(draw_pixels_at[<< Image, 0, TRUE >>])

ASSUME ChunksAssumption == Chunks \in Nat

Idle == [at |-> "idle", left |-> 0, id |-> 0]
Hunting == [at |-> "magic", left |-> 0, id |-> 0]
U(id, part) == [id |-> id, part |-> part]
M(kind) == [kind |-> kind, need |-> 0]

LinkInit == /\ sent = 0 /\ done = << >> /\ draw = Idle
            /\ paused = FALSE /\ ota = FALSE /\ rx = << >>
            /\ ring = << >> /\ parser = Hunting /\ gd = "run"
            /\ spell = "open" /\ word = "none"
            /\ faults = 0 /\ harm = {} /\ rested = 0

-----------------------------------------------------------------------------
(* The wire and the interrupt. *)

\* Mutant: a full ring is written to.
Arrive_full(us, why) == ring' = ring \o us /\ harm' = harm \cup why

\* USART1_IRQHandler: a full ring drops what comes. why is other damage done.
Arrive(us, why) ==
  LET room == RingSize - Len(ring)
  IN /\ ring' = ring \o SubSeq(us, 1, IF room < Len(us) THEN room ELSE Len(us))
     /\ harm' = harm \cup why \cup IF Len(us) > room THEN {"full"} ELSE {}

\* The wire loses a unit or garbles it: the newest of the ring stands for the one
\* that just went over it.
WireFault ==
  /\ ring # << >> /\ faults < MaxFaults
  /\ \/ ring' = Front(ring)
     \/ ring' = Append(Front(ring), U(0, "bad"))
  /\ faults' = faults + 1 /\ harm' = harm \cup {"wire"}
  /\ UNCHANGED << sent, draw, paused, ota, rx, spell, word, rested, gdVars >>

\* The other way: a packet is lost, or its length is garbled and takes the
\* packets behind it for its data.
UplinkFault ==
  /\ rx # << >> /\ Last(rx).kind # "garbled" /\ faults < MaxFaults
  /\ \/ rx' = Front(rx)
     \/ \E n \in 1 .. MaxGarbage : rx' = Append(Front(rx), [kind |-> "garbled", need |-> n])
  /\ word' = IF Last(rx) = M("pause") THEN "lost" ELSE word
  /\ faults' = faults + 1
  /\ UNCHANGED << sent, draw, paused, ota, ring, spell, harm, rested, gdVars >>

-----------------------------------------------------------------------------
(* The ESP32: its loop draws and reads; during an update the HTTP task does. *)

Reading == ota \/ draw.at \in {"idle", "wait"}

\* pump_rx_ and process_packet_ take the packet at the head of the buffer. A draw
\* that waits dispatches flow packets only: another one stays at the head, and
\* what is behind it is not seen. In OTA mode flow packets are read and ignored.
TakeIn ==
  LET m == Head(rx)
  IN /\ Reading /\ rx # << >> /\ m.need = 0
     /\ draw.at = "wait" /\ ~ota => m.kind \in {"pause", "resume"}
     /\ rx' = Tail(rx)
     /\ paused' = IF ota \/ m.kind \notin {"pause", "resume"} THEN paused
                  ELSE m.kind = "pause"
     /\ word' = IF m.kind = "pause" THEN IF ota THEN "lost" ELSE "read" ELSE word
     /\ UNCHANGED << sent, draw, ota, ring, spell, faults, harm, rested, gdVars >>

\* head_packet_len_ of a garbled FLASH_DATA: it waits for that many bytes, with no
\* timeout, and the packets that follow are eaten.
Swallow ==
  /\ Reading /\ Len(rx) > 1 /\ rx[1].need > 0
  /\ rx' = << [rx[1] EXCEPT !.need = @ - 1] >> \o SubSeq(rx, 3, Len(rx))
  /\ word' = IF rx[2] = M("pause") THEN "lost" ELSE word
  /\ UNCHANGED << sent, draw, paused, ota, ring, spell, faults, harm, rested, gdVars >>

\* wait_for_flow before a chunk: it looks at the flag, and reads only if it is set.
\* A wait lasts 1200 ms at most, a poll 900, and polls are 30 s apart: a wait that
\* begins inside a poll outlives it and sees no other, any other sees one at most.
Await(left) == /\ draw' = IF left = 0 THEN Idle
                          ELSE [at |-> IF paused THEN "wait" ELSE "ready",
                                left |-> left, id |-> 0]
               /\ spell' = IF left > 0 /\ paused /\ gd # "run" THEN "inside" ELSE "open"

\* draw_pixels_at, called by the flush of LVGL from the loop.
StartDraw ==
  /\ draw.at = "idle" /\ ~ota /\ sent + Chunks <= MaxSent
  /\ Await(Chunks)
  /\ UNCHANGED << sent, paused, ota, rx, ring, word, faults, harm, rested, gdVars >>

\* Mutant: the time is up, the flag stays.
WaitTimesOut_keeps == /\ draw.at = "wait" /\ paused /\ spell # "inside"
                      /\ UNCHANGED vars

\* wait_for_flow gives up, never inside the poll the wait began in
WaitTimesOut ==
  /\ draw.at = "wait" /\ paused /\ spell # "inside"
  /\ paused' = FALSE
  /\ word' = IF word = "read" THEN "given up" ELSE word
  /\ UNCHANGED << sent, draw, ota, rx, ring, spell, faults, harm, rested, gdVars >>

\* send_draw_rect and send_draw_rect_rle: nothing in OTA mode, else three writes.

\* Mutant: a draw does not wait.
MayDraw_any == draw.at \in {"ready", "wait"}

MayDraw == draw.at = "ready" \/ (draw.at = "wait" /\ ~paused)

DrawHead ==
  /\ MayDraw /\ ~ota
  /\ sent' = sent + 1
  /\ draw' = [at |-> "pixels", left |-> draw.left - 1, id |-> sent + 1]
  /\ Arrive(<< U(sent + 1, "rect") >>, {})
  /\ UNCHANGED << paused, ota, rx, spell, word, faults, rested, gdVars >>

Landed == gd' = IF gd = "landing" THEN "drain" ELSE gd

DropChunk ==
  /\ MayDraw /\ ota
  /\ Await(draw.left - 1) /\ Landed
  /\ UNCHANGED << sent, done, paused, ota, rx, ring, parser, word, faults, harm, rested >>

DrawPixels ==
  /\ draw.at = "pixels"
  /\ draw' = [draw EXCEPT !.at = "crc"]
  /\ Arrive(<< U(draw.id, "pixels") >>, {})
  /\ UNCHANGED << sent, paused, ota, rx, spell, word, faults, rested, gdVars >>

DrawCrc ==
  /\ draw.at = "crc"
  /\ Await(draw.left) /\ Landed
  /\ Arrive(<< U(draw.id, "crc") >>, {})
  /\ UNCHANGED << sent, done, paused, ota, rx, parser, word, faults, rested >>

\* A short packet is one write. From the loop it goes out between two draws, from
\* the HTTP task between any two writes of one.
SendShort ==
  /\ sent + draw.left < MaxSent /\ sent' = sent + 1
  /\ Arrive(<< U(sent + 1, "command"), U(sent + 1, "crc") >>,
            IF draw.at \in {"pixels", "crc"} THEN {"mixed"} ELSE {})
  /\ UNCHANGED << draw, paused, rx, spell, word, faults, rested, gdVars >>

\* send_set_led, send_melody, send_cmd and the like, whatever flow_paused_ says.
SendCommand == /\ ota \/ draw.at = "idle"
               /\ SendShort /\ UNCHANGED ota

\* send_draw_cached_asset_raw: neither in OTA mode nor while paused.
SendAsset == /\ draw.at = "idle" /\ ~ota /\ ~paused
             /\ SendShort /\ UNCHANGED ota

\* An update: the HTTP task lights two LEDs and turns the mode on, wherever the
\* loop is; set_ota_mode(false) ends it.
BeginUpdate == ~ota /\ ota' = TRUE /\ SendShort
EndUpdate == /\ ota /\ ota' = FALSE
             /\ UNCHANGED << sent, draw, paused, rx, ring, spell, word, faults,
                             harm, rested, gdVars >>

-----------------------------------------------------------------------------
(* The GD32. *)

\* Mutant: the header of a command is taken to be one byte longer.
Hunt_long(u) ==
  CASE u.part = "rect"    -> {[at |-> "body", left |-> 1, id |-> u.id]}
    [] u.part = "command" -> {[at |-> "body", left |-> 1, id |-> u.id]}
    [] OTHER -> {Hunting}

\* A head says how much follows it. A garbled one, or a unit in which the magic
\* turns up by chance while the parser hunts, may be taken for a head of any
\* length, or passed over.
Hunt(u) ==
  CASE u.part = "rect"    -> {[at |-> "body", left |-> 1, id |-> u.id]}
    [] u.part = "command" -> {[at |-> "crc", left |-> 0, id |-> u.id]}
    [] OTHER -> {Hunting} \cup {[at |-> IF n = 0 THEN "crc" ELSE "body", left |-> n, id |-> 0] :
                                  n \in 0 .. MaxGarbage}

Body(u) == [at |-> IF parser.left = 1 THEN "crc" ELSE "body",
            left |-> parser.left - 1,
            id |-> IF u = U(parser.id, "pixels") THEN parser.id ELSE 0]

\* Mutant: the CRC is not compared.
Fits_any(u) == TRUE

\* the CRC fits only a packet that is, unit for unit, one that was sent
Fits(u) == parser.id # 0 /\ u = U(parser.id, "crc")

\* protocol_process_rx takes one unit; its loop goes on until the ring is empty.
ProcessRx ==
  /\ gd # "poll" /\ ring # << >>
  /\ ring' = Tail(ring)
  /\ LET u == Head(ring)
     IN /\ CASE parser.at = "magic" -> parser' \in Hunt(u)
             [] parser.at = "body"  -> parser' = Body(u)
             [] OTHER               -> parser' = Hunting
        /\ done' = IF parser.at = "crc" /\ Fits(u)
                   THEN Append(done, parser.id) ELSE done
  /\ UNCHANGED << sent, draw, paused, ota, rx, gd, spell, word, faults, harm, rested >>

\* half a second without a byte in the middle of a packet
RxIdle ==
  /\ gd # "poll" /\ ring = << >> /\ parser.at # "magic"
  /\ draw.at \notin {"pixels", "crc"}
  /\ parser' = Hunting
  /\ UNCHANGED << sent, done, draw, paused, ota, rx, ring, gd, spell, word, faults,
                  harm, rested >>

\* The CO2 poll of the main loop: PAUSE, 8 ms in which the ring is still served and
\* a chunk under way (512 bytes, 6 ms) comes through, the exchange with the sensor,
\* and RESUME, whether it answered or not.
PausePoll ==
  /\ gd = "run" /\ ring = << >> /\ Len(rx) + 2 <= MaxUp /\ M("pause") \notin Range(rx)
  /\ draw.at = "wait" => spell = "open"
  /\ gd' = IF draw.at \in {"ready", "pixels", "crc"} THEN "landing" ELSE "drain"
  /\ rx' = Append(rx, M("pause")) /\ word' = "sent"
  /\ spell' = IF draw.at = "wait" THEN "after" ELSE spell
  /\ UNCHANGED << sent, done, draw, paused, ota, ring, parser, faults, harm, rested >>

StartPoll ==
  /\ gd = "drain" /\ ring = << >> /\ gd' = "poll"
  /\ UNCHANGED << sent, done, draw, paused, ota, rx, ring, parser, spell, word,
                  faults, harm, rested >>

EndPoll ==
  /\ gd = "poll" /\ gd' = "run"
  /\ rx' = Append(rx, M("resume"))
  /\ spell' = IF spell = "inside" THEN "after" ELSE spell
  /\ UNCHANGED << sent, done, draw, paused, ota, ring, parser, word, faults, harm, rested >>

\* Telemetry, hello, a button event or an answer. The bound leaves room for a poll.
SendOther ==
  /\ gd = "run" /\ Len(rx) + 2 < MaxUp
  /\ rx' = Append(rx, M("other"))
  /\ UNCHANGED << sent, draw, paused, ota, ring, spell, word, faults, harm, rested, gdVars >>

-----------------------------------------------------------------------------
\* History: the stream is at rest, and what is begun from here on is counted anew.
AtRest == ring = << >> /\ parser = Hunting /\ draw.at \notin {"pixels", "crc"}
Rest == /\ AtRest /\ harm # {} /\ harm' = {} /\ rested' = sent
        /\ UNCHANGED << sent, draw, paused, ota, rx, ring, spell, word, faults, gdVars >>

Write == DrawHead \/ DropChunk \/ DrawPixels \/ DrawCrc
Poll == PausePoll \/ StartPoll \/ EndPoll

LinkNext == \/ WireFault \/ UplinkFault
            \/ TakeIn \/ Swallow \/ StartDraw \/ WaitTimesOut \/ Write
            \/ SendCommand \/ SendAsset \/ BeginUpdate \/ EndUpdate
            \/ ProcessRx \/ RxIdle \/ Poll \/ SendOther \/ Rest

LinkFairness == /\ WF_vars(TakeIn) /\ WF_vars(Swallow)
                /\ WF_vars(Write) /\ WF_vars(WaitTimesOut) /\ WF_vars(EndUpdate)
                /\ WF_vars(ProcessRx) /\ SF_vars(RxIdle) /\ WF_vars(Poll)

LinkSpec == LinkInit /\ [][LinkNext]_vars /\ LinkFairness
-----------------------------------------------------------------------------
(* Properties. *)

LinkTypeOK ==
  /\ sent \in 0 .. MaxSent
  /\ \A i \in 1 .. Len(done) : done[i] \in Ids
  /\ draw \in [at : {"idle", "ready", "wait", "pixels", "crc"},
               left : 0 .. Chunks, id : 0 .. MaxSent]
  /\ paused \in BOOLEAN /\ ota \in BOOLEAN /\ spell \in {"open", "inside", "after"}
  /\ Len(rx) <= MaxUp /\ \A i \in 1 .. Len(rx) : rx[i] \in Up
  /\ Len(ring) <= RingSize /\ \A i \in 1 .. Len(ring) : ring[i] \in Units
  /\ parser \in [at : {"magic", "body", "crc"}, left : 0 .. MaxGarbage + 1, id : 0 .. MaxSent]
  /\ gd \in {"run", "landing", "drain", "poll"}
  /\ word \in {"none", "sent", "read", "lost", "given up"}
  /\ faults \in 0 .. MaxFaults /\ harm \subseteq {"wire", "full", "mixed"}
  /\ rested \in 0 .. MaxSent

\* The two ends of the link agree on the codec, and a rectangle cut into chunks is
\* covered by them (Codec).
CodecSound == LinkInit => CodecAgrees /\ ChunksCover

\* A song that the ESP32 sends keeps its time on the GD32 (Melody).
SongsKeepTime == LinkInit => NoDrift

\* The parser refines what Downlink promises: whatever the wire, a full ring or a
\* second sender does to the stream, no packet is carried out twice, out of turn
\* or put together from two (the CRC and the state machine of protocol_process_rx).
LastDone == IF done = << >> THEN 0 ELSE Last(done)
Way == [i \in 1 .. sent - LastDone |-> LastDone + i]
Promise == INSTANCE Downlink WITH Packets <- Ids, way <- Way, done <- done
InOrderOnce == Promise!Spec

\* Damage does not outlive the packets it hit: counted from the last moment at
\* which the stream was at rest, a stream that no fault, no full ring and no
\* second sender touched is carried out to the last packet. It needs the parser
\* to be back at the magic after every way a packet can end.
NothingLost ==
  AtRest /\ harm = {} => \A i \in rested + 1 .. sent : \E k \in 1 .. Len(done) : done[k] = i

\* The ESP32 begins no chunk of pixels during a poll whose PAUSE it has read, unless
\* it gave up waiting, and it gives up in no poll its wait began in: what it holds
\* of the flow packets is about this poll, never about the one before (wait_for_flow,
\* pump_rx_).
PauseHeeded ==
  [][gd = "poll" /\ draw.at # "pixels" /\ draw'.at = "pixels" => word # "read"]_vars

\* What makes the two properties above hold of every step.

\* While a chunk of the stream counts as undamaged, the units in the ring follow one
\* another from what the parser expects to what the ESP32 is about to write.
Opens(u) == u.part \in {"rect", "command"}
After(u) == CASE u.part = "rect" -> U(u.id, "pixels")
              [] u.part \in {"pixels", "command"} -> U(u.id, "crc")
              [] OTHER -> U(u.id + 1, "head")
Taken == IF LastDone > rested THEN LastDone ELSE rested
Expected == CASE parser.at = "magic" -> U(Taken + 1, "head")
              [] parser.at = "body"  -> U(parser.id, "pixels")
              [] OTHER -> U(parser.id, "crc")
Coming == IF draw.at \in {"pixels", "crc"} THEN U(draw.id, draw.at) ELSE U(sent + 1, "head")
Promised(i) == IF i = 1 THEN Expected ELSE After(ring[i - 1])
Fulfils(u, e) == u.id = e.id /\ IF e.part = "head" THEN Opens(u) ELSE u.part = e.part

StreamInv ==
  /\ rested \in 0 .. sent
  /\ harm = {} =>
       /\ draw.at \in {"pixels", "crc"} => draw.id = sent
       /\ parser.at # "magic" => parser.id > rested
       /\ parser.at = "body" => parser.left = 1
       /\ \A i \in 1 .. Len(ring) : Fulfils(ring[i], Promised(i))
       /\ Promised(Len(ring) + 1) = Coming
       /\ \A i \in rested + 1 .. Expected.id - 1 : \E k \in 1 .. Len(done) : done[k] = i

\* A PAUSE is the last the GD32 sends before its poll is over; once it is read, nothing
\* lifts it but RESUME, and the draw that was to go on waits.
PauseInv ==
  /\ gd # "run" => \A i \in 1 .. Len(rx) : rx[i].kind = "pause" => i = Len(rx) /\ word = "sent"
  /\ gd # "run" /\ word = "read" => rx = << >> /\ paused /\ draw.at \in {"idle", "wait"}

\* The parser never stays in the middle of a packet: the length of a lost or
\* garbled one is used up or half a second of silence ends it.
ParserReturns == parser.at # "magic" ~> parser.at = "magic"

\* A rectangle is finished whatever becomes of RESUME: lost, ignored in OTA mode or
\* behind a packet the waiting draw may not dispatch. The wait is in the loop.
DrawEnds == draw.at # "idle" ~> draw.at = "idle"

\* A pause ends, with no draw to give up on it as well: every poll sends RESUME.
PauseEnds == paused ~> ~paused

\* No end of the link waits for ever, whatever the other misses of it (the idle timeout
\* of protocol_process_rx, the timeout of wait_for_flow, RESUME on every way out of a poll).
LinkGoesOn == ParserReturns /\ DrawEnds /\ PauseEnds
=============================================================================
