# HTRAM: formal models of the two chips of an air monitor and of the link between them

This directory holds TLA+ models of the HTRAM air monitor's own firmware: an
ESP32 running ESPHome with custom components, and a GD32F150 coprocessor with
bare-metal C that owns the display, the buttons, the sensors and an SPI flash
chip. The two talk over one 921600-baud serial line. Paths below are relative
to the repository (`src/`).

## 1. Inventory

| component | where | state it keeps | what it does | what makes it correct |
|---|---|---|---|---|
| SPI flash, superblock, boot guard | `firmware/gd32/src/spi_flash.c` | internal flash, slots A/B/staging, superblock sector | backup, confirm, first-boot copies, attempt counting, rollback | the superblock never describes what a slot does not hold; a rollback leaves a complete image; a crashing trial image is removed |
| resident flasher | `firmware/gd32/src/flasher.c` | internal flash, its command loop in RAM | erase, write with readback, GO, restore a slot | a failure in it leaves a board that can be written again |
| update over the link | `esphome/custom_components/htram_gd32/htram_gd32.cpp` `execute_ota` and helpers | stage, last acknowledgement, what it knows of the chip | backup, staging, verification, bootloader entry, ROM protocol | success means the whole image is there; every update ends; a failed one can be repeated |
| display link and flow control | `htram_gd32.cpp`, `firmware/gd32/src/main.c` | 2 KB receive ring, pause flag, OTA mode | encode, cut and send rectangles, pause around the CO2 poll | what is obeyed is what was sent, in order and once; the pause ends |
| packet parser | `firmware/gd32/src/protocol_engine.c` | byte-wise state, idle timeout | frame, unpack, dispatch | resynchronises after any garbage |
| upload of the assets | `htram_gd32.cpp` `execute_assets_upload_chunked`, `htram_gd32.h` | stage, last answer, OTA mode | erase, write and verify a block of the SPI flash | success means that the assets are there; the mode ends with the upload |
| main loop | `firmware/gd32/src/main.c`, `sensors.c`, `periph.c` | button, standby, sensor cycle, charger, melody, whose picture is on the panel | poll, report, play, sleep | a gesture is told once; only measured values are published; standby is left |
| arbiter | `esphome/custom_components/htram_arbiter/` | owner of screen, sound, LEDs; context stack | grant, refuse, preempt, release | the owner it names is the one that is heard and seen |
| features | `esphome/features/*.yaml` | alarm, minute of silence, timer, air alert | react to time, buttons, alerts through the arbiter | an alarm is not silenced by another feature; the silence is not broken |
| air alert client | `esphome/custom_components/jaam_ws/` | session, backoff, table of alerts, hash of the last difference, notifications | connect, reassemble, apply differences, expire notifications, hand the flags over | the table is the server's; the current alerts reach the automations; a rejected client waits |
| web interface, captive portal | `htram_web/`, `captive_portal/` | settings and networks in RAM and NVS, requests handed from the HTTP task to the main loop | settings, Wi-Fi, reboot, update | what was asked for is in force, and still is after a restart |
| display driver | `firmware/gd32/src/display.c` | none but registers | pixels, text, the local screen's drawing | no protocol of its own |
| weather, climate, clock face | `esphome/features/`, `esphome/core-ui.yaml` | what is drawn | drawing | no protocol of its own |
| tools | `tools/`, `scripts/` | none | conversion of images, flashing over SWD | sequential host programs |

**Interaction.** The ESP32 sends packets (drawing, sounds, flash commands,
ENTER_BOOTLOADER); the GD32 answers with telemetry, buttons, FLOW_CTRL and
FLASH_ACK. Everything the GD32 does happens in one main loop plus a receive
interrupt; everything the ESP32 does happens in ESPHome's main loop, except
HTTP handlers and the events of the websocket library, which have tasks of their
own. The GD32 switches the ESP32's supply, so a power cut hits both
while an ESP32 restart leaves the GD32 where it was.

**What is hard.** Power cuts and watchdog resets between an erase and the
program that follows it; a trial image that crashes while being watched;
acknowledgements that name a command and no address, late or lost; the GD32
changing programs in the middle (application to flasher to application); a
retry that starts from a memory of a device that has since changed; flow
control while a poll of the CO2 sensor blocks the loop; an HTTP task that sends on the
line, uploads and completes requests beside the main loop; settings with a copy in RAM,
one in NVS and one written later; gestures timed by a loop that may be held up; several features wanting
one buzzer and one screen; two tasks that compute and store the same alert flags
without a lock; sessions that end, or fall silent, between two differences.

`PROJECT.json` lists the hazards with the line at which each bites.

## 2. Plan

1. `BootGuard`: persistent state of the GD32 (done, proved).
2. `Ota`: the update protocol on top of it (done, proved).
3. `Arbiter` and the features that use it: sound, screen, LEDs, context (done, proved).
4. `JaamWs`: session, hash chain and hand-over of the air alert client (done, proved).
5. `Codec`, `Melody`, `Link`: the run-length codec, the player, and the link with ring,
   parser, pause and OTA mode; it implements `Downlink` (done, proved).
6. `Board` and the parts that share it (`Web`, `Buttons`, `Assets`, `Sensors`, `Screen`),
   composed by `Device`: requests, gestures, uploads, readings and the panel against
   restarts of either chip (done, proved).
7. Left: the update of the GD32's program within `trigger_ota_update` (`Ota` has it alone), the
   faces without time or network, the legacy mode of `jaam_ws`, the settings of the display.

"Proved" is every invariant and every step property of that part which a run checks (section 6); what
is stated under fairness is model-checked only.

## 3. Modules and the code

### BootGuard

The state is what survives in the GD32: `flash` (internal flash), `slot` (the
three 64 KB slots of the SPI flash), `sb` (the superblock sector), and what the
processor is doing with them: `pc`, `task` (on whose behalf), `at`, `k`, `len`
(slot, pages done, pages to do) and `ram` (the record about to be written).
Contents are "the first n pages of image i"; the size and CRC of an entry are
represented by the image they describe, so a CRC comparison is a comparison of
contents. `dirty` is a history variable: the slots erased since an entry for
them was written.

| actions | code |
|---|---|
| `GuardNoFlash` … `GuardRollback` | the branches of `spi_flash_boot_guard_check`, `main.c:169-180` |
| `BkErase`, `BkProgram`, `BkVerify` (and `...Fails`) | `spi_flash_backup_firmware`: block erase, page loop, CRC |
| `SbErase`, `SbProgram` (and `...Fails`) | `spi_flash_write_superblock` |
| `RsErase`, `RsCopy`, `RsDone`, `RsFails`, `RsEnd` | `flasher_restore_from_slot`, `flasher_restore_and_reboot` |
| `CmdBackup` … `CmdEnterBootloader` | the cases of `protocol_process_rx` that touch flash |
| `FlErase`, `FlWrite`, `FlGo`, `FlRestore` | the command loop of `flasher_run` |
| `Crash`, `PowerCut`, `PowerOn` | watchdog reset of an image that fails; the supply |

Every erase and every page program is a step, so a cut, a crash or a failed
operation may fall between any two. An image that is not complete cannot run
(`ResetInto`): the vector table is read from it. `CmdArm` stands for a host that
writes a TESTING record with the raw erase and write commands, the only way
that status can come about.

### Ota

The ESP32's `execute_ota` (`stage`, `img`, `off`, `ack`, `viaSpi`, `res`), what
it remembers of the chip (`known`) and the two directions of the link (`down`,
`up`), on top of `BootGuard`, whose actions are the GD32's steps. `Esp` holds
one action per wait of `execute_ota` and per way it ends, `Gd` one per command
the GD32 takes, `LoseRequest`, `LoseAnswer`, `EspReset` and `SupplyFails` the
environment.

Timing. Only operations on the SPI flash take a time comparable with the
ESP32's timeouts, so staging stages may time out at any moment. The flasher
answers within a fraction of every timeout of the ROM stages, so those time out
only when it has nothing left to answer (`Settled`). A user needs seconds to
send a new image; `Start` so waits until the GD32 has worked off what the last
attempt sent. The three messages of a ROM command are one exchange, because
the flasher changes nothing before the last. `GdEnter` loses the receive ring
of the application except for what is still on the wire.

### Arbiter and Features

ESPHome scripts run in one loop and call each other; what happens between two
delays is one step. Each method of `HtramArbiter` and each script is an operator
from the state before it to the state after it, on one record `ui`, and a script
is the composition of the calls it makes, in the order in which it makes them.
`ui.run` holds the scripts that wait in a delay; the end of a delay is an action.

| part | code |
|---|---|
| `Play`, `Stop`, `ResetAudio`, `TakeScreen`, `Release`, `SetLeds`, `ReleaseLeds`, `Context`, `Chosen` | the methods of `htram_arbiter.cpp` |
| `Request`, `PreemptToClock`, `Preempted` | `request_screen` and `preempt_to_clock` with the `screen_preempted` handlers they run |
| `Beep`, `BeepDirect` | what sounds past the arbiter: the chirp of a press (`periph_beep`, which replaces the melody that plays) and `send_beep` of the core |
| `Alarm...`, `Timer...`, `...Silence`, `Siren`, `ShowView`, `HideView` | the scripts of `features/*.yaml` of the same names |
| `RefreshFace`, `RefreshTimerUi`, `CloseViews` | `refresh_face` and the hooks that react to it |
| `HandlersOf`, `Handle`, `Dispatch` | the `htram_arbiter: events:` blocks and their lambdas |
| actions | time triggers, delays, the button, Home Assistant's services, CO2, alerts, updates |

`Packages` says which optional files a configuration includes, as `htram.yaml`
does. Some fields stand for several variables of the code that are set
together: `snooze` for `alarm_snoozing` and the arbiter's flag, `test` for
`silence_is_test` and the arbiter's flag, `silence # "off"` for
`silence_active`. The timer's seconds are three buckets: more than a minute,
the final minute (which has a screen of its own), none.

Time is left out: delays of different scripts may end in any order. A property
that holds is so shown for more orders than the device has; the traces of the
violations were read to be possible in real time.

### JaamWs

Two tasks share one object: the websocket library's task runs the event
handlers (`ws`, its place in a handler), ESPHome's main loop the rest (`mn`).
A step touches what the tasks share at most once; `update_flags_from_fusion`,
which both run, is three steps (compute, compare and store, raise `pending_`),
so that every interleaving of reads and writes that matters is there. A
handler that touches shared state in one place only is one step.

| part | code |
|---|---|
| `OnConnected`, `ClearFusionState` | `WEBSOCKET_EVENT_CONNECTED`: `on_ws_connected`, then `clear_fusion_state` and the introduction |
| `Arriving` … `Parsed`, `ReceivePiece`, `Receive` | `on_ws_binary`: an event of the library is a piece of a frame, a frame may be a fragment of a message; reassembly in `rx_bin_buf_`, and what is held is parsed at every event of a last frame (`fin \|\|`, line 623) |
| `ReceiveAlerts`, `ReceiveBroken`, `ReceiveNotif`, `ArmNotif` | `parse_binary_packet`: 0xA1 on and off the chain, 0xA2 |
| `WsCompute` … `WsPend`, `LoopCompute` … `LoopPend` | `update_flags_from_fusion` in either task |
| `Rejected`, `RejectedEnds`, `SessionEnded` | `on_ws_rejected`, `notify_session_ended` |
| `Expire` …, `Offline` …, `EndSession` … `AwaitReconnect` | `loop`: notifications, Wi-Fi, supervision |
| `TaskStops` | `stop_client`: `esp_websocket_client_destroy` waits for the other task |
| `ScheduleReconnect` | `schedule_reconnect`; `base` is a step of the scale 5, 10 … 160, 300 s |
| `HandOver` | the end of `loop`: `pending_`, `flags_`, `reported_` and the callback |
| `SetRegion` | `set_region_id`, which the web interface defers to the loop |

External are the server (`hist`, the alerts it has had; a hash is an index
into it), the messages under way (`wire`) and the network. The server answers
a client that introduced itself with a snapshot, whose previous hash is 0 and
which may leave out regions without alerts, and then sends differences.
`ChangeLost` is a difference that does not arrive; the next one shows the gap.
Times are deadlines that have passed or not (`ttl`, `aged`, `silent`, `due`).
`owed`, `raced` and `cut` are history variables: a rejection whose long wait was not
served yet, two overlapping updates of the flags, and a message of this session that came in more than one event.

### Codec and Melody

Two computations whose ends share no code. `Codec` holds `encode_tga_rle_rgb565`, the
cutting of a rectangle into chunks (`draw_pixels_at`), the byte-wise decoder of the GD32
(`RleByte`, `RawByte`, a fold over the bytes as they come) and the ESP32's own decoder of
stored images; `CodecAgrees` and `ChunksCover` compare them. The longest run (128) and the
chunk (512 bytes) are constants. `Melody` holds the beats `play_rtttl` computes, with
their rounding and limits, and the player `periph_buzzer_tick`, whose clock wraps;
`NoDrift` compares what is heard with the score, for passes of the loop (`Pass`) that are none
later than a beat is long and beats that none is cut at 65535 ms. `Link` checks both, as
properties of its own data.

### Link

One direction carries rectangles and commands, cut into units (head, pixels, CRC): the
ESP32 writes them (`draw`), the interrupt puts them into `ring`, `protocol_process_rx` takes
them out (`parser`) and carries them out (`done`). The other carries PAUSE, RESUME and the rest
(`rx`), of which `pump_rx_` takes the head.

| part | code |
|---|---|
| `StartDraw`, `Await`, `DrawHead`, `DrawPixels`, `DrawCrc`, `DropChunk` | `draw_pixels_at`, `send_draw_rect`, `send_draw_rect_rle` |
| `TakeIn`, `Swallow`, `WaitTimesOut` | `pump_rx_`, `head_packet_len_`, `wait_for_flow` |
| `SendCommand`, `SendAsset`, `BeginUpdate`, `EndUpdate` | `send_...` of either task, OTA mode |
| `Arrive` | `USART1_IRQHandler` |
| `ProcessRx` (`Hunt`, `Body`, `Fits`), `RxIdle` | `protocol_process_rx` and its idle timeout |
| `PausePoll`, `StartPoll`, `EndPoll` | the CO2 poll of the main loop |
| `WireFault`, `UplinkFault` | a byte lost or garbled, in either direction |

A CRC fits exactly a packet that is, unit for unit, one that was sent. `spell` keeps the
one fact of timing that matters: a poll takes at most 900 ms and comes every 30 s, a draw
waits 1200 ms. `harm`, `rested` and `word` are history variables. `ChunksAssumption` says that
the number of chunks of the image is a number: `draw_pixels_at` is a recursive function,
whose value the provers cannot compute.

**Downlink** is what the link promises, as a specification of its own: packets are sent, and
carried out in their order, each at most once; some are passed over. `InOrderOnce` is
`Link`'s behaviour seen as `Downlink`'s, with `way` mapped to the packets begun after the last
that was carried out.

### Device: Board, Web, Buttons, Assets, Sensors, Screen

`Board` is what the parts share: the ESP32's loop (`esp`: free, or in one long call), OTA mode,
the state of the GD32, the packets to the ESP32 (`uplink`), the LEDs, and `events`, which says how
much may still come from outside. Each part has its own variables and actions; `Device`
puts them together, and has what touches several: packets, uploads' ends, restarts.

| module | state | actions and code |
|---|---|---|
| `Web` | `geo` and its copies `kept` (NVS), `bound` (in force), `boundNvs`; a switch (`alarm`) and its late copy `alarmNvs`; deferred `jobs`; `portal`; `wifi` | `PostSettings`, `PostWifi`, `PostReboot`, `PostUpdate`: `HtramWebHandler::handleRequest`; `PortalSave`, `PortalRuns`: `handle_wifisave`; `RunJob`: what `defer_action` defers; `KeepGlobals`: the late write of globals and switches; `SaveGeo`, `WebBoots`: `save_preferences`, `setup` and `on_boot` |
| `Buttons` | the button, the three timeouts, click count, `mirror` of the LEDs | `Press`, `LetGo`: debouncing in `main.c`; `TakePress`, `TakeRelease`, `HoldDue`, `ClickDue`, `ClearDue`: `process_packet_` and its timeouts; `Resend`, `SwitchLed`: the LED mirror |
| `Assets` | the two `upload`s, the last answer, the chip's block | `Begin`, `Proceed`, and a return each of `EraseFails`, `WriteFails`, `VerifyFails`, `Succeeds`: `execute_assets_upload_chunked`; `Send`: commands, which a GD32 that is starting loses; `GdFlash`: the flash commands; `Lose` |
| `Sensors` | `air`: what the GD32 has of its sensors; charger, charge screen | `Cycle`, `FetchSht`, `Report`: the 30 s cycle; `Notice`, `DrawCharge`, `Darken`, `Tap`: standby |
| `Screen` | whose picture is on the panel, the repaint asked for | `LocalScreen`, `Update`, `Change`, `Refresh`, `DrawEnds`, `OtaLeft` |
| `Device` | | `Dispatch`, `Telemetry`, `GdStarts`, `PostAssets`, `RemoteAssets`, `UploadEnds`, `Reboot`, `FlashEsp`, `EspStarts`, `EnterStandby`, `Wake`, `GdRestart`, `PowerCut` |

What was abstracted: a request is one step of the HTTP task and its deferred part one of the loop,
but for the two writes of a network, between which the power can go (`esp = "job"`). Time
passes in units of 200 ms where a gesture needs it; a loop that is free looks at its timers
and reads within one. That a frame is asked for and its drawing begins is one step; how far it
came is `glass`. Readings are told apart by where they come from: a restart's zero, the last
cycle, an older one. External are ESPHome's order of deferred calls before timeouts,
`save_wifi_sta`, and the delayed write of restored globals and switches. Histories (`want`, `asked`, `undone`,
`presses` and the like, `disturbed`, `overlap`, `strays`, `missed`) say what the properties compare with.

## 4. What the runs show

| run | instance | properties | what it shows |
|---|---|---|---|
| `guard_power` | all commands, 1 cut | `EntriesTrue`, `RestoreIsWhole`, `RollbackClosesTrial` | the superblock never lies about a slot, a restore is complete, a rollback closes the trial first |
| `guard_trial` | backup, trial, flasher; 1 fault; fair | `IInv`, `TrialEnds` | the inductive invariant of the proofs; an unsound image on trial is removed by the guard |
| `ota_update` | 1 cut, 1 fault, 1 upset | `UpdateInv`, `OkMeansFlashed`, `StagedFirst`, `OnlyPowerCutBricks` | every message belongs to the stage that waits for it; what is reported as flashed is flashed; no flasher command before the staged image is verified; whatever is lost or fails in an update, only a power cut leaves a board without a program to start |
| `ota_retry` | 2 upsets, fair | `RetriesHeal` (`UpdateEnds`, `RetryHealsWithoutChip`) | updates end and can be repeated |
| `features_all` | all packages | `FeaturesTypeOK`, `ScriptsMatch`, `ShownByOwner` (`NoOrphanScreen`, `ClockHasDial`, `LedsFollowSilence`), `SirenOutranks` | scripts, screen, dial, LEDs and siren agree in every interleaving |
| `features_ends` | alarm, timer, weather, silence; fair | `RingingContextIsLive`, `QuietReturns` (`RingingEnds`, `ClockReturns`) | what rings stops by itself, the buttons reach what rings, the clock comes back |
| `alert_session` | 1 region, 2 changes, 2 upsets, snapshots of one event or of a frame in two pieces; fair | `SessionSound` (`JaamTypeOK`, `TableIsTruth`), `RejectedWaits`, `AlertsAlwaysArrive` | no difference is missed or applied twice; the current alerts arrive in the end, unless a message came in pieces (`cut`), and then none arrives that is not there; a rejected client waits |
| `alert_races` | 2 regions, 1 change, 1 notification, 1 move, snapshots of one event or of two frames; fair | `HandedOver`, `AlertsArrive` | flags that were stored are handed over; the alerts arrive unless two updates overlapped or a message came in pieces |
| `link` | 3 packets, ring of 3, 1 fault; fair | `LinkTypeOK`, `NothingLost`, `CodecSound`, `SongsKeepTime`, `InOrderOnce`, `PauseHeeded`, `LinkGoesOn` | the GD32 carries out what was sent, in order and once, whatever is lost; damage does not outlive the packets it hit; draws, pauses and the parser end; codec and player are right |
| `device` | 16 budgets of at most 3 events; fair | `DeviceTypeOK`, `InForce`, `SettingsAsAsked`, `NetworkAsAsked`, `GesturesTold`, `OnlyReadings`, `OkMeansWritten`, `LoopServes`, `MirrorCatchesUp`, `ChargerFollows`, `PanelComesRight` | what was asked for comes to be in force, and stays so across restarts; gestures are told once; an upload's ok means what it says; LEDs, panel and charger come right |

A name with others in brackets is their conjunction; likewise `CodecSound` is `CodecAgrees` and
`ChunksCover`; `LinkGoesOn` is `ParserReturns`, `DrawEnds` and `PauseEnds`; `GesturesTold` is `ToldAtRest` and `HoldToldOnce`; `LoopServes` is `LoopComesBack` and
`JobsEnd`. `TypeOK` of `BootGuard` is a part of `IInv`.

**Bounds.** `guard_*` and `ota_*` use two images of different length in slots of two pages: the
shorter is sound and comes with the board, the longer is not. A stale length,
a wrong slot or a partial copy then shows in the contents, and a third image or
page adds no new case: all code treats pages alike. One cut or one fault is
enough to reach every state between two operations; what follows a second one
starts from a state the first already gives, since a reset forgets everything
but the contents, and the proofs hold for any number. Two synchronisation
attempts (ten in the code) distinguish the first and the last, and reaching the
limit from going past it. Two
upsets (`ota_retry`) allow a lost answer followed by a lost retry; one is enough
to leave an answer of an earlier attempt on the link. `Features` needs no bound
besides two timer presets: its state space is finite. `features_ends` has the packages that ring, that take the
screen at the weather's, the timer's and the silence's modes, and one preset;
Home Assistant is left out of it, because it may restart a timer for ever, and
`features_all` starts timers from it with one second or more.
`alert_session` needs two changes for a gap in the chain and two upsets for a
second session to meet what the first left (a rejection of a stable session, a
loss and a dead path); an upset is a session that ends, a network or a path
lost, a difference lost, a refusal. The library hands
a frame over in pieces, and the session may end between them: `Framings` are the ways a snapshot may
come. One event is the usual case; a frame in two pieces is parsed at its first (`cut`), as `fin` is
the frame's; of two frames the first, in three events, is longer than the buffer, which has room
for two. The races need one
notification that expires, one change of region and one change of alerts, and no
upset; a second of each meets the tasks in the same places. Two regions with one
district and one state, one level of alert and one kind of notification are enough to
tell a flag of the wrong region, level or time.
`link`: three packets let a damaged one stand between two whole ones or follow another, and a
rectangle of two chunks, one of each form, be cut by a command or a poll; the ring holds one
packet, so that it runs full; one fault is enough, since after it the stream
comes to rest and what follows a rest is counted anew. Runs of up to 3 and pixel sequences of up to
6 pass every boundary of the codec (one under, at and over the longest run); the
clock of the songs wraps within a beat, and the passes of the loop are 1 or 4 ms apart.
`device`: a behaviour has one budget of `Budgets`, which lets those kinds of events meet that touch
the same state; all sixteen together, with every kind at once, would only multiply
independent steps. Two requests overtake each other, two presses make a gesture and three one
that is interrupted; one mishap (a lost packet, a chip that fails, a watchdog) or one power cut meets every
state of one request, upload or update, and a cut every state of two settings under way. A sensor's answer is an event too, three of them
for a value, its loss and the next. Two regions (one whose id is below 27), two towns, two
networks of which one is out of reach, and two pages of assets.

**Fairness.** `BootGuard`: the firmware's main loop never waits, an unsound image
does fail, and somebody switches the device on again; the host owes nothing.
`Ota`: `execute_ota` has a timeout on each wait and the GD32 serves its link;
for a retry, an owner whose update failed tries again. `Features`: every delay
ends, because ESPHome's scheduler runs in each turn of the loop; buttons, alerts,
Home Assistant and sensors owe nothing. `JaamWs`: both tasks are scheduled, time
passes, Wi-Fi comes back, and the library gives up an attempt nobody answers
after its `network_timeout_ms`; the server owes no message. `Link`: both loops run, and polls
end because the sensor's driver has a timeout; the idle timeout needs strong fairness, because
what comes in the meantime makes it start over. Nobody owes a draw or a command.
`Device`: the loop goes round, the HTTP task goes on, the GD32 serves its link, its 30 s cycle and its
charge screen, and time passes; no request, press, answer of a sensor or mishap is owed.

**Deadlock** is checked in the runs of `Features`, whose clock ticks for ever, of
`JaamWs`, whose loop runs for ever, and of `Link`, whose polls come for ever.
The runs of `BootGuard`, `Ota` and `Device` switch it off, because there the system may
really stop: a board whose internal flash holds no complete image is dead, a
host owes no next command once the bounds are used up, and a device in standby with a dark
screen waits for its owner.

## 5. Where code and documents disagree

Two runs end in a counterexample; `PROJECT.json` quotes both sides.

| run | property | disagreement |
|---|---|---|
| `web_doc_region` | `RegionSurvives` | every saved region below 27 is taken for an index of the old list at each boot, so that an oblast the page offers comes back as another |
| `alert_doc_snapshot` | `BulkParsed` | a snapshot of 1400 regions comes in pieces that are parsed one by one, and fits the buffer in no framing; its alerts are lost, and no reconnect follows |

The models also contain the following, as the code does; no run is kept for
them, and the properties above are stated so as to be true in spite of them. Of the
documents:

- nothing sets the status TESTING (`spi_flash.c:458`), so no crash loop is ever rolled back
  (`RELEASE_NOTES_v1.2.0.md:16`);
- a retry by an ESP32 that remembers the chip talks staging to the flasher, which ignores it
  (`htram_gd32.cpp:919`; `TODO.md:131` says that a retry works; `RetryHealsWithoutChip` is what is true);
- a chunk of a draw may begin in a poll although PAUSE was sent, because `wait_for_flow` looks only at the
  flag and reads only if it is set (`htram_gd32.cpp:1506`; `TODO.md:352` and `main.c:457` say that the
  stream is held; `PauseHeeded` is about a PAUSE that was read);
- `led_state_` is not what the LEDs show once a feature has lit them, until the next telemetry
  (`SetLeds`; `htram_gd32.h:274`);
- an unreadable superblock is taken for a first boot, and it is unreadable after a power cut between its erase
  and its program, which every backup of an update goes through: an unsound image that runs by then becomes
  the golden copy (`GuardFirstBoot`, `spi_flash.c:452`; the comment at `:450` says known-good firmware);
- the chirp of a press and the beep of a hold cut off the siren, which is not resumed (`Beep`, `main.c:268`;
  `alert.yaml:7` gives it the highest priority; `SirenOutranks` lets beeps sound);
- of two requests for the region or the town that overlap, the later one puts back what it leaves out, as it was
  when it was read (`PostSettings`, `htram_web.cpp:360`; `WEB_UI_SPEC.md:158` says that it keeps its state;
  `SettingsAsAsked` excepts the settings in `undone`);
- two uploads at once take each other's answers, so that one answers ok for assets the other has erased, and the
  first to end ends the mode of both (`htram_gd32.cpp:1284`; `SPI_FLASH_PLAN.md:104`; `overlap`).

Of the code alone:

- the result of GO is ignored (`RomFails`), and a failed or late backup does not
  stop the update (`AfterBackup`);
- an error of the internal flash during a rollback comes after the trial was
  closed, and leaves the crashing image in place (`RsFails`; `TrialEnds` excepts faults);
- the alarm takes the screen of the minute of silence (`AlarmRing`, `alarm.yaml:261`),
  which `PRODUCT_SPEC.md:360` calls locked out;
- the end of the silence takes the priority of a siren away (`FinishSilence`,
  `silence.yaml:169`), so that a sound of less than its priority may take the buzzer; `SirenOutranks`
  names it as the only way to lose it;
- the beep of a hold sounds over the metronome and the anthem (`Press`), and
  anybody may stop a sound of priority 20 or less (`Stop`);
- a long press on a timer that runs behind the clock cancels it and arms the
  next (`TimerArmBtn`);
- the timeout of a view that was refused the screen runs all the same
  (`ShowView`), and brings the clock's digits up under the timer's screen;
- a failed update keeps the LEDs (`UpdateFailed`);
- a timer started from Home Assistant while the last one rings leaves the
  buttons to a ring that is over (`TimerStartRunning`); with zero seconds, a timer
  that runs with nothing to count (`ScriptsAgree` supposes `0 \notin HaTimes`);
- an update of the flags in one task overlaps one in the other, so that older
  flags replace newer ones until the next packet or expiry (`raced`; within the
  bounds of `alert_races`, `AlertsAlwaysArrive` fails);
- Wi-Fi lost between a rejection and the loop's next turn: the client starts at
  once when it is back, and the wait of 300 s falls on the next disconnection,
  against `RELEASE_NOTES_v2.3.1.md:13` (`OfflineReset`; `RejectedWaits` excepts it);
- a new session ends the notifications without computing the flags, so that one
  may be shown past its 3 minutes, until the session's snapshot (`ClearFusionState`);
- `connected_`, which the icon of a lost link is drawn from, holds through a
  silence of 90 s, not of the 30 s of `PRODUCT_SPEC.md:224` (`FallsSilent`);
- a command of the HTTP task between two writes of a draw loses both (`SendShort`; `harm`), and pixels are on
  the panel before their CRC is compared;
- a garbled length of FLASH_DATA makes the ESP32 eat the packets behind it, with no timeout (`Swallow`);
  PAUSE and RESUME are ignored in OTA mode (`TakeIn`);
- a switch is written to NVS a minute late, and a restart before that takes it back, as one before the
  deferred call takes any setting back (`KeepGlobals`; `Lost` has the reasons, `undone` the settings);
- the portal and the page answer before they save, and a restart in between leaves the old network
  (`NetPending`);
- a loop that is held up while the button is let go tells a hold that was none, or loses clicks
  (`Elapse`; `disturbed`), and in OTA mode the button is not heard at all;
- the commands that two uploads at once left are answered to the next one, which is alone (`strays`;
  `OkMeansWritten` excepts both);
- a CO2 sensor that does not answer keeps its last value, with no flag (`PollCo2`);
- a repaint that the HTTP task asks for while the loop resets the flag is lost, and a hello that is lost leaves
  the GD32's own picture under the ESP32's (`OtaLeft`, `HelloLost`; `missed`).

## 6. What is proved

Each theorem holds for every value of the constants that the assumptions in its modules allow: any images and
sizes, regions and chains of regions, rings and packets, pages and networks, sets of packages, and any numbers
of cuts, faults, losses, attempts, presses and requests. The assumptions only give the constants their types
(`ImageAssumption`, `OtaAssumption`, `JaamAssumption`, `LinkAssumption`, `ChunksAssumption`,
`CodecAssumption`, `MelodyAssumption`, `SongsAssumption`, `PagesAssumption`, `BudgetsAssumption`,
`LightsAssumption`, `WebAssumption`, `FeaturesAssumption`, and those of the other parts of `Device`). Two
theorems have a hypothesis of their own, as the run that checks the property has it:

| Theorem | Hypothesis | Why |
|---|---|---|
| `ScriptsAgree` | `0 \notin HaTimes` | Home Assistant can start a timer with nothing to count (section 5) |
| `RingingIsLive` | `"ha" \notin Packages` | Home Assistant can start the timer anew under its ring, which leaves the buzzer with the ring (`HaTimer`) |

| Module | Theorems |
|---|---|
| `BootGuard_proofs` | `Invariance` (`IInv`), `TypeCorrect`, `SuperblockTruthful` (`EntriesTrue`), `RestoreComplete` (`RestoreIsWhole`), `TrialClosedFirst` (`RollbackClosesTrial`) |
| `Ota_proofs` | `UpdateTypeCorrect` (`OtaTypeOK`), `UpdateKeepsSuperblockTrue` (`EntriesTrue`), `UpdateInvariance` (`UpdateInv`), `OkIsFlashed` (`OkMeansFlashed`), `FlasherAfterStaging` (`StagedFirst`), `FlasherHoldsOn` (`OnlyPowerCutBricks`) |
| `JaamWs_proofs` | `NothingForgotten` (`HandedOver`), `RejectionServed` (`RejectedWaits`), `TableTrue` (`SessionSound`) |
| `Recursion` | `RecursionDefines`: a function defined by recursion is what its equation says |
| `Payload_proofs` | `RoundTrip`, `AllChunksCover`; `CodecAgreesHolds` and `ChunksCoverHolds` (`CodecSound`), `NoDriftHolds` (`SongsKeepTime`) |
| `Link_proofs` | `LinkRefinesDownlink` (`InOrderOnce`), `DamageEnds` (`NothingLost`), `PausesHeeded` (`PauseHeeded`), `LinkTypeCorrect` (`LinkTypeOK`), `CodecIsSound` (`CodecSound`), `SongsAreInTime` (`SongsKeepTime`) |
| `Device_proofs` | `GeoInForce` (`InForce`), `SettingsObeyed` (`SettingsAsAsked`), `NetworkObeyed` (`NetworkAsAsked`), `ReadingsOnly` (`OnlyReadings`), `DeviceTypeCorrect` (`DeviceTypeOK`), `UploadsWritten` (`OkMeansWritten`), `GesturesHeard` (`GesturesTold`) |
| `Features_proofs` | `FeaturesTypeCorrect` (`FeaturesTypeOK`), `ScriptsAgree` (`ScriptsMatch`), `RingingIsLive` (`RingingContextIsLive`), `SirenRank` (`SirenOutranks`), `OwnerShown` (`ShownByOwner`) |

Hardly one of these properties is inductive as it stands. What was added to each, and why:

**The guard.** `EntriesTrue` fails one step after a record in RAM that lies, so `RamTrue` says that the
record about to be written is as true as the one it replaces, and also true of
the slot just verified. That a verified copy of the running image is the whole
image needs `RunsWhole` (firmware runs from complete images only), and that a slot
under copy is marked needs `CopyOwned`. `RestoreIsWhole` needs
`CopyInProgress` (what has been copied so far) and `LenKept` (the length read
before the superblock is rewritten is still that of the slot). `IInv` is their conjunction; the proof has
one lemma per conjunct and one step per action, and `guard_trial` checks `IInv`
with TLC.

**The update.** `IInv` carries over: the GD32's steps are `BootGuard`'s actions, for which it is proved. That `ok` means
flashed is harder, because answers of an earlier attempt may still come. `UpdateInv` ties each
message under way to the stage that waits: an answer in the staging stages says
what the chip holds (`AcksTrue`), a byte of the flasher answers the one attempt that reached it
(`SyncOnce`), and while pages are written there is one command or one answer, and flash holds just the
pages before it (`RomSteps`). That no lost message and no failing
operation bricks the board is in it, too (`GoIsLast`): a GO is sent only after every page was acknowledged, so
the flasher starts a complete image or goes on waiting. `ota_update` checks it with TLC.

**The two tasks.** `HandedOver` is not inductive: from a state in which the loop is
about to report flags that are no longer those stored, a report would forget the
new ones. `HandOverInv` adds that then `pending` is set or about to be, which
holds because the loop clears `pending` before it reads and the other task
stores before it sets. `RejectedWaits` needs `OwedInv`: a rejection that is owed
is still in `penalty` and the session it ended is still there, so the next start
can only come after `ScheduleReconnect`, which serves it, or a loss of the
network, which forgives it; no handler outlives its session. Both hold by interleaving alone, with no
fairness.

**The session.** `SessionSound` is inductive because it names what the table rests on: the table is the
server's at the hash held (`TableIsTruth`), every message on the wire leads from the one before it
(`Chained`), the buffer holds events of the first message and of no other (`Assembled`), and a
session begins with its snapshot (`SnapshotFirst`). Once a message came in pieces (`cut`), an entry of the table may
also be missing; that is all that is left to prove then, and it needs no bound on the pieces. A session that ends takes its wire and its
buffer with it, so none of this is carried over to the next.

**The link.** That packets are carried out in order needs more than what was carried out:
`OrderInv` says that the packet in the parser was begun after the last one carried out (`Carried`) and that
the heads in the ring are begun after both, and rise (`Heads`), which any loss, garbling or second sender
keeps, because a unit only ever disappears or loses its number. A step of the link is then a step of
`Downlink` or none: a packet begun is `Send`, one carried out is `Execute` of its place in `way`
(`BeginIsSend`, `CarryIsExecute`). `NothingLost` needs `StreamInv`: while nothing is harmed, the units in the ring follow
one another from what the parser expects to what the ESP32 writes next. `PauseHeeded` needs
`PauseInv`: a PAUSE is the last the GD32 sends before its poll is over, so nothing behind it lifts it.

**Recursive functions.** The provers know of `f[x \in S] == ...` only that it is some `CHOOSE`, and cannot
give a value to the property that an induction theorem of the library has as a parameter. `Recursion`
goes round both. The property is the *set* of the numbers for which it holds, so induction is a statement
about sets (`StrongInduction`, from `WFMin`); and what is defined is a parameter of the module,
instantiated for each recursive function (`Encoder`, `Decoder`, `Chunker`, `Summer`, `Looper`) with the
size that gets smaller. `RecursionDefines` then gives that function its equation.

**The codec.** `StandsFor` says what a sequence of bytes stands for whoever reads it: from *any* pixels
already out, the GD32's decoder, fed byte by byte and between two packets, appends just these pixels and is
between two packets again; and the ESP32's decoder gives them back if there is room. One packet stands for its pixels
(`RunLen` and `RawLen` cut inside the pixels and at most `MaxRun` long), and standing for is kept by
concatenation, so what was encoded stands for all. That the encoder never runs into
the bound of its caller is arithmetic of the packets: they take two bytes a pixel, one more for each
`MaxRun` pixels and one, whatever the mix of runs and raw packets, and `EncBound` is above that. Of the chunks
`CoverFrom` is proved by induction on the rows left: they start at the first of these, each follows on the one
before, and they show just these rows. `RoundTrip` and `AllChunksCover` say it of any pixels and any picture, `CodecSound`
of those the checks enumerate, which are constants too.

**The songs.** What is heard is compared with the beats, and the beats with the score. `OnTime`: until the song is over, at
time `t` the player is in the note with `Due(n - 1) <= t < Due(n)`, where `Due` adds up the beats, and
its end is the start plus `Due(n)` on the wrapping clock. `StaysOnTime` is the step: a pass is no later than a beat is
long, so at most one note ends in it, and both the note that ended and the next one's end are within
half a turn of the clock, where `Reached` tells before from after. The first pass that is not before
`Due(n - 1)` then begins note `n`, less than one gap late (`Crossing`). A beat is less than two milliseconds shorter
than the score has it, as two divisions (and the dot's halving) round down, and never longer (`NoteNear`),
which adds up to the other bound (`ScoreNear`).

**The device.** `InForce` needs `GeoInv`: that what is deferred carries a region and a town, and that
those shown, bound and kept agree also while the ESP32 is off; `MigratedFacts` is what is true of the table of old
ids. `AloneInv`: without `overlap` no two uploads are at it. `OnlyReadings` needs `AirInv`:
a temperature with neither an error nor a conversion under way is the last cycle's, and every report in
`uplink` was honest when it was sent. `SettingsAsAsked` follows the deferred calls:
unless it is in `undone`, a setting that differs from the one wanted is named by a call that is still to come, and
the last such call has the value asked for last (`SettingsInv`); a restart drops the calls and puts what they named
into `undone`. `NetworkAsAsked`: whatever asks last for a network asks for that one unless a restart comes
before it (`NetInv`), and an upload of the main loop's keeps the loop (`LoopInv`). `DeviceTypeOK` needs
`AllOK`: the packets and flash commands under way are well formed and every page to be written exists.
`OkMeansWritten` needs `WrittenInv`: without `overlap` or `strays` an uploader has one command or one answer under
way, and an answer that says ok finds its page written.

**The button.** `GesturesTold` is about a button at rest; in between, edges are on their way and timers
run. `HoldsInv` gives each hold that may yet be told and each press under way a press of its own, so none
is told twice. `ToldInv` holds until something is lost or late: the
timers are where the press under way has to have them (`Phase`), and what is neither told nor
counted is on its way.

**The features.** Scripts call each other, so the proof follows the scripts and not the actions: what a
script may change is a lemma (`ScreenOnly`, `TimerGone`), and each leads from a state of the
invariant to another (`Leads`). `Sound` adds to `ScriptsMatch` that the minute of silence has its script, that LEDs no
update has taken are the silence's or CO2's, and that a siren is never taken for less than one (`SirenKept`: no script that does not end the silence takes its rank); `RingMatch` adds
that the buzzer is a ring's only while that rings. `Shows` adds to `ShownByOwner` that the mode is the owner's, that the
device id holds the face stale, so that it comes back, and that a timer on the screen is known to
`refresh_timer_ui`. In the middle of a script less holds: `Core`, `Core0` while one feature hands the screen to another,
`LitOr` while the dial is still to come up.

TLC checked each of these before its proof: `IInv` and `UpdateInv` still are invariants of runs; the others were
checked on the instances of `alert_races`, `alert_session`, `link`, `device` (uploads alone
for `WrittenInv`), `features_all` and `features_ends`.

**Only model-checked.** Everything under fairness (`TrialEnds`,
`RetriesHeal`, `QuietReturns`, `AlertsArrive`,
`AlertsAlwaysArrive`, `LinkGoesOn`, `LoopServes`, `MirrorCatchesUp`,
`ChargerFollows`, `PanelComesRight`), because this prover has neither liveness nor `ENABLED`. Every other
property of a passing run is a theorem.

## 7. What is not modelled

- A chip that stays busy longer than the driver's timeouts; images that fault
  before the guard runs (nothing in the code reaches those); `active_fw_slot`,
  which is written and never read.
- Display packets that reach the flasher after the jump: drawing is suppressed
  in OTA mode before `ENTER_BOOTLOADER` is sent.
- The battery and USB gates of `execute_ota`, which refuse before anything is
  changed, and the erase of an address range by the resources update.
- In `Features`: drawing, status icons, the pictograms of alerts, faces without time or network, the access
  point's screen, Home Assistant's raw sound services, the metronome's own
  timeout of 75 s, and the clock of the day (nine o'clock may come at any time).
- In `JaamWs`: the JSON of `/data_v4` and of a local server, the simulation on a
  host, jitter, the wrap-around of `millis()`, packets the server malforms (which change
  nothing; a message cut in two is modelled) and the numbers in the tables of regions. Two differences with the
  same 16-bit hash are told apart.
- In `Link`: what a packet does on the panel, the rectangle of a clear and the hint packets; the
  simulation on a host; in OTA mode `wait_for_flow` and the update read one receive buffer from two
  tasks without a lock, which is modelled as either taking the whole packet.
- In `Device`: the update of the GD32's program between the assets and the ESP32's own image (`Ota` models it alone);
  the page itself, the check for updates, the settings of the display, the list of networks and the
  portal's DNS; the arithmetic of the ADC and the sensors, the flag of a missing battery reading
  (a failed one publishes 0 mV after a restart), and the backlight.
- The components listed as `not_modelled` in `PROJECT.json`, of which the plan
  names those to come; drivers, drawing and host tools are I/O without a protocol.
