------------------------------- MODULE Device -------------------------------
(* The device: its pages, its button and LEDs, its panel, its sensors and the  *)
(* uploads of its assets, around the one main loop of the ESP32 and the GD32,  *)
(* which can turn it off.                                                      *)
EXTENDS Web, Buttons, Assets, Sensors, Screen

vars == << boardVars, webVars, buttonVars, assetVars, sensorVars, screenVars >>
bodyVars == << sensorVars, screenVars >>

-----------------------------------------------------------------------------
(* Packets. *)

\* The loop leaves the link to an upload, whose waits read it.
Reads == (Free /\ ~ota) \/ SomeUpload

\* pump_rx_ takes the packet at the head.
Dispatch ==
  /\ Reads /\ uplink # << >> /\ uplink' = Tail(uplink)
  /\ Process(Head(uplink)) /\ TakeAck(Head(uplink)) /\ LearnChip(Head(uplink))
  /\ UNCHANGED << esp, ota, gd, panel, events, webVars, held, presses, taps, holds,
                  upload, answer, cmds, flash, overlap, strays, bodyVars >>

\* A cycle of the GD32, with the hello and the telemetry at its end: half a minute
\* apart, so that nothing of the last is on its way, and a restart has been answered.
Telemetry ==
  /\ gd = "run" /\ On /\ uplink = << >> /\ ~booted
  /\ Cycle /\ Sent(Report)
  /\ UNCHANGED << esp, ota, gd, panel, webVars, buttonVars, assetVars, screenVars >>

\* The end of the GD32's start: hello with the boot flag, and the green LED.
GdStarts ==
  /\ gd = "boot" /\ gd' = "run"
  /\ panel' = {"green"} /\ Sent([kind |-> "hello"]) /\ SensorsBoot /\ PanelBoots
  /\ UNCHANGED << esp, ota, events, webVars, buttonVars, assetVars >>

-----------------------------------------------------------------------------
(* Uploads. *)

\* POST /gd32_assets, with the file received.
PostAssets ==
  /\ On /\ Ask("assets") /\ Begin("http")
  /\ EdgesLost(TRUE) /\ OtaEntered /\ UNCHANGED << esp, webVars, sensorVars >>

\* perform_remote_assets_update: the download is there and goes to the GD32.
RemoteAssets ==
  /\ esp = "upload" /\ wifi.online /\ Begin("loop")
  /\ EdgesLost(TRUE) /\ OtaEntered /\ UNCHANGED << esp, events, webVars, sensorVars >>

\* No file, no chip, or no network; the update goes on without it. The update of the
\* GD32's program, which comes in between, is Ota's.
NoRemoteAssets ==
  /\ esp = "upload" /\ ~Active("loop") /\ esp' = "flash"
  /\ UNCHANGED << linkVars, events, webVars, buttonVars, assetVars, bodyVars >>

Advance(a) == Proceed(a) /\ UNCHANGED << webVars, buttonVars, bodyVars >>

UploadEnds(a) ==
  /\ EraseFails(a) \/ WriteFails(a) \/ VerifyFails(a) \/ Succeeds(a)
  /\ EdgesLost(uplink' # uplink) /\ Light(mirror) /\ OtaLeft(a = "http")
  /\ esp' = IF a = "loop" THEN "flash" ELSE esp
  /\ UNCHANGED << events, webVars, sensorVars >>

-----------------------------------------------------------------------------
(* Restarts. *)

\* The ESP32 starts, whatever it did, and draws its first frame. refresh_leds puts the
\* LEDs out.
EspBoots(newImage) ==
  /\ esp' = "draw" /\ glass' = (IF gd = "run" THEN "drawing" ELSE glass) /\ ota' = FALSE /\ uplink' = << >> /\ Light({})
  /\ WebBoots(newImage) /\ ButtonsBoot /\ AssetsBoot /\ ScreenBoots /\ UNCHANGED << held, sensorVars >>

\* A deferred safe_reboot.
Reboot == Rebooting /\ EspBoots(FALSE) /\ UNCHANGED << gd, events, cmds >>

\* The end of the update: the new image starts, or there was none.
FlashEsp ==
  /\ esp = "flash"
  /\ \/ wifi.online /\ EspBoots(TRUE) /\ UNCHANGED << gd, events, cmds >>
     \/ /\ esp' = "free"
        /\ UNCHANGED << linkVars, events, webVars, buttonVars, assetVars, bodyVars >>

\* The ESP32 has power again, and is up after the GD32's hello.
EspStarts ==
  /\ esp = "off" /\ gd = "run" /\ EspBoots(FALSE)
  /\ UNCHANGED << gd, events, cmds >>

\* What was on its way or under way in the ESP32 is gone.
EspOff ==
  /\ esp' = "off" /\ ota' = FALSE /\ uplink' = << >>
  /\ ButtonsBoot /\ AssetsBoot /\ ScreenOff /\ cmds' = << >> /\ held' = 0 /\ panel' = {}
  /\ UNCHANGED webVars

\* Five seconds on the button: the GD32 cuts the ESP32's power, puts the LEDs out,
\* waits for the button to come up and lights the charge screen.
EnterStandby ==
  /\ gd = "run" /\ held = Standby
  /\ gd' = "standby" /\ EspOff /\ SensorsSleep /\ UNCHANGED events

\* Two seconds on the button in standby: the GD32 resets itself.
Wake ==
  /\ gd = "standby" /\ Ask("button") /\ gd' = "boot"
  /\ UNCHANGED << esp, ota, uplink, panel, webVars, buttonVars, assetVars, bodyVars >>

\* The watchdog, or a crash, restarts the GD32 under a running ESP32.
GdRestart ==
  /\ gd = "run" /\ Ask("mishap") /\ gd' = "boot" /\ panel' = {}
  /\ held' = 0 /\ cmds' = << >> /\ disturbed' = TRUE
  /\ UNCHANGED << esp, ota, uplink, webVars, hold, click, clear, fired, clicks, action, mirror,
                  booted, counts, upload, answer, lastAck, chip, flash, overlap, strays,
                  bodyVars >>

\* The battery is out, and in again.
PowerCut ==
  /\ Ask("cut") /\ gd' = "boot" /\ EspOff /\ UNCHANGED sensorVars

-----------------------------------------------------------------------------
DeviceInit ==
  /\ esp = "off" /\ ota = FALSE /\ gd = "boot" /\ uplink = << >> /\ panel = {} /\ events \in Budgets
  /\ WebInit /\ ButtonsInit /\ AssetsInit /\ SensorsInit /\ ScreenInit

WebRequest == \/ \E p \in Patches : PostSettings(p)
              \/ \E net \in Nets : PostWifi(net) \/ PortalSave(net)
              \/ PostReboot \/ PostUpdate

WebStep == /\ RunJob \/ StartUpdate \/ PortalRuns \/ KeepGlobals \/ Connect
           /\ UNCHANGED << buttonVars, assetVars, bodyVars >>

Draws == /\ Refresh \/ DrawEnds
         /\ UNCHANGED << webVars, buttonVars, assetVars, sensorVars >>

Measures == /\ FetchSht \/ Notice \/ DrawCharge
            /\ UNCHANGED << webVars, buttonVars, assetVars, screenVars >>

Timer == /\ HoldDue \/ ClickDue \/ ClearDue
         /\ UNCHANGED << webVars, assetVars, bodyVars >>

Answer == Resend /\ Frame /\ UNCHANGED << webVars, assetVars, sensorVars, refresh, missed >>

ButtonStep ==
  /\ \/ Press \/ (\E d \in 0 .. Long : LetGo(d)) \/ Elapse
     \/ \E leds \in Lights : SetLeds(leds)
     \/ \E led \in Leds : SwitchLed(led)
  /\ UNCHANGED << webVars, assetVars, bodyVars >>

GdWrites == GdFlash /\ UNCHANGED << webVars, buttonVars, bodyVars >>

AssetStep == \/ PostAssets \/ RemoteAssets \/ NoRemoteAssets \/ GdWrites
             \/ \E a \in Uploaders : Advance(a) \/ UploadEnds(a)
             \/ Lose /\ EdgesLost(uplink' # uplink) /\ HelloLost /\ UNCHANGED << webVars, sensorVars >>

BodyStep == \/ SensorStep /\ UNCHANGED << webVars, buttonVars, assetVars, screenVars >>
            \/ ScreenStep /\ UNCHANGED << webVars, buttonVars, assetVars, sensorVars >>

Restart == \/ Reboot \/ FlashEsp \/ EspStarts \/ EnterStandby \/ Wake \/ GdRestart \/ PowerCut

DeviceNext ==
  \/ WebRequest /\ UNCHANGED << buttonVars, assetVars, bodyVars >>
  \/ WebStep \/ Timer \/ Answer \/ ButtonStep \/ AssetStep \/ BodyStep
  \/ Telemetry \/ GdStarts \/ Dispatch \/ Restart

\* The loop goes round and draws, the HTTP task goes on, the GD32 serves its link, its
\* sensors and its charge screen, and time passes.
DeviceFairness ==
  /\ WF_vars(WebStep) /\ WF_vars(Dispatch) /\ WF_vars(Reboot \/ FlashEsp \/ EspStarts)
  /\ WF_vars(RemoteAssets \/ NoRemoteAssets) /\ WF_vars(GdWrites)
  /\ \A a \in Uploaders : WF_vars(Advance(a) \/ UploadEnds(a))
  /\ WF_vars(Timer) /\ WF_vars(Answer) /\ WF_vars(Telemetry) /\ WF_vars(GdStarts)
  /\ WF_vars(Draws) /\ WF_vars(Measures)

DeviceSpec == DeviceInit /\ [][DeviceNext]_vars /\ DeviceFairness

-----------------------------------------------------------------------------
DeviceTypeOK == /\ BoardTypeOK /\ WebTypeOK /\ ButtonsTypeOK /\ AssetsTypeOK
                /\ SensorsTypeOK /\ ScreenTypeOK

\* An upload that answers ok has left the whole of its assets in the flash, whatever
\* was lost or restarted on the way: unless another one ran with it, or commands of an
\* earlier one were still to be carried out when it began, as an answer tells neither.
OkMeansWritten ==
  [][\A a \in Uploaders :
       answer'[a] = "ok" /\ answer[a] # "ok" => overlap \/ strays \/ Holds(a)]_vars

\* Nothing holds the loop for ever: every wait in it ends, with an answer or without.
LoopComesBack == []<>(Free \/ ~On)

\* The LED switches, and what is sent again after a restart or an upload, come to show
\* the LEDs there are, whichever of telemetry, features, switches and restarts crossed.
MirrorCatchesUp == []<>(~On \/ gd # "run" \/ mirror = panel)

\* Every request that was answered is carried out, or a restart drops it: no upload,
\* draw or update keeps the deferred calls waiting for ever.
JobsEnd == On /\ jobs # << >> ~> ~On \/ jobs = << >>

\* The loop serves whoever asked, and is never lost to one of them.
LoopServes == LoopComesBack /\ JobsEnd
=============================================================================
