------------------------------- MODULE Features -------------------------------
(***************************************************************************)
(* The features of the device (features/*.yaml and the overlay and the     *)
(* face of core-ui.yaml): alarm, timer, minute of silence, air alert,      *)
(* weather and climate views.  They are ESPHome scripts that run in one    *)
(* loop, call each other and the arbiter, and wait in delays; whatever     *)
(* happens between two delays is one step.  A script is an operator from   *)
(* the state before it to the state after it, `run' holds the scripts that *)
(* wait in a delay, and the priorities are those of the arbiter.           *)
(***************************************************************************)
EXTENDS Arbiter

CONSTANTS
  Packages,   \* the optional files the configuration includes
  Presets,    \* how many times the timer offers; the first is one minute
  HaTimes     \* what Home Assistant may start the timer with, as `left' below

ASSUME FeaturesAssumption ==
  /\ Packages \subseteq {"silence", "alert", "alarm", "timer", "weather", "climate",
                         "ha", "ota"}
  /\ Presets \in Nat \ {0}
  /\ HaTimes \subseteq 0..2

VARIABLE ui

Views == {"weather", "climate"}
Timeout(v) == v      \* hide_weather_timeout, hide_climate_timeout

\* The arbiter's fields, then:
\*   run              scripts that wait in a delay
\*   enabled, ringing the alarm's switch and alarm_ringing
\*   tstate, preset   timer_state, timer_preset_idx + 1
\*   left             2: more than 60 s, 1: the final 60 s, 0: none
\*   tui              refresh_timer_ui's last_screen_mode
\*   silence          off, ticking or anthem
\*   updating         an update was triggered and has not failed yet
\*   shown            weather_shown, climate_shown
\*   hold             slot_hold: the device id is up
\*   face             face_state: stale (-1), clock (0) or silence (4)
\*   dial             the clock's digits are not hidden (ui_face_root)
Boot ==
  [prio |-> 0, owner |-> Nobody, mode |-> ClockMode, screen |-> "clock",
   sacred |-> FALSE, test |-> FALSE, snooze |-> FALSE,
   ledPrio |-> Co2Leds, ledOwner |-> "co2", heard |-> Nobody, leds |-> "co2",
   run |-> {}, enabled |-> TRUE, ringing |-> FALSE,
   tstate |-> "idle", preset |-> 0, left |-> 0, tui |-> "clock",
   silence |-> "off", updating |-> FALSE,
   shown |-> {}, hold |-> FALSE, face |-> "clock", dial |-> TRUE]

Waits(u, script) == [u EXCEPT !.run = @ \cup {script}]
Stopped(u, scripts) == [u EXCEPT !.run = @ \ scripts]

-----------------------------------------------------------------------------
(* The face and the timer's screen *)

FinalMinute(u) == u.tstate \in {"running", "paused"} /\ u.left = 1

\* Mutant: the timer takes the screen whoever has it.
RefreshTimerUi_Greedy(u) ==
  LET want == IF u.tstate \in {"arming", "ringing"} \/ FinalMinute(u)
              THEN "timer" ELSE "clock"
      shows == [u EXCEPT !.tui = want, !.dial = (want = "clock")]
  IN IF Silent(u) \/ want = u.tui THEN u
     ELSE IF want = "timer" THEN TakeScreen(shows, ToolMode, "timer")
     ELSE Release(shows, "timer")

\* refresh_timer_ui.  The timer takes the screen from the clock and from nobody else.
RefreshTimerUi(u) ==
  LET want == IF u.tstate \in {"arming", "ringing"} \/ FinalMinute(u)
              THEN "timer" ELSE "clock"
      shows == [u EXCEPT !.tui = want, !.dial = (want = "clock")]
  IN IF "timer" \notin Packages THEN u
     ELSE IF Silent(u) \/ u.mode = SilenceMode \/ u.screen \notin {"timer", "clock"}
     THEN [u EXCEPT !.tui = "hidden"]
     ELSE IF want = u.tui THEN u
     ELSE IF want = "timer" THEN TakeScreen(shows, ToolMode, "timer")
     ELSE Release(shows, "timer")

\* on_face_changed for the silence: the views close.
CloseViews(u) ==
  LET closed == [u EXCEPT !.shown = {}, !.run = @ \ {Timeout(v) : v \in u.shown}]
  IN IF u.screen \in u.shown THEN ToClock(closed) ELSE closed

\* refresh_face, with the time known and no access point.
RefreshFace(u) ==
  LET want == IF Silent(u) THEN "silence" ELSE "clock"
  IN IF u.hold \/ (u.mode # ClockMode /\ ~Silent(u)) \/ u.face = want THEN u
     ELSE IF want = "silence" THEN CloseViews([u EXCEPT !.face = want, !.dial = FALSE])
     ELSE RefreshTimerUi([u EXCEPT !.face = want, !.dial = TRUE])

-----------------------------------------------------------------------------
(* What a feature does when it loses the screen *)

\* Mutant: the view is hidden and the screen kept.
HideView_NotReleased(u, v) ==
  RefreshFace([Stopped(u, {Timeout(v)}) EXCEPT
                 !.shown = @ \ {v}, !.dial = TRUE, !.face = "stale"])

\* hide_weather, hide_climate
HideView(u, v) ==
  RefreshFace(Release([Stopped(u, {Timeout(v)}) EXCEPT
                         !.shown = @ \ {v}, !.dial = TRUE, !.face = "stale"], v))

\* Mutant: the scripts that wait are left to wait.
TimerOff_NotStopped(u, scripts) ==
  RefreshTimerUi(Release(Stop(
    [u EXCEPT !.tstate = "idle", !.preset = 0, !.left = 0], "timer"), "timer"))

\* What timer_cancel and timer_dismiss have in common.
TimerOff(u, scripts) ==
  RefreshTimerUi(Release(Stop(
    [Stopped(u, scripts) EXCEPT !.tstate = "idle", !.preset = 0, !.left = 0],
    "timer"), "timer"))

TimerCancel(u) == TimerOff(u, {"timer_arm_commit", "timer_countdown", "timer_ring"})

TimerDismiss(u) == TimerOff(u, {"timer_ring"})

\* core_dismiss_overlay up to refresh_face; core_preempt_overlay
DropOverlay(u) ==
  [Release(Stopped(u, {"show_device_id"}), "overlay") EXCEPT !.hold = FALSE]

\* The handlers of the event screen_preempted; the silence has none.
Preempted(u, previous) ==
  IF previous = "timer" THEN TimerCancel(u)
  ELSE IF previous \in Views THEN HideView(u, previous)
  ELSE IF previous = "overlay" THEN DropOverlay(u)
  ELSE u

\* request_screen
Request(u, m, who) ==
  IF Granted(u, m, who) /\ u.screen # who THEN Preempted(TakeScreen(u, m, who), u.screen)
  ELSE TakeScreen(u, m, who)

PreemptToClock(u) == IF u.mode # ClockMode THEN Preempted(ToClock(u), u.screen) ELSE u

-----------------------------------------------------------------------------
(* Views and overlay *)

\* show_weather, show_climate.  The timeout starts even if the screen was refused.
ShowView(u, v) ==
  LET asked == Request(u, ViewMode, v)
  IN Waits(IF Granted(u, ViewMode, v)
           THEN [asked EXCEPT !.shown = @ \cup {v}, !.face = "stale", !.dial = FALSE]
           ELSE asked, Timeout(v))

\* show_device_id
ShowDeviceId(u) ==
  [Waits(Request([u EXCEPT !.hold = TRUE], OverlayMode, "overlay"), "show_device_id")
     EXCEPT !.face = "stale", !.dial = FALSE]

OverlayOver(u) ==
  RefreshFace([Release(Stopped(u, {"show_device_id"}), "overlay")
                 EXCEPT !.dial = TRUE, !.hold = FALSE])

-----------------------------------------------------------------------------
(* The alarm *)

\* Mutant: the sound is not stopped.
AlarmStop_SoundKept(u) == [Stopped(u, {"alarm_ring"}) EXCEPT !.ringing = FALSE]

AlarmStop(u) == Stop([Stopped(u, {"alarm_ring"}) EXCEPT !.ringing = FALSE], "alarm")

\* alarm_dismiss, and the weather it shows to whoever has just got up.
AlarmDismiss(u) ==
  LET quiet == AlarmStop([Stopped(u, {"alarm_snooze"}) EXCEPT !.snooze = FALSE])
  IN IF (u.ringing \/ u.snooze) /\ "weather" \in Packages
     THEN ShowView(quiet, "weather") ELSE quiet

AlarmSnooze(u) == AlarmStop([Waits(u, "alarm_snooze") EXCEPT !.snooze = TRUE])

\* alarm_ring up to its first delay, with on_alarm_started.  The script is single.
AlarmRing(u) ==
  LET rings == Play([Waits(u, "alarm_ring") EXCEPT !.ringing = TRUE, !.snooze = FALSE],
                    AlarmSound, "alarm")
      seen == IF rings.mode # ClockMode
              THEN RefreshFace([PreemptToClock(rings) EXCEPT !.face = "stale"])
              ELSE rings
  IN IF "alarm_ring" \in u.run THEN u
     ELSE IF "climate" \in seen.shown THEN HideView(seen, "climate") ELSE seen

AlarmSnoozeOver(u) ==
  LET awake == [Stopped(u, {"alarm_snooze"}) EXCEPT !.snooze = FALSE]
  IN IF u.enabled THEN AlarmRing(awake) ELSE awake

-----------------------------------------------------------------------------
(* The timer *)

\* timer_countdown waits only while there is something to count.
Counts(u) == IF u.tstate = "running" /\ u.left > 0 THEN Waits(u, "timer_countdown")
             ELSE Stopped(u, {"timer_countdown"})

TimerStartRunning(u) ==
  Counts(RefreshTimerUi(
    [Stopped(u, {"timer_arm_commit", "timer_ring"}) EXCEPT !.tstate = "running"]))

\* Mutant: one preset too many.
TimerCyclePreset_OneMore(u) ==
  IF u.preset > Presets THEN TimerCancel(u)
  ELSE Waits(RefreshTimerUi([u EXCEPT !.tstate = "arming", !.preset = @ + 1]),
             "timer_arm_commit")

TimerCyclePreset(u) ==
  LET beeps == IF u.tstate = "idle" THEN u ELSE BeepDirect(u)
  IN IF u.preset = Presets
     THEN TimerCancel([BeepDirect(u) EXCEPT !.tstate = "idle", !.preset = 0])
     ELSE Waits(RefreshTimerUi([beeps EXCEPT !.tstate = "arming", !.preset = @ + 1]),
                "timer_arm_commit")

TimerArmCommit(u) ==
  TimerStartRunning(BeepDirect(
    [u EXCEPT !.left = IF u.preset = 1 THEN 1 ELSE 2]))

TimerPause(u) ==
  LET paused == IF u.tstate = "running"
                THEN [BeepDirect(u) EXCEPT !.tstate = "paused"] ELSE u
  IN RefreshTimerUi(Stopped(paused, {"timer_countdown"}))

TimerResume(u) ==
  Counts(RefreshTimerUi([BeepDirect(u) EXCEPT !.tstate = "running"]))

\* timer_ring up to its first delay.
TimerRing(u) ==
  IF "timer_ring" \in u.run THEN u
  ELSE Play(RefreshTimerUi(Request(
         [Waits(u, "timer_ring") EXCEPT !.tstate = "ringing"], ToolMode, "timer")),
       AlarmSound, "timer")

\* One turn of the loop of timer_countdown that leaves l.
TimerSecond(u, l) ==
  LET v == Counts(RefreshTimerUi([u EXCEPT !.left = l]))
  IN IF l = 0 THEN TimerRing(v) ELSE v

\* timer_arm_btn: `return' leaves the lambda, not the list of actions, so that a
\* timer that was cancelled is armed again.
TimerArmBtn(u) ==
  TimerCyclePreset(IF u.tstate # "idle" THEN TimerCancel(Play(u, UiSound, "timer")) ELSE u)

-----------------------------------------------------------------------------
(* Silence, siren, LEDs *)

\* refresh_leds
RefreshLeds(u) == IF u.ledPrio > Co2Leds THEN u ELSE SetLeds(u, Co2Leds, "co2")

\* start_minute_of_silence up to its first delay.  The script is single.
StartSilence(u, test) ==
  IF "silence" \in u.run THEN u
  ELSE RefreshFace(SetLeds(Request(
         [Waits(u, "silence") EXCEPT !.silence = "ticking",
            !.sacred = @ \/ ~test, !.test = @ \/ test],
         SilenceMode, "silence"), SilenceLeds, "silence"))

\* finish_silence
FinishSilence(u) ==
  LET over == [Stopped(u, {"silence"}) EXCEPT
                 !.silence = "off", !.sacred = FALSE, !.test = FALSE]
      free == ResetAudio(ReleaseLeds(Release(over, "silence"), "silence"))
  IN RefreshLeds(RefreshFace([free EXCEPT !.face = "stale"]))

\* stop_silence_test
StopSilenceTest(u) == IF u.test THEN FinishSilence(Stop(u, "silence")) ELSE u

\* play_alert_sound and its two sisters, which stop each other.
Siren(u) == Play(Waits(u, "siren"), AlertSound, "alert")
SirenOver(u) == Stop(Stopped(u, {"siren"}), "alert")

-----------------------------------------------------------------------------
(* Buttons *)

On(e, c, p, do) == [event |-> e, context |-> c, priority |-> p, do |-> do]
Clicks == {"single", "double", "long"}

HandlersOf(p) ==
  CASE p = "alarm" ->
         {On("single", Ringing("alarm"), 100, "alarm snooze if active"),
          On("double", Snooze, 100, "alarm dismiss"), On("long", Snooze, 100, "alarm dismiss")}
         \cup {On(e, Ringing("alarm"), 100, "alarm dismiss if active") : e \in {"double", "long"}}
    [] p = "timer" ->
         {On("long", Clock, 50, "timer arm"), On("single", Modal("timer"), 50, "timer step"),
          On("double", Modal("timer"), 50, "timer leave"),
          On("long", Modal("timer"), 50, "timer cancel")}
         \cup {On(e, Ringing("timer"), 90, "timer dismiss if ringing") : e \in Clicks}
    [] p = "silence" ->
         {On("single", SilenceTest, 100, "stop test"), On("long", SilenceTest, 100, "stop test")}
    [] p = "weather" ->
         {On("double", Clock, 50, "weather"), On("single", Modal("weather"), 50, "hide weather"),
          On("double", Modal("weather"), 50, "hide weather")}
    [] p = "climate" ->
         {On("single", Clock, 50, "climate"), On("single", Modal("climate"), 50, "hide climate"),
          On("double", Modal("climate"), 50, "hide climate")}
    [] OTHER -> {}

\* Those of the core are always there.
Handlers ==
  (UNION {HandlersOf(p) : p \in Packages})
  \cup {On("triple", Any, 10, "device id"), On("single", Modal("overlay"), 100, "drop overlay")}

\* The lambda of a handler, with the conditions it checks for itself.
Handle(u, do) ==
  CASE do = "alarm snooze if active" -> IF u.ringing \/ u.snooze THEN AlarmSnooze(u) ELSE u
    [] do = "alarm dismiss if active" -> IF u.ringing \/ u.snooze THEN AlarmDismiss(u) ELSE u
    [] do = "alarm dismiss" -> AlarmDismiss(u)
    [] do = "timer arm" -> TimerArmBtn(u)
    [] do = "timer step" /\ u.tstate = "arming" -> TimerCyclePreset(u)
    [] do = "timer step" /\ u.tstate = "running" -> TimerPause(u)
    [] do = "timer step" /\ u.tstate = "paused" -> TimerResume(u)
    [] do = "timer leave" /\ u.tstate = "arming" ->
         IF "weather" \in Packages THEN ShowView(TimerCancel(u), "weather") ELSE TimerCancel(u)
    [] do = "timer cancel" -> TimerCancel(Play(u, UiSound, "timer"))
    [] do = "timer dismiss if ringing" -> IF u.tstate = "ringing" THEN TimerDismiss(u) ELSE u
    [] do = "stop test" -> StopSilenceTest(u)
    [] do = "weather" -> ShowView(u, "weather")
    [] do = "climate" ->
         IF u.mode = ClockMode /\ u.prio < AlarmSound /\ Context(u) = Clock
         THEN ShowView(u, "climate") ELSE u
    [] do = "hide weather" -> HideView(u, "weather")
    [] do = "hide climate" -> HideView(u, "climate")
    [] do = "device id" -> ShowDeviceId(u)
    [] do = "drop overlay" -> RefreshFace(DropOverlay(u))
    [] OTHER -> u

\* dispatch_event for a button
Dispatch(u, e) == IF u.sacred THEN u ELSE Handle(u, Chosen(Handlers, e, Context(u)))

-----------------------------------------------------------------------------
(* Steps *)

Init == ui = Boot

Has(p) == p \in Packages
Elapses(script) == script \in ui.run

\* Every press chirps, and a hold beeps, before the gesture is published.
Press == \E e \in Clicks \cup {"triple"} : ui' = Dispatch(BeepDirect(ui), e)

MelodyEnds == ui.heard # Nobody /\ ui' = [ui EXCEPT !.heard = Nobody]

\* Every 5 s; after a restart or a wake of the GD32 the face is stale first.
Refresh == \E f \in {ui.face, "stale"} : ui' = RefreshFace([ui EXCEPT !.face = f])
EveryFiveSeconds == ui' = RefreshFace(ui)

Co2Measured == ui' = RefreshLeds(ui)

AlarmTime == Has("alarm") /\ ui.enabled /\ ui' = AlarmRing(ui)
AlarmSwitch ==
  /\ Has("alarm")
  /\ ui' = IF ui.enabled THEN AlarmDismiss([ui EXCEPT !.enabled = FALSE])
           ELSE [ui EXCEPT !.enabled = TRUE]
AlarmRepeats == Elapses("alarm_ring") /\ ui' = Play(ui, AlarmSound, "alarm")
AlarmGivesUp == Elapses("alarm_ring") /\ ui' = AlarmDismiss(ui)
SnoozeOver == Elapses("alarm_snooze") /\ ui' = AlarmSnoozeOver(ui)

ArmOver == Elapses("timer_arm_commit") /\ ui' = TimerArmCommit(ui)
CountDown == Elapses("timer_countdown") /\ ui' = TimerSecond(ui, ui.left - 1)
SecondPasses == Elapses("timer_countdown") /\ ui' = TimerSecond(ui, ui.left)
TimerRepeats == Elapses("timer_ring") /\ ui' = Play(ui, AlarmSound, "timer")
TimerGivesUp == Elapses("timer_ring") /\ ui' = TimerDismiss(ui)

HaTimer ==
  /\ Has("ha") /\ Has("timer")
  /\ \/ \E l \in HaTimes : ui' = TimerStartRunning(IF l = 0 THEN ui ELSE [ui EXCEPT !.left = l])
     \/ ui' = TimerCancel(ui)
     \/ ui' = TimerPause(ui)

Nine == Has("silence") /\ ui.silence = "off" /\ ui' = StartSilence(ui, FALSE)
TestSilence == Has("silence") /\ ui' = StartSilence(ui, TRUE)
Beat == ui.silence = "ticking" /\ ui' = Play(ui, Notification, "silence")
TicksDone ==
  /\ ui.silence = "ticking"
  /\ ui' = Play([ui EXCEPT !.silence = "anthem"], Notification, "silence")
AnthemOver == ui.silence = "anthem" /\ ui' = FinishSilence(ui)

AlertChanges == Has("alert") /\ ui' = Siren(ui)
SirenStops == Elapses("siren") /\ ui' = SirenOver(ui)

ViewTimesOut == \E v \in Views : Elapses(Timeout(v)) /\ ui' = HideView(ui, v)
OverlayEnds == Elapses("show_device_id") /\ ui' = OverlayOver(ui)

UpdateTriggered ==
  /\ Has("ota") /\ ~ui.updating
  /\ ui' = SetLeds([ui EXCEPT !.updating = TRUE], UpdateLeds, "ota")
UpdateFailed == ui.updating /\ ui' = [ui EXCEPT !.updating = FALSE]

\* What time alone brings about.
Elapse ==
  \/ AlarmGivesUp \/ SnoozeOver
  \/ ArmOver \/ CountDown \/ TimerGivesUp
  \/ TicksDone \/ AnthemOver \/ SirenStops
  \/ ViewTimesOut \/ OverlayEnds \/ MelodyEnds \/ EveryFiveSeconds

Next ==
  \/ Elapse
  \/ Press \/ Refresh \/ Co2Measured
  \/ AlarmTime \/ AlarmSwitch \/ AlarmRepeats
  \/ SecondPasses \/ TimerRepeats \/ HaTimer
  \/ Nine \/ TestSilence \/ Beat \/ AlertChanges
  \/ UpdateTriggered \/ UpdateFailed

Spec == Init /\ [][Next]_ui

\* A delay ends: ESPHome's scheduler runs in every turn of the loop.
FairSpec ==
  /\ Spec
  /\ WF_ui(AlarmGivesUp) /\ WF_ui(SnoozeOver)
  /\ WF_ui(ArmOver) /\ WF_ui(CountDown) /\ WF_ui(TimerGivesUp)
  /\ WF_ui(TicksDone) /\ WF_ui(AnthemOver) /\ WF_ui(SirenStops)
  /\ WF_ui(ViewTimesOut) /\ WF_ui(OverlayEnds) /\ WF_ui(EveryFiveSeconds)

-----------------------------------------------------------------------------
(* Properties *)

\* Every field keeps its range.
FeaturesTypeOK ==
  /\ ui.prio \in {0, UiSound, Notification, AlarmSound, AlertSound}
  /\ ui.owner \in {Nobody, "timer", "alarm", "silence", "alert"}
  /\ ui.mode \in {ClockMode, ViewMode, ToolMode, OverlayMode, SilenceMode}
  /\ ui.screen \in {"clock", "timer", "overlay", "silence"} \cup Views
  /\ ui.ledPrio \in {0, Co2Leds, SilenceLeds, UpdateLeds}
  /\ ui.run \subseteq {"alarm_ring", "alarm_snooze", "timer_arm_commit", "timer_countdown",
                      "timer_ring", "silence", "siren", "show_device_id"} \cup Views
  /\ ui.tstate \in {"idle", "arming", "running", "paused", "ringing"}
  /\ ui.preset \in 0..Presets
  /\ ui.left \in 0..2
  /\ ui.tui \in {"clock", "timer", "hidden"}
  /\ ui.silence \in {"off", "ticking", "anthem"}
  /\ ui.shown \subseteq Views
  /\ ui.face \in {"stale", "clock", "silence"}

\* A feature's state and the scripts that wait for it agree: nothing rings with
\* nobody left to stop it, and no delay ends after its feature was cancelled.
ScriptsMatch ==
  /\ ui.ringing <=> "alarm_ring" \in ui.run
  /\ ui.snooze => "alarm_snooze" \in ui.run
  /\ "alarm_snooze" \in ui.run => ui.snooze \/ ui.ringing
  /\ ui.tstate = "arming" <=> "timer_arm_commit" \in ui.run
  /\ ui.tstate = "ringing" <=> "timer_ring" \in ui.run
  /\ ui.tstate = "running" <=> "timer_countdown" \in ui.run

\* While the buttons are handed to the one that rings, it does ring: any click
\* turns the sound off (the context "ringing" of get_active_context).
RingingContextIsLive ==
  ui.prio = AlarmSound => \/ ui.owner = "alarm" /\ ui.ringing
                          \/ ui.owner = "timer" /\ ui.tstate = "ringing"

\* Whoever owns the screen is there to give it back.
NoOrphanScreen ==
  /\ ui.screen = "clock" <=> ui.mode = ClockMode
  /\ ui.screen = "timer" => ui.tstate # "idle"
  /\ ui.screen = "overlay" => "show_device_id" \in ui.run
  /\ ui.screen = "silence" => Silent(ui)
  /\ \A v \in Views : ui.screen = v <=> v \in ui.shown
  /\ \A v \in ui.shown : Timeout(v) \in ui.run

\* The clock is never a black screen.
ClockHasDial == ui.screen = "clock" /\ ~Silent(ui) /\ ~ui.hold => ui.dial

\* As long as a siren lasts, nothing but beeps is heard in its place, and no click,
\* ring, metronome or dismissal takes its rank, unless the minute of silence ends
\* meanwhile (reset_audio).
SirenOutranks ==
  [][ui.owner = "alert" /\ "siren" \in ui'.run /\ ~(ui.silence # "off" /\ ui'.silence = "off")
     => ui'.owner = "alert" /\ ui'.heard \in {ui.heard, "alert", Beep, Nobody}]_ui

\* Until an update takes the LEDs for itself, they are dark during the silence and
\* CO2's again after it.
LedsFollowSilence ==
  ui.ledOwner # "ota" => ui.leds = IF Silent(ui) THEN "silence" ELSE "co2"

\* What rings falls silent by itself, and the minute of silence ends.
RingingEnds ==
  /\ Silent(ui) ~> ~Silent(ui)
  /\ ui.tstate = "ringing" ~> ui.tstate # "ringing"
  /\ ui.ringing ~> ~ui.ringing

\* The clock comes back by itself, unless the timer is paused in its final minute
\* or the silence comes up.
ClockReturns ==
  ui.screen # "clock"
    ~> (ui.screen = "clock" /\ ui.dial) \/ ui.tstate = "paused" \/ Silent(ui)

\* Screen, dial and LEDs belong to whoever the arbiter's state says they belong to.
ShownByOwner == NoOrphanScreen /\ ClockHasDial /\ LedsFollowSilence

\* Left alone, the device comes back to a silent clock.
QuietReturns == RingingEnds /\ ClockReturns
=============================================================================
