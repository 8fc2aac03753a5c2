------------------------------- MODULE Buttons -------------------------------
(* The button and the LEDs. The GD32 debounces the button, reports each edge   *)
(* and turns the device off after five seconds (main.c); the ESP32 makes       *)
(* clicks and holds of the reports (process_packet_ in htram_gd32.cpp), with   *)
(* timers that its loop looks at before it reads. Time passes in units of      *)
(* 200 ms, as long as a button is down or a timer runs.                        *)
EXTENDS Board

CONSTANT Lights    \* sets of LEDs a feature may light

ASSUME LightsAssumption == Lights \subseteq SUBSET Leds

VARIABLES
  held,     \* the button: 0 is up, n is down for n - 1 units, Long and Standby
  hold,     \* the timeouts "button_hold", "button_click" and "button_clear": 0 is off,
  click,    \* 1 is due, n is due in n - 1 units
  clear,
  fired,    \* long_press_fired_
  clicks,   \* click_count_
  action,   \* the text sensor of the button's action
  mirror,   \* led_state_: the LEDs as the last telemetry or switch had them
  booted,   \* gd32_booted_
  presses, taps, holds,   \* history, since the button was at rest: edges down, ups
                          \* that are clicks, downs that were holds
  longs, told,            \* history: holds and clicks published, since the ESP32 started, too
  disturbed               \* history: a report or a timer came late or was lost

buttonVars == << held, hold, click, clear, fired, clicks, action, mirror, booted,
                 presses, taps, holds, longs, told, disturbed >>
counts == << presses, taps, holds, longs, told >>

Long == 6       \* 2.8 s and more
Standby == 7    \* 5 s
Blip == 0       \* a release within 30 ms

HoldUnits == 4      \* 800 ms
ClickUnits == 2     \* 350 ms, rounded
ClearUnits == 5     \* 1 s

Published(n) == IF n > 4 THEN "many" ELSE << "single", "double", "triple", "quadruple" >>[n]

Edges == \E i \in DOMAIN uplink : uplink[i].kind \in {"press", "release"}
AtRest == held = 0 /\ hold = 0 /\ click = 0 /\ ~Edges

-----------------------------------------------------------------------------
(* The GD32. *)

\* A debounced edge down. A gesture that starts from rest is counted anew.
Press ==
  /\ gd = "run" /\ held = 0 /\ Ask("button")
  /\ held' = 1 /\ Sent([kind |-> "press"])
  /\ presses' = IF AtRest THEN 1 ELSE presses + 1
  /\ IF AtRest THEN taps' = 0 /\ holds' = 0 /\ longs' = 0 /\ told' = 0 /\ disturbed' = ~On
     ELSE disturbed' = (disturbed \/ ~On) /\ UNCHANGED << taps, holds, longs, told >>
  /\ UNCHANGED << esp, ota, gd, panel, hold, click, clear, fired, clicks, action, mirror, booted >>

\* The edge up, with the time in between.
LetGo(duration) ==
  /\ gd = "run" /\ held \in 1 .. Long
  /\ duration = held \/ (held = 1 /\ duration = Blip)
  /\ held' = 0 /\ Sent([kind |-> "release", duration |-> duration])
  /\ taps' = taps + IF duration \in 1 .. 3 THEN 1 ELSE 0
  /\ holds' = holds + IF duration >= 4 THEN 1 ELSE 0
  /\ disturbed' = (disturbed \/ ~On)
  /\ UNCHANGED << esp, ota, gd, panel, events, hold, click, clear, fired, clicks, action, mirror,
                  booted, presses, longs, told >>

-----------------------------------------------------------------------------
(* The ESP32's loop. *)

Tell(what) == action' = what /\ clear' = ClearUnits + 1

\* A release: the end of a hold that was told, a hold its timer did not see, a click,
\* or nothing.
TakeRelease(duration) ==
  /\ hold' = 0
  /\ IF fired
     THEN /\ fired' = FALSE /\ clicks' = 0
          /\ UNCHANGED << click, clear, action, longs, told >>
     ELSE IF duration \in {4, 5}
     THEN /\ Tell("long") /\ longs' = longs + 1 /\ click' = 0 /\ clicks' = 0
          /\ UNCHANGED << fired, told >>
     ELSE IF duration \in 1 .. 3
     THEN /\ clicks' = clicks + 1 /\ click' = ClickUnits + 1
          /\ UNCHANGED << clear, fired, action, longs, told >>
     ELSE UNCHANGED << click, clear, fired, clicks, action, longs, told >>

TakePress ==
  /\ clear' = 0 /\ fired' = FALSE /\ hold' = HoldUnits + 1
  /\ UNCHANGED << click, clicks, action, longs, told >>

NoGesture == UNCHANGED << hold, click, clear, fired, clicks, action, longs, told >>

\* Mutant: the LEDs of the telemetry are not taken over.
Process_blind(p) ==
  /\ CASE ota -> NoGesture /\ UNCHANGED << mirror, booted >>
       [] ~ota /\ p.kind = "press" -> TakePress /\ UNCHANGED << mirror, booted >>
       [] ~ota /\ p.kind = "release" -> TakeRelease(p.duration) /\ UNCHANGED << mirror, booted >>
       [] OTHER -> NoGesture /\ UNCHANGED << mirror, booted >>
  /\ disturbed' = (disturbed \/ (ota /\ p.kind \in {"press", "release"}))

\* process_packet_, as far as it concerns the button and the LEDs.
Process(p) ==
  /\ CASE ota -> NoGesture /\ UNCHANGED << mirror, booted >>
       [] ~ota /\ p.kind = "press" -> TakePress /\ UNCHANGED << mirror, booted >>
       [] ~ota /\ p.kind = "release" -> TakeRelease(p.duration) /\ UNCHANGED << mirror, booted >>
       [] ~ota /\ p.kind = "telemetry" -> NoGesture /\ mirror' = p.leds /\ UNCHANGED booted
       [] ~ota /\ p.kind = "hello" -> NoGesture /\ booted' = TRUE /\ UNCHANGED mirror
       [] OTHER -> NoGesture /\ UNCHANGED << mirror, booted >>
  /\ disturbed' = (disturbed \/ (ota /\ p.kind \in {"press", "release"}))

\* Mutant: it is not remembered that the hold was told.
HoldDue_keeps ==
  /\ Free /\ hold = 1
  /\ hold' = 0 /\ clicks' = 0 /\ click' = 0
  /\ Tell("long") /\ longs' = longs + 1
  /\ UNCHANGED << boardVars, held, fired, mirror, booted, presses, taps, holds, told, disturbed >>

\* "button_hold": told at once, while the button is still down. The beep that
\* confirms it is a sound, and the arbiter's subject.
HoldDue ==
  /\ Free /\ hold = 1
  /\ hold' = 0 /\ fired' = TRUE /\ clicks' = 0 /\ click' = 0
  /\ Tell("long") /\ longs' = longs + 1
  /\ UNCHANGED << boardVars, held, mirror, booted, presses, taps, holds, told, disturbed >>

\* "button_click": the clicks so far are told together.
ClickDue ==
  /\ Free /\ click = 1
  /\ click' = 0 /\ clicks' = 0 /\ told' = told + clicks
  /\ IF clicks > 0 THEN Tell(Published(clicks)) ELSE UNCHANGED << clear, action >>
  /\ UNCHANGED << boardVars, held, hold, fired, mirror, booted, presses, taps, holds, longs,
                  disturbed >>

\* "button_clear"
ClearDue ==
  /\ Free /\ clear = 1
  /\ clear' = 0 /\ action' = ""
  /\ UNCHANGED << boardVars, held, hold, click, fired, clicks, mirror, booted, counts, disturbed >>

\* The interval that answers a restart of the GD32 (htram-core.yaml). With automatic
\* LEDs refresh_leds then lights what the arbiter lets it.
Resend ==
  /\ Free /\ booted /\ booted' = FALSE
  /\ \/ Light(mirror)
     \/ \E leds \in Lights : Light(leds)
  /\ UNCHANGED << ota, gd, uplink, events, held, hold, click, clear, fired, clicks, action,
                  mirror, counts, disturbed >>

\* A feature lights LEDs through the arbiter, which leaves no trace in led_state_.
SetLeds(leds) ==
  /\ Free /\ Ask("light") /\ Light(leds)
  /\ UNCHANGED << esp, ota, gd, uplink, buttonVars >>

\* HtramLedSwitch and set_led: one LED, and the others as led_state_ has them.
SwitchLed(led) ==
  /\ Free /\ Ask("light")
  /\ mirror' = IF led \in mirror THEN mirror \ {led} ELSE mirror \cup {led}
  /\ Light(mirror')
  /\ UNCHANGED << esp, ota, gd, uplink, held, hold, click, clear, fired, clicks, action, booted,
                  counts, disturbed >>

-----------------------------------------------------------------------------
(* Time. *)

Less(t) == IF t > 1 THEN t - 1 ELSE t
Waiting == Edges \/ hold = 1 \/ click = 1

\* A loop that is free reads and looks at its timers well within a unit; an upload
\* reads, too.
Elapse ==
  /\ held \in 1 .. Long \/ \E t \in {hold, click, clear} : t > 1
  /\ held < Standby
  /\ (Free \/ ota) => ~Edges
  /\ Free => 1 \notin {hold, click, clear}
  /\ held' = IF held \in 1 .. Long THEN held + 1 ELSE held
  /\ hold' = Less(hold) /\ click' = Less(click) /\ clear' = Less(clear)
  /\ disturbed' = (disturbed \/ Waiting)
  /\ UNCHANGED << boardVars, fired, clicks, action, mirror, booted, counts >>

-----------------------------------------------------------------------------
(* Restarts. *)

\* Whatever is in uplink is thrown away, and nothing else changes here.
EdgesLost(some) == /\ disturbed' = (disturbed \/ (some /\ Edges))
                   /\ UNCHANGED << held, hold, click, clear, fired, clicks, action, mirror, booted,
                                   counts >>

ButtonsBoot ==
  /\ hold' = 0 /\ click' = 0 /\ clear' = 0 /\ fired' = FALSE /\ clicks' = 0
  /\ action' = "" /\ mirror' = {} /\ booted' = FALSE
  /\ disturbed' = TRUE /\ longs' = 0 /\ told' = 0 /\ UNCHANGED << presses, taps, holds >>

ButtonsInit ==
  /\ held = 0 /\ hold = 0 /\ click = 0 /\ clear = 0 /\ fired = FALSE /\ clicks = 0
  /\ action = "" /\ mirror = {} /\ booted = FALSE
  /\ presses = 0 /\ taps = 0 /\ holds = 0 /\ longs = 0 /\ told = 0 /\ disturbed = FALSE

-----------------------------------------------------------------------------
(* What the button promises. *)

ButtonsTypeOK ==
  /\ held \in 0 .. Standby /\ hold \in 0 .. HoldUnits + 1 /\ click \in 0 .. ClickUnits + 1
  /\ clear \in 0 .. ClearUnits + 1 /\ fired \in BOOLEAN /\ booted \in BOOLEAN
  /\ clicks \in Nat /\ mirror \subseteq Leds
  /\ action \in {"", "long", "single", "double", "triple", "quadruple", "many"}
  /\ \A n \in {presses, taps, holds, longs, told} : n \in Nat
  /\ disturbed \in BOOLEAN

\* When the button is at rest again, as many clicks have been told as there were short
\* presses, and as many holds as long ones, unless the loop was held up, or reports
\* were lost, meanwhile.
ToldAtRest == AtRest /\ ~disturbed => told = taps /\ longs = holds

\* Whatever is late or lost, no press is told as a hold twice, as long as the ESP32
\* does not restart.
HoldToldOnce == longs <= presses

\* Gestures are told as they were made (process_packet_ and its three timeouts).
GesturesTold == ToldAtRest /\ HoldToldOnce
=============================================================================
