-------------------------------- MODULE Board --------------------------------
(* What the parts of the device share: who runs the ESP32's one main loop, and *)
(* a common bound on what happens to the device from outside.                 *)
EXTENDS Naturals, Sequences

CONSTANT Budgets    \* bound: how many events of each kind may come from outside, one
                    \* budget for each behaviour

\* Requests to the pages, presses, LEDs and frames, requests to write assets, sensors
\* that answer, the charger plugged in or out, and what goes wrong: a packet lost, a
\* chip that fails, a watchdog; or a power cut.
Kinds == {"settings", "network", "update", "reboot", "button", "light", "assets", "air", "power",
          "mishap", "cut"}

ASSUME BudgetsAssumption == Budgets \subseteq [Kinds -> Nat]

VARIABLES
  esp,      \* the ESP32: "off", its loop "free", or inside one long call: a "draw" to
            \* the panel, a deferred "job", an "upload" of assets, a "flash" of its own
  ota,      \* ota_mode_: the packets of the GD32 are ignored, but for flash answers
  gd,       \* the GD32: "boot", "run" or in "standby"
  uplink,   \* what the GD32 sent and the ESP32 has not dispatched
  panel,    \* the LEDs the GD32 lights
  events    \* how many events of each kind may still come

linkVars == << ota, gd, uplink, panel >>
boardVars == << esp, ota, gd, uplink, panel, events >>

Leds == {"red", "yellow", "green"}

BoardTypeOK == /\ esp \in {"off", "free", "draw", "job", "upload", "flash"}
               /\ ota \in BOOLEAN /\ gd \in {"boot", "run", "standby"}
               /\ panel \subseteq Leds /\ events \in [Kinds -> Nat]

On == esp # "off"
Free == esp = "free"

\* What the GD32 sends while the ESP32 is off is lost.
Sent(p) == uplink' = IF On THEN Append(uplink, p) ELSE << >>

\* send_leds: the GD32 obeys at once, if its program runs.
Light(leds) == panel' = IF gd = "run" THEN leds ELSE panel

\* One more event from outside.
Ask(kind) == events[kind] > 0 /\ events' = [events EXCEPT ![kind] = @ - 1]
=============================================================================
