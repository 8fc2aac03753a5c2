------------------------------- MODULE Screen -------------------------------
(* Who draws on the panel. The GD32 has a picture of its own until the ESP32's *)
(* first rectangle (main.c); LVGL draws what has changed, or the whole screen  *)
(* after something invalidated it (htram-core.yaml, core-ui.yaml); and while   *)
(* assets are uploaded what LVGL draws is thrown away (htram_gd32.cpp).        *)
EXTENDS Board

VARIABLES
  glass,    \* the panel: "dark", the GD32's "local" picture, a "part" of the ESP32's
            \* over another, all of it, "drawing" or done ("face")
  refresh,  \* needs_display_refresh_
  missed    \* history: what would have had the screen drawn again was lost

screenVars == << glass, refresh, missed >>

\* g_external_display_active: a rectangle has come.
Taken == glass \notin {"dark", "local"}

-----------------------------------------------------------------------------
\* Three seconds after the GD32's start no rectangle has come. A free loop draws the
\* seconds.
LocalScreen ==
  /\ gd = "run" /\ (Free => ota) /\ ~Taken /\ glass # "local" /\ glass' = "local"
  /\ UNCHANGED << boardVars, refresh, missed >>

\* A label changes. It is lost in OTA mode.
Update ==
  /\ Free
  /\ \/ ~ota /\ gd = "run" /\ ~Taken
     \/ ota /\ glass = "face"
  /\ glass' = "part"
  /\ UNCHANGED << boardVars, refresh, missed >>

\* The screen was invalidated, and LVGL draws all of it: more than a second inside one
\* call. In OTA mode nothing goes to the panel.
Frame ==
  IF ota THEN glass' = (IF glass = "face" THEN "part" ELSE glass) /\ UNCHANGED esp
  ELSE esp' = "draw" /\ glass' = IF gd = "run" THEN "drawing" ELSE glass

\* Another mode, or another face.
Change == /\ Free /\ Ask("light") /\ Frame
          /\ UNCHANGED << linkVars, refresh, missed >>

\* The interval of 20 ms asks, and resets.
Refresh == /\ Free /\ refresh /\ refresh' = FALSE /\ Frame
           /\ UNCHANGED << linkVars, events, missed >>

\* What was drawn before a restart of the GD32, or was to be drawn in OTA mode, is not
\* there.
DrawEnds ==
  /\ esp = "draw" /\ esp' = "free"
  /\ glass' = IF gd # "run" THEN "dark"
              ELSE IF glass = "drawing" THEN "face"
              ELSE IF ota THEN glass ELSE "part"
  /\ missed' = (missed /\ glass' # "face")
  /\ UNCHANGED << linkVars, events, refresh >>

ScreenStep == LocalScreen \/ Update \/ Change \/ Refresh \/ DrawEnds

-----------------------------------------------------------------------------
(* What the rest of the device does to the screen. *)

\* Mutant: the end of OTA mode asks for nothing.
OtaLeft_quiet(byHttp) == UNCHANGED screenVars

\* Without the hello of its start the ESP32 does not know of the restart.
HelloGone == uplink # uplink' /\ Head(uplink).kind = "hello"
HelloLost == missed' = (missed \/ HelloGone) /\ UNCHANGED << glass, refresh >>

\* set_ota_mode(false). The interval reads and resets the flag without a lock: if the
\* HTTP task sets it in between, it is lost.
OtaLeft(byHttp) ==
  /\ \/ refresh' = (refresh \/ ota) /\ missed' = (missed \/ HelloGone)
     \/ byHttp /\ Free /\ ota /\ refresh' = FALSE /\ missed' = TRUE
  /\ UNCHANGED glass

\* An upload begins in the middle of a frame.
OtaEntered == /\ glass' = IF glass = "drawing" THEN "part" ELSE glass
              /\ UNCHANGED << refresh, missed >>

\* The GD32 starts, and fills the panel.
PanelBoots == glass' = "dark" /\ UNCHANGED << refresh, missed >>

\* The ESP32 starts. Its first frame is drawn from the first pass on (Device).
ScreenBoots == refresh' = FALSE /\ missed' = FALSE

ScreenOff == glass' = "dark" /\ refresh' = FALSE /\ missed' = FALSE

ScreenInit == glass = "dark" /\ refresh = FALSE /\ missed = FALSE

ScreenTypeOK == /\ glass \in {"dark", "local", "part", "drawing", "face"}
                /\ {refresh, missed} \subseteq BOOLEAN

\* Whatever restarts, and whatever an upload throws away, the panel comes to show the
\* whole of the ESP32's picture, with nothing of another left: unless the hello that
\* tells of a restart was lost, or the request for a repaint.
PanelComesRight == []<>(~On \/ gd # "run" \/ glass = "face" \/ missed)
=============================================================================
