--------------------------- MODULE Features_proofs ---------------------------
(***************************************************************************)
(* The features keep their state and their scripts together, whichever of  *)
(* them takes sound and screen from which.                                 *)
(*                                                                         *)
(* A script is an operator on the state, and scripts call each other, so   *)
(* the proof follows the scripts and not the actions: what a script may    *)
(* change is a lemma of its own (`ScreenOnly': only what is on the screen; *)
(* `TimerGone': the timer as well, because it lost the screen), and every  *)
(* script leads from a state of the invariant `Sound' to another (`Leads').*)
(* `Sound' is inductive where the invariants are not: it adds that the     *)
(* minute of silence has its script, that LEDs no update has taken are the *)
(* silence's or CO2's, and that a siren is never taken for less than one.  *)
(*                                                                         *)
(* What is on the screen is the second half, and the invariant `Shows': it *)
(* adds to ShownByOwner that the mode is the owner's, that the device id   *)
(* holds the face stale (so the face comes back when it goes), and that    *)
(* the timer on the screen is known to refresh_timer_ui.  In the middle of *)
(* a script less holds: `Core' always, `Core0' while one feature hands the *)
(* screen to another, and `LitOr' while the dial is still to come up.      *)
(***************************************************************************)
EXTENDS Features, TLAPS

-----------------------------------------------------------------------------
(* The state as a record, and what a script may change in it. *)

Fields ==
  {"prio", "owner", "mode", "screen", "sacred", "test", "snooze", "ledPrio", "ledOwner", "heard", "leds",
   "run", "enabled", "ringing", "tstate", "preset", "left", "tui", "silence", "updating", "shown", "hold",
   "face", "dial"}

IsState(u) == u = [f \in Fields |-> u[f]]

\* v differs from u in nothing but the fields S.
Changes(u, v, S) == IsState(v) /\ \A f \in Fields \ S : v[f] = u[f]

\* What belongs to the screen: whoever shows something on it changes no more.
ScreenFields == {"mode", "screen", "shown", "hold", "face", "dial", "tui", "run"}
ScreenScripts == Views \cup {"show_device_id"}
SoundFields == {"prio", "owner", "heard"}
TimerFields == {"tstate", "preset", "left"}
TimerScripts == {"timer_arm_commit", "timer_countdown", "timer_ring"}
OtherScripts == {"alarm_ring", "alarm_snooze", "silence", "siren"}
Scripts == ScreenScripts \cup TimerScripts \cup OtherScripts

ScreenTyped(u) ==
  /\ u.mode \in {ClockMode, ViewMode, ToolMode, OverlayMode, SilenceMode}
  /\ u.screen \in {"clock", "timer", "overlay", "silence"} \cup Views
  /\ u.run \subseteq Scripts /\ u.tui \in {"clock", "timer", "hidden"}
  /\ u.shown \subseteq Views /\ u.face \in {"stale", "clock", "silence"}

\* The scripts S wait in u if and only if they wait in v.
SameScripts(u, v, S) == \A s \in S : s \in u.run <=> s \in v.run

ScreenOnly(u, v) == /\ Changes(u, v, ScreenFields) /\ SameScripts(u, v, TimerScripts \cup OtherScripts)
                    /\ ScreenTyped(u) => ScreenTyped(v)

\* The timer is off in v, and its sound if it was that.
TimerGone(u, v) ==
  /\ Changes(u, v, ScreenFields \cup SoundFields \cup TimerFields) /\ SameScripts(u, v, OtherScripts)
  /\ ScreenTyped(u) => ScreenTyped(v)
  /\ v.tstate = "idle" /\ v.preset = 0 /\ v.left = 0 /\ v.run \cap TimerScripts = {}
  /\ v.prio = Stop(u, "timer").prio /\ v.owner = Stop(u, "timer").owner /\ v.heard = Stop(u, "timer").heard

\* Somebody loses the screen, or nobody.
Preempts(u, v) == ScreenOnly(u, v) \/ TimerGone(u, v)

LEMMA ScreenOnlyGoesOn ==
  ASSUME NEW u, NEW v, NEW w, ScreenOnly(u, v)
  PROVE  /\ ScreenOnly(v, w) => ScreenOnly(u, w)
         /\ TimerGone(v, w) => TimerGone(u, w)
<1>1. ScreenOnly(v, w) => ScreenOnly(u, w)
  BY DEF ScreenOnly, Changes, SameScripts
<1>2. /\ Stop(u, "timer").prio = Stop(v, "timer").prio /\ Stop(u, "timer").owner = Stop(v, "timer").owner
      /\ Stop(u, "timer").heard = Stop(v, "timer").heard
  <2>0. IsState(v)
    BY DEF ScreenOnly, Changes
  <2>1. v.prio = u.prio /\ v.owner = u.owner /\ v.heard = u.heard
    BY DEF ScreenOnly, Changes, Fields, ScreenFields
  <2> QED
    BY <2>0, <2>1 DEF Stop, IsState, Fields
<1>3. TimerGone(v, w) => TimerGone(u, w)
  BY <1>2 DEF ScreenOnly, TimerGone, Changes, SameScripts
<1> QED
  BY <1>1, <1>3

LEMMA TimerGoneGoesOn ==
  ASSUME NEW u, NEW v, NEW w, TimerGone(u, v), ScreenOnly(v, w)
  PROVE  TimerGone(u, w)
BY DEF ScreenOnly, TimerGone, Changes, SameScripts, Fields, ScreenFields

-----------------------------------------------------------------------------
(* What the scripts change. *)

Screens == {"clock", "timer", "overlay", "silence"} \cup Views
Modes == {ClockMode, ViewMode, ToolMode, OverlayMode, SilenceMode}

LEMMA SameIsScreenOnly == ASSUME NEW u, IsState(u) PROVE ScreenOnly(u, u)
BY DEF ScreenOnly, Changes, SameScripts

LEMMA TakeScreenOnly ==
  ASSUME NEW u, IsState(u), NEW m \in Modes, NEW who \in Screens
  PROVE  ScreenOnly(u, TakeScreen(u, m, who))
BY DEF TakeScreen, ScreenOnly, Changes, IsState, Fields, ScreenFields, SameScripts, ScreenTyped, Modes, Screens

LEMMA ToClockOnly == ASSUME NEW u, IsState(u) PROVE ScreenOnly(u, ToClock(u))
BY DEF ToClock, ScreenOnly, Changes, IsState, Fields, ScreenFields, SameScripts, ScreenTyped

LEMMA ReleaseOnly == ASSUME NEW u, IsState(u), NEW who PROVE ScreenOnly(u, Release(u, who))
BY ToClockOnly, SameIsScreenOnly DEF Release

LEMMA StoppedOnly ==
  ASSUME NEW u, IsState(u), NEW scripts \in SUBSET ScreenScripts PROVE ScreenOnly(u, Stopped(u, scripts))
BY DEF Stopped, ScreenOnly, Changes, IsState, Fields, ScreenFields, SameScripts, ScreenTyped, ScreenScripts, TimerScripts,
       OtherScripts, Views

LEMMA WaitsOnly ==
  ASSUME NEW u, IsState(u), NEW script \in ScreenScripts PROVE ScreenOnly(u, Waits(u, script))
BY DEF Waits, ScreenOnly, Changes, IsState, Fields, ScreenFields, SameScripts, ScreenTyped, Scripts, ScreenScripts, TimerScripts,
       OtherScripts, Views

\* Assignments to what is shown.
LEMMA ShowsOnly ==
  ASSUME NEW u, IsState(u)
  PROVE  /\ \A want \in {"clock", "timer"} : \A dial : ScreenOnly(u, [u EXCEPT !.tui = want, !.dial = dial])
         /\ ScreenOnly(u, [u EXCEPT !.tui = "hidden"])
         /\ \A want \in {"clock", "silence"} : \A dial : ScreenOnly(u, [u EXCEPT !.face = want, !.dial = dial])
         /\ ScreenOnly(u, [u EXCEPT !.face = "stale"])
         /\ \A dial : ScreenOnly(u, [u EXCEPT !.face = "stale", !.dial = dial])
         /\ \A hold : ScreenOnly(u, [u EXCEPT !.hold = hold])
         /\ \A dial, hold : ScreenOnly(u, [u EXCEPT !.dial = dial, !.hold = hold])
<1> USE DEF ScreenOnly, Changes, IsState, Fields, ScreenFields, SameScripts, ScreenTyped
<1>1. ASSUME NEW want \in {"clock", "timer"}, NEW dial PROVE ScreenOnly(u, [u EXCEPT !.tui = want, !.dial = dial])
  OBVIOUS
<1>2. ScreenOnly(u, [u EXCEPT !.tui = "hidden"])
  OBVIOUS
<1>3. ASSUME NEW want \in {"clock", "silence"}, NEW dial PROVE ScreenOnly(u, [u EXCEPT !.face = want, !.dial = dial])
  OBVIOUS
<1>4. ScreenOnly(u, [u EXCEPT !.face = "stale"])
  OBVIOUS
<1>5. ASSUME NEW dial PROVE ScreenOnly(u, [u EXCEPT !.face = "stale", !.dial = dial])
  OBVIOUS
<1>6. ASSUME NEW hold PROVE ScreenOnly(u, [u EXCEPT !.hold = hold])
  OBVIOUS
<1>7. ASSUME NEW dial, NEW hold PROVE ScreenOnly(u, [u EXCEPT !.dial = dial, !.hold = hold])
  OBVIOUS
<1> HIDE DEF ScreenOnly
<1> QED
  BY <1>1, <1>2, <1>3, <1>4, <1>5, <1>6, <1>7

LEMMA RefreshTimerUiOnly == ASSUME NEW u, IsState(u) PROVE ScreenOnly(u, RefreshTimerUi(u))
<1> DEFINE want == IF u.tstate \in {"arming", "ringing"} \/ FinalMinute(u) THEN "timer" ELSE "clock"
           shows == [u EXCEPT !.tui = want, !.dial = (want = "clock")]
<1>1. want \in {"clock", "timer"}
  OBVIOUS
<1> HIDE DEF want
<1>2. ScreenOnly(u, shows) /\ ScreenOnly(u, [u EXCEPT !.tui = "hidden"])
  BY <1>1, ShowsOnly
<1> HIDE DEF shows
<1>3. IsState(shows)
  BY <1>2 DEF ScreenOnly, Changes
<1>4. ScreenOnly(shows, TakeScreen(shows, ToolMode, "timer")) /\ ScreenOnly(shows, Release(shows, "timer"))
  BY <1>3, TakeScreenOnly, ReleaseOnly DEF Modes, Screens
<1>5. ScreenOnly(u, TakeScreen(shows, ToolMode, "timer")) /\ ScreenOnly(u, Release(shows, "timer"))
  BY <1>2, <1>4, ScreenOnlyGoesOn
<1>6. ScreenOnly(u, u)
  BY SameIsScreenOnly
<1>7. RefreshTimerUi(u) \in {u, [u EXCEPT !.tui = "hidden"], TakeScreen(shows, ToolMode, "timer"),
                             Release(shows, "timer")}
  BY DEF RefreshTimerUi, want, shows
<1> QED
  BY <1>2, <1>5, <1>6, <1>7

LEMMA CloseViewsOnly == ASSUME NEW u, IsState(u), ScreenTyped(u) PROVE ScreenOnly(u, CloseViews(u))
<1> DEFINE S == {Timeout(v) : v \in u.shown}
           closed == [u EXCEPT !.shown = {}, !.run = @ \ S]
<1>1. S \subseteq Views
  BY DEF ScreenTyped, Timeout
<1> HIDE DEF S
<1>2. ScreenOnly(u, closed)
  BY <1>1 DEF ScreenOnly, Changes, IsState, Fields, ScreenFields, SameScripts, ScreenTyped, Views, TimerScripts, OtherScripts
<1>3. IsState(closed)
  BY <1>2 DEF ScreenOnly, Changes
<1> HIDE DEF closed
<1>4. ScreenOnly(u, ToClock(closed))
  BY <1>2, <1>3, ToClockOnly, ScreenOnlyGoesOn
<1> QED
  BY <1>2, <1>4 DEF CloseViews, closed, S

LEMMA RefreshFaceOnly == ASSUME NEW u, IsState(u), ScreenTyped(u) PROVE ScreenOnly(u, RefreshFace(u))
<1> DEFINE dark == [u EXCEPT !.face = "silence", !.dial = FALSE]
           lit == [u EXCEPT !.face = "clock", !.dial = TRUE]
<1>1. ScreenOnly(u, dark) /\ ScreenOnly(u, lit)
  BY ShowsOnly
<1> HIDE DEF dark, lit
<1>2. IsState(dark) /\ IsState(lit) /\ ScreenTyped(dark)
  BY <1>1 DEF ScreenOnly, Changes
<1>3. ScreenOnly(u, CloseViews(dark)) /\ ScreenOnly(u, RefreshTimerUi(lit))
  BY <1>1, <1>2, CloseViewsOnly, RefreshTimerUiOnly, ScreenOnlyGoesOn
<1>4. RefreshFace(u) \in {u, CloseViews(dark), RefreshTimerUi(lit)}
  BY DEF RefreshFace, dark, lit
<1> QED
  BY <1>3, <1>4, SameIsScreenOnly

LEMMA HideViewOnly ==
  ASSUME NEW u, IsState(u), ScreenTyped(u), NEW v \in Views PROVE ScreenOnly(u, HideView(u, v))
<1> DEFINE s == Stopped(u, {Timeout(v)})
           h == [s EXCEPT !.shown = @ \ {v}, !.dial = TRUE, !.face = "stale"]
<1>1. ScreenOnly(u, s)
  BY StoppedOnly DEF Timeout, ScreenScripts
<1>2. IsState(s) /\ ScreenTyped(s)
  BY <1>1 DEF ScreenOnly, Changes
<1> HIDE DEF s
<1>3. ScreenOnly(s, h)
  BY <1>2 DEF ScreenOnly, Changes, IsState, Fields, ScreenFields, SameScripts, ScreenTyped
<1>4. IsState(h)
  BY <1>3 DEF ScreenOnly, Changes
<1> HIDE DEF h
<1>5. ScreenOnly(h, Release(h, v)) 
  BY <1>4, ReleaseOnly
<1>6. ScreenOnly(u, Release(h, v))
  BY <1>1, <1>3, <1>5, ScreenOnlyGoesOn
<1>7. IsState(Release(h, v)) /\ ScreenTyped(Release(h, v))
  BY <1>6 DEF ScreenOnly, Changes
<1>8. ScreenOnly(u, RefreshFace(Release(h, v)))
  BY <1>6, <1>7, RefreshFaceOnly, ScreenOnlyGoesOn
<1> QED
  BY <1>8 DEF HideView, h, s

LEMMA OverlayOnly ==
  ASSUME NEW u, IsState(u), ScreenTyped(u)
  PROVE  ScreenOnly(u, DropOverlay(u)) /\ ScreenOnly(u, OverlayOver(u))
<1> DEFINE s == Stopped(u, {"show_device_id"})
           r == Release(s, "overlay")
           lit == [r EXCEPT !.dial = TRUE, !.hold = FALSE]
<1>1. ScreenOnly(u, s)
  BY StoppedOnly DEF ScreenScripts
<1>2. IsState(s)
  BY <1>1 DEF ScreenOnly, Changes
<1> HIDE DEF s
<1>3. ScreenOnly(u, r)
  BY <1>1, <1>2, ReleaseOnly, ScreenOnlyGoesOn
<1>4. IsState(r)
  BY <1>3 DEF ScreenOnly, Changes
<1> HIDE DEF r
<1>5. ScreenOnly(r, [r EXCEPT !.hold = FALSE]) /\ ScreenOnly(r, lit)
  BY <1>4, ShowsOnly
<1>6. ScreenOnly(u, [r EXCEPT !.hold = FALSE]) /\ ScreenOnly(u, lit)
  BY <1>3, <1>5, ScreenOnlyGoesOn
<1> HIDE DEF lit
<1>7. IsState(lit) /\ ScreenTyped(lit)
  BY <1>6 DEF ScreenOnly, Changes
<1>8. ScreenOnly(u, RefreshFace(lit))
  BY <1>6, <1>7, RefreshFaceOnly, ScreenOnlyGoesOn
<1> QED
  BY <1>6, <1>8 DEF DropOverlay, OverlayOver, lit, r, s

LEMMA TimerOffGone ==
  ASSUME NEW u, IsState(u), ScreenTyped(u), NEW scripts \in SUBSET TimerScripts, u.run \cap TimerScripts \subseteq scripts
  PROVE  TimerGone(u, TimerOff(u, scripts))
<1> DEFINE s == [Stopped(u, scripts) EXCEPT !.tstate = "idle", !.preset = 0, !.left = 0]
           p == Stop(s, "timer")
<1>1. /\ Changes(u, s, {"run"} \cup TimerFields) /\ SameScripts(u, s, OtherScripts) /\ ScreenTyped(s)
      /\ s.tstate = "idle" /\ s.preset = 0 /\ s.left = 0 /\ s.run \cap TimerScripts = {}
      /\ s.prio = u.prio /\ s.owner = u.owner /\ s.heard = u.heard
  BY DEF Stopped, Changes, IsState, Fields, TimerFields, SameScripts, ScreenTyped, TimerScripts, OtherScripts
<1> HIDE DEF s
<1>2. Changes(s, p, SoundFields)
  BY <1>1 DEF Stop, Changes, IsState, Fields, SoundFields
<1>3. p.prio = Stop(u, "timer").prio /\ p.owner = Stop(u, "timer").owner /\ p.heard = Stop(u, "timer").heard
  <2>1. IsState(s)
    BY <1>1 DEF Changes
  <2> QED
    BY <1>1, <2>1 DEF Stop, IsState, Fields
<1> HIDE DEF p
<1>4. TimerGone(u, p)
  BY <1>1, <1>2, <1>3 DEF TimerGone, Changes, SameScripts, ScreenTyped, Fields, ScreenFields, SoundFields, TimerFields
<1>5. IsState(p)
  BY <1>2 DEF Changes
<1>6. ScreenOnly(p, Release(p, "timer"))
  BY <1>5, ReleaseOnly
<1>7. IsState(Release(p, "timer"))
  BY <1>6 DEF ScreenOnly, Changes
<1>8. ScreenOnly(p, RefreshTimerUi(Release(p, "timer")))
  BY <1>6, <1>7, RefreshTimerUiOnly, ScreenOnlyGoesOn
<1> QED
  BY <1>4, <1>8, TimerGoneGoesOn DEF TimerOff, p, s

LEMMA TimerCancelGone == ASSUME NEW u, IsState(u), ScreenTyped(u) PROVE TimerGone(u, TimerCancel(u))
BY TimerOffGone DEF TimerCancel, TimerScripts

LEMMA PreemptedPreempts ==
  ASSUME NEW u, IsState(u), ScreenTyped(u), NEW previous PROVE Preempts(u, Preempted(u, previous))
BY TimerCancelGone, HideViewOnly, OverlayOnly, SameIsScreenOnly DEF Preempted, Preempts

LEMMA RequestPreempts ==
  ASSUME NEW u, IsState(u), ScreenTyped(u), NEW m \in Modes, NEW who \in Screens
  PROVE  Preempts(u, Request(u, m, who))
<1> DEFINE t == TakeScreen(u, m, who)
<1>1. ScreenOnly(u, t)
  BY TakeScreenOnly
<1>2. IsState(t) /\ ScreenTyped(t)
  BY <1>1 DEF ScreenOnly, Changes
<1> HIDE DEF t
<1>3. Preempts(t, Preempted(t, u.screen))
  BY <1>2, PreemptedPreempts
<1>4. Preempts(u, Preempted(t, u.screen))
  BY <1>1, <1>3, ScreenOnlyGoesOn DEF Preempts
<1> QED
  BY <1>1, <1>4 DEF Request, t, Preempts

LEMMA PreemptToClockPreempts ==
  ASSUME NEW u, IsState(u), ScreenTyped(u) PROVE Preempts(u, PreemptToClock(u))
<1> DEFINE t == ToClock(u)
<1>1. ScreenOnly(u, t)
  BY ToClockOnly
<1>2. IsState(t) /\ ScreenTyped(t)
  BY <1>1 DEF ScreenOnly, Changes
<1> HIDE DEF t
<1>3. Preempts(t, Preempted(t, u.screen))
  BY <1>2, PreemptedPreempts
<1>4. Preempts(u, Preempted(t, u.screen))
  BY <1>1, <1>3, ScreenOnlyGoesOn DEF Preempts
<1> QED
  BY <1>4, SameIsScreenOnly DEF PreemptToClock, t, Preempts

LEMMA PreemptsGoesOn ==
  ASSUME NEW u, NEW v, NEW w, Preempts(u, v), ScreenOnly(v, w)
  PROVE  Preempts(u, w)
BY ScreenOnlyGoesOn, TimerGoneGoesOn DEF Preempts

LEMMA ShowViewPreempts ==
  ASSUME NEW u, IsState(u), ScreenTyped(u), NEW v \in Views PROVE Preempts(u, ShowView(u, v))
<1> DEFINE asked == Request(u, ViewMode, v)
           shown == [asked EXCEPT !.shown = @ \cup {v}, !.face = "stale", !.dial = FALSE]
<1>1. Preempts(u, asked)
  BY RequestPreempts DEF Modes, Screens
<1>2. IsState(asked) /\ ScreenTyped(asked)
  BY <1>1 DEF Preempts, ScreenOnly, TimerGone, Changes
<1> HIDE DEF asked
<1>3. ScreenOnly(asked, shown)
  BY <1>2 DEF ScreenOnly, Changes, IsState, Fields, ScreenFields, SameScripts, ScreenTyped
<1>4. IsState(shown)
  BY <1>3 DEF ScreenOnly, Changes
<1> HIDE DEF shown
<1>5. ScreenOnly(asked, Waits(asked, Timeout(v))) /\ ScreenOnly(shown, Waits(shown, Timeout(v)))
  BY <1>2, <1>4, WaitsOnly DEF Timeout, ScreenScripts
<1>6. Preempts(u, Waits(asked, Timeout(v))) /\ Preempts(u, Waits(shown, Timeout(v)))
  BY <1>1, <1>3, <1>5, PreemptsGoesOn
<1>7. ShowView(u, v) = Waits(IF Granted(u, ViewMode, v) THEN shown ELSE asked, Timeout(v))
  BY DEF ShowView, asked, shown
<1> QED
  BY <1>6, <1>7

LEMMA ShowDeviceIdPreempts ==
  ASSUME NEW u, IsState(u), ScreenTyped(u) PROVE Preempts(u, ShowDeviceId(u))
<1> DEFINE h == [u EXCEPT !.hold = TRUE]
           r == Request(h, OverlayMode, "overlay")
           w == Waits(r, "show_device_id")
<1>1. ScreenOnly(u, h)
  BY ShowsOnly
<1>2. IsState(h) /\ ScreenTyped(h)
  BY <1>1 DEF ScreenOnly, Changes
<1> HIDE DEF h
<1>3. Preempts(h, r)
  BY <1>2, RequestPreempts DEF Modes, Screens
<1>4. IsState(r)
  BY <1>3 DEF Preempts, ScreenOnly, TimerGone, Changes
<1> HIDE DEF r
<1>5. ScreenOnly(r, w)
  BY <1>4, WaitsOnly DEF ScreenScripts
<1>6. IsState(w)
  BY <1>5 DEF ScreenOnly, Changes
<1> HIDE DEF w
<1>7. ScreenOnly(w, [w EXCEPT !.face = "stale", !.dial = FALSE])
  BY <1>6, ShowsOnly
<1>8. Preempts(h, [w EXCEPT !.face = "stale", !.dial = FALSE])
  BY <1>3, <1>5, <1>7, PreemptsGoesOn
<1>9. Preempts(u, [w EXCEPT !.face = "stale", !.dial = FALSE])
  BY <1>1, <1>8, ScreenOnlyGoesOn DEF Preempts
<1> QED
  BY <1>9 DEF ShowDeviceId, w, r, h

-----------------------------------------------------------------------------
(* The invariant. *)

RestTyped(u) ==
  /\ u.prio \in {0, UiSound, Notification, AlarmSound, AlertSound}
  /\ u.owner \in {Nobody, "timer", "alarm", "silence", "alert"}
  /\ u.ledPrio \in {0, Co2Leds, SilenceLeds, UpdateLeds}
  /\ u.tstate \in {"idle", "arming", "running", "paused", "ringing"}
  /\ u.preset \in 0 .. Presets /\ u.left \in 0 .. 2
  /\ u.silence \in {"off", "ticking", "anthem"}

AlarmMatch(u) ==
  /\ u.ringing <=> "alarm_ring" \in u.run
  /\ u.snooze => "alarm_snooze" \in u.run
  /\ "alarm_snooze" \in u.run => u.snooze \/ u.ringing

\* There is something to count, unless Home Assistant started the timer with nothing.
Given(u) == u.left # 0 \/ 0 \in HaTimes

TimerMatch(u) ==
  /\ u.tstate = "arming" <=> "timer_arm_commit" \in u.run
  /\ u.tstate = "ringing" <=> "timer_ring" \in u.run
  /\ (u.tstate = "running" /\ u.left # 0) <=> "timer_countdown" \in u.run
  /\ u.tstate \in {"running", "paused"} => Given(u)

SilenceMatch(u) ==
  /\ u.silence # "off" <=> "silence" \in u.run
  /\ u.silence # "off" <=> Silent(u)

\* The siren is not taken for less than it is.
SoundMatch(u) == u.owner = "alert" => u.prio = AlertSound

\* Until an update has the LEDs, they are the silence's while it lasts, CO2's otherwise.
LedMatch(u) ==
  \/ u.ledOwner = "ota" /\ u.ledPrio = UpdateLeds
  \/ Silent(u) /\ u.ledOwner = "silence" /\ u.ledPrio = SilenceLeds /\ u.leds = "silence"
  \/ ~Silent(u) /\ u.ledOwner = "co2" /\ u.ledPrio = Co2Leds /\ u.leds = "co2"

Sound(u) == /\ IsState(u) /\ ScreenTyped(u) /\ RestTyped(u)
            /\ AlarmMatch(u) /\ TimerMatch(u) /\ SilenceMatch(u) /\ SoundMatch(u) /\ LedMatch(u)

\* The buzzer is a ring's only while that rings.
RingMatch(u) == u.prio = AlarmSound => \/ u.owner = "alarm" /\ u.ringing
                                       \/ u.owner = "timer" /\ u.tstate = "ringing"

\* The siren keeps its rank, and is not heard less than it was but for beeps.
SirenKept(u, v) ==
  u.owner = "alert" /\ u.prio = AlertSound =>
    /\ v.owner = "alert" /\ v.prio = AlertSound
    /\ v.heard \in {u.heard, "alert", Beep, Nobody}

\* From u the scripts may go on to v.
Leads(u, v) == Sound(v) /\ SirenKept(u, v) /\ (RingMatch(u) => RingMatch(v))

LEMMA LeadsOn == ASSUME NEW u, NEW v, NEW w, Leads(u, v), Leads(v, w) PROVE Leads(u, w)
BY DEF Leads, SirenKept

LEMMA ScreenOnlyLeads == ASSUME NEW u, NEW v, Sound(u), ScreenOnly(u, v) PROVE Leads(u, v)
<1>1. \A f \in Fields \ ScreenFields : v[f] = u[f]
  BY DEF ScreenOnly, Changes
<1>2. /\ v.prio = u.prio /\ v.owner = u.owner /\ v.heard = u.heard
      /\ v.ledPrio = u.ledPrio /\ v.ledOwner = u.ledOwner /\ v.leds = u.leds
      /\ v.tstate = u.tstate /\ v.preset = u.preset /\ v.left = u.left /\ v.silence = u.silence
      /\ v.ringing = u.ringing /\ v.snooze = u.snooze /\ v.sacred = u.sacred /\ v.test = u.test
  BY <1>1 DEF Fields, ScreenFields
<1>3. \A s \in TimerScripts \cup OtherScripts : s \in u.run <=> s \in v.run
  BY DEF ScreenOnly, SameScripts
<1>4. IsState(v) /\ ScreenTyped(v)
  BY DEF Sound, ScreenOnly, Changes
<1>5. RestTyped(v) /\ SoundMatch(v) /\ SirenKept(u, v)
  BY <1>2 DEF Sound, RestTyped, SoundMatch, SirenKept
<1>6. AlarmMatch(v)
  BY <1>2, <1>3 DEF Sound, AlarmMatch, OtherScripts
<1>7. TimerMatch(v)
  BY <1>2, <1>3 DEF Sound, TimerMatch, Given, TimerScripts
<1>8. SilenceMatch(v) /\ LedMatch(v)
  BY <1>2, <1>3 DEF Sound, SilenceMatch, LedMatch, Silent, OtherScripts
<1>9. RingMatch(u) => RingMatch(v)
  BY <1>2 DEF RingMatch
<1> QED
  BY <1>4, <1>5, <1>6, <1>7, <1>8, <1>9 DEF Leads, Sound

LEMMA TimerGoneLeads == ASSUME NEW u, NEW v, Sound(u), TimerGone(u, v) PROVE Leads(u, v)
<1>1. \A f \in Fields \ (ScreenFields \cup SoundFields \cup TimerFields) : v[f] = u[f]
  BY DEF TimerGone, Changes
<1>2. /\ v.ledPrio = u.ledPrio /\ v.ledOwner = u.ledOwner /\ v.leds = u.leds /\ v.silence = u.silence
      /\ v.ringing = u.ringing /\ v.snooze = u.snooze /\ v.sacred = u.sacred /\ v.test = u.test
  BY <1>1 DEF Fields, ScreenFields, SoundFields, TimerFields
<1>3. \A s \in OtherScripts : s \in u.run <=> s \in v.run
  BY DEF TimerGone, SameScripts
<1>4. IsState(v) /\ ScreenTyped(v)
  BY DEF Sound, TimerGone, Changes
<1>5. \/ v.prio = u.prio /\ v.owner = u.owner /\ v.heard = u.heard /\ u.owner # "timer"
      \/ v.prio = 0 /\ v.owner = Nobody /\ (u.owner = "timer" \/ u.prio <= Notification)
  BY DEF TimerGone, Stop, Sound, IsState, Fields
<1>6. v.tstate = "idle" /\ v.preset = 0 /\ v.left = 0 /\ v.run \cap TimerScripts = {}
  BY DEF TimerGone
<1>7. RestTyped(v)
  <2>1. 0 \in 0 .. Presets
    BY FeaturesAssumption
  <2> QED
    BY <1>2, <1>5, <1>6, <2>1 DEF Sound, RestTyped
<1>8. SoundMatch(v) /\ SirenKept(u, v)
  BY <1>5 DEF Sound, SoundMatch, SirenKept, Nobody, AlertSound, Notification
<1>9. AlarmMatch(v)
  BY <1>2, <1>3 DEF Sound, AlarmMatch, OtherScripts
<1>10. TimerMatch(v)
  BY <1>6 DEF TimerMatch, TimerScripts
<1>11. SilenceMatch(v) /\ LedMatch(v)
  BY <1>2, <1>3 DEF Sound, SilenceMatch, LedMatch, Silent, OtherScripts
<1>12. RingMatch(u) => RingMatch(v)
  BY <1>2, <1>5 DEF RingMatch, AlarmSound
<1> QED
  BY <1>4, <1>7, <1>8, <1>9, <1>10, <1>11, <1>12 DEF Leads, Sound

LEMMA PreemptsLeads == ASSUME NEW u, NEW v, Sound(u), Preempts(u, v) PROVE Leads(u, v)
BY ScreenOnlyLeads, TimerGoneLeads DEF Preempts

LEMMA SameLeads == ASSUME NEW u, Sound(u) PROVE Leads(u, u)
BY DEF Leads, SirenKept

\* What the buzzer, the LEDs and the scripts do by themselves: nothing of the rest.
LEMMA SoundLeads ==
  ASSUME NEW u, NEW v, Sound(u), Changes(u, v, SoundFields),
         v.prio \in {0, UiSound, Notification, AlarmSound, AlertSound},
         v.owner \in {Nobody, "timer", "alarm", "silence", "alert"},
         SoundMatch(v), SirenKept(u, v), RingMatch(u) => RingMatch(v)
  PROVE  Leads(u, v)
<1>1. \A f \in Fields \ SoundFields : v[f] = u[f]
  BY DEF Changes
<1>2. /\ v.ledPrio = u.ledPrio /\ v.ledOwner = u.ledOwner /\ v.leds = u.leds
      /\ v.tstate = u.tstate /\ v.preset = u.preset /\ v.left = u.left /\ v.silence = u.silence
      /\ v.ringing = u.ringing /\ v.snooze = u.snooze /\ v.sacred = u.sacred /\ v.test = u.test
      /\ v.run = u.run /\ v.mode = u.mode /\ v.screen = u.screen /\ v.tui = u.tui /\ v.shown = u.shown
      /\ v.face = u.face
  BY <1>1 DEF Fields, SoundFields
<1>3. IsState(v) /\ ScreenTyped(v) /\ RestTyped(v)
  BY <1>2 DEF Sound, Changes, ScreenTyped, RestTyped
<1>4. AlarmMatch(v) /\ TimerMatch(v) /\ SilenceMatch(v) /\ LedMatch(v)
  BY <1>2 DEF Sound, AlarmMatch, TimerMatch, Given, SilenceMatch, LedMatch, Silent
<1> QED
  BY <1>3, <1>4 DEF Leads, Sound

Quiet == {UiSound, Notification}
LEMMA PlayLeads ==
  ASSUME NEW u, Sound(u), NEW p, NEW who \in {"timer", "alarm", "silence", "alert"},
         \/ p \in Quiet /\ who # "alert"
         \/ p = AlertSound /\ who = "alert"
         \/ p = AlarmSound /\ ((who = "alarm" /\ u.ringing) \/ (who = "timer" /\ u.tstate = "ringing"))
  PROVE  Leads(u, Play(u, p, who))
<1>1. CASE p >= u.prio
  <2> DEFINE v == [u EXCEPT !.prio = p, !.owner = who, !.heard = who]
  <2>1. IsState(u)
    BY DEF Sound
  <2>2. /\ Changes(u, v, SoundFields) /\ v.prio = p /\ v.owner = who /\ v.heard = who
        /\ v.ringing = u.ringing /\ v.tstate = u.tstate
    BY <2>1 DEF Changes, IsState, SoundFields, Fields
  <2> HIDE DEF v
  <2>3. p \in {0, UiSound, Notification, AlarmSound, AlertSound}
    BY DEF Quiet
  <2>4. SoundMatch(v)
    BY <2>2 DEF SoundMatch
  <2>5. SirenKept(u, v)
    BY <1>1, <2>2 DEF SirenKept, Quiet, UiSound, Notification, AlarmSound, AlertSound
  <2>6. RingMatch(v)
    BY <2>2 DEF RingMatch, Quiet, UiSound, Notification, AlarmSound, AlertSound
  <2>7. Leads(u, v)
    BY <2>2, <2>3, <2>4, <2>5, <2>6, SoundLeads
  <2> QED
    BY <1>1, <2>7 DEF Play, v
<1>2. CASE ~(p >= u.prio)
  BY <1>2, SameLeads DEF Play
<1> QED
  BY <1>1, <1>2

LEMMA StopLeads ==
  ASSUME NEW u, Sound(u), NEW who, who # "alert" PROVE Leads(u, Stop(u, who))
<1> DEFINE v == [u EXCEPT !.prio = 0, !.owner = Nobody, !.heard = Nobody]
<1>1. CASE who = u.owner \/ u.prio <= Notification
  <2>1. IsState(u)
    BY DEF Sound
  <2>2. Changes(u, v, SoundFields) /\ v.prio = 0 /\ v.owner = Nobody
    BY <2>1 DEF Changes, IsState, SoundFields, Fields
  <2> HIDE DEF v
  <2>3. SoundMatch(v) /\ RingMatch(v)
    BY <2>2 DEF SoundMatch, RingMatch, Nobody, AlarmSound
  <2>4. SirenKept(u, v)
    BY <1>1 DEF SirenKept, AlertSound, Notification
  <2>5. Leads(u, v)
    BY <2>2, <2>3, <2>4, SoundLeads
  <2> QED
    BY <1>1, <2>5 DEF Stop, v
<1>2. CASE ~(who = u.owner \/ u.prio <= Notification)
  BY <1>2, SameLeads DEF Stop
<1> QED
  BY <1>1, <1>2

LEMMA WhatIsHeard ==
  ASSUME NEW u, Sound(u), NEW who \in {Beep, Nobody} PROVE Leads(u, [u EXCEPT !.heard = who])
<1> DEFINE v == [u EXCEPT !.heard = who]
<1>1. IsState(u)
  BY DEF Sound
<1>2. /\ Changes(u, v, SoundFields) /\ v.prio = u.prio /\ v.owner = u.owner /\ v.heard = who
      /\ v.ringing = u.ringing /\ v.tstate = u.tstate
  BY <1>1 DEF Changes, IsState, SoundFields, Fields
<1> HIDE DEF v
<1>3. Leads(u, v)
  BY <1>2, SoundLeads DEF Sound, RestTyped, SoundMatch, SirenKept, RingMatch
<1> QED
  BY <1>3 DEF v

LEMMA HeardLeads ==
  ASSUME NEW u, Sound(u) PROVE Leads(u, BeepDirect(u)) /\ Leads(u, [u EXCEPT !.heard = Nobody])
BY WhatIsHeard DEF BeepDirect

\* CO2 takes the LEDs only while they are its own.
LEMMA RefreshLedsLeads ==
  ASSUME NEW u, Sound(u) PROVE Leads(u, RefreshLeds(u))
<1>1. CASE u.ledPrio > Co2Leds
  BY <1>1, SameLeads DEF RefreshLeds
<1>2. CASE ~(u.ledPrio > Co2Leds)
  <2>1. u.ledOwner = "co2" /\ u.ledPrio = Co2Leds /\ u.leds = "co2"
    BY <1>2 DEF Sound, LedMatch, UpdateLeds, SilenceLeds, Co2Leds
  <2>2. [u EXCEPT !.ledPrio = Co2Leds, !.ledOwner = "co2", !.leds = "co2"] = u
    BY <2>1 DEF Sound, IsState
  <2>3. RefreshLeds(u) = u
    BY <1>2, <2>2 DEF RefreshLeds, SetLeds
  <2> QED
    BY <2>3, SameLeads
<1> QED
  BY <1>1, <1>2

\* The alarm's own fields.
AlarmFields == {"run", "snooze", "ringing", "enabled"}

LEMMA AlarmStays ==
  ASSUME NEW u, NEW v, Sound(u), Changes(u, v, AlarmFields), v.run \subseteq Scripts,
         SameScripts(u, v, TimerScripts \cup {"silence"}), AlarmMatch(v)
  PROVE  Sound(v) /\ SirenKept(u, v)
<1>1. \A f \in Fields \ AlarmFields : v[f] = u[f]
  BY DEF Changes
<1>2. /\ v.prio = u.prio /\ v.owner = u.owner /\ v.heard = u.heard
      /\ v.ledPrio = u.ledPrio /\ v.ledOwner = u.ledOwner /\ v.leds = u.leds
      /\ v.tstate = u.tstate /\ v.preset = u.preset /\ v.left = u.left /\ v.silence = u.silence
      /\ v.sacred = u.sacred /\ v.test = u.test /\ v.mode = u.mode /\ v.screen = u.screen
      /\ v.tui = u.tui /\ v.shown = u.shown /\ v.face = u.face
  BY <1>1 DEF Fields, AlarmFields
<1>3. IsState(v) /\ ScreenTyped(v) /\ RestTyped(v)
  BY <1>2 DEF Sound, Changes, ScreenTyped, RestTyped
<1>4. TimerMatch(v)
  BY <1>2 DEF Sound, TimerMatch, Given, SameScripts, TimerScripts
<1>5. SilenceMatch(v)
  BY <1>2 DEF Sound, SilenceMatch, Silent, SameScripts
<1>6. LedMatch(v) /\ SoundMatch(v) /\ SirenKept(u, v)
  BY <1>2 DEF Sound, LedMatch, Silent, SoundMatch, SirenKept
<1> QED
  BY <1>3, <1>4, <1>5, <1>6 DEF Sound

LEMMA EnabledLeads == ASSUME NEW u, Sound(u), NEW b PROVE Leads(u, [u EXCEPT !.enabled = b])
<1> DEFINE v == [u EXCEPT !.enabled = b]
<1>1. IsState(u)
  BY DEF Sound
<1>2. /\ Changes(u, v, AlarmFields) /\ v.run = u.run /\ v.ringing = u.ringing /\ v.snooze = u.snooze
      /\ v.prio = u.prio /\ v.owner = u.owner /\ v.tstate = u.tstate
  BY <1>1 DEF Changes, IsState, AlarmFields, Fields
<1> HIDE DEF v
<1>3. AlarmMatch(v) /\ v.run \subseteq Scripts /\ SameScripts(u, v, TimerScripts \cup {"silence"})
  BY <1>2 DEF Sound, AlarmMatch, ScreenTyped, SameScripts
<1>4. RingMatch(u) => RingMatch(v)
  BY <1>2 DEF RingMatch
<1> QED
  BY <1>2, <1>3, <1>4, AlarmStays DEF Leads, v

\* The ring stops: w is u with the snooze it goes on with.
LEMMA AlarmStopLeads ==
  ASSUME NEW u, NEW w, Sound(u), Changes(u, w, {"run", "snooze"}), w.run \subseteq Scripts,
         SameScripts(u, w, TimerScripts \cup {"silence"}), w.snooze <=> "alarm_snooze" \in w.run
  PROVE  Leads(u, AlarmStop(w))
<1> DEFINE s == [Stopped(w, {"alarm_ring"}) EXCEPT !.ringing = FALSE]
           v == Stop(s, "alarm")
<1>1. IsState(w) /\ \A f \in Fields \ {"run", "snooze"} : w[f] = u[f]
  BY DEF Changes
<1>2. w.prio = u.prio /\ w.owner = u.owner /\ w.tstate = u.tstate
  BY <1>1 DEF Fields
<1>3. /\ Changes(w, s, {"run", "ringing"}) /\ s.run = w.run \ {"alarm_ring"} /\ s.ringing = FALSE
      /\ s.snooze = w.snooze /\ s.prio = w.prio /\ s.owner = w.owner /\ s.tstate = w.tstate
  BY <1>1 DEF Stopped, Changes, IsState, Fields
<1> HIDE DEF s
<1>4. Changes(u, s, AlarmFields)
  BY <1>1, <1>3 DEF Changes, AlarmFields
<1>5. s.run \subseteq Scripts /\ SameScripts(u, s, TimerScripts \cup {"silence"}) /\ AlarmMatch(s)
  BY <1>3 DEF SameScripts, AlarmMatch, TimerScripts
<1>6. Sound(s) /\ SirenKept(u, s)
  BY <1>4, <1>5, AlarmStays
<1>7. Leads(s, v)
  BY <1>6, StopLeads
<1>8. RingMatch(u) => RingMatch(v)
  <2>1. CASE s.owner = "alarm" \/ s.prio <= Notification
    <3>1. v.prio = 0
      BY <1>6, <2>1 DEF Stop, Sound, IsState, Fields
    <3> QED
      BY <3>1 DEF RingMatch, AlarmSound
  <2>2. CASE ~(s.owner = "alarm" \/ s.prio <= Notification)
    BY <1>2, <1>3, <2>2 DEF Stop, RingMatch
  <2> QED
    BY <2>1, <2>2
<1> QED
  BY <1>6, <1>7, <1>8 DEF Leads, SirenKept, AlarmStop, v, s

LEMMA AlarmDismissLeads == ASSUME NEW u, Sound(u) PROVE Leads(u, AlarmDismiss(u))
<1> DEFINE w == [Stopped(u, {"alarm_snooze"}) EXCEPT !.snooze = FALSE]
           quiet == AlarmStop(w)
<1>1. IsState(u) /\ u.run \subseteq Scripts
  BY DEF Sound, ScreenTyped
<1>2. Changes(u, w, {"run", "snooze"}) /\ w.run = u.run \ {"alarm_snooze"} /\ w.snooze = FALSE
  BY <1>1 DEF Stopped, Changes, IsState, Fields
<1> HIDE DEF w
<1>3. SameScripts(u, w, TimerScripts \cup {"silence"})
  BY <1>2 DEF SameScripts, TimerScripts
<1>4. Leads(u, quiet)
  BY <1>1, <1>2, <1>3, AlarmStopLeads
<1> HIDE DEF quiet
<1>5. Sound(quiet)
  BY <1>4 DEF Leads
<1>6. Leads(quiet, ShowView(quiet, "weather"))
  BY <1>5, ShowViewPreempts, PreemptsLeads DEF Sound, Views
<1>7. Leads(u, ShowView(quiet, "weather"))
  BY <1>4, <1>6, LeadsOn
<1> QED
  BY <1>4, <1>7 DEF AlarmDismiss, quiet, w

LEMMA AlarmSnoozeLeads == ASSUME NEW u, Sound(u) PROVE Leads(u, AlarmSnooze(u))
<1> DEFINE w == [Waits(u, "alarm_snooze") EXCEPT !.snooze = TRUE]
<1>1. IsState(u) /\ u.run \subseteq Scripts
  BY DEF Sound, ScreenTyped
<1>2. Changes(u, w, {"run", "snooze"}) /\ w.run = u.run \cup {"alarm_snooze"} /\ w.snooze = TRUE
  BY <1>1 DEF Waits, Changes, IsState, Fields
<1> HIDE DEF w
<1>3. SameScripts(u, w, TimerScripts \cup {"silence"}) /\ w.run \subseteq Scripts
  BY <1>1, <1>2 DEF SameScripts, TimerScripts, Scripts, OtherScripts
<1>4. Leads(u, AlarmStop(w))
  BY <1>2, <1>3, AlarmStopLeads
<1> QED
  BY <1>4 DEF AlarmSnooze, w

LEMMA AlarmRingLeads == ASSUME NEW u, Sound(u) PROVE Leads(u, AlarmRing(u))
<1> DEFINE w == [Waits(u, "alarm_ring") EXCEPT !.ringing = TRUE, !.snooze = FALSE]
           rings == Play(w, AlarmSound, "alarm")
           p == PreemptToClock(rings)
           stale == [p EXCEPT !.face = "stale"]
           seen == IF rings.mode # ClockMode THEN RefreshFace(stale) ELSE rings
<1>1. IsState(u) /\ u.run \subseteq Scripts
  BY DEF Sound, ScreenTyped
<1>2. /\ Changes(u, w, AlarmFields) /\ w.run = u.run \cup {"alarm_ring"} /\ w.ringing = TRUE /\ w.snooze = FALSE
      /\ w.prio = u.prio /\ w.owner = u.owner /\ w.tstate = u.tstate
  BY <1>1 DEF Waits, Changes, IsState, Fields, AlarmFields
<1> HIDE DEF w
<1>3. SameScripts(u, w, TimerScripts \cup {"silence"}) /\ w.run \subseteq Scripts /\ AlarmMatch(w)
  BY <1>1, <1>2 DEF SameScripts, TimerScripts, Scripts, OtherScripts, AlarmMatch
<1>4. RingMatch(u) => RingMatch(w)
  BY <1>2 DEF RingMatch
<1>5. Leads(u, w)
  BY <1>2, <1>3, <1>4, AlarmStays DEF Leads
<1>6. Leads(w, rings)
  BY <1>2, <1>5, PlayLeads DEF Leads
<1>7. Leads(u, rings)
  BY <1>5, <1>6, LeadsOn
<1> HIDE DEF rings
<1>8. Sound(rings)
  BY <1>7 DEF Leads
<1>9. Preempts(rings, p)
  BY <1>8, PreemptToClockPreempts DEF Sound
<1>10. IsState(p) /\ ScreenTyped(p)
  BY <1>8, <1>9, PreemptsLeads DEF Leads, Sound
<1> HIDE DEF p
<1>11. ScreenOnly(p, stale)
  BY <1>10, ShowsOnly
<1>12. IsState(stale) /\ ScreenTyped(stale)
  BY <1>10, <1>11 DEF ScreenOnly, Changes
<1> HIDE DEF stale
<1>13. Preempts(rings, RefreshFace(stale))
  BY <1>9, <1>11, <1>12, RefreshFaceOnly, PreemptsGoesOn
<1>14. Leads(rings, RefreshFace(stale))
  BY <1>8, <1>13, PreemptsLeads
<1>15. Leads(rings, seen)
  BY <1>8, <1>14, SameLeads
<1>16. Leads(u, seen)
  BY <1>7, <1>15, LeadsOn
<1> HIDE DEF seen
<1>17. Sound(seen)
  BY <1>16 DEF Leads
<1>18. Leads(seen, HideView(seen, "climate"))
  BY <1>17, HideViewOnly, ScreenOnlyLeads DEF Sound, Views
<1>19. Leads(u, HideView(seen, "climate"))
  BY <1>16, <1>18, LeadsOn
<1>20. AlarmRing(u) \in {u, seen, HideView(seen, "climate")}
  BY DEF AlarmRing, seen, stale, p, rings, w
<1> QED
  BY <1>16, <1>19, <1>20, SameLeads

LEMMA SnoozeOverLeads == ASSUME NEW u, Sound(u), "alarm_snooze" \in u.run PROVE Leads(u, AlarmSnoozeOver(u))
<1> DEFINE w == [Stopped(u, {"alarm_snooze"}) EXCEPT !.snooze = FALSE]
<1>1. IsState(u) /\ u.run \subseteq Scripts /\ AlarmMatch(u)
  BY DEF Sound, ScreenTyped
<1>2. /\ Changes(u, w, AlarmFields) /\ w.run = u.run \ {"alarm_snooze"} /\ w.snooze = FALSE
      /\ w.prio = u.prio /\ w.owner = u.owner /\ w.tstate = u.tstate /\ w.ringing = u.ringing
  BY <1>1 DEF Stopped, Changes, IsState, Fields, AlarmFields
<1> HIDE DEF w
<1>3. SameScripts(u, w, TimerScripts \cup {"silence"}) /\ w.run \subseteq Scripts /\ AlarmMatch(w)
  BY <1>1, <1>2 DEF SameScripts, TimerScripts, AlarmMatch
<1>4. RingMatch(u) => RingMatch(w)
  BY <1>2 DEF RingMatch
<1>5. Leads(u, w)
  BY <1>2, <1>3, <1>4, AlarmStays DEF Leads
<1>6. Sound(w)
  BY <1>5 DEF Leads
<1>7. Leads(u, AlarmRing(w))
  BY <1>5, <1>6, AlarmRingLeads, LeadsOn
<1> QED
  BY <1>5, <1>7 DEF AlarmSnoozeOver, w

-----------------------------------------------------------------------------
(* The timer. *)

\* v differs from u in the timer's fields and the screen's.
TimerMoves(u, v) == /\ Changes(u, v, ScreenFields \cup TimerFields) /\ SameScripts(u, v, OtherScripts)
                    /\ ScreenTyped(u) => ScreenTyped(v)

TimerTyped(u) == /\ u.tstate \in {"idle", "arming", "running", "paused", "ringing"}
                 /\ u.preset \in 0 .. Presets /\ u.left \in 0 .. 2

LEMMA TimerMovesOn ==
  ASSUME NEW u, NEW v, NEW w, TimerMoves(u, v), ScreenOnly(v, w)
  PROVE  /\ TimerMoves(u, w) /\ SameScripts(v, w, TimerScripts)
         /\ w.tstate = v.tstate /\ w.preset = v.preset /\ w.left = v.left
<1>1. TimerMoves(u, w) /\ SameScripts(v, w, TimerScripts)
  BY DEF TimerMoves, ScreenOnly, Changes, SameScripts
<1>2. w.tstate = v.tstate /\ w.preset = v.preset /\ w.left = v.left
  BY DEF ScreenOnly, Changes, Fields, ScreenFields
<1> QED
  BY <1>1, <1>2

LEMMA TimerMovesLeads ==
  ASSUME NEW u, NEW v, Sound(u), TimerMoves(u, v), TimerTyped(v), TimerMatch(v)
  PROVE  Sound(v) /\ SirenKept(u, v) /\ (u.tstate # "ringing" \/ v.tstate = "ringing" => Leads(u, v))
<1>1. \A f \in Fields \ (ScreenFields \cup TimerFields) : v[f] = u[f]
  BY DEF TimerMoves, Changes
<1>2. /\ v.prio = u.prio /\ v.owner = u.owner /\ v.heard = u.heard /\ v.ledPrio = u.ledPrio /\ v.ledOwner = u.ledOwner /\ v.leds = u.leds
      /\ v.silence = u.silence /\ v.sacred = u.sacred /\ v.test = u.test
      /\ v.ringing = u.ringing /\ v.snooze = u.snooze
  BY <1>1 DEF Fields, ScreenFields, TimerFields
<1>3. IsState(v) /\ ScreenTyped(v) /\ RestTyped(v)
  BY <1>2 DEF Sound, TimerMoves, Changes, RestTyped, TimerTyped
<1>4. AlarmMatch(v) /\ SilenceMatch(v)
  BY <1>2 DEF Sound, TimerMoves, AlarmMatch, SilenceMatch, Silent, SameScripts, OtherScripts
<1>5. LedMatch(v) /\ SoundMatch(v) /\ SirenKept(u, v)
  BY <1>2 DEF Sound, LedMatch, Silent, SoundMatch, SirenKept
<1>6. u.tstate # "ringing" \/ v.tstate = "ringing" => (RingMatch(u) => RingMatch(v))
  BY <1>2 DEF RingMatch
<1> QED
  BY <1>3, <1>4, <1>5, <1>6 DEF Sound, Leads

LEMMA TimerCancelLeads == ASSUME NEW u, Sound(u) PROVE Leads(u, TimerCancel(u))
BY TimerCancelGone, TimerGoneLeads DEF Sound

LEMMA TimerDismissLeads ==
  ASSUME NEW u, Sound(u), u.tstate = "ringing" PROVE Leads(u, TimerDismiss(u))
<1>1. u.run \cap TimerScripts \subseteq {"timer_ring"}
  BY DEF Sound, TimerMatch, TimerScripts
<1>2. TimerGone(u, TimerDismiss(u))
  BY <1>1, TimerOffGone DEF TimerDismiss, Sound, TimerScripts
<1> QED
  BY <1>2, TimerGoneLeads

LEMMA CyclePresetLeads ==
  ASSUME NEW u, Sound(u), u.tstate \in {"idle", "arming"} PROVE Leads(u, TimerCyclePreset(u))
<1> DEFINE beep == BeepDirect(u)
           b == IF u.tstate = "idle" THEN u ELSE beep
           x == [beep EXCEPT !.tstate = "idle", !.preset = 0]
           y == [b EXCEPT !.tstate = "arming", !.preset = @ + 1]
           r == RefreshTimerUi(y)
           w == Waits(r, "timer_arm_commit")
<1>1. Leads(u, beep) /\ Leads(u, b)
  BY HeardLeads, SameLeads
<1>2. /\ IsState(beep) /\ ScreenTyped(beep) /\ IsState(b) /\ ScreenTyped(b) /\ Sound(beep) /\ Sound(b)
  BY <1>1 DEF Leads, Sound
<1>3. b.tstate = u.tstate /\ b.preset = u.preset /\ b.left = u.left
  BY DEF BeepDirect, Sound, IsState, Fields
<1> HIDE DEF beep, b
<1>4. Changes(beep, x, TimerFields) /\ x.run = beep.run /\ ScreenTyped(x)
  BY <1>2 DEF Changes, IsState, Fields, TimerFields, ScreenTyped
<1> HIDE DEF x
<1>5. TimerGone(x, TimerCancel(x))
  BY <1>4, TimerCancelGone DEF Changes
<1>6. TimerGone(beep, TimerCancel(x))
  <2>1. x.prio = beep.prio /\ x.owner = beep.owner /\ x.heard = beep.heard
    BY <1>4 DEF Changes, Fields, TimerFields
  <2>2. /\ Stop(x, "timer").prio = Stop(beep, "timer").prio
        /\ Stop(x, "timer").owner = Stop(beep, "timer").owner
        /\ Stop(x, "timer").heard = Stop(beep, "timer").heard
    BY <1>2, <1>4, <2>1 DEF Stop, Changes, IsState, Fields
  <2> QED
    BY <1>2, <1>4, <1>5, <2>2 DEF TimerGone, Changes, SameScripts
<1>7. Leads(u, TimerCancel(x))
  BY <1>1, <1>2, <1>6, TimerGoneLeads, LeadsOn
<1>8. CASE u.preset # Presets
  <2>1. /\ Changes(b, y, TimerFields) /\ y.run = b.run /\ ScreenTyped(y)
        /\ y.tstate = "arming" /\ y.preset = u.preset + 1 /\ y.left = u.left
    BY <1>2, <1>3 DEF Changes, IsState, Fields, TimerFields, ScreenTyped
  <2> HIDE DEF y
  <2>2. TimerMoves(b, y)
    BY <2>1 DEF TimerMoves, Changes, SameScripts
  <2>3. ScreenOnly(y, r)
    BY <2>1, RefreshTimerUiOnly DEF Changes
  <2>4. /\ TimerMoves(b, r) /\ SameScripts(y, r, TimerScripts)
        /\ r.tstate = "arming" /\ r.preset = u.preset + 1 /\ r.left = u.left
    BY <2>1, <2>2, <2>3, TimerMovesOn
  <2> HIDE DEF r
  <2>5. IsState(r) /\ ScreenTyped(r)
    BY <1>2, <2>4 DEF TimerMoves, Changes
  <2>6. /\ Changes(r, w, {"run"}) /\ w.run = r.run \cup {"timer_arm_commit"}
        /\ w.tstate = "arming" /\ w.preset = u.preset + 1 /\ w.left = u.left
    BY <2>4, <2>5 DEF Waits, Changes, IsState, Fields
  <2> HIDE DEF w
  <2>7. ScreenTyped(w)
    BY <2>5, <2>6 DEF Changes, Fields, ScreenTyped, Scripts, TimerScripts
  <2>8. TimerMoves(b, w)
    BY <2>4, <2>6, <2>7 DEF TimerMoves, Changes, ScreenFields, SameScripts, OtherScripts
  <2>9. TimerTyped(w)
    <3>1. u.preset \in 0 .. Presets /\ u.left \in 0 .. 2
      BY DEF Sound, RestTyped
    <3>2. u.preset + 1 \in 0 .. Presets
      BY <1>8, <3>1, FeaturesAssumption
    <3> QED
      BY <2>6, <3>1, <3>2 DEF TimerTyped
  <2>10. TimerMatch(w)
    <3>1. "timer_ring" \notin b.run /\ "timer_countdown" \notin b.run
      BY <1>2, <1>3 DEF Sound, TimerMatch
    <3>2. "timer_ring" \notin r.run /\ "timer_countdown" \notin r.run
      BY <2>1, <2>4, <3>1 DEF SameScripts, TimerScripts
    <3> QED
      BY <2>6, <3>2 DEF TimerMatch
  <2>11. Leads(b, w)
    BY <1>2, <1>3, <2>8, <2>9, <2>10, TimerMovesLeads
  <2>12. Leads(u, w)
    BY <1>1, <2>11, LeadsOn
  <2> QED
    BY <1>8, <2>12 DEF TimerCyclePreset, w, r, y, b, beep
<1>9. CASE u.preset = Presets
  BY <1>7, <1>9 DEF TimerCyclePreset, x, beep
<1> QED
  BY <1>8, <1>9

\* The countdown runs, from x.
LEMMA RunningLeads ==
  ASSUME NEW u, NEW x, Sound(u), TimerMoves(u, x), TimerTyped(x), x.tstate = "running", Given(x),
         "timer_arm_commit" \notin x.run, "timer_ring" \notin x.run
  PROVE  LET w == Counts(RefreshTimerUi(x))
         IN Sound(w) /\ SirenKept(u, w) /\ (u.tstate # "ringing" => Leads(u, w))
<1> DEFINE v == RefreshTimerUi(x)
           w == Counts(v)
<1>1. IsState(x)
  BY DEF TimerMoves, Changes
<1>2. /\ TimerMoves(u, v) /\ SameScripts(x, v, TimerScripts)
      /\ v.tstate = x.tstate /\ v.preset = x.preset /\ v.left = x.left
  BY <1>1, RefreshTimerUiOnly, TimerMovesOn
<1> HIDE DEF v
<1>3. IsState(v) /\ ScreenTyped(v)
  BY <1>2 DEF TimerMoves, Changes, Sound
<1>4. v.left > 0 <=> v.left # 0
  BY <1>2 DEF TimerTyped
<1>5. /\ Changes(v, w, {"run"}) /\ w.tstate = "running" /\ w.preset = x.preset /\ w.left = x.left
      /\ w.run = IF x.left # 0 THEN v.run \cup {"timer_countdown"} ELSE v.run \ {"timer_countdown"}
  <2>1. CASE v.left # 0
    BY <1>2, <1>3, <1>4, <2>1 DEF Counts, Waits, Changes, IsState, Fields
  <2>2. CASE v.left = 0
    BY <1>2, <1>3, <1>4, <2>2 DEF Counts, Stopped, Changes, IsState, Fields
  <2> QED
    BY <2>1, <2>2
<1> HIDE DEF w
<1>6. ScreenTyped(w)
  BY <1>3, <1>5 DEF Changes, Fields, ScreenTyped, Scripts, TimerScripts
<1>7. TimerMoves(u, w)
  BY <1>2, <1>5, <1>6 DEF TimerMoves, Changes, ScreenFields, SameScripts, OtherScripts
<1>8. TimerTyped(w)
  BY <1>5 DEF TimerTyped
<1>9. TimerMatch(w)
  BY <1>2, <1>5 DEF TimerMatch, SameScripts, TimerScripts, Given
<1> QED
  BY <1>5, <1>7, <1>8, <1>9, TimerMovesLeads DEF v, w

LEMMA StartRunningLeads ==
  ASSUME NEW u, NEW z, Sound(u), TimerMoves(u, z), TimerTyped(z), Given(z)
  PROVE  LET w == TimerStartRunning(z)
         IN Sound(w) /\ SirenKept(u, w) /\ (u.tstate # "ringing" => Leads(u, w))
<1> DEFINE x == [Stopped(z, {"timer_arm_commit", "timer_ring"}) EXCEPT !.tstate = "running"]
<1>1. IsState(z) /\ ScreenTyped(z)
  BY DEF TimerMoves, Changes, Sound
<1>2. /\ Changes(z, x, {"run", "tstate"}) /\ x.run = z.run \ {"timer_arm_commit", "timer_ring"}
      /\ x.tstate = "running" /\ x.preset = z.preset /\ x.left = z.left
  BY <1>1 DEF Stopped, Changes, IsState, Fields
<1> HIDE DEF x
<1>3. ScreenTyped(x)
  BY <1>1, <1>2 DEF Changes, Fields, ScreenTyped
<1>4. TimerMoves(u, x)
  BY <1>2, <1>3 DEF TimerMoves, Changes, ScreenFields, TimerFields, SameScripts, OtherScripts
<1>5. TimerTyped(x) /\ Given(x)
  BY <1>2 DEF TimerTyped, Given
<1> QED
  BY <1>2, <1>4, <1>5, RunningLeads DEF TimerStartRunning, x

LEMMA SameMoves ==
  ASSUME NEW u, Sound(u)
  PROVE  TimerMoves(u, u) /\ TimerTyped(u)
BY DEF TimerMoves, Changes, SameScripts, Sound, TimerTyped, RestTyped

\* The time the timer is given.
LEMMA LeftMoves ==
  ASSUME NEW u, Sound(u), NEW l \in 1 .. 2
  PROVE  LET x == [u EXCEPT !.left = l]
         IN /\ TimerMoves(u, x) /\ TimerTyped(x) /\ Given(x)
            /\ u.tstate = "arming" => Leads(u, x)
<1> DEFINE x == [u EXCEPT !.left = l]
<1>1. IsState(u) /\ ScreenTyped(u) /\ RestTyped(u) /\ TimerMatch(u)
  BY DEF Sound
<1>2. Changes(u, x, {"left"}) /\ x.run = u.run /\ x.tstate = u.tstate /\ x.preset = u.preset /\ x.left = l
  BY <1>1 DEF Changes, IsState, Fields
<1> HIDE DEF x
<1>3. ScreenTyped(x)
  BY <1>1, <1>2 DEF Changes, Fields, ScreenTyped
<1>4. TimerMoves(u, x)
  BY <1>2, <1>3 DEF TimerMoves, Changes, TimerFields, SameScripts
<1>5. TimerTyped(x) /\ Given(x)
  BY <1>1, <1>2 DEF RestTyped, TimerTyped, Given
<1>6. u.tstate = "arming" => TimerMatch(x)
  BY <1>1, <1>2 DEF TimerMatch
<1>7. u.tstate = "arming" => Leads(u, x)
  BY <1>2, <1>4, <1>5, <1>6, TimerMovesLeads
<1> QED
  BY <1>4, <1>5, <1>7 DEF x

LEMMA ArmCommitLeads ==
  ASSUME NEW u, Sound(u), u.tstate = "arming" PROVE Leads(u, TimerArmCommit(u))
<1> DEFINE l == IF u.preset = 1 THEN 1 ELSE 2
           x == [u EXCEPT !.left = l]
           b == BeepDirect(x)
<1>1. l \in 1 .. 2
  OBVIOUS
<1>2. x.left = l /\ x.tstate = "arming"
  BY DEF Sound, IsState, Fields
<1> HIDE DEF l
<1>3. Leads(u, x)
  BY <1>1, LeftMoves
<1>4. IsState(x) /\ Sound(x)
  BY <1>3 DEF Leads, Sound
<1> HIDE DEF x
<1>5. Leads(x, b)
  BY <1>4, HeardLeads
<1>6. Given(b) /\ b.tstate = "arming"
  BY <1>1, <1>2, <1>4 DEF BeepDirect, IsState, Fields, Given
<1> HIDE DEF b
<1>7. Leads(b, TimerStartRunning(b))
  BY <1>5, <1>6, SameMoves, StartRunningLeads DEF Leads
<1>8. Leads(u, TimerStartRunning(b))
  BY <1>3, <1>5, <1>7, LeadsOn
<1> QED
  BY <1>8 DEF TimerArmCommit, b, x, l

LEMMA PauseLeads == ASSUME NEW u, Sound(u) PROVE Leads(u, TimerPause(u))
<1> DEFINE b == IF u.tstate = "running" THEN BeepDirect(u) ELSE u
           p == IF u.tstate = "running" THEN [b EXCEPT !.tstate = "paused"] ELSE b
           s == Stopped(p, {"timer_countdown"})
<1>1. Leads(u, b)
  BY HeardLeads, SameLeads
<1>2. b.tstate = u.tstate
  BY DEF BeepDirect, Sound, IsState, Fields
<1> HIDE DEF b
<1>3. Sound(b) /\ IsState(b) /\ ScreenTyped(b) /\ RestTyped(b) /\ TimerMatch(b)
  BY <1>1 DEF Leads, Sound
<1>4. /\ Changes(b, p, {"tstate"}) /\ p.run = b.run /\ p.preset = b.preset /\ p.left = b.left
      /\ p.tstate = IF b.tstate = "running" THEN "paused" ELSE b.tstate
  BY <1>2, <1>3 DEF Changes, IsState, Fields
<1> HIDE DEF p
<1>5. /\ Changes(b, s, {"tstate", "run"}) /\ s.run = p.run \ {"timer_countdown"} /\ s.preset = p.preset
      /\ s.left = p.left /\ s.tstate = p.tstate
  BY <1>4 DEF Stopped, Changes, IsState, Fields
<1> HIDE DEF s
<1>6. ScreenTyped(s)
  BY <1>3, <1>4, <1>5 DEF Changes, Fields, ScreenTyped
<1>7. TimerMoves(b, s)
  BY <1>4, <1>5, <1>6 DEF TimerMoves, Changes, ScreenFields, TimerFields, SameScripts, OtherScripts
<1>8. TimerTyped(s)
  BY <1>3, <1>4, <1>5 DEF RestTyped, TimerTyped
<1>9. TimerMatch(s)
  BY <1>3, <1>4, <1>5 DEF TimerMatch, Given
<1>10. b.tstate # "ringing" \/ s.tstate = "ringing"
  BY <1>4, <1>5
<1>11. Leads(b, s)
  BY <1>3, <1>7, <1>8, <1>9, <1>10, TimerMovesLeads
<1>12. ScreenOnly(s, RefreshTimerUi(s))
  BY <1>5, RefreshTimerUiOnly DEF Changes
<1>13. Leads(s, RefreshTimerUi(s))
  BY <1>11, <1>12, ScreenOnlyLeads DEF Leads
<1>14. Leads(u, RefreshTimerUi(s))
  BY <1>1, <1>11, <1>13, LeadsOn
<1> QED
  BY <1>14 DEF TimerPause, s, p, b

LEMMA ResumeLeads ==
  ASSUME NEW u, Sound(u), u.tstate = "paused" PROVE Leads(u, TimerResume(u))
<1> DEFINE b == BeepDirect(u)
           x == [b EXCEPT !.tstate = "running"]
<1>1. Leads(u, b)
  BY HeardLeads
<1>2. b.tstate = u.tstate
  BY DEF BeepDirect, Sound, IsState, Fields
<1> HIDE DEF b
<1>3. Sound(b) /\ IsState(b) /\ ScreenTyped(b) /\ RestTyped(b) /\ TimerMatch(b)
  BY <1>1 DEF Leads, Sound
<1>4. Changes(b, x, {"tstate"}) /\ x.run = b.run /\ x.preset = b.preset /\ x.left = b.left /\ x.tstate = "running"
  BY <1>3 DEF Changes, IsState, Fields
<1> HIDE DEF x
<1>5. TimerMoves(b, x)
  BY <1>3, <1>4 DEF TimerMoves, Changes, TimerFields, SameScripts, Fields, ScreenTyped
<1>6. TimerTyped(x) /\ Given(x) /\ "timer_arm_commit" \notin x.run /\ "timer_ring" \notin x.run
  BY <1>2, <1>3, <1>4 DEF RestTyped, TimerTyped, TimerMatch, Given
<1>7. Leads(b, Counts(RefreshTimerUi(x)))
  BY <1>2, <1>3, <1>4, <1>5, <1>6, RunningLeads
<1> QED
  BY <1>1, <1>7, LeadsOn DEF TimerResume, x, b

\* Nobody but the timer takes the timer off.
LEMMA RequestOfTimer ==
  ASSUME NEW u, IsState(u), ScreenTyped(u) PROVE ScreenOnly(u, Request(u, ToolMode, "timer"))
<1> DEFINE t == TakeScreen(u, ToolMode, "timer")
<1>1. ScreenOnly(u, t)
  BY TakeScreenOnly DEF Modes, Screens
<1>2. IsState(t) /\ ScreenTyped(t)
  BY <1>1 DEF ScreenOnly, Changes
<1> HIDE DEF t
<1>3. CASE u.screen # "timer"
  <2>1. ScreenOnly(t, Preempted(t, u.screen))
    BY <1>2, <1>3, HideViewOnly, OverlayOnly, SameIsScreenOnly DEF Preempted
  <2>2. ScreenOnly(u, Preempted(t, u.screen))
    BY <1>1, <2>1, ScreenOnlyGoesOn
  <2> QED
    BY <1>1, <2>2 DEF Request, t
<1>4. CASE u.screen = "timer"
  BY <1>1, <1>4 DEF Request, t
<1> QED
  BY <1>3, <1>4

\* The end of the countdown: x is where it ended.
LEMMA TimerRingLeads ==
  ASSUME NEW u, NEW x, Sound(u), u.tstate # "ringing", TimerMoves(u, x), TimerTyped(x), x.run \cap TimerScripts = {}
  PROVE  Leads(u, TimerRing(x))
<1> DEFINE y == [Waits(x, "timer_ring") EXCEPT !.tstate = "ringing"]
           q == Request(y, ToolMode, "timer")
           r == RefreshTimerUi(q)
<1>1. IsState(x) /\ ScreenTyped(x)
  BY DEF TimerMoves, Changes, Sound
<1>2. /\ Changes(x, y, {"run", "tstate"}) /\ y.run = x.run \cup {"timer_ring"} /\ y.tstate = "ringing"
      /\ y.preset = x.preset /\ y.left = x.left
  BY <1>1 DEF Waits, Changes, IsState, Fields
<1> HIDE DEF y
<1>3. ScreenTyped(y)
  BY <1>1, <1>2 DEF Changes, Fields, ScreenTyped, Scripts, TimerScripts
<1>4. TimerMoves(u, y)
  BY <1>2, <1>3 DEF TimerMoves, Changes, ScreenFields, TimerFields, SameScripts, OtherScripts
<1>5. TimerTyped(y)
  BY <1>2 DEF TimerTyped
<1>6. TimerMatch(y)
  BY <1>2 DEF TimerMatch, TimerScripts
<1>7. Leads(u, y)
  BY <1>4, <1>5, <1>6, TimerMovesLeads
<1>8. ScreenOnly(y, q)
  BY <1>2, <1>3, RequestOfTimer DEF Changes
<1>9. IsState(q)
  BY <1>8 DEF ScreenOnly, Changes
<1> HIDE DEF q
<1>10. ScreenOnly(y, r)
  BY <1>8, <1>9, RefreshTimerUiOnly, ScreenOnlyGoesOn
<1> HIDE DEF r
<1>11. Leads(y, r)
  BY <1>7, <1>10, ScreenOnlyLeads DEF Leads
<1>12. r.tstate = "ringing"
  BY <1>2, <1>10 DEF ScreenOnly, Changes, Fields, ScreenFields
<1>13. Leads(r, Play(r, AlarmSound, "timer"))
  BY <1>11, <1>12, PlayLeads DEF Leads
<1>14. Leads(u, Play(r, AlarmSound, "timer"))
  BY <1>7, <1>11, <1>13, LeadsOn
<1>15. "timer_ring" \notin x.run
  BY DEF TimerScripts
<1> QED
  BY <1>14, <1>15 DEF TimerRing, r, q, y

LEMMA SecondLeads ==
  ASSUME NEW u, Sound(u), "timer_countdown" \in u.run, NEW l \in 0 .. 2 PROVE Leads(u, TimerSecond(u, l))
<1> DEFINE x == [u EXCEPT !.left = l]
           v == RefreshTimerUi(x)
           s == Stopped(v, {"timer_countdown"})
<1>1. IsState(u) /\ ScreenTyped(u) /\ RestTyped(u) /\ TimerMatch(u) /\ u.tstate = "running"
  BY DEF Sound, TimerMatch
<1>2. Changes(u, x, {"left"}) /\ x.run = u.run /\ x.tstate = u.tstate /\ x.preset = u.preset /\ x.left = l
  BY <1>1 DEF Changes, IsState, Fields
<1> HIDE DEF x
<1>3. ScreenTyped(x)
  BY <1>1, <1>2 DEF Changes, Fields, ScreenTyped
<1>4. TimerMoves(u, x)
  BY <1>2, <1>3 DEF TimerMoves, Changes, TimerFields, SameScripts
<1>5. TimerTyped(x) /\ "timer_arm_commit" \notin x.run /\ "timer_ring" \notin x.run
  BY <1>1, <1>2 DEF RestTyped, TimerTyped, TimerMatch
<1>6. CASE l # 0
  <2>1. Leads(u, Counts(v))
    BY <1>1, <1>2, <1>4, <1>5, <1>6, RunningLeads DEF Given
  <2> QED
    BY <1>6, <2>1 DEF TimerSecond, v, x
<1>7. CASE l = 0
  <2>1. /\ TimerMoves(u, v) /\ SameScripts(x, v, TimerScripts)
        /\ v.tstate = x.tstate /\ v.preset = x.preset /\ v.left = x.left
    BY <1>2, <1>4, RefreshTimerUiOnly, TimerMovesOn DEF Changes
  <2>2. Counts(v) = s
    BY <1>2, <1>7, <2>1 DEF Counts
  <2> HIDE DEF v
  <2>3. IsState(v) /\ ScreenTyped(v)
    BY <1>1, <2>1 DEF TimerMoves, Changes
  <2>4. /\ Changes(v, s, {"run"}) /\ s.run = v.run \ {"timer_countdown"}
        /\ s.tstate = v.tstate /\ s.preset = v.preset /\ s.left = v.left
    BY <2>3 DEF Stopped, Changes, IsState, Fields
  <2> HIDE DEF s
  <2>5. ScreenTyped(s)
    BY <2>3, <2>4 DEF Changes, Fields, ScreenTyped
  <2>6. TimerMoves(u, s)
    BY <2>1, <2>4, <2>5 DEF TimerMoves, Changes, ScreenFields, SameScripts, OtherScripts
  <2>7. TimerTyped(s)
    BY <1>5, <2>1, <2>4 DEF TimerTyped
  <2>8. s.run \cap TimerScripts = {}
    BY <1>5, <2>1, <2>4 DEF SameScripts, TimerScripts
  <2>9. Leads(u, TimerRing(s))
    BY <1>1, <2>6, <2>7, <2>8, TimerRingLeads
  <2> QED
    BY <1>7, <2>2, <2>9 DEF TimerSecond, v, x
<1> QED
  BY <1>6, <1>7

LEMMA ArmBtnLeads == ASSUME NEW u, Sound(u) PROVE Leads(u, TimerArmBtn(u))
<1> DEFINE p == Play(u, UiSound, "timer")
           c == TimerCancel(p)
<1>1. CASE u.tstate # "idle"
  <2>1. Leads(u, p)
    BY PlayLeads DEF Quiet
  <2>2. Sound(p)
    BY <2>1 DEF Leads
  <2> HIDE DEF p
  <2>3. Leads(p, c) /\ TimerGone(p, c)
    BY <2>2, TimerCancelLeads, TimerCancelGone DEF Sound
  <2>4. Leads(u, c) /\ Sound(c) /\ c.tstate = "idle"
    BY <2>1, <2>3, LeadsOn DEF Leads, TimerGone
  <2> HIDE DEF c
  <2>5. Leads(u, TimerCyclePreset(c))
    BY <2>4, CyclePresetLeads, LeadsOn
  <2> QED
    BY <1>1, <2>5 DEF TimerArmBtn, c, p
<1>2. CASE u.tstate = "idle"
  BY <1>2, CyclePresetLeads DEF TimerArmBtn
<1> QED
  BY <1>1, <1>2

-----------------------------------------------------------------------------
(* The minute of silence and the siren. *)

LedFields == {"ledPrio", "ledOwner", "leds"}

LEMMA SetLedsChanges ==
  ASSUME NEW u, IsState(u), NEW p, NEW who
  PROVE  LET v == SetLeds(u, p, who)
         IN /\ Changes(u, v, LedFields)
            /\ p >= u.ledPrio => v.ledPrio = p /\ v.ledOwner = who /\ v.leds = who
            /\ ~(p >= u.ledPrio) => v = u
BY DEF SetLeds, Changes, IsState, Fields, LedFields

\* The LEDs are nothing to whoever loses the screen.
LEMMA SetLedsFirst ==
  ASSUME NEW x, NEW r, IsState(x), Preempts(x, r), NEW p, NEW who
  PROVE  Preempts(SetLeds(x, p, who), SetLeds(r, p, who))
<1> DEFINE y == SetLeds(x, p, who)
           s == SetLeds(r, p, who)
<1>1. IsState(r) /\ \A f \in LedFields : r[f] = x[f]
  BY DEF Preempts, ScreenOnly, TimerGone, Changes, Fields, LedFields, ScreenFields, SoundFields, TimerFields
<1>2. r.ledPrio = x.ledPrio /\ r.ledOwner = x.ledOwner /\ r.leds = x.leds
  BY <1>1 DEF LedFields
<1>3. Changes(x, y, LedFields) /\ Changes(r, s, LedFields)
  BY <1>1, SetLedsChanges
<1>4. y.ledPrio = s.ledPrio /\ y.ledOwner = s.ledOwner /\ y.leds = s.leds
  BY <1>1, <1>2, SetLedsChanges
<1> HIDE DEF y, s
<1>5. \A f \in LedFields : y[f] = s[f]
  BY <1>4 DEF LedFields
<1>6. \A f \in Fields \ LedFields : y[f] = x[f] /\ s[f] = r[f]
  BY <1>3 DEF Changes
<1>7. /\ y.run = x.run /\ s.run = r.run /\ y.prio = x.prio /\ y.owner = x.owner /\ s.prio = r.prio /\ s.owner = r.owner
      /\ y.heard = x.heard /\ s.heard = r.heard
      /\ s.tstate = r.tstate /\ s.preset = r.preset /\ s.left = r.left
      /\ (ScreenTyped(x) <=> ScreenTyped(y)) /\ (ScreenTyped(r) <=> ScreenTyped(s))
  BY <1>6 DEF Fields, LedFields, ScreenTyped
<1>8. IsState(s)
  BY <1>3 DEF Changes
<1>9. CASE ScreenOnly(x, r)
  <2>1. Changes(y, s, ScreenFields)
    BY <1>5, <1>6, <1>8, <1>9 DEF ScreenOnly, Changes
  <2>2. ScreenOnly(y, s)
    BY <1>7, <1>9, <2>1 DEF ScreenOnly, SameScripts
  <2> QED
    BY <2>2 DEF Preempts, y, s
<1>10. CASE TimerGone(x, r)
  <2>1. Changes(y, s, ScreenFields \cup SoundFields \cup TimerFields)
    BY <1>5, <1>6, <1>8, <1>10 DEF TimerGone, Changes
  <2>2. /\ Stop(y, "timer").prio = Stop(x, "timer").prio /\ Stop(y, "timer").owner = Stop(x, "timer").owner
        /\ Stop(y, "timer").heard = Stop(x, "timer").heard
    BY <1>3, <1>7 DEF Stop, Changes, IsState, Fields
  <2>3. TimerGone(y, s)
    BY <1>7, <1>10, <2>1, <2>2 DEF TimerGone, SameScripts
  <2> QED
    BY <2>3 DEF Preempts, y, s
<1> QED
  BY <1>9, <1>10 DEF Preempts

LEMMA StartSilenceLeads ==
  ASSUME NEW u, Sound(u), NEW test \in BOOLEAN PROVE Leads(u, StartSilence(u, test))
<1> DEFINE x == [Waits(u, "silence") EXCEPT !.silence = "ticking", !.sacred = @ \/ ~test, !.test = @ \/ test]
           y == SetLeds(x, SilenceLeds, "silence")
           r == Request(x, SilenceMode, "silence")
           l == SetLeds(r, SilenceLeds, "silence")
<1>1. CASE "silence" \notin u.run
  <2>1. IsState(u) /\ ScreenTyped(u) /\ RestTyped(u) /\ LedMatch(u) /\ AlarmMatch(u) /\ TimerMatch(u) /\ SoundMatch(u)
    BY DEF Sound
  <2>2. ~Silent(u)
    BY <1>1 DEF Sound, SilenceMatch
  <2>3. /\ Changes(u, x, {"run", "silence", "sacred", "test"}) /\ x.run = u.run \cup {"silence"}
        /\ x.silence = "ticking" /\ Silent(x)
    BY <2>1 DEF Waits, Changes, IsState, Fields, Silent
  <2> HIDE DEF x
  <2>4. ScreenTyped(x)
    BY <2>1, <2>3 DEF Changes, Fields, ScreenTyped, Scripts, OtherScripts
  <2>5. Changes(x, y, LedFields)
    BY <2>3, SetLedsChanges DEF Changes
  <2>6. x.ledPrio = u.ledPrio /\ x.ledOwner = u.ledOwner
    BY <2>3 DEF Changes, Fields
  <2>7. /\ SilenceLeds >= x.ledPrio => y.ledPrio = SilenceLeds /\ y.ledOwner = "silence" /\ y.leds = "silence"
        /\ ~(SilenceLeds >= x.ledPrio) => y = x
    BY <2>3, SetLedsChanges DEF Changes
  <2> HIDE DEF y
  <2>8. /\ y.prio = u.prio /\ y.owner = u.owner /\ y.heard = u.heard /\ y.run = x.run /\ y.silence = "ticking" /\ Silent(y)
        /\ y.tstate = u.tstate /\ y.preset = u.preset /\ y.left = u.left /\ y.ringing = u.ringing
        /\ y.snooze = u.snooze /\ ScreenTyped(y) /\ IsState(y)
    BY <2>3, <2>4, <2>5 DEF Changes, Fields, LedFields, Silent, ScreenTyped
  <2>9. LedMatch(y)
    <3>1. CASE u.ledOwner = "ota" /\ u.ledPrio = UpdateLeds
      BY <2>6, <2>7, <3>1 DEF LedMatch, SilenceLeds, UpdateLeds
    <3>2. CASE u.ledOwner = "co2" /\ u.ledPrio = Co2Leds
      BY <2>6, <2>7, <2>8, <3>2 DEF LedMatch, SilenceLeds, Co2Leds
    <3> QED
      BY <2>1, <2>2, <3>1, <3>2 DEF LedMatch
  <2>10. y.ledPrio \in {0, Co2Leds, SilenceLeds, UpdateLeds}
    BY <2>9 DEF LedMatch
  <2>11. RestTyped(y) /\ AlarmMatch(y) /\ TimerMatch(y) /\ SilenceMatch(y) /\ SoundMatch(y)
    BY <2>1, <2>3, <2>8, <2>10 DEF RestTyped, AlarmMatch, TimerMatch, Given, SilenceMatch, SoundMatch
  <2>12. Leads(u, y)
    BY <2>8, <2>9, <2>11 DEF Leads, Sound, SirenKept, RingMatch
  <2>13. IsState(x)
    BY <2>3 DEF Changes
  <2>14. Preempts(x, r)
    BY <2>4, <2>13, RequestPreempts DEF Modes, Screens
  <2>15. Preempts(y, l)
    BY <2>13, <2>14, SetLedsFirst DEF y
  <2>16. Leads(y, l)
    BY <2>12, <2>15, PreemptsLeads DEF Leads
  <2> HIDE DEF l
  <2>17. Leads(l, RefreshFace(l))
    BY <2>16, RefreshFaceOnly, ScreenOnlyLeads DEF Leads, Sound
  <2>18. Leads(u, RefreshFace(l))
    BY <2>12, <2>16, <2>17, LeadsOn
  <2> QED
    BY <1>1, <2>18 DEF StartSilence, l, r, x
<1>2. CASE "silence" \in u.run
  BY <1>2, SameLeads DEF StartSilence
<1> QED
  BY <1>1, <1>2

LEMMA FinishSilenceSound ==
  ASSUME NEW u, Sound(u)
  PROVE  LET v == FinishSilence(u) IN Sound(v) /\ RingMatch(v) /\ v.silence = "off"
<1> DEFINE over == [Stopped(u, {"silence"}) EXCEPT !.silence = "off", !.sacred = FALSE, !.test = FALSE]
           r == Release(over, "silence")
           l == ReleaseLeds(r, "silence")
           q == ResetAudio(l)
           s == [q EXCEPT !.face = "stale"]
           f == RefreshFace(s)
           v == RefreshLeds(f)
<1>1. IsState(u) /\ ScreenTyped(u) /\ RestTyped(u) /\ LedMatch(u) /\ AlarmMatch(u) /\ TimerMatch(u)
  BY DEF Sound
<1>2. /\ Changes(u, over, {"run", "silence", "sacred", "test"}) /\ over.run = u.run \ {"silence"}
      /\ over.silence = "off" /\ ~Silent(over)
  BY <1>1 DEF Stopped, Changes, IsState, Fields, Silent
<1> HIDE DEF over
<1>3. ScreenTyped(over) /\ IsState(over)
  BY <1>1, <1>2 DEF Changes, Fields, ScreenTyped
<1>4. ScreenOnly(over, r)
  BY <1>3, ReleaseOnly
<1> HIDE DEF r
<1>5. IsState(r) /\ ScreenTyped(r)
  BY <1>3, <1>4 DEF ScreenOnly, Changes
<1>6. /\ Changes(r, l, LedFields)
      /\ r.ledOwner = "silence" => l.ledPrio = 0 /\ l.ledOwner = Nobody
      /\ r.ledOwner # "silence" => l.ledPrio = r.ledPrio /\ l.ledOwner = r.ledOwner /\ l.leds = r.leds
  BY <1>5 DEF ReleaseLeds, Changes, IsState, Fields, LedFields
<1> HIDE DEF l
<1>7. /\ Changes(l, q, SoundFields) /\ q.prio = 0 /\ q.owner = Nobody
  BY <1>6 DEF ResetAudio, Changes, IsState, Fields, SoundFields
<1> HIDE DEF q
<1>8. ScreenTyped(q) /\ IsState(q)
  BY <1>5, <1>6, <1>7 DEF Changes, Fields, LedFields, SoundFields, ScreenTyped
<1>9. ScreenOnly(q, s)
  BY <1>8, ShowsOnly
<1>10. IsState(s) /\ ScreenTyped(s)
  BY <1>8, <1>9 DEF ScreenOnly, Changes
<1> HIDE DEF s
<1>11. ScreenOnly(q, f)
  BY <1>9, <1>10, RefreshFaceOnly, ScreenOnlyGoesOn
<1> HIDE DEF f
<1>12. IsState(f) /\ ScreenTyped(f)
  BY <1>8, <1>11 DEF ScreenOnly, Changes
<1>13. /\ Changes(f, v, LedFields)
       /\ f.ledPrio = 0 => v.ledPrio = Co2Leds /\ v.ledOwner = "co2" /\ v.leds = "co2"
       /\ f.ledPrio = Co2Leds => v.ledPrio = Co2Leds /\ v.ledOwner = "co2" /\ v.leds = "co2"
       /\ f.ledPrio = UpdateLeds => v = f
  <2>1. RefreshLeds(f) \in {f, SetLeds(f, Co2Leds, "co2")}
    BY DEF RefreshLeds
  <2>2. ~(f.ledPrio > Co2Leds) => RefreshLeds(f) = SetLeds(f, Co2Leds, "co2")
    BY DEF RefreshLeds
  <2>3. f.ledPrio = UpdateLeds => RefreshLeds(f) = f
    BY DEF RefreshLeds, UpdateLeds, Co2Leds
  <2>4. f.ledPrio \in {0, Co2Leds} => ~(f.ledPrio > Co2Leds) /\ Co2Leds >= f.ledPrio
    BY DEF Co2Leds
  <2>5. Changes(f, f, LedFields)
    BY <1>12 DEF Changes
  <2> QED
    BY <1>12, <2>1, <2>2, <2>3, <2>4, <2>5, SetLedsChanges
<1> HIDE DEF v
<1>14. f.ledPrio = l.ledPrio /\ f.ledOwner = l.ledOwner
  BY <1>7, <1>11 DEF ScreenOnly, Changes, Fields, ScreenFields, SoundFields
<1>15. r.ledPrio = u.ledPrio /\ r.ledOwner = u.ledOwner
  BY <1>2, <1>4 DEF ScreenOnly, Changes, Fields, ScreenFields
<1>16. /\ v.silence = "off" /\ ~Silent(v) /\ v.prio = 0 /\ v.owner = Nobody /\ v.run = f.run
       /\ v.tstate = u.tstate /\ v.preset = u.preset /\ v.left = u.left /\ v.ringing = u.ringing /\ v.snooze = u.snooze
  BY <1>2, <1>4, <1>6, <1>7, <1>11, <1>13
     DEF ScreenOnly, Changes, Fields, ScreenFields, SoundFields, LedFields, Silent
<1>17. IsState(v) /\ ScreenTyped(v)
  BY <1>12, <1>13 DEF Changes, Fields, LedFields, ScreenTyped
<1>18. SameScripts(over, f, TimerScripts \cup OtherScripts)
  <2>1. l.run = r.run /\ q.run = l.run
    BY <1>6, <1>7 DEF Changes, Fields, LedFields, SoundFields
  <2> QED
    BY <1>4, <1>11, <2>1 DEF ScreenOnly, SameScripts
<1>19. AlarmMatch(v) /\ TimerMatch(v) /\ SilenceMatch(v)
  BY <1>1, <1>2, <1>16, <1>18 DEF AlarmMatch, TimerMatch, Given, SilenceMatch, SameScripts, TimerScripts, OtherScripts
<1>20. LedMatch(v)
  <2>1. CASE u.ledOwner = "ota" /\ u.ledPrio = UpdateLeds
    BY <1>6, <1>13, <1>14, <1>15, <2>1 DEF LedMatch
  <2>2. CASE u.ledOwner = "silence"
    BY <1>6, <1>13, <1>14, <1>15, <1>16, <2>2 DEF LedMatch
  <2>3. CASE u.ledOwner = "co2" /\ u.ledPrio = Co2Leds
    BY <1>6, <1>13, <1>14, <1>15, <1>16, <2>3 DEF LedMatch
  <2> QED
    BY <1>1, <2>1, <2>2, <2>3 DEF LedMatch
<1>21. RestTyped(v)
  <2>1. v.ledPrio \in {0, Co2Leds, SilenceLeds, UpdateLeds}
    BY <1>20 DEF LedMatch
  <2> QED
    BY <1>1, <1>16, <2>1 DEF RestTyped
<1>22. SoundMatch(v) /\ RingMatch(v)
  BY <1>16 DEF SoundMatch, RingMatch, Nobody, AlarmSound
<1>23. Sound(v)
  BY <1>17, <1>19, <1>20, <1>21, <1>22 DEF Sound
<1>24. FinishSilence(u) = v
  BY DEF FinishSilence, v, f, s, q, l, r, over
<1> QED
  BY <1>16, <1>22, <1>23, <1>24

\* The delay of the siren: S waits in v as well, or no more.
LEMMA SirenDelay ==
  ASSUME NEW u, NEW v, Sound(u), v = Waits(u, "siren") \/ v = Stopped(u, {"siren"})
  PROVE  Leads(u, v) /\ v.silence = u.silence
<1>1. IsState(u) /\ u.run \subseteq Scripts
  BY DEF Sound, ScreenTyped
<1>2. /\ Changes(u, v, {"run"}) /\ v.run \subseteq u.run \cup {"siren"} /\ u.run \subseteq v.run \cup {"siren"}
  BY <1>1 DEF Waits, Stopped, Changes, IsState, Fields
<1>3. \A f \in Fields \ {"run"} : v[f] = u[f]
  BY <1>2 DEF Changes
<1>4. /\ v.prio = u.prio /\ v.owner = u.owner /\ v.tstate = u.tstate /\ v.ringing = u.ringing /\ v.snooze = u.snooze
      /\ v.silence = u.silence
  BY <1>3 DEF Fields
<1>5. Changes(u, v, AlarmFields)
  BY <1>2 DEF Changes, AlarmFields
<1>6. SameScripts(u, v, TimerScripts \cup {"silence"}) /\ v.run \subseteq Scripts
  BY <1>1, <1>2 DEF SameScripts, TimerScripts, Scripts, OtherScripts
<1>7. AlarmMatch(v)
  BY <1>2, <1>4 DEF Sound, AlarmMatch
<1>8. RingMatch(u) => RingMatch(v)
  BY <1>4 DEF RingMatch
<1> QED
  BY <1>4, <1>5, <1>6, <1>7, <1>8, AlarmStays DEF Leads

LEMMA SirenLeads == ASSUME NEW u, Sound(u) PROVE Leads(u, Siren(u))
<1> DEFINE w == Waits(u, "siren")
<1>1. Leads(u, w)
  BY SirenDelay
<1> HIDE DEF w
<1>2. Leads(w, Play(w, AlertSound, "alert"))
  BY <1>1, PlayLeads DEF Leads
<1>3. Leads(u, Play(w, AlertSound, "alert"))
  BY <1>1, <1>2, LeadsOn
<1> QED
  BY <1>3 DEF Siren, w

\* The siren ends: it is the only one that gives up the buzzer by itself.
LEMMA SirenOverSound ==
  ASSUME NEW u, Sound(u)
  PROVE  /\ Sound(SirenOver(u)) /\ (RingMatch(u) => RingMatch(SirenOver(u)))
         /\ "siren" \notin SirenOver(u).run
<1> DEFINE w == Stopped(u, {"siren"})
           v == [w EXCEPT !.prio = 0, !.owner = Nobody, !.heard = Nobody]
<1>1. Leads(u, w)
  BY SirenDelay
<1>2. "siren" \notin w.run
  BY DEF Sound, IsState, Fields, Stopped
<1>3. Sound(w)
  BY <1>1 DEF Leads
<1> HIDE DEF w
<1>4. Changes(w, v, SoundFields) /\ v.prio = 0 /\ v.owner = Nobody /\ v.run = w.run
  BY <1>3 DEF Sound, Changes, IsState, SoundFields, Fields
<1>5. SirenOver(u) \in {w, v}
  BY DEF SirenOver, Stop, w, v
<1> HIDE DEF v
<1>6. Changes(w, v, SoundFields) /\ SoundMatch(v) /\ RingMatch(v)
  BY <1>4 DEF SoundMatch, RingMatch, Nobody, AlarmSound
<1>7. Sound(v)
  <2>1. \A f \in Fields \ SoundFields : v[f] = w[f]
    BY <1>4 DEF Changes
  <2>2. /\ v.ledPrio = w.ledPrio /\ v.ledOwner = w.ledOwner /\ v.leds = w.leds
        /\ v.tstate = w.tstate /\ v.preset = w.preset /\ v.left = w.left /\ v.silence = w.silence
        /\ v.ringing = w.ringing /\ v.snooze = w.snooze /\ v.sacred = w.sacred /\ v.test = w.test
        /\ v.run = w.run /\ v.mode = w.mode /\ v.screen = w.screen /\ v.tui = w.tui /\ v.shown = w.shown
        /\ v.face = w.face
    BY <2>1 DEF Fields, SoundFields
  <2>3. IsState(v) /\ ScreenTyped(v) /\ RestTyped(v)
    BY <1>3, <1>4, <2>2 DEF Sound, Changes, ScreenTyped, RestTyped
  <2>4. AlarmMatch(v) /\ TimerMatch(v) /\ SilenceMatch(v) /\ LedMatch(v)
    BY <1>3, <2>2 DEF Sound, AlarmMatch, TimerMatch, Given, SilenceMatch, LedMatch, Silent
  <2> QED
    BY <1>6, <2>3, <2>4 DEF Sound
<1>8. RingMatch(u) => RingMatch(w)
  BY <1>1 DEF Leads
<1> QED
  BY <1>2, <1>3, <1>4, <1>5, <1>6, <1>7, <1>8

\* From u the scripts may go on to v, or the minute of silence ends.
Steps(u, v) == \/ Leads(u, v)
               \/ Sound(v) /\ RingMatch(v) /\ u.silence # "off" /\ v.silence = "off"

LEMMA LeadsSteps == ASSUME NEW u, NEW v, NEW w, Leads(u, v), v.silence = u.silence, Steps(v, w) PROVE Steps(u, w)
BY LeadsOn DEF Steps

LEMMA StopTestSteps == ASSUME NEW u, Sound(u) PROVE Steps(u, StopSilenceTest(u))
<1> DEFINE s == Stop(u, "silence")
<1>1. CASE u.test
  <2>1. Leads(u, s)
    BY StopLeads
  <2>2. u.silence # "off"
    BY <1>1 DEF Sound, SilenceMatch, Silent
  <2> HIDE DEF s
  <2>3. Sound(FinishSilence(s)) /\ RingMatch(FinishSilence(s)) /\ FinishSilence(s).silence = "off"
    BY <2>1, FinishSilenceSound DEF Leads
  <2> QED
    BY <1>1, <2>2, <2>3 DEF StopSilenceTest, Steps, s
<1>2. CASE ~u.test
  BY <1>2, SameLeads DEF StopSilenceTest, Steps
<1> QED
  BY <1>1, <1>2

-----------------------------------------------------------------------------
(* Buttons. *)

LEMMA ViewLeads ==
  ASSUME NEW u, Sound(u), NEW v \in Views PROVE Leads(u, ShowView(u, v)) /\ Leads(u, HideView(u, v))
BY ShowViewPreempts, HideViewOnly, PreemptsLeads, ScreenOnlyLeads DEF Sound

LEMMA OverlayLeads ==
  ASSUME NEW u, Sound(u)
  PROVE  Leads(u, ShowDeviceId(u)) /\ Leads(u, OverlayOver(u)) /\ Leads(u, RefreshFace(DropOverlay(u)))
<1> DEFINE d == DropOverlay(u)
<1>1. Leads(u, d) /\ Leads(u, OverlayOver(u))
  BY OverlayOnly, ScreenOnlyLeads DEF Sound
<1> HIDE DEF d
<1>2. Leads(d, RefreshFace(d))
  BY <1>1, RefreshFaceOnly, ScreenOnlyLeads DEF Leads, Sound
<1>3. Leads(u, RefreshFace(d))
  BY <1>1, <1>2, LeadsOn
<1>4. Leads(u, ShowDeviceId(u))
  BY ShowDeviceIdPreempts, PreemptsLeads DEF Sound
<1> QED
  BY <1>1, <1>3, <1>4 DEF d

LEMMA HandleSteps == ASSUME NEW u, Sound(u), NEW do PROVE Steps(u, Handle(u, do))
<1> DEFINE c == TimerCancel(u)
           p == Play(u, UiSound, "timer")
<1>1. Leads(u, u) /\ Leads(u, AlarmSnooze(u)) /\ Leads(u, AlarmDismiss(u)) /\ Leads(u, TimerArmBtn(u))
  BY SameLeads, AlarmSnoozeLeads, AlarmDismissLeads, ArmBtnLeads
<1>2. /\ u.tstate = "arming" => Leads(u, TimerCyclePreset(u))
      /\ Leads(u, TimerPause(u))
      /\ u.tstate = "paused" => Leads(u, TimerResume(u))
      /\ u.tstate = "ringing" => Leads(u, TimerDismiss(u))
  BY CyclePresetLeads, PauseLeads, ResumeLeads, TimerDismissLeads
<1>3. Leads(u, c) /\ Leads(u, ShowView(c, "weather"))
  <2>1. Leads(u, c)
    BY TimerCancelLeads
  <2> HIDE DEF c
  <2>2. Leads(c, ShowView(c, "weather"))
    BY <2>1, ViewLeads DEF Leads, Views
  <2> QED
    BY <2>1, <2>2, LeadsOn
<1>4. Leads(u, TimerCancel(p))
  <2>1. Leads(u, p)
    BY PlayLeads DEF Quiet
  <2> HIDE DEF p
  <2>2. Leads(p, TimerCancel(p))
    BY <2>1, TimerCancelLeads DEF Leads
  <2> QED
    BY <2>1, <2>2, LeadsOn
<1>5. /\ Leads(u, ShowView(u, "weather")) /\ Leads(u, ShowView(u, "climate"))
      /\ Leads(u, HideView(u, "weather")) /\ Leads(u, HideView(u, "climate"))
  BY ViewLeads DEF Views
<1>6. Leads(u, ShowDeviceId(u)) /\ Leads(u, RefreshFace(DropOverlay(u)))
  BY OverlayLeads
<1>7. \/ Handle(u, do) \in {u, AlarmSnooze(u), AlarmDismiss(u), TimerArmBtn(u), TimerPause(u), c,
                            ShowView(c, "weather"), TimerCancel(p)}
      \/ Handle(u, do) \in {ShowView(u, "weather"), ShowView(u, "climate"), HideView(u, "weather"), HideView(u, "climate"),
                            ShowDeviceId(u), RefreshFace(DropOverlay(u))}
      \/ u.tstate = "arming" /\ Handle(u, do) = TimerCyclePreset(u)
      \/ u.tstate = "paused" /\ Handle(u, do) = TimerResume(u)
      \/ u.tstate = "ringing" /\ Handle(u, do) = TimerDismiss(u)
      \/ Handle(u, do) = StopSilenceTest(u)
  BY DEF Handle
<1> HIDE DEF c, p
<1> QED
  BY <1>1, <1>2, <1>3, <1>4, <1>5, <1>6, <1>7, StopTestSteps DEF Steps

LEMMA DispatchSteps == ASSUME NEW u, Sound(u), NEW e PROVE Steps(u, Dispatch(u, e))
BY HandleSteps, SameLeads DEF Dispatch, Steps

-----------------------------------------------------------------------------
(* Steps. *)

\* Home Assistant may take the timer from its ring, a siren is lost to its own end or
\* to the end of the minute of silence.
Follows(u, v) ==
  /\ Sound(v)
  /\ "ha" \notin Packages /\ RingMatch(u) => RingMatch(v)
  /\ \/ SirenKept(u, v) \/ "siren" \notin v.run
     \/ u.silence # "off" /\ v.silence = "off"

LEMMA LeadsFollows == ASSUME NEW u, NEW v, Leads(u, v) PROVE Follows(u, v)
BY DEF Leads, Follows

LEMMA StepsFollows == ASSUME NEW u, NEW v, Steps(u, v) PROVE Follows(u, v)
BY DEF Steps, Leads, Follows

LEMMA PressFollows == ASSUME Sound(ui), Press PROVE Follows(ui, ui')
<1> DEFINE b == BeepDirect(ui)
<1>1. PICK e \in Clicks \cup {"triple"} : ui' = Dispatch(b, e)
  BY DEF Press
<1>2. Leads(ui, b) /\ b.silence = ui.silence
  BY HeardLeads DEF BeepDirect, Sound, IsState, Fields
<1> HIDE DEF b
<1>3. Steps(b, Dispatch(b, e))
  BY <1>2, DispatchSteps DEF Leads
<1>4. Steps(ui, Dispatch(b, e))
  BY <1>2, <1>3, LeadsSteps
<1> QED
  BY <1>1, <1>4, StepsFollows

LEMMA FaceLeads ==
  ASSUME NEW u, Sound(u), NEW f \in {u.face, "stale"}
  PROVE  Leads(u, RefreshFace([u EXCEPT !.face = f])) /\ Leads(u, RefreshFace(u))
<1> DEFINE s == [u EXCEPT !.face = "stale"]
<1>1. Leads(u, RefreshFace(u))
  BY RefreshFaceOnly, ScreenOnlyLeads DEF Sound
<1>2. Leads(u, s)
  BY ShowsOnly, ScreenOnlyLeads DEF Sound
<1>3. [u EXCEPT !.face = u.face] = u
  BY DEF Sound, IsState
<1> HIDE DEF s
<1>4. Leads(s, RefreshFace(s))
  BY <1>2, RefreshFaceOnly, ScreenOnlyLeads DEF Leads, Sound
<1>5. Leads(u, RefreshFace(s))
  BY <1>2, <1>4, LeadsOn
<1> QED
  BY <1>1, <1>3, <1>5 DEF s

LEMMA AlarmFollows ==
  ASSUME Sound(ui), AlarmTime \/ AlarmSwitch \/ AlarmRepeats \/ AlarmGivesUp \/ SnoozeOver
  PROVE  Leads(ui, ui')
<1>1. CASE AlarmTime
  BY <1>1, AlarmRingLeads DEF AlarmTime
<1>2. CASE AlarmSwitch
  <2> DEFINE off == [ui EXCEPT !.enabled = FALSE]
  <2>1. Leads(ui, off) /\ Leads(ui, [ui EXCEPT !.enabled = TRUE])
    BY EnabledLeads
  <2> HIDE DEF off
  <2>2. Leads(off, AlarmDismiss(off))
    BY <2>1, AlarmDismissLeads DEF Leads
  <2>3. Leads(ui, AlarmDismiss(off))
    BY <2>1, <2>2, LeadsOn
  <2> QED
    BY <1>2, <2>1, <2>3 DEF AlarmSwitch, off
<1>3. CASE AlarmRepeats
  <2>1. ui.ringing
    BY <1>3 DEF AlarmRepeats, Elapses, Sound, AlarmMatch
  <2> QED
    BY <1>3, <2>1, PlayLeads DEF AlarmRepeats
<1>4. CASE AlarmGivesUp
  BY <1>4, AlarmDismissLeads DEF AlarmGivesUp
<1>5. CASE SnoozeOver
  BY <1>5, SnoozeOverLeads DEF SnoozeOver, Elapses
<1> QED
  BY <1>1, <1>2, <1>3, <1>4, <1>5

LEMMA TimerFollows ==
  ASSUME Sound(ui), ArmOver \/ CountDown \/ SecondPasses \/ TimerRepeats \/ TimerGivesUp
  PROVE  Leads(ui, ui')
<1>1. ui.left \in 0 .. 2 /\ TimerMatch(ui)
  BY DEF Sound, RestTyped
<1>2. CASE ArmOver
  BY <1>1, <1>2, ArmCommitLeads DEF ArmOver, Elapses, TimerMatch
<1>3. CASE CountDown
  <2>1. ui.left # 0 /\ "timer_countdown" \in ui.run
    BY <1>1, <1>3 DEF CountDown, Elapses, TimerMatch
  <2>2. ui.left - 1 \in 0 .. 2
    BY <1>1, <2>1
  <2> QED
    BY <1>3, <2>1, <2>2, SecondLeads DEF CountDown
<1>4. CASE SecondPasses
  BY <1>1, <1>4, SecondLeads DEF SecondPasses, Elapses
<1>5. CASE TimerRepeats
  <2>1. ui.tstate = "ringing"
    BY <1>1, <1>5 DEF TimerRepeats, Elapses, TimerMatch
  <2> QED
    BY <1>5, <2>1, PlayLeads DEF TimerRepeats
<1>6. CASE TimerGivesUp
  BY <1>1, <1>6, TimerDismissLeads DEF TimerGivesUp, Elapses, TimerMatch
<1> QED
  BY <1>2, <1>3, <1>4, <1>5, <1>6

LEMMA HaFollows == ASSUME Sound(ui), HaTimer PROVE Follows(ui, ui')
<1>1. "ha" \in Packages
  BY DEF HaTimer, Has
<1>2. Leads(ui, TimerCancel(ui)) /\ Leads(ui, TimerPause(ui))
  BY TimerCancelLeads, PauseLeads
<1>3. ASSUME NEW l \in HaTimes, ui' = TimerStartRunning(IF l = 0 THEN ui ELSE [ui EXCEPT !.left = l])
      PROVE  Sound(ui') /\ SirenKept(ui, ui')
  <2>1. CASE l = 0
    <3>1. Given(ui)
      BY <2>1 DEF Given
    <3> QED
      BY <1>3, <2>1, <3>1, SameMoves, StartRunningLeads
  <2>2. CASE l # 0
    <3> DEFINE z == [ui EXCEPT !.left = l]
    <3>1. l \in 1 .. 2
      BY <2>2, FeaturesAssumption
    <3>2. TimerMoves(ui, z) /\ TimerTyped(z) /\ Given(z)
      BY <3>1, LeftMoves
    <3>3. ui' = TimerStartRunning(z)
      BY <1>3, <2>2
    <3> HIDE DEF z
    <3> QED
      BY <3>2, <3>3, StartRunningLeads
  <2> QED
    BY <2>1, <2>2
<1> QED
  BY <1>1, <1>2, <1>3, LeadsFollows DEF HaTimer, Follows

\* What neither the LEDs nor the buzzer have to do with.
LEMMA FlagsLeads ==
  ASSUME NEW u, NEW v, Sound(u), Changes(u, v, {"silence", "updating"}), v.silence \in {"off", "ticking", "anthem"},
         v.silence # "off" <=> u.silence # "off"
  PROVE  Leads(u, v)
<1>1. \A f \in Fields \ {"silence", "updating"} : v[f] = u[f]
  BY DEF Changes
<1>2. /\ v.ledPrio = u.ledPrio /\ v.ledOwner = u.ledOwner /\ v.leds = u.leds
      /\ v.prio = u.prio /\ v.owner = u.owner /\ v.heard = u.heard
      /\ v.tstate = u.tstate /\ v.preset = u.preset /\ v.left = u.left
      /\ v.ringing = u.ringing /\ v.snooze = u.snooze /\ v.sacred = u.sacred /\ v.test = u.test
      /\ v.run = u.run /\ v.mode = u.mode /\ v.screen = u.screen /\ v.tui = u.tui /\ v.shown = u.shown
      /\ v.face = u.face
  BY <1>1 DEF Fields
<1>3. IsState(v) /\ ScreenTyped(v) /\ RestTyped(v)
  BY <1>2 DEF Sound, Changes, ScreenTyped, RestTyped
<1>4. AlarmMatch(v) /\ TimerMatch(v) /\ SilenceMatch(v) /\ LedMatch(v)
  BY <1>2 DEF Sound, AlarmMatch, TimerMatch, Given, SilenceMatch, LedMatch, Silent
<1>5. SoundMatch(v) /\ SirenKept(u, v) /\ (RingMatch(u) => RingMatch(v))
  BY <1>2 DEF Sound, SoundMatch, SirenKept, RingMatch
<1> QED
  BY <1>3, <1>4, <1>5 DEF Leads, Sound

LEMMA SilenceFollows ==
  ASSUME Sound(ui), Nine \/ TestSilence \/ Beat \/ TicksDone \/ AnthemOver
  PROVE  Steps(ui, ui')
<1>1. CASE Nine \/ TestSilence
  BY <1>1, StartSilenceLeads DEF Nine, TestSilence, Steps
<1>2. CASE Beat
  BY <1>2, PlayLeads DEF Beat, Quiet, Steps
<1>3. CASE TicksDone
  <2> DEFINE a == [ui EXCEPT !.silence = "anthem"]
  <2>1. Changes(ui, a, {"silence", "updating"}) /\ a.silence = "anthem" /\ ui.silence = "ticking"
    BY <1>3 DEF TicksDone, Sound, Changes, IsState, Fields
  <2>2. ui' = Play(a, Notification, "silence")
    BY <1>3 DEF TicksDone
  <2> HIDE DEF a
  <2>3. Leads(ui, a)
    BY <2>1, FlagsLeads
  <2>4. Leads(a, Play(a, Notification, "silence"))
    BY <2>3, PlayLeads DEF Leads, Quiet
  <2> QED
    BY <2>2, <2>3, <2>4, LeadsOn DEF Steps
<1>4. CASE AnthemOver
  <2>1. ui.silence # "off"
    BY <1>4 DEF AnthemOver
  <2> QED
    BY <1>4, <2>1, FinishSilenceSound DEF AnthemOver, Steps
<1> QED
  BY <1>1, <1>2, <1>3, <1>4

LEMMA UpdateFollows == ASSUME Sound(ui), UpdateTriggered \/ UpdateFailed PROVE Leads(ui, ui')
<1>1. IsState(ui)
  BY DEF Sound
<1>2. CASE UpdateTriggered
  <2> DEFINE t == [ui EXCEPT !.updating = TRUE]
             v == SetLeds(t, UpdateLeds, "ota")
  <2>1. Changes(ui, t, {"silence", "updating"}) /\ t.silence = ui.silence
    BY <1>1 DEF Changes, IsState, Fields
  <2>2. ui' = v
    BY <1>2 DEF UpdateTriggered
  <2> HIDE DEF t
  <2>3. Leads(ui, t)
    BY <2>1, FlagsLeads DEF Sound, RestTyped
  <2>4. UpdateLeds >= t.ledPrio
    BY <2>3 DEF Leads, Sound, RestTyped, Co2Leds, SilenceLeds, UpdateLeds
  <2>5. Changes(t, v, LedFields) /\ v.ledPrio = UpdateLeds /\ v.ledOwner = "ota"
    BY <2>1, <2>4, SetLedsChanges DEF Changes
  <2> HIDE DEF v
  <2>6. \A f \in Fields \ LedFields : v[f] = t[f]
    BY <2>5 DEF Changes
  <2>7. /\ v.prio = t.prio /\ v.owner = t.owner /\ v.heard = t.heard /\ v.silence = t.silence
        /\ v.tstate = t.tstate /\ v.preset = t.preset /\ v.left = t.left
        /\ v.ringing = t.ringing /\ v.snooze = t.snooze /\ v.sacred = t.sacred /\ v.test = t.test
        /\ v.run = t.run /\ v.mode = t.mode /\ v.screen = t.screen /\ v.tui = t.tui /\ v.shown = t.shown
        /\ v.face = t.face
    BY <2>6 DEF Fields, LedFields
  <2>8. Sound(t)
    BY <2>3 DEF Leads
  <2>9. IsState(v) /\ ScreenTyped(v) /\ RestTyped(v)
    BY <2>5, <2>7, <2>8 DEF Sound, Changes, ScreenTyped, RestTyped
  <2>10. AlarmMatch(v) /\ TimerMatch(v) /\ SilenceMatch(v)
    BY <2>7, <2>8 DEF Sound, AlarmMatch, TimerMatch, Given, SilenceMatch, Silent
  <2>11. SoundMatch(v) /\ SirenKept(t, v) /\ LedMatch(v) /\ (RingMatch(t) => RingMatch(v))
    BY <2>5, <2>7, <2>8 DEF Sound, SoundMatch, SirenKept, RingMatch, LedMatch
  <2>12. Leads(t, v)
    BY <2>9, <2>10, <2>11 DEF Leads, Sound
  <2> QED
    BY <2>2, <2>3, <2>12, LeadsOn
<1>3. CASE UpdateFailed
  <2> DEFINE t == [ui EXCEPT !.updating = FALSE]
  <2>1. Changes(ui, t, {"silence", "updating"}) /\ t.silence = ui.silence
    BY <1>1 DEF Changes, IsState, Fields
  <2>2. ui' = t
    BY <1>3 DEF UpdateFailed
  <2> HIDE DEF t
  <2> QED
    BY <2>1, <2>2, FlagsLeads DEF Sound, RestTyped
<1> QED
  BY <1>2, <1>3

LEMMA StepFollows == ASSUME Sound(ui), [Next]_ui PROVE Follows(ui, ui')
<1>1. CASE Press
  BY <1>1, PressFollows
<1>2. CASE HaTimer
  BY <1>2, HaFollows
<1>3. CASE AlarmTime \/ AlarmSwitch \/ AlarmRepeats \/ AlarmGivesUp \/ SnoozeOver
  BY <1>3, AlarmFollows, LeadsFollows
<1>4. CASE ArmOver \/ CountDown \/ SecondPasses \/ TimerRepeats \/ TimerGivesUp
  BY <1>4, TimerFollows, LeadsFollows
<1>5. CASE Nine \/ TestSilence \/ Beat \/ TicksDone \/ AnthemOver
  BY <1>5, SilenceFollows, StepsFollows
<1>6. CASE UpdateTriggered \/ UpdateFailed
  BY <1>6, UpdateFollows, LeadsFollows
<1>7. CASE AlertChanges
  BY <1>7, SirenLeads, LeadsFollows DEF AlertChanges
<1>8. CASE SirenStops
  BY <1>8, SirenOverSound DEF SirenStops, Follows
<1>9. CASE ViewTimesOut
  <2>1. PICK v \in Views : ui' = HideView(ui, v)
    BY <1>9 DEF ViewTimesOut
  <2> QED
    BY <2>1, ViewLeads, LeadsFollows
<1>10. CASE OverlayEnds
  BY <1>10, OverlayLeads, LeadsFollows DEF OverlayEnds
<1>11. CASE MelodyEnds
  BY <1>11, HeardLeads, LeadsFollows DEF MelodyEnds
<1>12. CASE Refresh \/ EveryFiveSeconds
  BY <1>12, FaceLeads, LeadsFollows DEF Refresh, EveryFiveSeconds
<1>13. CASE Co2Measured
  BY <1>13, RefreshLedsLeads, LeadsFollows DEF Co2Measured
<1>14. CASE UNCHANGED ui
  BY <1>14, SameLeads, LeadsFollows
<1> QED
  BY <1>1, <1>2, <1>3, <1>4, <1>5, <1>6, <1>7, <1>8, <1>9, <1>10, <1>11, <1>12, <1>13, <1>14 DEF Next, Elapse

LEMMA BootSound == Sound(Boot) /\ RingMatch(Boot)
<1>1. IsState(Boot) /\ ScreenTyped(Boot)
  BY DEF Boot, IsState, Fields, ScreenTyped, ClockMode
<1>2. RestTyped(Boot)
  <2>1. 0 \in 0 .. Presets /\ 0 \in 0 .. 2
    BY FeaturesAssumption
  <2> QED
    BY <2>1 DEF Boot, RestTyped
<1>3. AlarmMatch(Boot) /\ TimerMatch(Boot) /\ SilenceMatch(Boot) /\ SoundMatch(Boot) /\ LedMatch(Boot) /\ RingMatch(Boot)
  BY DEF Boot, AlarmMatch, TimerMatch, SilenceMatch, SoundMatch, LedMatch, RingMatch, Silent, Nobody, AlarmSound
<1> QED
  BY <1>1, <1>2, <1>3 DEF Sound

-----------------------------------------------------------------------------
(* Who has the screen: the invariant, and the scripts that keep parts of it. *)

Place(u) ==
  \/ u.screen = "clock" /\ u.mode = ClockMode
  \/ u.screen \in Views /\ u.mode = ViewMode
  \/ u.screen = "timer" /\ u.mode = ToolMode
  \/ u.screen = "overlay" /\ u.mode = OverlayMode
  \/ u.screen = "silence" /\ u.mode = SilenceMode /\ Silent(u)

\* A view that is shown has the screen, and a time at which it ends.
Down(u) == \A v \in u.shown : u.screen = v
Timed(u) == \A v \in u.shown : v \in u.run
Up(u) == u.screen \in Views => u.screen \in u.shown

OverlayUp(u) == u.screen = "overlay" => "show_device_id" \in u.run /\ u.hold
Held(u) == u.hold => u.face = "stale"
Lit(u) == u.screen = "clock" /\ ~Silent(u) /\ ~u.hold => u.dial

\* refresh_timer_ui has seen the timer's screen, or will give it to the timer.
Wants(u) == u.tstate \in {"arming", "ringing"} \/ FinalMinute(u)
TimerUp(u) == u.screen = "timer" => u.tstate # "idle" /\ u.tui # "clock"
TimerDue(u) == u.screen = "timer" => u.tstate # "idle" /\ (u.tui # "clock" \/ Wants(u))
Stale(u) == u.tui # IF Wants(u) THEN "timer" ELSE "clock"
NoTimer(u) == "timer" \in Packages \/ (u.tui = "clock" /\ u.tstate = "idle")

Core0(u) == IsState(u) /\ ScreenTyped(u) /\ Place(u) /\ Timed(u) /\ NoTimer(u)
Core(u) == Core0(u) /\ Down(u)
Shows(u) == Core(u) /\ Up(u) /\ OverlayUp(u) /\ Held(u) /\ Lit(u) /\ TimerUp(u)

\* What the next call finds of the dial, where it may still have to come up.
LitOr(u, later) == u.screen = "clock" /\ ~Silent(u) /\ ~u.hold => u.dial \/ later

LEMMA RefreshTimerUiCases ==
  ASSUME NEW u, IsState(u), Place(u)
  PROVE  LET r == RefreshTimerUi(u)
         IN \/ r = u /\ "timer" \notin Packages
            \/ r = u /\ u.tui = "timer" /\ Wants(u)
            \/ r = u /\ u.tui = "clock" /\ ~Wants(u)
            \/ /\ Changes(u, r, {"tui"}) /\ r.tui = "hidden" /\ "timer" \in Packages
               /\ Silent(u) \/ u.screen \notin {"timer", "clock"}
            \/ /\ Changes(u, r, {"tui", "dial", "screen", "mode"}) /\ u.screen \in {"timer", "clock"} /\ "timer" \in Packages
               /\ Wants(u) /\ r.tui = "timer" /\ r.screen = "timer" /\ r.mode = ToolMode
            \/ /\ Changes(u, r, {"tui", "dial", "screen", "mode"}) /\ u.screen \in {"timer", "clock"} /\ "timer" \in Packages
               /\ ~Wants(u) /\ r.tui = "clock" /\ r.dial /\ r.screen = "clock" /\ r.mode = ClockMode
<1> DEFINE blocked == Silent(u) \/ u.mode = SilenceMode \/ u.screen \notin {"timer", "clock"}
           dark == [u EXCEPT !.tui = "timer", !.dial = FALSE]
           lit == [u EXCEPT !.tui = "clock", !.dial = TRUE]
           hidden == [u EXCEPT !.tui = "hidden"]
<1>1. Changes(u, hidden, {"tui"}) /\ hidden.tui = "hidden"
  BY DEF Changes, IsState, Fields
<1>2. /\ Changes(u, dark, {"tui", "dial"}) /\ dark.tui = "timer"
      /\ Changes(u, lit, {"tui", "dial"}) /\ lit.tui = "clock" /\ lit.dial
  BY DEF Changes, IsState, Fields
<1>3. RefreshTimerUi(u) =
        IF "timer" \notin Packages THEN u
        ELSE IF blocked THEN hidden
        ELSE IF Wants(u) THEN (IF u.tui = "timer" THEN u ELSE TakeScreen(dark, ToolMode, "timer"))
        ELSE IF u.tui = "clock" THEN u ELSE Release(lit, "timer")
  BY DEF RefreshTimerUi, Wants
<1> HIDE DEF hidden, dark, lit
<1>4. dark.screen = u.screen /\ dark.mode = u.mode /\ lit.screen = u.screen /\ lit.mode = u.mode
  BY <1>2 DEF Changes, Fields
<1>5. ASSUME ~blocked
      PROVE  LET r == TakeScreen(dark, ToolMode, "timer")
             IN /\ Changes(u, r, {"tui", "dial", "screen", "mode"})
                /\ r.tui = "timer" /\ r.screen = "timer" /\ r.mode = ToolMode
  <2>1. Granted(dark, ToolMode, "timer")
    BY <1>4, <1>5 DEF Granted, Place, ClockMode, ToolMode, Views
  <2>2. TakeScreen(dark, ToolMode, "timer") = [dark EXCEPT !.mode = ToolMode, !.screen = "timer"]
    BY <2>1 DEF TakeScreen
  <2> DEFINE r == TakeScreen(dark, ToolMode, "timer")
  <2>3. IsState(dark)
    BY <1>2 DEF Changes
  <2>4. Changes(dark, r, {"screen", "mode"}) /\ r.tui = dark.tui /\ r.screen = "timer" /\ r.mode = ToolMode
    BY <2>2, <2>3 DEF Changes, IsState, Fields
  <2> HIDE DEF r
  <2>5. Changes(u, r, {"tui", "dial", "screen", "mode"})
    BY <1>2, <2>4 DEF Changes
  <2> QED
    BY <1>2, <2>4, <2>5 DEF r
<1>6. ASSUME ~blocked
      PROVE  LET r == Release(lit, "timer")
             IN /\ Changes(u, r, {"tui", "dial", "screen", "mode"})
                /\ r.tui = "clock" /\ r.dial /\ r.screen = "clock" /\ r.mode = ClockMode
  <2>1. CASE u.screen = "timer"
    <3>1. Release(lit, "timer") = [lit EXCEPT !.mode = ClockMode, !.screen = "clock"]
      BY <1>4, <2>1 DEF Release, ToClock
    <3> DEFINE r == Release(lit, "timer")
    <3>2. IsState(lit)
      BY <1>2 DEF Changes
    <3>3. /\ Changes(lit, r, {"screen", "mode"}) /\ r.tui = lit.tui /\ r.dial = lit.dial
          /\ r.screen = "clock" /\ r.mode = ClockMode
      BY <3>1, <3>2 DEF Changes, IsState, Fields
    <3> HIDE DEF r
    <3>4. Changes(u, r, {"tui", "dial", "screen", "mode"})
      BY <1>2, <3>3 DEF Changes
    <3> QED
      BY <1>2, <3>3, <3>4 DEF r
  <2>2. CASE u.screen = "clock"
    <3>1. Release(lit, "timer") = lit /\ lit.screen = "clock" /\ lit.mode = ClockMode
      BY <1>4, <2>2 DEF Release, Place, Views
    <3> QED
      BY <1>2, <3>1 DEF Changes
  <2> QED
    BY <1>6, <2>1, <2>2
<1>7. blocked => Silent(u) \/ u.screen \notin {"timer", "clock"}
  BY DEF Place, Views, SilenceMode, ClockMode, ViewMode, ToolMode, OverlayMode
<1>8. ~blocked => u.screen \in {"timer", "clock"}
  OBVIOUS
<1> QED
  BY <1>1, <1>3, <1>5, <1>6, <1>7, <1>8

LEMMA RefreshTimerUiShows ==
  ASSUME NEW u, Core(u), LitOr(u, Stale(u)), TimerDue(u)
  PROVE  LET r == RefreshTimerUi(u)
         IN /\ Core(r) /\ Lit(r) /\ TimerUp(r) /\ (Up(u) => Up(r))
            /\ r.shown = u.shown /\ r.run = u.run /\ r.hold = u.hold /\ r.face = u.face
            /\ r.screen = u.screen \/ (u.screen \in {"timer", "clock"} /\ r.screen \in {"timer", "clock"})
<1> DEFINE r == RefreshTimerUi(u)
<1>1. /\ IsState(u) /\ ScreenTyped(u) /\ Place(u) /\ Timed(u) /\ NoTimer(u) /\ Down(u)
  BY DEF Core, Core0
<1>2. IsState(r) /\ ScreenTyped(r)
  BY <1>1, RefreshTimerUiOnly DEF ScreenOnly, Changes
<1>3. \/ r = u /\ "timer" \notin Packages
      \/ r = u /\ u.tui = "timer" /\ Wants(u)
      \/ r = u /\ u.tui = "clock" /\ ~Wants(u)
      \/ /\ Changes(u, r, {"tui"}) /\ r.tui = "hidden" /\ "timer" \in Packages
         /\ Silent(u) \/ u.screen \notin {"timer", "clock"}
      \/ /\ Changes(u, r, {"tui", "dial", "screen", "mode"}) /\ u.screen \in {"timer", "clock"} /\ "timer" \in Packages
         /\ Wants(u) /\ r.tui = "timer" /\ r.screen = "timer" /\ r.mode = ToolMode
      \/ /\ Changes(u, r, {"tui", "dial", "screen", "mode"}) /\ u.screen \in {"timer", "clock"} /\ "timer" \in Packages
         /\ ~Wants(u) /\ r.tui = "clock" /\ r.dial /\ r.screen = "clock" /\ r.mode = ClockMode
  BY <1>1, RefreshTimerUiCases
<1>4. Wants(u) => u.tstate # "idle"
  BY DEF Wants, FinalMinute
<1> HIDE DEF r
<1>5. CASE /\ r = u
           /\ "timer" \notin Packages \/ (u.tui = "timer" /\ Wants(u)) \/ (u.tui = "clock" /\ ~Wants(u))
  <2>1. u.screen = "timer" => u.tui # "clock"
    BY <1>1, <1>3, <1>5 DEF TimerDue, NoTimer, Changes
  <2>2. ~Stale(u)
    BY <1>1, <1>3, <1>4, <1>5 DEF Stale, NoTimer, Changes
  <2>3. Lit(u) /\ TimerUp(u)
    BY <2>1, <2>2 DEF Lit, LitOr, TimerUp, TimerDue
  <2> QED
    BY <1>5, <2>3 DEF r
<1>6. CASE /\ Changes(u, r, {"tui"}) /\ r.tui = "hidden" /\ "timer" \in Packages
           /\ Silent(u) \/ u.screen \notin {"timer", "clock"}
  <2>1. \A f \in Fields \ {"tui"} : r[f] = u[f]
    BY <1>6 DEF Changes
  <2>2. /\ r.screen = u.screen /\ r.mode = u.mode /\ r.shown = u.shown /\ r.run = u.run /\ r.hold = u.hold
        /\ r.face = u.face /\ r.tstate = u.tstate /\ r.sacred = u.sacred /\ r.test = u.test /\ r.dial = u.dial
    BY <2>1 DEF Fields
  <2>3. Silent(r) <=> Silent(u)
    BY <2>2 DEF Silent
  <2>4. Core(r) /\ (Up(u) => Up(r))
    BY <1>1, <1>2, <1>6, <2>2, <2>3 DEF Core, Core0, Place, Timed, NoTimer, Down, Up
  <2>5. Lit(r) /\ TimerUp(r)
    BY <1>6, <2>2, <2>3 DEF Lit, TimerUp, TimerDue
  <2> QED
    BY <2>2, <2>4, <2>5 DEF r
<1>7. CASE /\ Changes(u, r, {"tui", "dial", "screen", "mode"}) /\ u.screen \in {"timer", "clock"} /\ "timer" \in Packages
           /\ \/ Wants(u) /\ r.tui = "timer" /\ r.screen = "timer" /\ r.mode = ToolMode
              \/ ~Wants(u) /\ r.tui = "clock" /\ r.dial /\ r.screen = "clock" /\ r.mode = ClockMode
  <2>1. \A f \in Fields \ {"tui", "dial", "screen", "mode"} : r[f] = u[f]
    BY <1>7 DEF Changes
  <2>2. /\ r.shown = u.shown /\ r.run = u.run /\ r.hold = u.hold
        /\ r.face = u.face /\ r.tstate = u.tstate /\ r.sacred = u.sacred /\ r.test = u.test
    BY <2>1 DEF Fields
  <2>3. u.shown = {}
    BY <1>1, <1>7 DEF Down, ScreenTyped, Views
  <2>4. Place(r)
    BY <1>7 DEF Place
  <2>5. Core(r)
    BY <1>1, <1>2, <1>7, <2>2, <2>3, <2>4 DEF Core, Core0, Timed, NoTimer, Down
  <2>6. Lit(r) /\ Up(r)
    BY <1>7 DEF Lit, Up, Views
  <2>7. TimerUp(r)
    BY <1>4, <1>7, <2>2 DEF TimerUp
  <2> QED
    BY <1>7, <2>2, <2>5, <2>6, <2>7 DEF r
<1> QED
  BY <1>3, <1>5, <1>6, <1>7

LEMMA CloseViewsShows ==
  ASSUME NEW u, Core(u), Silent(u)
  PROVE  LET c == CloseViews(u)
         IN /\ Core(c) /\ Lit(c) /\ (Up(u) => Up(c)) /\ (TimerUp(u) => TimerUp(c)) /\ (TimerDue(u) => TimerDue(c))
            /\ (OverlayUp(u) => OverlayUp(c)) /\ c.face = u.face /\ c.hold = u.hold /\ c.shown = {}
            /\ u.shown = {} => c.screen = u.screen
<1> DEFINE S == {Timeout(v) : v \in u.shown}
           closed == [u EXCEPT !.shown = {}, !.run = @ \ S]
           c == CloseViews(u)
<1>1. /\ IsState(u) /\ ScreenTyped(u) /\ Place(u) /\ Timed(u) /\ NoTimer(u) /\ Down(u) /\ u.shown \subseteq Views
  BY DEF Core, Core0, ScreenTyped
<1>2. IsState(c) /\ ScreenTyped(c)
  BY <1>1, CloseViewsOnly DEF ScreenOnly, Changes
<1>3. S \subseteq Views
  BY <1>1 DEF Timeout
<1> HIDE DEF S
<1>4. Changes(u, closed, {"shown", "run"}) /\ closed.shown = {} /\ closed.run = u.run \ S
  BY <1>1 DEF Changes, IsState, Fields
<1>5. c = IF u.screen \in u.shown THEN ToClock(closed) ELSE closed
  BY DEF CloseViews, c, closed, S
<1> HIDE DEF closed, c
<1>6. /\ Changes(u, c, {"shown", "run", "screen", "mode"}) /\ c.shown = {} /\ c.run = u.run \ S
      /\ IF u.screen \in u.shown THEN c.screen = "clock" /\ c.mode = ClockMode
                                 ELSE c.screen = u.screen /\ c.mode = u.mode
  <2>1. CASE u.screen \in u.shown
    <3>1. IsState(closed) /\ c = [closed EXCEPT !.mode = ClockMode, !.screen = "clock"]
      BY <1>4, <1>5, <2>1 DEF ToClock, Changes
    <3>2. Changes(closed, c, {"screen", "mode"}) /\ c.shown = closed.shown /\ c.run = closed.run
          /\ c.screen = "clock" /\ c.mode = ClockMode
      BY <3>1 DEF Changes, IsState, Fields
    <3>3. Changes(u, c, {"shown", "run", "screen", "mode"})
      BY <1>4, <3>2 DEF Changes
    <3> QED
      BY <1>4, <2>1, <3>2, <3>3
  <2>2. CASE u.screen \notin u.shown
    BY <1>4, <1>5, <2>2 DEF Changes, Fields
  <2> QED
    BY <2>1, <2>2
<1>7. \A f \in Fields \ {"shown", "run", "screen", "mode"} : c[f] = u[f]
  BY <1>6 DEF Changes
<1>8. /\ c.hold = u.hold /\ c.face = u.face /\ c.tstate = u.tstate /\ c.left = u.left /\ c.sacred = u.sacred
      /\ c.test = u.test /\ c.dial = u.dial /\ c.tui = u.tui
  BY <1>7 DEF Fields
<1>9. Silent(c) /\ Place(c)
  BY <1>1, <1>6, <1>8 DEF Silent, Place
<1>10. Core(c) /\ Lit(c)
  BY <1>1, <1>2, <1>6, <1>8, <1>9 DEF Core, Core0, Timed, NoTimer, Down, Lit
<1>11. Up(u) => Up(c)
  BY <1>6 DEF Up, Views
<1>12. (TimerUp(u) => TimerUp(c)) /\ (TimerDue(u) => TimerDue(c))
  BY <1>6, <1>8 DEF TimerUp, TimerDue, Wants, FinalMinute
<1>13. OverlayUp(u) => OverlayUp(c)
  BY <1>3, <1>6, <1>8 DEF OverlayUp, Views
<1> QED
  BY <1>6, <1>8, <1>10, <1>11, <1>12, <1>13 DEF c

LEMMA RefreshFaceShows ==
  ASSUME NEW u, Core(u), TimerDue(u), LitOr(u, u.face # "clock")
  PROVE  LET f == RefreshFace(u)
         IN /\ Core(f) /\ Lit(f) /\ (Up(u) => Up(f)) /\ (TimerUp(u) => TimerUp(f)) /\ TimerDue(f)
            /\ (OverlayUp(u) => OverlayUp(f)) /\ (Held(u) => Held(f)) /\ f.shown \subseteq u.shown /\ f.hold = u.hold
            /\ u.shown = {} /\ u.screen # "clock" => f.screen = u.screen
<1> DEFINE dark == [u EXCEPT !.face = "silence", !.dial = FALSE]
           lit == [u EXCEPT !.face = "clock", !.dial = TRUE]
           f == RefreshFace(u)
<1>1. /\ IsState(u) /\ ScreenTyped(u) /\ Place(u) /\ Timed(u) /\ NoTimer(u) /\ Down(u)
  BY DEF Core, Core0
<1>2. /\ Changes(u, dark, {"face", "dial"}) /\ dark.face = "silence" /\ ScreenTyped(dark)
      /\ Changes(u, lit, {"face", "dial"}) /\ lit.face = "clock" /\ lit.dial /\ ScreenTyped(lit)
  BY <1>1 DEF Changes, IsState, Fields, ScreenTyped
<1>3. f = IF u.hold \/ (u.mode # ClockMode /\ ~Silent(u)) \/ u.face = (IF Silent(u) THEN "silence" ELSE "clock") THEN u
          ELSE IF Silent(u) THEN CloseViews(dark) ELSE RefreshTimerUi(lit)
  BY DEF RefreshFace, f, dark, lit
<1> HIDE DEF f, dark, lit
<1>4. ASSUME NEW x \in {dark, lit}
      PROVE  /\ Core(x) /\ TimerDue(x) /\ (TimerUp(u) => TimerUp(x)) /\ (Up(u) => Up(x)) /\ (OverlayUp(u) => OverlayUp(x))
             /\ x.screen = u.screen /\ x.shown = u.shown /\ x.hold = u.hold /\ (Silent(x) <=> Silent(u))
  <2>1. \A g \in Fields \ {"face", "dial"} : x[g] = u[g]
    BY <1>2 DEF Changes
  <2>2. /\ x.hold = u.hold /\ x.mode = u.mode /\ x.screen = u.screen /\ x.tstate = u.tstate /\ x.left = u.left
        /\ x.sacred = u.sacred /\ x.test = u.test /\ x.shown = u.shown /\ x.tui = u.tui /\ x.run = u.run
    BY <2>1 DEF Fields
  <2>3. Core(x)
    BY <1>1, <1>2, <2>2 DEF Changes, Core, Core0, Place, Timed, NoTimer, Down, Silent
  <2>4. TimerDue(x) /\ (TimerUp(u) => TimerUp(x))
    BY <2>2 DEF TimerDue, TimerUp, Wants, FinalMinute
  <2> QED
    BY <2>2, <2>3, <2>4 DEF Up, OverlayUp, Silent
<1>5. CASE f = u /\ (u.hold \/ (u.mode # ClockMode /\ ~Silent(u)) \/ u.face = (IF Silent(u) THEN "silence" ELSE "clock"))
  <2>1. Lit(u)
    BY <1>1, <1>5 DEF Lit, LitOr, Place, Views
  <2> QED
    BY <1>5, <2>1 DEF f
<1>6. CASE Silent(u) /\ ~u.hold /\ f = CloseViews(dark)
  <2>1. /\ Core(f) /\ Lit(f) /\ (Up(dark) => Up(f)) /\ (TimerUp(dark) => TimerUp(f)) /\ TimerDue(f)
        /\ (OverlayUp(dark) => OverlayUp(f)) /\ f.hold = dark.hold /\ f.shown = {}
        /\ dark.shown = {} => f.screen = dark.screen
    BY <1>4, <1>6, CloseViewsShows
  <2> QED
    BY <1>4, <1>6, <2>1 DEF Held, f
<1>7. CASE ~Silent(u) /\ ~u.hold /\ u.mode = ClockMode /\ f = RefreshTimerUi(lit)
  <2>1. u.screen = "clock"
    BY <1>1, <1>7 DEF Place, ClockMode, ViewMode, ToolMode, OverlayMode, SilenceMode
  <2>2. LitOr(lit, Stale(lit))
    BY <1>2 DEF LitOr
  <2>3. /\ Core(f) /\ Lit(f) /\ TimerUp(f) /\ (Up(lit) => Up(f)) /\ f.shown = lit.shown /\ f.hold = lit.hold
        /\ f.screen = lit.screen \/ f.screen \in {"timer", "clock"}
    BY <1>4, <1>7, <2>2, RefreshTimerUiShows
  <2>4. TimerDue(f)
    BY <2>3 DEF TimerUp, TimerDue
  <2>5. f.screen \in {"timer", "clock"}
    BY <1>4, <2>1, <2>3
  <2> QED
    BY <1>4, <1>7, <2>1, <2>3, <2>4, <2>5 DEF Held, OverlayUp, f
<1> QED
  BY <1>3, <1>5, <1>6, <1>7

LEMMA ToClockCore ==
  ASSUME NEW u, Core0(u)
  PROVE  LET t == ToClock(u)
         IN /\ Core0(t) /\ Changes(u, t, {"mode", "screen"}) /\ t.screen = "clock"
            /\ t.tui = u.tui /\ t.shown = u.shown /\ t.run = u.run /\ t.tstate = u.tstate /\ t.hold = u.hold
            /\ t.face = u.face /\ t.dial = u.dial /\ (Silent(t) <=> Silent(u))
<1> DEFINE t == ToClock(u)
<1>1. IsState(u) /\ ScreenTyped(u) /\ Timed(u) /\ NoTimer(u)
  BY DEF Core0
<1>2. Changes(u, t, {"mode", "screen"}) /\ t.screen = "clock" /\ t.mode = ClockMode /\ ScreenTyped(t)
  BY <1>1 DEF ToClock, Changes, IsState, Fields, ScreenTyped
<1> HIDE DEF t
<1>3. \A f \in Fields \ {"mode", "screen"} : t[f] = u[f]
  BY <1>2 DEF Changes
<1>4. /\ t.tui = u.tui /\ t.shown = u.shown /\ t.run = u.run /\ t.tstate = u.tstate /\ t.hold = u.hold
      /\ t.face = u.face /\ t.dial = u.dial /\ t.sacred = u.sacred /\ t.test = u.test
  BY <1>3 DEF Fields
<1>5. Core0(t)
  BY <1>1, <1>2, <1>4 DEF Core0, Place, Timed, NoTimer, Changes
<1> QED
  BY <1>2, <1>4, <1>5 DEF Silent, t

LEMMA HideViewShows ==
  ASSUME NEW u, Core0(u), TimerDue(u), NEW v \in Views, \A w \in u.shown \ {v} : u.screen = w
  PROVE  LET w == HideView(u, v)
         IN /\ Core(w) /\ Lit(w) /\ Held(w) /\ TimerDue(w) /\ (TimerUp(u) => TimerUp(w))
            /\ (OverlayUp(u) => OverlayUp(w)) /\ w.shown \subseteq u.shown \ {v} /\ w.hold = u.hold
            /\ (u.screen \in Views => u.screen \in u.shown \cup {v}) => Up(w)
            /\ u.shown \subseteq {v} /\ u.screen \notin {"clock", v} => w.screen = u.screen
<1> DEFINE s == Stopped(u, {Timeout(v)})
           h == [s EXCEPT !.shown = @ \ {v}, !.dial = TRUE, !.face = "stale"]
           q == Release(h, v)
           w == RefreshFace(q)
<1>1. IsState(u) /\ ScreenTyped(u) /\ Place(u) /\ Timed(u) /\ NoTimer(u)
  BY DEF Core0
<1>2. Changes(u, s, {"run"}) /\ s.run = u.run \ {v} /\ s.shown = u.shown
  BY <1>1 DEF Stopped, Timeout, Changes, IsState, Fields
<1> HIDE DEF s
<1>3. Changes(s, h, {"shown", "dial", "face"}) /\ h.shown = u.shown \ {v} /\ h.dial /\ h.face = "stale" /\ h.run = s.run
  BY <1>2 DEF Changes, IsState, Fields
<1> HIDE DEF h
<1>4. \A f \in Fields \ {"run", "shown", "dial", "face"} : h[f] = u[f]
  BY <1>2, <1>3 DEF Changes
<1>5. /\ h.hold = u.hold /\ h.mode = u.mode /\ h.screen = u.screen /\ h.tstate = u.tstate /\ h.left = u.left
      /\ h.sacred = u.sacred /\ h.test = u.test /\ h.tui = u.tui
  BY <1>4 DEF Fields
<1>6. ScreenTyped(h) /\ IsState(h)
  BY <1>1, <1>2, <1>3, <1>5 DEF Changes, ScreenTyped
<1>7. Core0(h)
  BY <1>1, <1>2, <1>3, <1>5, <1>6 DEF Core0, Place, Timed, NoTimer, Silent
<1>8. TimerDue(h) /\ (TimerUp(u) => TimerUp(h)) /\ (OverlayUp(u) => OverlayUp(h))
  BY <1>2, <1>3, <1>5 DEF TimerDue, TimerUp, OverlayUp, Wants, FinalMinute, Views
<1>9. /\ Core(q) /\ TimerDue(q) /\ (TimerUp(u) => TimerUp(q)) /\ (OverlayUp(u) => OverlayUp(q)) /\ q.dial /\ q.face = "stale"
      /\ q.shown = u.shown \ {v} /\ q.hold = u.hold /\ q.screen = IF u.screen = v THEN "clock" ELSE u.screen
  <2>1. CASE u.screen = v
    <3>1. q = ToClock(h)
      BY <1>5, <2>1 DEF Release
    <3>2. /\ Core0(q) /\ q.screen = "clock" /\ q.shown = h.shown /\ q.face = h.face /\ q.dial = h.dial /\ q.hold = h.hold
      BY <1>7, <3>1, ToClockCore
    <3>3. u.shown \ {v} = {}
      BY <2>1
    <3> HIDE DEF q
    <3>4. Core(q)
      BY <1>3, <3>2, <3>3 DEF Core, Down
    <3> QED
      BY <1>3, <1>5, <2>1, <3>2, <3>4 DEF TimerDue, TimerUp, OverlayUp
  <2>2. CASE u.screen # v
    <3>1. q = h
      BY <1>5, <2>2 DEF Release
    <3> QED
      BY <1>3, <1>5, <1>7, <1>8, <2>2, <3>1 DEF Core, Down
  <2> QED
    BY <2>1, <2>2
<1> HIDE DEF q
<1>10. LitOr(q, q.face # "clock") /\ Held(q)
  BY <1>9 DEF LitOr, Held
<1>11. /\ Core(w) /\ Lit(w) /\ (Up(q) => Up(w)) /\ (TimerUp(q) => TimerUp(w)) /\ TimerDue(w)
       /\ (OverlayUp(q) => OverlayUp(w)) /\ Held(w) /\ w.shown \subseteq q.shown /\ w.hold = q.hold
       /\ q.shown = {} /\ q.screen # "clock" => w.screen = q.screen
  BY <1>9, <1>10, RefreshFaceShows
<1>12. (u.screen \in Views => u.screen \in u.shown \cup {v}) => Up(q)
  BY <1>9 DEF Up, Views
<1>13. HideView(u, v) = w
  BY DEF HideView, w, q, h, s
<1> HIDE DEF w
<1>14. u.shown \subseteq {v} /\ u.screen \notin {"clock", v} => w.screen = u.screen
  BY <1>9, <1>11
<1> QED
  BY <1>9, <1>11, <1>12, <1>13, <1>14

LEMMA TimerOffShows ==
  ASSUME NEW u, Core(u), LitOr(u, u.tui # "clock"), u.screen = "timer" => u.tui # "clock",
         NEW scripts \in SUBSET TimerScripts
  PROVE  LET w == TimerOff(u, scripts)
         IN /\ Core(w) /\ Lit(w) /\ TimerUp(w) /\ (Up(u) => Up(w)) /\ (Held(u) => Held(w)) /\ (OverlayUp(u) => OverlayUp(w))
            /\ w.shown = u.shown /\ w.hold = u.hold
            /\ w.screen = u.screen \/ (u.screen \in {"timer", "clock"} /\ w.screen \in {"timer", "clock"})
<1> DEFINE s == [Stopped(u, scripts) EXCEPT !.tstate = "idle", !.preset = 0, !.left = 0]
           p == Stop(s, "timer")
           q == Release(p, "timer")
           w == RefreshTimerUi(q)
<1>1. IsState(u) /\ ScreenTyped(u) /\ Place(u) /\ Timed(u) /\ NoTimer(u) /\ Down(u)
  BY DEF Core, Core0
<1>2. Changes(u, s, {"run"} \cup TimerFields) /\ s.run = u.run \ scripts /\ s.tstate = "idle"
  BY <1>1 DEF Stopped, Changes, IsState, Fields, TimerFields
<1> HIDE DEF s
<1>3. Changes(s, p, SoundFields)
  BY <1>2 DEF Stop, Changes, IsState, Fields, SoundFields
<1> HIDE DEF p
<1>4. \A f \in Fields \ ({"run"} \cup TimerFields \cup SoundFields) : p[f] = u[f]
  BY <1>2, <1>3 DEF Changes
<1>5. /\ p.hold = u.hold /\ p.mode = u.mode /\ p.screen = u.screen /\ p.sacred = u.sacred /\ p.test = u.test
      /\ p.tui = u.tui /\ p.shown = u.shown /\ p.face = u.face /\ p.dial = u.dial
  BY <1>4 DEF Fields, TimerFields, SoundFields
<1>6. p.run = u.run \ scripts /\ p.tstate = "idle" /\ IsState(p)
  BY <1>2, <1>3 DEF Changes, Fields, SoundFields
<1>7. ScreenTyped(p) /\ (Silent(p) <=> Silent(u))
  BY <1>1, <1>5, <1>6 DEF ScreenTyped, Silent
<1>8. \A v \in Views \cup {"show_device_id"} : v \in p.run <=> v \in u.run
  BY <1>6 DEF Views, TimerScripts
<1>9. Core0(p) /\ Down(p)
  BY <1>1, <1>5, <1>6, <1>7, <1>8 DEF Core0, Place, Timed, NoTimer, Down, ScreenTyped
<1>10. /\ Core(q) /\ q.screen # "timer" /\ q.tstate = "idle" /\ q.shown = u.shown /\ q.face = u.face /\ q.hold = u.hold
       /\ q.dial = u.dial /\ q.tui = u.tui /\ (Silent(q) <=> Silent(u)) /\ q.run = p.run
       /\ q.screen = IF u.screen = "timer" THEN "clock" ELSE u.screen
  <2>1. CASE u.screen = "timer"
    <3>1. q = ToClock(p)
      BY <1>5, <2>1 DEF Release
    <3>2. /\ Core0(q) /\ q.screen = "clock" /\ q.tui = p.tui /\ q.shown = p.shown /\ q.run = p.run /\ q.tstate = p.tstate
          /\ q.hold = p.hold /\ q.face = p.face /\ q.dial = p.dial /\ (Silent(q) <=> Silent(p))
      BY <1>9, <3>1, ToClockCore
    <3>3. u.shown = {}
      BY <1>1, <2>1 DEF Down, ScreenTyped, Views
    <3> HIDE DEF q
    <3> QED
      BY <1>5, <1>6, <1>7, <2>1, <3>2, <3>3 DEF Core, Down
  <2>2. CASE u.screen # "timer"
    <3>1. q = p
      BY <1>5, <2>2 DEF Release
    <3> QED
      BY <1>5, <1>6, <1>7, <1>9, <2>2, <3>1 DEF Core
  <2> QED
    BY <2>1, <2>2
<1> HIDE DEF q
<1>11. ~Wants(q)
  BY <1>10 DEF Wants, FinalMinute
<1>12. LitOr(q, Stale(q)) /\ TimerDue(q)
  BY <1>10, <1>11 DEF LitOr, Stale, TimerDue
<1>13. /\ Core(w) /\ Lit(w) /\ TimerUp(w) /\ (Up(q) => Up(w))
       /\ w.shown = q.shown /\ w.run = q.run /\ w.hold = q.hold /\ w.face = q.face
       /\ w.screen = q.screen \/ (q.screen \in {"timer", "clock"} /\ w.screen \in {"timer", "clock"})
  BY <1>10, <1>12, RefreshTimerUiShows
<1>14. TimerOff(u, scripts) = w
  BY DEF TimerOff, w, q, p, s
<1> HIDE DEF w
<1>15. Up(u) => Up(q)
  BY <1>10 DEF Up, Views
<1>16. Held(u) => Held(w)
  BY <1>10, <1>13 DEF Held
<1>17. OverlayUp(u) => OverlayUp(w)
  BY <1>8, <1>10, <1>13 DEF OverlayUp
<1> QED
  BY <1>10, <1>13, <1>14, <1>15, <1>16, <1>17

LEMMA DropOverlayShows ==
  ASSUME NEW u, Core0(u), u.screen # "overlay"
  PROVE  LET w == DropOverlay(u)
         IN /\ Core0(w) /\ (Down(u) => Down(w)) /\ (TimerDue(u) => TimerDue(w)) /\ (TimerUp(u) => TimerUp(w)) /\ Held(w)
            /\ w.screen = u.screen /\ w.shown = u.shown /\ w.face = u.face /\ (Up(u) => Up(w))
            /\ w.hold = FALSE /\ w.dial = u.dial
<1> DEFINE s == Stopped(u, {"show_device_id"})
           w == [s EXCEPT !.hold = FALSE]
<1>1. IsState(u) /\ ScreenTyped(u) /\ Place(u) /\ Timed(u) /\ NoTimer(u)
  BY DEF Core0
<1>2. Changes(u, s, {"run"}) /\ s.run = u.run \ {"show_device_id"} /\ s.screen = u.screen
  BY <1>1 DEF Stopped, Changes, IsState, Fields
<1> HIDE DEF s
<1>3. Changes(s, w, {"hold"}) /\ w.hold = FALSE /\ w.run = s.run
  BY <1>2 DEF Changes, IsState, Fields
<1> HIDE DEF w
<1>4. \A f \in Fields \ {"run", "hold"} : w[f] = u[f]
  BY <1>2, <1>3 DEF Changes
<1>5. /\ w.mode = u.mode /\ w.screen = u.screen /\ w.sacred = u.sacred /\ w.test = u.test /\ w.tstate = u.tstate
      /\ w.left = u.left /\ w.tui = u.tui /\ w.shown = u.shown /\ w.face = u.face /\ w.dial = u.dial
  BY <1>4 DEF Fields
<1>6. IsState(w) /\ ScreenTyped(w)
  BY <1>1, <1>2, <1>3, <1>5 DEF Changes, ScreenTyped
<1>7. Core0(w)
  BY <1>1, <1>2, <1>3, <1>5, <1>6 DEF Core0, Place, Timed, NoTimer, Silent, ScreenTyped, Views
<1>8. DropOverlay(u) = w
  BY <1>2 DEF DropOverlay, Release, w, s
<1> QED
  BY <1>3, <1>5, <1>7, <1>8 DEF Down, TimerDue, TimerUp, Wants, FinalMinute, Held, Up

\* u is the screen of whoever takes it, with the state of who loses it still there.
LEMMA PreemptedShows ==
  ASSUME NEW u, Core0(u), NEW previous, u.shown \subseteq {previous}, u.screen # previous, TimerDue(u),
         previous = "timer" => u.tui # "clock"
  PROVE  LET w == Preempted(u, previous)
         IN /\ Core(w) /\ w.shown = {} /\ TimerDue(w) /\ (TimerUp(u) => TimerUp(w)) /\ (Held(u) => Held(w))
            /\ (u.screen # "clock" => w.screen = u.screen) /\ (OverlayUp(u) /\ u.screen # "overlay" => OverlayUp(w))
            /\ (u.screen \notin Views => Up(w)) /\ (previous # "overlay" => w.hold = u.hold)
<1>1. IsState(u) /\ ScreenTyped(u) /\ Place(u) /\ Timed(u) /\ NoTimer(u) /\ u.shown \subseteq Views
  BY DEF Core0, ScreenTyped
<1>2. CASE previous = "timer"
  <2> DEFINE w == TimerCancel(u)
  <2>1. u.shown = {}
    BY <1>1, <1>2 DEF Views
  <2>2. Core(u) /\ LitOr(u, u.tui # "clock")
    BY <1>2, <2>1 DEF Core, Down, LitOr
  <2>3. /\ Core(w) /\ TimerUp(w) /\ (Up(u) => Up(w)) /\ (Held(u) => Held(w)) /\ (OverlayUp(u) => OverlayUp(w))
        /\ w.shown = u.shown /\ w.hold = u.hold
        /\ w.screen = u.screen \/ (u.screen \in {"timer", "clock"} /\ w.screen \in {"timer", "clock"})
    BY <1>2, <2>2, TimerOffShows DEF TimerCancel, TimerScripts
  <2>4. Preempted(u, previous) = w
    BY <1>2 DEF Preempted
  <2> HIDE DEF w
  <2>5. TimerDue(w) /\ (u.screen \notin Views => Up(w))
    BY <2>3 DEF TimerUp, TimerDue, Up
  <2> QED
    BY <1>2, <2>1, <2>3, <2>4, <2>5
<1>3. CASE previous \in Views
  <2> DEFINE w == HideView(u, previous)
  <2>1. \A x \in u.shown \ {previous} : u.screen = x
    OBVIOUS
  <2>2. /\ Core(w) /\ Held(w) /\ TimerDue(w) /\ (TimerUp(u) => TimerUp(w))
        /\ (OverlayUp(u) => OverlayUp(w)) /\ w.shown \subseteq u.shown \ {previous} /\ w.hold = u.hold
        /\ (u.screen \in Views => u.screen \in u.shown \cup {previous}) => Up(w)
        /\ u.shown \subseteq {previous} /\ u.screen \notin {"clock", previous} => w.screen = u.screen
    BY <1>3, <2>1, HideViewShows
  <2>3. Preempted(u, previous) = w
    BY <1>3 DEF Preempted, Views
  <2> HIDE DEF w
  <2>4. w.shown = {}
    BY <2>2
  <2> QED
    BY <2>2, <2>3, <2>4
<1>4. CASE previous \notin Views \cup {"timer"}
  <2>1. u.shown = {}
    BY <1>1, <1>4
  <2>2. Core(u)
    BY <2>1 DEF Core, Down
  <2>3. u.screen \notin Views => Up(u)
    BY DEF Up
  <2>4. CASE previous = "overlay"
    <3> DEFINE w == DropOverlay(u)
    <3>1. /\ Core0(w) /\ (Down(u) => Down(w)) /\ TimerDue(w) /\ (TimerUp(u) => TimerUp(w)) /\ Held(w)
          /\ w.screen = u.screen /\ w.shown = u.shown /\ (Up(u) => Up(w))
      BY <2>4, DropOverlayShows
    <3>2. Preempted(u, previous) = w
      BY <2>4 DEF Preempted, Views
    <3> HIDE DEF w
    <3> QED
      BY <2>1, <2>4, <2>2, <2>3, <3>1, <3>2 DEF Core, OverlayUp
  <2>5. CASE previous # "overlay"
    <3>1. Preempted(u, previous) = u
      BY <1>4, <2>5 DEF Preempted
    <3> QED
      BY <2>1, <2>2, <2>3, <3>1
  <2> QED
    BY <2>4, <2>5
<1> QED
  BY <1>2, <1>3, <1>4

\* Who asks for the screen, and in which mode.
MayAsk(u, m, who) ==
  \/ who \in Views /\ m = ViewMode
  \/ who = "timer" /\ m = ToolMode /\ u.tstate = "ringing"
  \/ who = "overlay" /\ m = OverlayMode
  \/ who = "silence" /\ m = SilenceMode /\ Silent(u)

LEMMA RequestShows ==
  ASSUME NEW u, Core(u), Up(u), TimerUp(u), NEW m, NEW who, MayAsk(u, m, who)
  PROVE  LET r == Request(u, m, who)
         IN /\ Core(r) /\ TimerDue(r) /\ (Held(u) => Held(r)) /\ (Lit(u) => Lit(r))
            /\ who # "timer" => TimerUp(r)
            /\ who \notin Views => Up(r)
            /\ who # "overlay" /\ OverlayUp(u) => OverlayUp(r)
            /\ Granted(u, m, who) => r.screen = who /\ r.shown \subseteq {who}
            /\ who = "overlay" => r.hold = u.hold
            /\ ~Granted(u, m, who) => r = u
<1> DEFINE t == [u EXCEPT !.mode = m, !.screen = who]
<1>1. IsState(u) /\ ScreenTyped(u) /\ Place(u) /\ Timed(u) /\ NoTimer(u) /\ Down(u)
  BY DEF Core, Core0
<1>2. TimerDue(u)
  BY DEF TimerUp, TimerDue
<1>3. CASE ~Granted(u, m, who)
  BY <1>2, <1>3 DEF Request, TakeScreen
<1>4. CASE Granted(u, m, who)
  <2>1. TakeScreen(u, m, who) = t
    BY <1>4 DEF TakeScreen
  <2>2. Changes(u, t, {"mode", "screen"}) /\ t.mode = m /\ t.screen = who
    BY <1>1 DEF Changes, IsState, Fields
  <2> HIDE DEF t
  <2>3. \A f \in Fields \ {"mode", "screen"} : t[f] = u[f]
    BY <2>2 DEF Changes
  <2>4. /\ t.tui = u.tui /\ t.shown = u.shown /\ t.run = u.run /\ t.tstate = u.tstate /\ t.hold = u.hold
        /\ t.face = u.face /\ t.sacred = u.sacred /\ t.test = u.test /\ t.left = u.left
    BY <2>3 DEF Fields
  <2>5. ScreenTyped(t)
    BY <1>1, <2>2, <2>4 DEF ScreenTyped, MayAsk
  <2>6. Core0(t)
    BY <1>1, <2>2, <2>4, <2>5 DEF Core0, Place, Timed, NoTimer, MayAsk, Silent, Changes
  <2>7. TimerDue(t) /\ (who # "timer" => TimerUp(t)) /\ (Held(u) => Held(t)) /\ (who # "overlay" => OverlayUp(t))
    BY <2>2, <2>4 DEF TimerDue, TimerUp, Held, OverlayUp, MayAsk, Wants, Views
  <2>8. who # "clock" /\ (who = "timer" \/ who # "timer")
    BY DEF MayAsk, Views
  <2>9. CASE u.screen = who
    <3>1. Request(u, m, who) = t
      BY <2>1, <2>9 DEF Request
    <3>2. Core(t) /\ Up(t) /\ Lit(t) /\ t.shown \subseteq {who}
      BY <1>1, <2>2, <2>4, <2>6, <2>8, <2>9 DEF Core, Down, Up, Lit
    <3>3. OverlayUp(u) => OverlayUp(t)
      BY <2>2, <2>4, <2>9 DEF OverlayUp
    <3> QED
      BY <1>4, <2>2, <2>4, <2>7, <3>1, <3>2, <3>3
  <2>10. CASE u.screen # who
    <3> DEFINE r == Preempted(t, u.screen)
    <3>1. Request(u, m, who) = r
      BY <1>4, <2>1, <2>10 DEF Request
    <3>2. t.shown \subseteq {u.screen}
      BY <1>1, <2>4 DEF Down
    <3>3. u.screen = "timer" => t.tui # "clock"
      BY <2>4 DEF TimerUp
    <3>4. /\ Core(r) /\ r.shown = {} /\ TimerDue(r) /\ (TimerUp(t) => TimerUp(r)) /\ (Held(t) => Held(r))
          /\ (t.screen # "clock" => r.screen = t.screen) /\ (OverlayUp(t) /\ t.screen # "overlay" => OverlayUp(r))
          /\ (t.screen \notin Views => Up(r)) /\ (u.screen # "overlay" => r.hold = t.hold)
      BY <2>2, <2>6, <2>7, <2>10, <3>2, <3>3, PreemptedShows
    <3> HIDE DEF r
    <3>5. r.screen = who /\ Lit(r)
      BY <2>2, <2>8, <3>4 DEF Lit
    <3> QED
      BY <1>4, <2>2, <2>4, <2>7, <2>10, <3>1, <3>4, <3>5
  <2> QED
    BY <2>9, <2>10
<1> QED
  BY <1>3, <1>4

-----------------------------------------------------------------------------
(* What does not touch the screen. *)

Elsewhere == SoundFields \cup LedFields \cup AlarmFields \cup {"silence", "updating", "preset", "left"}

LEMMA ElsewhereShows ==
  ASSUME NEW u, NEW v, Shows(u), Changes(u, v, Elsewhere \cup {"tstate"}), v.run \subseteq Scripts, SameScripts(u, v, ScreenScripts),
         v.tstate = u.tstate \/ ("timer" \in Packages /\ v.tstate # "idle")
  PROVE  Shows(v)
<1>1. \A f \in Fields \ (Elsewhere \cup {"tstate"}) : v[f] = u[f]
  BY DEF Changes
<1>2. /\ v.hold = u.hold /\ v.mode = u.mode /\ v.screen = u.screen /\ v.sacred = u.sacred /\ v.test = u.test
      /\ v.tui = u.tui /\ v.shown = u.shown /\ v.face = u.face /\ v.dial = u.dial
  BY <1>1 DEF Fields, Elsewhere, SoundFields, LedFields, AlarmFields
<1>3. /\ IsState(u) /\ ScreenTyped(u) /\ Place(u) /\ Timed(u) /\ NoTimer(u) /\ Down(u)
  BY DEF Shows, Core, Core0
<1>4. \A w \in Views \cup {"show_device_id"} : w \in u.run <=> w \in v.run
  BY DEF SameScripts, ScreenScripts
<1>5. IsState(v) /\ ScreenTyped(v)
  BY <1>2, <1>3 DEF Changes, ScreenTyped
<1>6. Place(v) /\ NoTimer(v) /\ Down(v)
  BY <1>2, <1>3 DEF Place, NoTimer, Down, Silent
<1>7. Timed(v)
  BY <1>2, <1>3, <1>4 DEF Timed, ScreenTyped
<1>8. Up(v) /\ Held(v) /\ Lit(v)
  BY <1>2 DEF Shows, Up, Held, Lit, Silent
<1>9. TimerUp(v) /\ OverlayUp(v)
  BY <1>2, <1>4 DEF Shows, TimerUp, OverlayUp
<1> QED
  BY <1>5, <1>6, <1>7, <1>8, <1>9 DEF Shows, Core, Core0

LEMMA ShowsTyped == ASSUME NEW u, Shows(u) PROVE IsState(u) /\ ScreenTyped(u) /\ u.run \subseteq Scripts
BY DEF Shows, Core, Core0, ScreenTyped

\* The scripts that wait for something else.
LEMMA RunShows ==
  ASSUME NEW u, Shows(u), NEW s \in SUBSET (TimerScripts \cup OtherScripts), NEW w \in TimerScripts \cup OtherScripts
  PROVE  Shows(Waits(u, w)) /\ Shows(Stopped(u, s))
<1>1. IsState(u) /\ u.run \subseteq Scripts
  BY ShowsTyped
<1>2. ASSUME NEW v, v = Waits(u, w) \/ v = Stopped(u, s) PROVE Shows(v)
  <2>1. Changes(u, v, {"run"}) /\ v.tstate = u.tstate /\ v.run = (IF v = Waits(u, w) THEN u.run \cup {w} ELSE u.run \ s)
    BY <1>1, <1>2 DEF Waits, Stopped, Changes, IsState, Fields
  <2>2. Changes(u, v, Elsewhere \cup {"tstate"})
    BY <2>1 DEF Changes, Elsewhere, AlarmFields
  <2>3. v.run \subseteq Scripts /\ SameScripts(u, v, ScreenScripts)
    BY <1>1, <2>1 DEF SameScripts, Scripts, ScreenScripts, TimerScripts, OtherScripts, Views
  <2> QED
    BY <2>1, <2>2, <2>3, ElsewhereShows
<1> QED
  BY <1>2

\* A change of S alone, away from screen and scripts.
LEMMA AwayShows ==
  ASSUME NEW u, NEW v, Shows(u), Changes(u, v, Elsewhere \ {"run"}) PROVE Shows(v)
<1>1. v.run = u.run /\ v.tstate = u.tstate
  BY DEF Changes, Fields, Elsewhere, SoundFields, LedFields, AlarmFields
<1>2. Changes(u, v, Elsewhere \cup {"tstate"})
  BY DEF Changes
<1>3. v.run \subseteq Scripts /\ SameScripts(u, v, ScreenScripts)
  BY <1>1, ShowsTyped DEF SameScripts
<1> QED
  BY <1>1, <1>2, <1>3, ElsewhereShows

LEMMA SoundShows ==
  ASSUME NEW u, Shows(u), NEW p, NEW who
  PROVE  /\ Shows(Play(u, p, who)) /\ Shows(Stop(u, who)) /\ Shows(BeepDirect(u))
         /\ Shows([u EXCEPT !.heard = who]) /\ Shows(SetLeds(u, p, who)) /\ Shows(RefreshLeds(u))
<1>1. IsState(u)
  BY ShowsTyped
<1>2. Changes(u, u, Elsewhere \ {"run"})
  BY <1>1 DEF Changes
<1>3. Changes(u, Play(u, p, who), SoundFields) /\ Changes(u, Stop(u, who), SoundFields)
  BY <1>1 DEF Play, Stop, Changes, IsState, Fields, SoundFields
<1>4. Changes(u, BeepDirect(u), SoundFields) /\ Changes(u, [u EXCEPT !.heard = who], SoundFields)
  BY <1>1 DEF BeepDirect, Changes, IsState, Fields, SoundFields
<1>5. Changes(u, SetLeds(u, p, who), LedFields) /\ Changes(u, SetLeds(u, Co2Leds, "co2"), LedFields)
  BY <1>1, SetLedsChanges
<1>6. ASSUME NEW v, Changes(u, v, SoundFields) \/ Changes(u, v, LedFields) PROVE Shows(v)
  <2>1. Changes(u, v, Elsewhere \ {"run"})
    BY <1>6 DEF Changes, Elsewhere, SoundFields, LedFields
  <2> QED
    BY <2>1, AwayShows
<1>7. RefreshLeds(u) \in {u, SetLeds(u, Co2Leds, "co2")}
  BY DEF RefreshLeds
<1> QED
  BY <1>3, <1>4, <1>5, <1>6, <1>7

-----------------------------------------------------------------------------
(* The scripts of the screen. *)

LEMMA RefreshShows == ASSUME NEW u, Shows(u) PROVE Shows(RefreshTimerUi(u)) /\ Shows(RefreshFace(u))
<1>1. Core(u) /\ Up(u) /\ OverlayUp(u) /\ Held(u) /\ Lit(u) /\ TimerUp(u)
  BY DEF Shows
<1>2. LitOr(u, Stale(u)) /\ LitOr(u, u.face # "clock") /\ TimerDue(u)
  BY <1>1 DEF Lit, LitOr, TimerUp, TimerDue
<1>3. Shows(RefreshFace(u))
  BY <1>1, <1>2, RefreshFaceShows DEF Shows
<1>4. Shows(RefreshTimerUi(u))
  <2> DEFINE r == RefreshTimerUi(u)
  <2>1. /\ Core(r) /\ Lit(r) /\ TimerUp(r) /\ (Up(u) => Up(r))
        /\ r.shown = u.shown /\ r.run = u.run /\ r.hold = u.hold /\ r.face = u.face
        /\ r.screen = u.screen \/ (u.screen \in {"timer", "clock"} /\ r.screen \in {"timer", "clock"})
    BY <1>1, <1>2, RefreshTimerUiShows
  <2> HIDE DEF r
  <2>2. OverlayUp(r) /\ Held(r)
    BY <1>1, <2>1 DEF OverlayUp, Held
  <2>3. Shows(r)
    BY <1>1, <2>1, <2>2 DEF Shows
  <2> QED
    BY <2>3 DEF r
<1> QED
  BY <1>3, <1>4

LEMMA ViewShows == ASSUME NEW u, Shows(u), NEW v \in Views PROVE Shows(ShowView(u, v)) /\ Shows(HideView(u, v))
<1>1. Core(u) /\ Core0(u) /\ Up(u) /\ OverlayUp(u) /\ Held(u) /\ Lit(u) /\ TimerUp(u) /\ Down(u) /\ TimerDue(u)
  BY DEF Shows, Core, TimerUp, TimerDue
<1>2. Shows(HideView(u, v))
  <2>1. \A w \in u.shown \ {v} : u.screen = w
    BY <1>1 DEF Down
  <2>2. u.screen \in Views => u.screen \in u.shown \cup {v}
    BY <1>1 DEF Up
  <2> QED
    BY <1>1, <2>1, <2>2, HideViewShows DEF Shows
<1>3. Shows(ShowView(u, v))
  <2> DEFINE asked == Request(u, ViewMode, v)
             x == [asked EXCEPT !.shown = @ \cup {v}, !.face = "stale", !.dial = FALSE]
             w == Waits(IF Granted(u, ViewMode, v) THEN x ELSE asked, v)
  <2>1. MayAsk(u, ViewMode, v)
    BY DEF MayAsk
  <2>2. /\ Core(asked) /\ TimerDue(asked) /\ (Held(u) => Held(asked)) /\ (Lit(u) => Lit(asked))
        /\ v # "timer" => TimerUp(asked)
        /\ v # "overlay" /\ OverlayUp(u) => OverlayUp(asked)
        /\ Granted(u, ViewMode, v) => asked.screen = v /\ asked.shown \subseteq {v}
        /\ ~Granted(u, ViewMode, v) => asked = u
    BY <1>1, <2>1, RequestShows
  <2>3. v \notin {"timer", "overlay", "clock"}
    BY DEF Views
  <2>4. ShowView(u, v) = w
    BY DEF ShowView, Timeout
  <2> HIDE DEF asked
  <2>5. CASE Granted(u, ViewMode, v)
    <3>1. IsState(asked) /\ ScreenTyped(asked) /\ Place(asked) /\ Timed(asked) /\ NoTimer(asked)
      BY <2>2 DEF Core, Core0
    <3>2. Changes(asked, x, {"shown", "face", "dial"}) /\ x.shown = {v} /\ x.face = "stale" /\ x.run = asked.run
      BY <2>2, <2>5, <3>1 DEF Changes, IsState, Fields
    <3> HIDE DEF x
    <3>3. w = Waits(x, v)
      BY <2>5
    <3>4. Changes(x, w, {"run"}) /\ w.run = x.run \cup {v} /\ w.shown = {v} /\ w.face = "stale"
      BY <3>2, <3>3 DEF Waits, Changes, IsState, Fields
    <3> HIDE DEF w
    <3>5. \A f \in Fields \ {"shown", "face", "dial", "run"} : w[f] = asked[f]
      BY <3>2, <3>4 DEF Changes
    <3>6. /\ w.mode = asked.mode /\ w.screen = asked.screen /\ w.sacred = asked.sacred /\ w.test = asked.test
          /\ w.tstate = asked.tstate /\ w.tui = asked.tui
      BY <3>5 DEF Fields
    <3>7. IsState(w) /\ ScreenTyped(w)
      BY <3>1, <3>2, <3>4, <3>6 DEF Changes, ScreenTyped, Scripts, ScreenScripts
    <3>8. Core(w)
      BY <2>2, <2>5, <3>1, <3>4, <3>6, <3>7 DEF Core, Core0, Place, Timed, NoTimer, Down, Silent
    <3>9. Up(w) /\ Held(w) /\ Lit(w) /\ OverlayUp(w) /\ TimerUp(w)
      BY <2>2, <2>3, <2>5, <3>4, <3>6 DEF Up, Held, Lit, OverlayUp, TimerUp
    <3> QED
      BY <2>4, <3>8, <3>9 DEF Shows
  <2>6. CASE ~Granted(u, ViewMode, v)
    <3>1. w = Waits(u, v)
      BY <2>2, <2>6
    <3>2. IsState(u) /\ ScreenTyped(u) /\ Place(u) /\ Timed(u) /\ NoTimer(u)
      BY <1>1 DEF Core0
    <3> HIDE DEF w
    <3>3. Changes(u, w, {"run"}) /\ w.run = u.run \cup {v}
      BY <3>1, <3>2 DEF Waits, Changes, IsState, Fields
    <3>4. \A f \in Fields \ {"run"} : w[f] = u[f]
      BY <3>3 DEF Changes
    <3>5. /\ w.mode = u.mode /\ w.screen = u.screen /\ w.sacred = u.sacred /\ w.test = u.test /\ w.shown = u.shown
          /\ w.tstate = u.tstate /\ w.tui = u.tui /\ w.face = u.face /\ w.hold = u.hold /\ w.dial = u.dial
      BY <3>4 DEF Fields
    <3>6. IsState(w) /\ ScreenTyped(w)
      BY <3>2, <3>3, <3>5 DEF Changes, ScreenTyped, Scripts, ScreenScripts
    <3>7. Core(w)
      BY <1>1, <3>2, <3>3, <3>5, <3>6 DEF Core, Core0, Place, Timed, NoTimer, Down, Silent
    <3>8. Up(w) /\ Held(w) /\ Lit(w) /\ OverlayUp(w) /\ TimerUp(w)
      BY <1>1, <3>3, <3>5 DEF Up, Held, Lit, OverlayUp, TimerUp, Silent
    <3> QED
      BY <2>4, <3>7, <3>8 DEF Shows
  <2> QED
    BY <2>5, <2>6
<1> QED
  BY <1>2, <1>3

\* The device id has left the screen, or was not on it.
LEMMA OverlayDown ==
  ASSUME NEW u, Shows(u), NEW y, Changes(u, y, {"run", "screen", "mode", "dial", "hold"}),
         y.run = u.run \ {"show_device_id"}, ~y.hold, y.dial \/ y.dial = u.dial,
         IF u.screen = "overlay" THEN y.screen = "clock" /\ y.mode = ClockMode
                                 ELSE y.screen = u.screen /\ y.mode = u.mode
  PROVE  Shows(RefreshFace(y))
<1>1. /\ ScreenTyped(u) /\ Place(u) /\ Timed(u) /\ NoTimer(u) /\ Down(u)
      /\ Up(u) /\ OverlayUp(u) /\ Held(u) /\ Lit(u) /\ TimerUp(u)
  BY DEF Shows, Core, Core0
<1>2. \A f \in Fields \ {"run", "screen", "mode", "dial", "hold"} : y[f] = u[f]
  BY DEF Changes
<1>3. /\ y.tstate = u.tstate /\ y.left = u.left /\ y.sacred = u.sacred /\ y.test = u.test /\ y.tui = u.tui
      /\ y.shown = u.shown /\ y.face = u.face
  BY <1>2 DEF Fields
<1>4. y.screen # "overlay" /\ (Silent(y) <=> Silent(u))
  BY <1>3 DEF Silent
<1>5. ScreenTyped(y) /\ Place(y)
  BY <1>1, <1>3, <1>4 DEF ScreenTyped, Place
<1>6. Timed(y) /\ NoTimer(y) /\ Down(y) /\ Up(y)
  BY <1>1, <1>3 DEF Timed, NoTimer, Down, Up, ScreenTyped, Views
<1>7. Core(y) /\ TimerDue(y) /\ TimerUp(y) /\ OverlayUp(y) /\ Held(y)
  BY <1>1, <1>3, <1>4, <1>5, <1>6 DEF Core, Core0, Changes, TimerDue, TimerUp, OverlayUp, Held
<1>8. LitOr(y, y.face # "clock")
  BY <1>1, <1>3, <1>4 DEF LitOr, Lit, Held, OverlayUp
<1> QED
  BY <1>6, <1>7, <1>8, RefreshFaceShows DEF Shows

LEMMA OverlayOverShows ==
  ASSUME NEW u, Shows(u) PROVE Shows(OverlayOver(u)) /\ Shows(RefreshFace(DropOverlay(u)))
<1> DEFINE s == Stopped(u, {"show_device_id"})
           q == Release(s, "overlay")
           y == [q EXCEPT !.dial = TRUE, !.hold = FALSE]
           z == [q EXCEPT !.hold = FALSE]
<1>1. IsState(u)
  BY ShowsTyped
<1>2. Changes(u, s, {"run"}) /\ s.run = u.run \ {"show_device_id"} /\ s.screen = u.screen /\ s.mode = u.mode /\ s.dial = u.dial
  BY <1>1 DEF Stopped, Changes, IsState, Fields
<1> HIDE DEF s
<1>3. /\ Changes(s, q, {"screen", "mode"}) /\ q.run = s.run /\ q.dial = s.dial
      /\ IF s.screen = "overlay" THEN q.screen = "clock" /\ q.mode = ClockMode
                                 ELSE q.screen = s.screen /\ q.mode = s.mode
  BY <1>2 DEF Release, ToClock, Changes, IsState, Fields
<1> HIDE DEF q
<1>4. /\ Changes(q, y, {"dial", "hold"}) /\ y.dial /\ ~y.hold /\ y.screen = q.screen /\ y.mode = q.mode /\ y.run = q.run
      /\ Changes(q, z, {"dial", "hold"}) /\ z.dial = q.dial /\ ~z.hold /\ z.screen = q.screen /\ z.mode = q.mode /\ z.run = q.run
  BY <1>3 DEF Changes, IsState, Fields
<1> HIDE DEF y, z
<1>5. Changes(u, y, {"run", "screen", "mode", "dial", "hold"}) /\ Changes(u, z, {"run", "screen", "mode", "dial", "hold"})
  BY <1>2, <1>3, <1>4 DEF Changes
<1>6. Shows(RefreshFace(y)) /\ Shows(RefreshFace(z))
  BY <1>2, <1>3, <1>4, <1>5, OverlayDown
<1>7. OverlayOver(u) = RefreshFace(y) /\ DropOverlay(u) = z
  BY DEF OverlayOver, DropOverlay, y, z, q, s
<1> QED
  BY <1>6, <1>7

LEMMA ShowDeviceIdShows == ASSUME NEW u, Shows(u) PROVE Shows(ShowDeviceId(u))
<1> DEFINE x == [u EXCEPT !.hold = TRUE]
           r == Request(x, OverlayMode, "overlay")
           a == Waits(r, "show_device_id")
           w == [a EXCEPT !.face = "stale", !.dial = FALSE]
<1>1. /\ IsState(u) /\ ScreenTyped(u) /\ Place(u) /\ Timed(u) /\ NoTimer(u) /\ Down(u)
      /\ Up(u) /\ OverlayUp(u) /\ Held(u) /\ Lit(u) /\ TimerUp(u)
  BY DEF Shows, Core, Core0
<1>2. Changes(u, x, {"hold"}) /\ x.hold
  BY <1>1 DEF Changes, IsState, Fields
<1> HIDE DEF x
<1>3. \A f \in Fields \ {"hold"} : x[f] = u[f]
  BY <1>2 DEF Changes
<1>4. /\ x.tstate = u.tstate /\ x.left = u.left /\ x.sacred = u.sacred /\ x.test = u.test /\ x.tui = u.tui
      /\ x.shown = u.shown /\ x.face = u.face /\ x.screen = u.screen /\ x.mode = u.mode /\ x.run = u.run
  BY <1>3 DEF Fields
<1>5. Core(x) /\ Up(x) /\ TimerUp(x)
  BY <1>1, <1>2, <1>4 DEF Core, Core0, Changes, ScreenTyped, Place, Silent, Timed, NoTimer, Down, Up, TimerUp
<1>6. MayAsk(x, OverlayMode, "overlay")
  BY DEF MayAsk
<1>7. Core(r) /\ TimerUp(r) /\ Up(r) /\ r.hold = x.hold
  BY <1>5, <1>6, RequestShows DEF Views
<1> HIDE DEF r
<1>8. /\ IsState(r) /\ ScreenTyped(r) /\ Place(r) /\ Timed(r) /\ NoTimer(r) /\ Down(r)
  BY <1>7 DEF Core, Core0
<1>9. Changes(r, a, {"run"}) /\ a.run = r.run \cup {"show_device_id"}
  BY <1>8 DEF Waits, Changes, IsState, Fields
<1> HIDE DEF a
<1>10. Changes(a, w, {"face", "dial"}) /\ w.run = a.run /\ w.face = "stale"
  BY <1>9 DEF Changes, IsState, Fields
<1> HIDE DEF w
<1>11. Changes(r, w, {"run", "face", "dial"})
  BY <1>9, <1>10 DEF Changes
<1>12. \A f \in Fields \ {"run", "face", "dial"} : w[f] = r[f]
  BY <1>11 DEF Changes
<1>13. /\ w.tstate = r.tstate /\ w.left = r.left /\ w.sacred = r.sacred /\ w.test = r.test /\ w.tui = r.tui
       /\ w.shown = r.shown /\ w.screen = r.screen /\ w.mode = r.mode /\ w.hold = r.hold
  BY <1>12 DEF Fields
<1>14. IsState(w) /\ ScreenTyped(w)
  BY <1>8, <1>9, <1>10, <1>13 DEF Changes, ScreenTyped, Scripts, ScreenScripts
<1>15. Place(w) /\ Timed(w) /\ NoTimer(w) /\ Down(w)
  BY <1>8, <1>9, <1>10, <1>13 DEF Place, Silent, Timed, NoTimer, Down
<1>16. Up(w) /\ TimerUp(w)
  BY <1>7, <1>13 DEF Up, TimerUp
<1>17. OverlayUp(w) /\ Held(w) /\ Lit(w)
  BY <1>2, <1>7, <1>9, <1>10, <1>13 DEF OverlayUp, Held, Lit
<1>18. Shows(w)
  BY <1>14, <1>15, <1>16, <1>17 DEF Shows, Core, Core0
<1> QED
  BY <1>18 DEF ShowDeviceId, w, a, r, x

-----------------------------------------------------------------------------
(* The alarm, on the screen. *)

LEMMA AlarmShows ==
  ASSUME NEW u, Shows(u), NEW v, Changes(u, v, AlarmFields), v.run \subseteq Scripts, SameScripts(u, v, ScreenScripts)
  PROVE  Shows(v)
<1>1. Changes(u, v, Elsewhere \cup {"tstate"}) /\ v.tstate = u.tstate
  BY DEF Changes, Elsewhere, Fields, AlarmFields
<1> QED
  BY <1>1, ElsewhereShows

LEMMA AlarmStopShows == ASSUME NEW u, Shows(u) PROVE Shows(AlarmStop(u))
<1> DEFINE s == Stopped(u, {"alarm_ring"})
           x == [s EXCEPT !.ringing = FALSE]
<1>1. IsState(u) /\ u.run \subseteq Scripts
  BY ShowsTyped
<1>2. Changes(u, x, AlarmFields) /\ x.run = u.run \ {"alarm_ring"}
  BY <1>1 DEF Stopped, Changes, IsState, Fields, AlarmFields
<1> HIDE DEF x
<1>3. x.run \subseteq Scripts /\ SameScripts(u, x, ScreenScripts)
  BY <1>1, <1>2 DEF SameScripts, ScreenScripts, Views
<1>4. Shows(x)
  BY <1>2, <1>3, AlarmShows
<1> QED
  BY <1>4, SoundShows DEF AlarmStop, x, s

LEMMA AlarmDismissShows == ASSUME NEW u, Shows(u) PROVE Shows(AlarmDismiss(u))
<1> DEFINE x == [Stopped(u, {"alarm_snooze"}) EXCEPT !.snooze = FALSE]
           q == AlarmStop(x)
<1>1. IsState(u) /\ u.run \subseteq Scripts
  BY ShowsTyped
<1>2. Changes(u, x, AlarmFields) /\ x.run = u.run \ {"alarm_snooze"}
  BY <1>1 DEF Stopped, Changes, IsState, Fields, AlarmFields
<1> HIDE DEF x
<1>3. x.run \subseteq Scripts /\ SameScripts(u, x, ScreenScripts)
  BY <1>1, <1>2 DEF SameScripts, ScreenScripts, Views
<1>4. Shows(q)
  BY <1>2, <1>3, AlarmShows, AlarmStopShows
<1>5. AlarmDismiss(u) \in {q, ShowView(q, "weather")}
  BY DEF AlarmDismiss, q, x
<1> HIDE DEF q
<1> QED
  BY <1>4, <1>5, ViewShows DEF Views

LEMMA AlarmSnoozeShows == ASSUME NEW u, Shows(u) PROVE Shows(AlarmSnooze(u))
<1> DEFINE x == [Waits(u, "alarm_snooze") EXCEPT !.snooze = TRUE]
<1>1. IsState(u) /\ u.run \subseteq Scripts
  BY ShowsTyped
<1>2. Changes(u, x, AlarmFields) /\ x.run = u.run \cup {"alarm_snooze"}
  BY <1>1 DEF Waits, Changes, IsState, Fields, AlarmFields
<1> HIDE DEF x
<1>3. x.run \subseteq Scripts /\ SameScripts(u, x, ScreenScripts)
  BY <1>1, <1>2 DEF SameScripts, ScreenScripts, Views, Scripts, OtherScripts
<1> QED
  BY <1>2, <1>3, AlarmShows, AlarmStopShows DEF AlarmSnooze, x

LEMMA FaceStaleShows == ASSUME NEW u, Shows(u) PROVE Shows([u EXCEPT !.face = "stale"])
<1> DEFINE v == [u EXCEPT !.face = "stale"]
<1>1. /\ IsState(u) /\ ScreenTyped(u) /\ Place(u) /\ Timed(u) /\ NoTimer(u) /\ Down(u)
      /\ Up(u) /\ OverlayUp(u) /\ Held(u) /\ Lit(u) /\ TimerUp(u)
  BY DEF Shows, Core, Core0
<1>2. Changes(u, v, {"face"}) /\ v.face = "stale"
  BY <1>1 DEF Changes, IsState, Fields
<1> HIDE DEF v
<1>3. \A f \in Fields \ {"face"} : v[f] = u[f]
  BY <1>2 DEF Changes
<1>4. /\ v.hold = u.hold /\ v.mode = u.mode /\ v.screen = u.screen /\ v.sacred = u.sacred /\ v.test = u.test
      /\ v.tui = u.tui /\ v.shown = u.shown /\ v.dial = u.dial /\ v.tstate = u.tstate /\ v.run = u.run
  BY <1>3 DEF Fields
<1>5. Core(v)
  BY <1>1, <1>2, <1>4 DEF Core, Core0, Changes, ScreenTyped, Place, Silent, Timed, NoTimer, Down
<1>6. Up(v) /\ OverlayUp(v) /\ Held(v) /\ Lit(v) /\ TimerUp(v)
  BY <1>1, <1>2, <1>4 DEF Up, OverlayUp, Held, Lit, Silent, TimerUp
<1> QED
  BY <1>5, <1>6 DEF Shows, v

\* The alarm sends whatever is shown home before it rings.
LEMMA HomeShows ==
  ASSUME NEW u, Shows(u), u.mode # ClockMode
  PROVE  Shows(RefreshFace([PreemptToClock(u) EXCEPT !.face = "stale"]))
<1> DEFINE t == ToClock(u)
           p == Preempted(t, u.screen)
           y == [p EXCEPT !.face = "stale"]
<1>1. Core0(u) /\ Down(u) /\ Held(u) /\ TimerUp(u) /\ Place(u)
  BY DEF Shows, Core, Core0
<1>2. /\ Core0(t) /\ t.screen = "clock" /\ t.tui = u.tui /\ t.shown = u.shown
  BY <1>1, ToClockCore
<1> HIDE DEF t
<1>3. u.screen # "clock"
  BY <1>1 DEF Place, Views
<1>4. TimerDue(t) /\ TimerUp(t) /\ OverlayUp(t)
  BY <1>2 DEF TimerDue, TimerUp, OverlayUp
<1>5. t.shown \subseteq {u.screen} /\ (u.screen = "timer" => t.tui # "clock")
  BY <1>1, <1>2 DEF Down, TimerUp
<1>6. Core(p) /\ TimerDue(p) /\ TimerUp(p) /\ OverlayUp(p) /\ Up(p)
  BY <1>2, <1>3, <1>4, <1>5, PreemptedShows DEF Views
<1> HIDE DEF p
<1>7. Changes(p, y, {"face"}) /\ y.face = "stale"
  BY <1>6 DEF Core, Core0, Changes, IsState, Fields
<1> HIDE DEF y
<1>8. \A f \in Fields \ {"face"} : y[f] = p[f]
  BY <1>7 DEF Changes
<1>9. /\ y.hold = p.hold /\ y.mode = p.mode /\ y.screen = p.screen /\ y.sacred = p.sacred /\ y.test = p.test /\ y.left = p.left
      /\ y.tui = p.tui /\ y.shown = p.shown /\ y.dial = p.dial /\ y.tstate = p.tstate /\ y.run = p.run
  BY <1>8 DEF Fields
<1>10. Core(y)
  BY <1>6, <1>7, <1>9 DEF Core, Core0, Changes, ScreenTyped, Place, Silent, Timed, NoTimer, Down
<1>11. TimerDue(y) /\ TimerUp(y) /\ OverlayUp(y) /\ Up(y) /\ Held(y) /\ LitOr(y, y.face # "clock")
  BY <1>6, <1>7, <1>9 DEF TimerDue, Wants, FinalMinute, TimerUp, OverlayUp, Up, Held, LitOr
<1>12. Shows(RefreshFace(y))
  BY <1>10, <1>11, RefreshFaceShows DEF Shows
<1> QED
  BY <1>12 DEF PreemptToClock, y, p, t

LEMMA AlarmRingShows == ASSUME NEW u, Shows(u) PROVE Shows(AlarmRing(u))
<1> DEFINE x == [Waits(u, "alarm_ring") EXCEPT !.ringing = TRUE, !.snooze = FALSE]
           rings == Play(x, AlarmSound, "alarm")
           home == RefreshFace([PreemptToClock(rings) EXCEPT !.face = "stale"])
           seen == IF rings.mode # ClockMode THEN home ELSE rings
<1>1. IsState(u) /\ u.run \subseteq Scripts
  BY ShowsTyped
<1>2. Changes(u, x, AlarmFields) /\ x.run = u.run \cup {"alarm_ring"}
  BY <1>1 DEF Waits, Changes, IsState, Fields, AlarmFields
<1> HIDE DEF x
<1>3. x.run \subseteq Scripts /\ SameScripts(u, x, ScreenScripts)
  BY <1>1, <1>2 DEF SameScripts, ScreenScripts, Views, Scripts, OtherScripts
<1>4. Shows(rings)
  BY <1>2, <1>3, AlarmShows, SoundShows
<1> HIDE DEF rings
<1>5. Shows(seen)
  BY <1>4, HomeShows
<1>6. AlarmRing(u) = IF "alarm_ring" \in u.run THEN u
                     ELSE IF "climate" \in seen.shown THEN HideView(seen, "climate") ELSE seen
  BY DEF AlarmRing, seen, home, rings, x
<1> HIDE DEF seen
<1> QED
  BY <1>5, <1>6, ViewShows DEF Views

LEMMA SnoozeOverShows == ASSUME NEW u, Shows(u) PROVE Shows(AlarmSnoozeOver(u))
<1> DEFINE x == [Stopped(u, {"alarm_snooze"}) EXCEPT !.snooze = FALSE]
<1>1. IsState(u) /\ u.run \subseteq Scripts
  BY ShowsTyped
<1>2. Changes(u, x, AlarmFields) /\ x.run = u.run \ {"alarm_snooze"}
  BY <1>1 DEF Stopped, Changes, IsState, Fields, AlarmFields
<1> HIDE DEF x
<1>3. x.run \subseteq Scripts /\ SameScripts(u, x, ScreenScripts)
  BY <1>1, <1>2 DEF SameScripts, ScreenScripts, Views
<1> QED
  BY <1>2, <1>3, AlarmShows, AlarmRingShows DEF AlarmSnoozeOver, x

-----------------------------------------------------------------------------
(* The timer, on the screen. *)

LEMMA TimerOffKeeps ==
  ASSUME NEW u, Shows(u), NEW scripts \in SUBSET TimerScripts PROVE Shows(TimerOff(u, scripts))
<1> DEFINE w == TimerOff(u, scripts)
<1>1. Core(u) /\ Up(u) /\ OverlayUp(u) /\ Held(u) /\ LitOr(u, u.tui # "clock") /\ (u.screen = "timer" => u.tui # "clock")
  BY DEF Shows, Lit, LitOr, TimerUp
<1>2. Core(w) /\ Lit(w) /\ TimerUp(w) /\ (Up(u) => Up(w)) /\ (Held(u) => Held(w)) /\ (OverlayUp(u) => OverlayUp(w))
  BY <1>1, TimerOffShows
<1> HIDE DEF w
<1>3. Shows(w)
  BY <1>1, <1>2 DEF Shows
<1> QED
  BY <1>3 DEF w

LEMMA TimerOverShows == ASSUME NEW u, Shows(u) PROVE Shows(TimerCancel(u)) /\ Shows(TimerDismiss(u))
BY TimerOffKeeps DEF TimerCancel, TimerDismiss, TimerScripts

\* A timer that is not off, whatever it does.
LEMMA TimerShows ==
  ASSUME NEW u, Shows(u), "timer" \in Packages, NEW v, Changes(u, v, {"run"} \cup TimerFields), v.tstate # "idle",
         v.run \subseteq Scripts, SameScripts(u, v, ScreenScripts)
  PROVE  Shows(v) /\ Shows(RefreshTimerUi(v))
<1>1. Changes(u, v, Elsewhere \cup {"tstate"})
  BY DEF Changes, Elsewhere, AlarmFields, TimerFields
<1> QED
  BY <1>1, ElsewhereShows, RefreshShows

LEMMA CountsShows == ASSUME NEW u, Shows(u) PROVE Shows(Counts(u))
<1>1. {"timer_countdown"} \in SUBSET TimerScripts /\ "timer_countdown" \in TimerScripts
  BY DEF TimerScripts
<1> QED
  BY <1>1, RunShows DEF Counts

LEMMA StartRunningShows == ASSUME NEW u, Shows(u), "timer" \in Packages PROVE Shows(TimerStartRunning(u))
<1> DEFINE x == [Stopped(u, {"timer_arm_commit", "timer_ring"}) EXCEPT !.tstate = "running"]
<1>1. IsState(u) /\ u.run \subseteq Scripts
  BY ShowsTyped
<1>2. /\ Changes(u, x, {"run"} \cup TimerFields) /\ x.tstate = "running"
      /\ x.run = u.run \ {"timer_arm_commit", "timer_ring"}
  BY <1>1 DEF Stopped, Changes, IsState, Fields, TimerFields
<1> HIDE DEF x
<1>3. x.run \subseteq Scripts /\ SameScripts(u, x, ScreenScripts)
  BY <1>1, <1>2 DEF SameScripts, ScreenScripts, Views
<1>4. Shows(Counts(RefreshTimerUi(x)))
  BY <1>2, <1>3, TimerShows, CountsShows
<1> QED
  BY <1>4 DEF TimerStartRunning, x

LEMMA CyclePresetShows == ASSUME NEW u, Shows(u), "timer" \in Packages PROVE Shows(TimerCyclePreset(u))
<1> DEFINE beep == BeepDirect(u)
           b == IF u.tstate = "idle" THEN u ELSE beep
           x == [beep EXCEPT !.tstate = "idle", !.preset = 0]
           y == [b EXCEPT !.tstate = "arming", !.preset = @ + 1]
           r == RefreshTimerUi(y)
           w == Waits(r, "timer_arm_commit")
<1>1. Shows(beep) /\ Shows(b)
  BY SoundShows
<1> HIDE DEF beep, b
<1>2. Shows(w)
  <2>1. Changes(b, y, {"run"} \cup TimerFields) /\ y.tstate = "arming" /\ y.run = b.run
    BY <1>1, ShowsTyped DEF Changes, IsState, Fields, TimerFields
  <2> HIDE DEF y
  <2>2. y.run \subseteq Scripts /\ SameScripts(b, y, ScreenScripts)
    BY <1>1, <2>1, ShowsTyped DEF SameScripts
  <2>3. Shows(r)
    BY <1>1, <2>1, <2>2, TimerShows
  <2> HIDE DEF r
  <2> QED
    BY <2>3, RunShows DEF TimerScripts
<1>3. Shows(TimerCancel(x))
  <2> DEFINE c == TimerOff(x, TimerScripts)
  <2>1. Changes(beep, x, {"tstate", "preset"}) /\ x.tstate = "idle"
    BY <1>1, ShowsTyped DEF Changes, IsState, Fields
  <2> HIDE DEF x
  <2>2. \A f \in Fields \ {"tstate", "preset"} : x[f] = beep[f]
    BY <2>1 DEF Changes
  <2>3. /\ x.hold = beep.hold /\ x.mode = beep.mode /\ x.screen = beep.screen /\ x.sacred = beep.sacred /\ x.test = beep.test
        /\ x.tui = beep.tui /\ x.shown = beep.shown /\ x.face = beep.face /\ x.dial = beep.dial /\ x.run = beep.run
    BY <2>2 DEF Fields
  <2>4. /\ ScreenTyped(beep) /\ Place(beep) /\ Timed(beep) /\ NoTimer(beep) /\ Down(beep)
        /\ Up(beep) /\ OverlayUp(beep) /\ Held(beep) /\ Lit(beep) /\ TimerUp(beep)
    BY <1>1 DEF Shows, Core, Core0
  <2>5. Core(x)
    BY <2>1, <2>3, <2>4 DEF Core, Core0, Changes, ScreenTyped, Place, Silent, Timed, NoTimer, Down
  <2>6. Up(x) /\ OverlayUp(x) /\ Held(x) /\ LitOr(x, x.tui # "clock") /\ (x.screen = "timer" => x.tui # "clock")
    BY <2>3, <2>4 DEF Up, OverlayUp, Held, Lit, LitOr, Silent, TimerUp
  <2>7. Core(c) /\ Lit(c) /\ TimerUp(c) /\ (Up(x) => Up(c)) /\ (Held(x) => Held(c)) /\ (OverlayUp(x) => OverlayUp(c))
    BY <2>5, <2>6, TimerOffShows
  <2> HIDE DEF c
  <2>8. Shows(c)
    BY <2>6, <2>7 DEF Shows
  <2> QED
    BY <2>8 DEF TimerCancel, TimerScripts, c
<1> QED
  BY <1>2, <1>3 DEF TimerCyclePreset, w, r, y, x, b, beep

LEMMA ArmCommitShows == ASSUME NEW u, Shows(u), "timer" \in Packages PROVE Shows(TimerArmCommit(u))
<1> DEFINE x == [u EXCEPT !.left = IF u.preset = 1 THEN 1 ELSE 2]
<1>1. Changes(u, x, Elsewhere \ {"run"})
  BY ShowsTyped DEF Changes, IsState, Fields, Elsewhere
<1> HIDE DEF x
<1>2. Shows(BeepDirect(x))
  BY <1>1, AwayShows, SoundShows
<1> QED
  BY <1>2, StartRunningShows DEF TimerArmCommit, x

LEMMA PauseShows == ASSUME NEW u, Shows(u) PROVE Shows(TimerPause(u))
<1> DEFINE beep == BeepDirect(u)
           x == [beep EXCEPT !.tstate = "paused"]
           p == IF u.tstate = "running" THEN x ELSE u
           s == Stopped(p, {"timer_countdown"})
<1>1. Shows(beep)
  BY SoundShows
<1> HIDE DEF beep
<1>2. ASSUME u.tstate = "running" PROVE Shows(x)
  <2>1. "timer" \in Packages
    BY <1>2 DEF Shows, Core, Core0, NoTimer
  <2>2. Changes(beep, x, {"run"} \cup TimerFields) /\ x.tstate = "paused" /\ x.run = beep.run
    BY <1>1, ShowsTyped DEF Changes, IsState, Fields, TimerFields
  <2>3. x.run \subseteq Scripts /\ SameScripts(beep, x, ScreenScripts)
    BY <1>1, <2>2, ShowsTyped DEF SameScripts
  <2> HIDE DEF x
  <2> QED
    BY <1>1, <2>1, <2>2, <2>3, TimerShows
<1>3. Shows(p)
  BY <1>2
<1> HIDE DEF p
<1>4. Shows(s)
  BY <1>3, RunShows DEF TimerScripts
<1> HIDE DEF s
<1>5. TimerPause(u) = RefreshTimerUi(s)
  BY DEF TimerPause, s, p, x, beep
<1> QED
  BY <1>4, <1>5, RefreshShows

LEMMA ResumeShows == ASSUME NEW u, Shows(u), "timer" \in Packages PROVE Shows(TimerResume(u))
<1> DEFINE beep == BeepDirect(u)
           x == [beep EXCEPT !.tstate = "running"]
<1>1. Shows(beep)
  BY SoundShows
<1> HIDE DEF beep
<1>2. Changes(beep, x, {"run"} \cup TimerFields) /\ x.tstate = "running" /\ x.run = beep.run
  BY <1>1, ShowsTyped DEF Changes, IsState, Fields, TimerFields
<1> HIDE DEF x
<1>3. x.run \subseteq Scripts /\ SameScripts(beep, x, ScreenScripts)
  BY <1>1, <1>2, ShowsTyped DEF SameScripts
<1>4. Shows(Counts(RefreshTimerUi(x)))
  BY <1>1, <1>2, <1>3, TimerShows, CountsShows
<1> QED
  BY <1>4 DEF TimerResume, x, beep

LEMMA TimerRingShows == ASSUME NEW u, Shows(u), "timer" \in Packages PROVE Shows(TimerRing(u))
<1> DEFINE x == [Waits(u, "timer_ring") EXCEPT !.tstate = "ringing"]
           r == Request(x, ToolMode, "timer")
           w == RefreshTimerUi(r)
<1>1. IsState(u) /\ u.run \subseteq Scripts
  BY ShowsTyped
<1>2. Changes(u, x, {"run"} \cup TimerFields) /\ x.tstate = "ringing" /\ x.run = u.run \cup {"timer_ring"}
  BY <1>1 DEF Waits, Changes, IsState, Fields, TimerFields
<1> HIDE DEF x
<1>3. x.run \subseteq Scripts /\ SameScripts(u, x, ScreenScripts)
  BY <1>1, <1>2 DEF SameScripts, ScreenScripts, Views, Scripts, TimerScripts
<1>4. Shows(x)
  BY <1>2, <1>3, TimerShows
<1>5. Core(x) /\ Up(x) /\ TimerUp(x) /\ Held(x) /\ Lit(x) /\ OverlayUp(x) /\ MayAsk(x, ToolMode, "timer")
  BY <1>2, <1>4 DEF Shows, MayAsk
<1>6. Core(r) /\ TimerDue(r) /\ Held(r) /\ Lit(r) /\ Up(r) /\ OverlayUp(r)
  BY <1>5, RequestShows DEF Views
<1> HIDE DEF r
<1>7. LitOr(r, Stale(r))
  BY <1>6 DEF Lit, LitOr
<1>8. /\ Core(w) /\ Lit(w) /\ TimerUp(w) /\ (Up(r) => Up(w))
      /\ w.shown = r.shown /\ w.run = r.run /\ w.hold = r.hold /\ w.face = r.face
      /\ w.screen = r.screen \/ (r.screen \in {"timer", "clock"} /\ w.screen \in {"timer", "clock"})
  BY <1>6, <1>7, RefreshTimerUiShows
<1> HIDE DEF w
<1>9. Held(w) /\ OverlayUp(w)
  BY <1>6, <1>8 DEF Held, OverlayUp
<1>10. Shows(w)
  BY <1>6, <1>8, <1>9 DEF Shows
<1>11. TimerRing(u) = IF "timer_ring" \in u.run THEN u ELSE Play(w, AlarmSound, "timer")
  BY DEF TimerRing, w, r, x
<1> QED
  BY <1>10, <1>11, SoundShows

LEMMA SecondShows == ASSUME NEW u, Shows(u), "timer" \in Packages, NEW l PROVE Shows(TimerSecond(u, l))
<1> DEFINE x == [u EXCEPT !.left = l]
           v == Counts(RefreshTimerUi(x))
<1>1. Changes(u, x, Elsewhere \ {"run"})
  BY ShowsTyped DEF Changes, IsState, Fields, Elsewhere
<1> HIDE DEF x
<1>2. Shows(v)
  BY <1>1, AwayShows, RefreshShows, CountsShows
<1> HIDE DEF v
<1>3. TimerSecond(u, l) = IF l = 0 THEN TimerRing(v) ELSE v
  BY DEF TimerSecond, v, x
<1> QED
  BY <1>2, <1>3, TimerRingShows

LEMMA ArmBtnShows == ASSUME NEW u, Shows(u), "timer" \in Packages PROVE Shows(TimerArmBtn(u))
<1> DEFINE p == Play(u, UiSound, "timer")
           c == IF u.tstate # "idle" THEN TimerCancel(p) ELSE u
<1>1. Shows(p)
  BY SoundShows
<1> HIDE DEF p
<1>2. Shows(c)
  BY <1>1, TimerOverShows
<1> HIDE DEF c
<1>3. TimerArmBtn(u) = TimerCyclePreset(c)
  BY DEF TimerArmBtn, c, p
<1> QED
  BY <1>2, <1>3, CyclePresetShows

-----------------------------------------------------------------------------
(* Silence and siren, on the screen. *)

LEMMA StartSilenceShows ==
  ASSUME NEW u, Shows(u), NEW test \in BOOLEAN PROVE Shows(StartSilence(u, test))
<1> DEFINE x == [Waits(u, "silence") EXCEPT !.silence = "ticking", !.sacred = @ \/ ~test, !.test = @ \/ test]
           r == Request(x, SilenceMode, "silence")
           l == SetLeds(r, SilenceLeds, "silence")
<1>1. /\ IsState(u) /\ ScreenTyped(u) /\ Place(u) /\ Timed(u) /\ NoTimer(u) /\ Down(u)
      /\ Up(u) /\ OverlayUp(u) /\ Held(u) /\ Lit(u) /\ TimerUp(u)
  BY DEF Shows, Core, Core0
<1>2. Changes(u, x, {"run", "silence", "sacred", "test"}) /\ x.run = u.run \cup {"silence"}
  BY <1>1 DEF Waits, Changes, IsState, Fields
<1>3. Silent(x)
  <2>1. x.sacred = (u.sacred \/ ~test) /\ x.test = (u.test \/ test)
    BY <1>1 DEF Waits, IsState, Fields
  <2> HIDE DEF x
  <2> QED
    BY <2>1 DEF Silent
<1> HIDE DEF x
<1>4. \A f \in Fields \ {"run", "silence", "sacred", "test"} : x[f] = u[f]
  BY <1>2 DEF Changes
<1>5. /\ x.hold = u.hold /\ x.mode = u.mode /\ x.screen = u.screen /\ x.tui = u.tui /\ x.shown = u.shown
      /\ x.face = u.face /\ x.dial = u.dial /\ x.tstate = u.tstate
  BY <1>4 DEF Fields
<1>6. ScreenTyped(x) /\ Place(x)
  BY <1>1, <1>2, <1>3, <1>5 DEF ScreenTyped, Scripts, OtherScripts, Place
<1>7. Core(x)
  BY <1>1, <1>2, <1>5, <1>6 DEF Core, Core0, Changes, Timed, NoTimer, Down
<1>8. Up(x) /\ OverlayUp(x) /\ Held(x) /\ Lit(x) /\ TimerUp(x) /\ MayAsk(x, SilenceMode, "silence")
  BY <1>1, <1>2, <1>3, <1>5 DEF Up, OverlayUp, Held, Lit, TimerUp, MayAsk
<1>9. Core(r) /\ Held(r) /\ Lit(r) /\ TimerUp(r) /\ Up(r) /\ OverlayUp(r)
  BY <1>7, <1>8, RequestShows DEF Views
<1> HIDE DEF r
<1>10. Shows(l)
  BY <1>9, SoundShows DEF Shows
<1>11. StartSilence(u, test) = IF "silence" \in u.run THEN u ELSE RefreshFace(l)
  BY DEF StartSilence, l, r, x
<1> HIDE DEF l
<1> QED
  BY <1>10, <1>11, RefreshShows

LEMMA FinishSilenceShows == ASSUME NEW u, Shows(u) PROVE Shows(FinishSilence(u))
<1> DEFINE over == [Stopped(u, {"silence"}) EXCEPT !.silence = "off", !.sacred = FALSE, !.test = FALSE]
           q == Release(over, "silence")
           l == ReleaseLeds(q, "silence")
           free == ResetAudio(l)
           y == [free EXCEPT !.face = "stale"]
<1>1. /\ IsState(u) /\ ScreenTyped(u) /\ Place(u) /\ Timed(u) /\ NoTimer(u) /\ Down(u)
      /\ Up(u) /\ OverlayUp(u) /\ Held(u) /\ Lit(u) /\ TimerUp(u)
  BY DEF Shows, Core, Core0
<1>2. /\ Changes(u, over, {"run", "silence", "sacred", "test"}) /\ over.run = u.run \ {"silence"}
      /\ ~over.sacred /\ ~over.test /\ over.screen = u.screen /\ over.mode = u.mode
  BY <1>1 DEF Stopped, Changes, IsState, Fields
<1> HIDE DEF over
<1>3. /\ Changes(over, q, {"screen", "mode"}) /\ q.run = over.run /\ q.sacred = over.sacred /\ q.test = over.test
      /\ IF u.screen = "silence" THEN q.screen = "clock" /\ q.mode = ClockMode ELSE q.screen = u.screen /\ q.mode = u.mode
  BY <1>2 DEF Release, ToClock, Changes, IsState, Fields
<1> HIDE DEF q
<1>4. Changes(q, l, LedFields)
  BY <1>3 DEF ReleaseLeds, Changes, IsState, Fields, LedFields
<1> HIDE DEF l
<1>5. Changes(l, free, SoundFields)
  BY <1>4 DEF ResetAudio, Changes, IsState, Fields, SoundFields
<1> HIDE DEF free
<1>6. Changes(free, y, {"face"}) /\ y.face = "stale"
  BY <1>5 DEF Changes, IsState, Fields
<1> HIDE DEF y
<1>7. \A f \in Fields \ ({"face"} \cup SoundFields \cup LedFields) : y[f] = q[f]
  BY <1>4, <1>5, <1>6 DEF Changes
<1>8. y.run = q.run /\ y.sacred = q.sacred /\ y.test = q.test /\ y.screen = q.screen /\ y.mode = q.mode
  BY <1>7 DEF Fields, SoundFields, LedFields
<1>9. \A f \in Fields \ ({"run", "silence", "sacred", "test", "screen", "mode", "face"} \cup SoundFields \cup LedFields) : y[f] = u[f]
  BY <1>2, <1>3, <1>7 DEF Changes
<1>10. /\ y.hold = u.hold /\ y.tui = u.tui /\ y.shown = u.shown /\ y.dial = u.dial /\ y.tstate = u.tstate /\ y.left = u.left
  BY <1>9 DEF Fields, SoundFields, LedFields
<1>11. /\ y.run = u.run \ {"silence"} /\ ~Silent(y) /\ IsState(y)
       /\ IF u.screen = "silence" THEN y.screen = "clock" /\ y.mode = ClockMode ELSE y.screen = u.screen /\ y.mode = u.mode
  BY <1>2, <1>3, <1>6, <1>8 DEF Silent, Changes
<1>12. ScreenTyped(y) /\ Place(y)
  BY <1>1, <1>6, <1>10, <1>11 DEF ScreenTyped, Place
<1>13. Timed(y) /\ NoTimer(y) /\ Down(y) /\ Up(y)
  BY <1>1, <1>10, <1>11 DEF Timed, NoTimer, Down, Up, ScreenTyped, Views
<1>14. OverlayUp(y) /\ Held(y) /\ TimerUp(y) /\ TimerDue(y) /\ LitOr(y, y.face # "clock")
  BY <1>1, <1>6, <1>10, <1>11 DEF OverlayUp, Held, TimerUp, TimerDue, LitOr
<1>15. Shows(RefreshFace(y))
  BY <1>11, <1>12, <1>13, <1>14, RefreshFaceShows DEF Shows, Core, Core0
<1> QED
  BY <1>15, SoundShows DEF FinishSilence, y, free, l, q, over

LEMMA StopTestShows == ASSUME NEW u, Shows(u) PROVE Shows(StopSilenceTest(u))
BY SoundShows, FinishSilenceShows DEF StopSilenceTest

LEMMA SirenShows == ASSUME NEW u, Shows(u) PROVE Shows(Siren(u)) /\ Shows(SirenOver(u))
<1>1. {"siren"} \in SUBSET (TimerScripts \cup OtherScripts) /\ "siren" \in TimerScripts \cup OtherScripts
  BY DEF OtherScripts
<1> QED
  BY <1>1, RunShows, SoundShows DEF Siren, SirenOver

-----------------------------------------------------------------------------
(* Buttons, on the screen. *)

LEMMA HandleShows ==
  ASSUME NEW u, Shows(u), NEW do, do = "timer arm" => "timer" \in Packages PROVE Shows(Handle(u, do))
<1> DEFINE c == TimerCancel(u)
           p == Play(u, UiSound, "timer")
<1>1. /\ Shows(AlarmSnooze(u)) /\ Shows(AlarmDismiss(u)) /\ Shows(TimerPause(u)) /\ Shows(TimerDismiss(u))
      /\ Shows(StopSilenceTest(u)) /\ Shows(ShowDeviceId(u)) /\ Shows(RefreshFace(DropOverlay(u)))
  BY AlarmSnoozeShows, AlarmDismissShows, PauseShows, TimerOverShows, StopTestShows, ShowDeviceIdShows, OverlayOverShows
<1>2. u.tstate # "idle" => "timer" \in Packages
  BY DEF Shows, Core, Core0, NoTimer
<1>3. /\ u.tstate = "arming" => Shows(TimerCyclePreset(u))
      /\ u.tstate = "paused" => Shows(TimerResume(u))
      /\ do = "timer arm" => Shows(TimerArmBtn(u))
  BY <1>2, CyclePresetShows, ResumeShows, ArmBtnShows
<1>4. Shows(c) /\ Shows(p)
  BY TimerOverShows, SoundShows
<1> HIDE DEF c, p
<1>5. /\ Shows(ShowView(c, "weather")) /\ Shows(TimerCancel(p))
      /\ Shows(ShowView(u, "weather")) /\ Shows(ShowView(u, "climate"))
      /\ Shows(HideView(u, "weather")) /\ Shows(HideView(u, "climate"))
  BY <1>4, ViewShows, TimerOverShows DEF Views
<1>6. \/ Handle(u, do) \in {u, AlarmSnooze(u), AlarmDismiss(u), TimerPause(u), TimerDismiss(u), c,
                            ShowView(c, "weather"), TimerCancel(p)}
      \/ Handle(u, do) \in {ShowView(u, "weather"), ShowView(u, "climate"), HideView(u, "weather"), HideView(u, "climate"),
                            ShowDeviceId(u), RefreshFace(DropOverlay(u)), StopSilenceTest(u)}
      \/ u.tstate = "arming" /\ Handle(u, do) = TimerCyclePreset(u)
      \/ u.tstate = "paused" /\ Handle(u, do) = TimerResume(u)
      \/ do = "timer arm" /\ Handle(u, do) = TimerArmBtn(u)
  BY DEF Handle, c, p
<1> QED
  BY <1>1, <1>3, <1>4, <1>5, <1>6

LEMMA SomeHandler ==
  ASSUME NEW handlers, \A h \in handlers : h.priority \in {10, 50, 90, 100}, NEW event, NEW context
  PROVE  LET do == Chosen(handlers, event, context)
         IN do = "nothing" \/ \E h \in handlers : do = h.do
<1> DEFINE serving == {h \in handlers : Serves(h, event, context)}
           First(h) == \A g \in serving : h.priority >= g.priority
           best == CHOOSE h \in serving : First(h)
<1>1. CASE serving = {}
  BY <1>1 DEF Chosen
<1>2. CASE serving # {}
  <2>1. \A h \in serving : h \in handlers /\ h.priority \in {10, 50, 90, 100}
    OBVIOUS
  <2>2. Chosen(handlers, event, context) = best.do
    BY <1>2 DEF Chosen
  <2> HIDE DEF serving
  <2>3. \E h \in serving : First(h)
    <3>1. CASE \E h \in serving : h.priority = 100
      BY <2>1, <3>1
    <3>2. CASE (\A h \in serving : h.priority # 100) /\ \E h \in serving : h.priority = 90
      BY <2>1, <3>2
    <3>3. CASE (\A h \in serving : h.priority \notin {90, 100}) /\ \E h \in serving : h.priority = 50
      BY <2>1, <3>3
    <3>4. CASE \A h \in serving : h.priority \notin {50, 90, 100}
      BY <1>2, <2>1, <3>4
    <3> QED
      BY <3>1, <3>2, <3>3, <3>4
  <2>4. best \in serving
    BY <2>3
  <2> QED
    BY <2>1, <2>2, <2>4
<1> QED
  BY <1>1, <1>2

\* The timer is armed by its own package alone.
LEMMA HandlersTyped ==
  \A h \in Handlers : h.priority \in {10, 50, 90, 100} /\ (h.do = "timer arm" => "timer" \in Packages)
<1> DEFINE Fine(h) == h.priority \in {10, 50, 90, 100} /\ (h.do = "timer arm" => "timer" \in Packages)
<1>1. ASSUME NEW e, NEW c, NEW q \in {10, 50, 90, 100}, NEW do, do = "timer arm" => "timer" \in Packages
      PROVE  Fine(On(e, c, q, do))
  BY <1>1 DEF On
<1> HIDE DEF Fine
<1>2. ASSUME NEW p \in Packages, NEW h \in HandlersOf(p) PROVE Fine(h)
  <2>1. p \in {"silence", "alert", "alarm", "timer", "weather", "climate", "ha", "ota"}
    BY FeaturesAssumption
  <2>2. CASE p = "alarm"
    <3>1. \/ \E c : h \in {On("single", c, 100, "alarm snooze if active"), On("double", c, 100, "alarm dismiss"),
                        On("long", c, 100, "alarm dismiss")}
          \/ \E e : h = On(e, Ringing("alarm"), 100, "alarm dismiss if active")
      BY <2>2 DEF HandlersOf
    <3> QED
      BY <1>1, <3>1
  <2>3. CASE p = "timer"
    <3>1. \E e, c, do : h = On(e, c, 50, do) \/ h = On(e, c, 90, do)
      BY <2>3 DEF HandlersOf
    <3> QED
      BY <1>1, <2>3, <3>1
  <2>4. CASE p = "silence"
    <3>1. \E e : h = On(e, SilenceTest, 100, "stop test")
      BY <2>4 DEF HandlersOf
    <3> QED
      BY <1>1, <3>1
  <2>5. CASE p = "weather"
    <3>1. \E e, c : h = On(e, c, 50, "weather") \/ h = On(e, c, 50, "hide weather")
      BY <2>5 DEF HandlersOf
    <3> QED
      BY <1>1, <3>1
  <2>6. CASE p = "climate"
    <3>1. \E e, c : h = On(e, c, 50, "climate") \/ h = On(e, c, 50, "hide climate")
      BY <2>6 DEF HandlersOf
    <3> QED
      BY <1>1, <3>1
  <2>7. CASE p \in {"alert", "ha", "ota"}
    BY <2>7 DEF HandlersOf
  <2> QED
    BY <2>1, <2>2, <2>3, <2>4, <2>5, <2>6, <2>7
<1>3. Fine(On("triple", Any, 10, "device id")) /\ Fine(On("single", Modal("overlay"), 100, "drop overlay"))
  BY <1>1
<1>4. ASSUME NEW h \in Handlers PROVE Fine(h)
  <2> DEFINE ofPackages == UNION {HandlersOf(p) : p \in Packages}
             ofCore == {On("triple", Any, 10, "device id"), On("single", Modal("overlay"), 100, "drop overlay")}
  <2>1. (\A g \in ofPackages : Fine(g)) /\ \A g \in ofCore : Fine(g)
    BY <1>2, <1>3
  <2>2. Handlers = ofPackages \cup ofCore
    BY DEF Handlers
  <2> HIDE DEF ofPackages, ofCore
  <2> QED
    BY <2>1, <2>2
<1> QED
  BY <1>4 DEF Fine

LEMMA DispatchShows == ASSUME NEW u, Shows(u), NEW e PROVE Shows(Dispatch(u, e))
<1> DEFINE do == Chosen(Handlers, e, Context(u))
<1>1. do = "nothing" \/ \E h \in Handlers : do = h.do
  <2>1. \A h \in Handlers : h.priority \in {10, 50, 90, 100}
    BY HandlersTyped
  <2> QED
    BY <2>1, SomeHandler
<1>2. do = "timer arm" => "timer" \in Packages
  BY <1>1, HandlersTyped
<1> HIDE DEF do
<1>3. Shows(Handle(u, do))
  BY <1>2, HandleShows
<1> QED
  BY <1>3 DEF Dispatch, do

-----------------------------------------------------------------------------
(* Steps, on the screen. *)

LEMMA FlagsShow ==
  ASSUME NEW u, Shows(u), NEW x
  PROVE  /\ Shows([u EXCEPT !.enabled = x]) /\ Shows([u EXCEPT !.silence = x]) /\ Shows([u EXCEPT !.updating = x])
         /\ Shows([u EXCEPT !.left = x])
<1>1. ASSUME NEW v \in {[u EXCEPT !.enabled = x], [u EXCEPT !.silence = x], [u EXCEPT !.updating = x], [u EXCEPT !.left = x]}
      PROVE  Changes(u, v, Elsewhere \ {"run"})
  BY ShowsTyped DEF Changes, IsState, Fields, Elsewhere, AlarmFields
<1> QED
  BY <1>1, AwayShows

LEMMA FeaturesShow ==
  ASSUME Shows(ui), AlarmTime \/ AlarmSwitch \/ AlarmRepeats \/ AlarmGivesUp \/ SnoozeOver
                    \/ Nine \/ TestSilence \/ Beat \/ TicksDone \/ AnthemOver
                    \/ AlertChanges \/ SirenStops \/ UpdateTriggered \/ UpdateFailed
  PROVE  Shows(ui')
<1>1. CASE AlarmTime \/ AlarmRepeats \/ AlarmGivesUp \/ SnoozeOver
  BY <1>1, AlarmRingShows, SoundShows, AlarmDismissShows, SnoozeOverShows
  DEF AlarmTime, AlarmRepeats, AlarmGivesUp, SnoozeOver
<1>2. CASE AlarmSwitch
  BY <1>2, FlagsShow, AlarmDismissShows DEF AlarmSwitch
<1>3. CASE Nine \/ TestSilence
  BY <1>3, StartSilenceShows DEF Nine, TestSilence
<1>4. CASE Beat \/ TicksDone
  <2> DEFINE a == [ui EXCEPT !.silence = "anthem"]
  <2>1. Shows(a)
    BY FlagsShow
  <2>2. ui' = Play(ui, Notification, "silence") \/ ui' = Play(a, Notification, "silence")
    BY <1>4 DEF Beat, TicksDone
  <2> HIDE DEF a
  <2>3. Shows(Play(ui, Notification, "silence")) /\ Shows(Play(a, Notification, "silence"))
    BY <2>1, SoundShows
  <2> QED
    BY <2>2, <2>3
<1>5. CASE AnthemOver
  BY <1>5, FinishSilenceShows DEF AnthemOver
<1>6. CASE AlertChanges \/ SirenStops
  BY <1>6, SirenShows DEF AlertChanges, SirenStops
<1>7. CASE UpdateTriggered \/ UpdateFailed
  <2> DEFINE a == [ui EXCEPT !.updating = TRUE]
             b == [ui EXCEPT !.updating = FALSE]
  <2>1. Shows(a) /\ Shows(b)
    BY FlagsShow
  <2>2. ui' = SetLeds(a, UpdateLeds, "ota") \/ ui' = b
    BY <1>7 DEF UpdateTriggered, UpdateFailed
  <2> HIDE DEF a, b
  <2>3. Shows(SetLeds(a, UpdateLeds, "ota"))
    BY <2>1, SoundShows
  <2> QED
    BY <2>1, <2>2, <2>3
<1> QED
  BY <1>1, <1>2, <1>3, <1>4, <1>5, <1>6, <1>7

LEMMA TimerStepShows ==
  ASSUME Sound(ui), Shows(ui), ArmOver \/ CountDown \/ SecondPasses \/ TimerRepeats \/ TimerGivesUp \/ HaTimer
  PROVE  Shows(ui')
<1>1. ArmOver \/ CountDown \/ SecondPasses => ui.tstate # "idle"
  BY DEF ArmOver, CountDown, SecondPasses, Elapses, Sound, TimerMatch
<1>2. ArmOver \/ CountDown \/ SecondPasses \/ HaTimer => "timer" \in Packages
  BY <1>1 DEF Shows, Core, Core0, NoTimer, HaTimer, Has
<1>3. CASE ArmOver
  BY <1>2, <1>3, ArmCommitShows DEF ArmOver
<1>4. CASE CountDown \/ SecondPasses
  BY <1>2, <1>4, SecondShows DEF CountDown, SecondPasses
<1>5. CASE TimerRepeats \/ TimerGivesUp
  <2>1. Shows(Play(ui, AlarmSound, "timer")) /\ Shows(TimerDismiss(ui))
    BY SoundShows, TimerOverShows
  <2> QED
    BY <1>5, <2>1 DEF TimerRepeats, TimerGivesUp
<1>6. CASE HaTimer
  <2>1. \A l : Shows(IF l = 0 THEN ui ELSE [ui EXCEPT !.left = l])
    BY FlagsShow
  <2>2. \A l : Shows(TimerStartRunning(IF l = 0 THEN ui ELSE [ui EXCEPT !.left = l]))
    BY <1>2, <1>6, <2>1, StartRunningShows
  <2> QED
    BY <1>6, <2>2, TimerOverShows, PauseShows DEF HaTimer
<1> QED
  BY <1>3, <1>4, <1>5, <1>6

LEMMA StepShows == ASSUME Sound(ui), Shows(ui), [Next]_ui PROVE Shows(ui')
<1>1. CASE Press
  <2>1. PICK e \in Clicks \cup {"triple"} : ui' = Dispatch(BeepDirect(ui), e)
    BY <1>1 DEF Press
  <2>2. Shows(Dispatch(BeepDirect(ui), e))
    BY SoundShows, DispatchShows
  <2> QED
    BY <2>1, <2>2
<1>2. CASE \/ AlarmTime \/ AlarmSwitch \/ AlarmRepeats \/ AlarmGivesUp \/ SnoozeOver
           \/ Nine \/ TestSilence \/ Beat \/ TicksDone \/ AnthemOver
           \/ AlertChanges \/ SirenStops \/ UpdateTriggered \/ UpdateFailed
  BY <1>2, FeaturesShow
<1>3. CASE ArmOver \/ CountDown \/ SecondPasses \/ TimerRepeats \/ TimerGivesUp \/ HaTimer
  BY <1>3, TimerStepShows
<1>4. CASE ViewTimesOut
  BY <1>4, ViewShows DEF ViewTimesOut
<1>5. CASE OverlayEnds
  BY <1>5, OverlayOverShows DEF OverlayEnds
<1>6. CASE Refresh \/ EveryFiveSeconds
  <2>1. [ui EXCEPT !.face = ui.face] = ui
    BY ShowsTyped DEF IsState
  <2>2. Shows(RefreshFace([ui EXCEPT !.face = "stale"])) /\ Shows(RefreshFace(ui))
    BY FaceStaleShows, RefreshShows
  <2> QED
    BY <1>6, <2>1, <2>2 DEF Refresh, EveryFiveSeconds
<1>7. CASE MelodyEnds \/ Co2Measured
  <2>1. Shows([ui EXCEPT !.heard = Nobody]) /\ Shows(RefreshLeds(ui))
    BY SoundShows
  <2> QED
    BY <1>7, <2>1 DEF MelodyEnds, Co2Measured
<1>8. CASE UNCHANGED ui
  BY <1>8
<1> QED
  BY <1>1, <1>2, <1>3, <1>4, <1>5, <1>6, <1>7, <1>8 DEF Next, Elapse

LEMMA BootShows == Shows(Boot)
<1>1. IsState(Boot) /\ ScreenTyped(Boot)
  BY BootSound DEF Sound
<1>2. Place(Boot) /\ Timed(Boot) /\ NoTimer(Boot) /\ Down(Boot)
  BY DEF Boot, Place, Timed, NoTimer, Down
<1>3. Up(Boot) /\ OverlayUp(Boot) /\ Held(Boot) /\ Lit(Boot) /\ TimerUp(Boot)
  BY DEF Boot, Up, OverlayUp, Held, Lit, TimerUp, Views
<1> QED
  BY <1>1, <1>2, <1>3 DEF Shows, Core, Core0

-----------------------------------------------------------------------------
(* The theorems. *)

\* Whatever is pressed, elapses or comes over the network, the invariant holds.
THEOREM FeaturesSound == Spec => []Sound(ui)
<1>1. Init => Sound(ui)
  BY BootSound DEF Init
<1>2. Sound(ui) /\ [Next]_ui => Sound(ui)'
  BY StepFollows DEF Follows
<1> QED
  BY <1>1, <1>2, PTL DEF Spec

\* Every field of the arbiter and of the scripts keeps its range: no preset beyond
\* the last, no time below none, no script but those that are there.
THEOREM FeaturesTypeCorrect == Spec => []FeaturesTypeOK
<1>1. Sound(ui) => FeaturesTypeOK
  BY DEF Sound, ScreenTyped, RestTyped, FeaturesTypeOK, Scripts, ScreenScripts, TimerScripts, OtherScripts, Views
<1> QED
  BY <1>1, FeaturesSound, PTL

\* A feature's state and its scripts agree (alarm.yaml, timer.yaml): what rings has
\* a script that will stop it, and no delay outlives the feature that waits in it.
\* Home Assistant is taken to give the timer it starts a time (ha.yaml, start_timer).
THEOREM ScriptsAgree == ASSUME 0 \notin HaTimes PROVE Spec => []ScriptsMatch
<1>1. Sound(ui) => ScriptsMatch
  BY DEF Sound, AlarmMatch, TimerMatch, Given, ScriptsMatch
<1> QED
  BY <1>1, FeaturesSound, PTL

\* Where no Home Assistant is configured, the buttons are handed to a ring
\* (get_active_context) only while it rings.
THEOREM RingingIsLive == ASSUME "ha" \notin Packages PROVE Spec => []RingingContextIsLive
<1>1. Init => Sound(ui) /\ RingMatch(ui)
  BY BootSound DEF Init
<1>2. Sound(ui) /\ RingMatch(ui) /\ [Next]_ui => (Sound(ui) /\ RingMatch(ui))'
  BY StepFollows DEF Follows
<1>3. Sound(ui) /\ RingMatch(ui) => RingingContextIsLive
  BY DEF RingMatch, RingingContextIsLive
<1> QED
  BY <1>1, <1>2, <1>3, PTL DEF Spec

\* Nobody takes its rank from the siren of the air alert but its own end and the end
\* of the minute of silence (reset_audio), and until then nothing is heard in its
\* place but the beeps that ask nobody (send_beep, the chirp of a press).
THEOREM SirenRank == Spec => SirenOutranks
<1>1. Sound(ui) /\ [Next]_ui
        => [ui.owner = "alert" /\ "siren" \in ui'.run /\ ~(ui.silence # "off" /\ ui'.silence = "off")
            => ui'.owner = "alert" /\ ui'.heard \in {ui.heard, "alert", Beep, Nobody}]_ui
  <2> SUFFICES ASSUME Sound(ui), [Next]_ui, ui.owner = "alert", "siren" \in ui'.run,
                      ~(ui.silence # "off" /\ ui'.silence = "off")
               PROVE  ui'.owner = "alert" /\ ui'.heard \in {ui.heard, "alert", Beep, Nobody}
    OBVIOUS
  <2>1. Follows(ui, ui')
    BY StepFollows
  <2>2. ui.prio = AlertSound
    BY DEF Sound, SoundMatch
  <2> QED
    BY <2>1, <2>2 DEF Follows, SirenKept
<1> QED
  BY <1>1, FeaturesSound, PTL DEF Spec, SirenOutranks

\* Screen, dial and LEDs are those of whoever the arbiter's state names: whoever has
\* the screen is there to give it back (release_screen, screen_preempted), a clock is
\* never black (ui_face_root), and the LEDs are those of the silence or of CO2.
THEOREM OwnerShown == Spec => []ShownByOwner
<1>1. Init => Sound(ui) /\ Shows(ui)
  BY BootSound, BootShows DEF Init
<1>2. Sound(ui) /\ Shows(ui) /\ [Next]_ui => (Sound(ui) /\ Shows(ui))'
  BY StepFollows, StepShows DEF Follows
<1>3. Sound(ui) /\ Shows(ui) => ShownByOwner
  <2> SUFFICES ASSUME Sound(ui), Shows(ui) PROVE ShownByOwner
    OBVIOUS
  <2>1. /\ ScreenTyped(ui) /\ Place(ui) /\ Timed(ui) /\ Down(ui)
        /\ Up(ui) /\ OverlayUp(ui) /\ Lit(ui) /\ TimerUp(ui)
    BY DEF Shows, Core, Core0
  <2>2. NoOrphanScreen
    <3>1. ui.screen = "clock" <=> ui.mode = ClockMode
      BY <2>1 DEF Place, Views, ClockMode, ViewMode, ToolMode, OverlayMode, SilenceMode
    <3>2. (ui.screen = "timer" => ui.tstate # "idle") /\ (ui.screen = "overlay" => "show_device_id" \in ui.run)
      BY <2>1 DEF TimerUp, OverlayUp
    <3>3. ui.screen = "silence" => Silent(ui)
      BY <2>1 DEF Place, Views
    <3>4. (\A v \in Views : ui.screen = v <=> v \in ui.shown) /\ \A v \in ui.shown : Timeout(v) \in ui.run
      BY <2>1 DEF Down, Up, Timed, Timeout
    <3> QED
      BY <3>1, <3>2, <3>3, <3>4 DEF NoOrphanScreen
  <2>3. ClockHasDial
    BY <2>1 DEF Lit, ClockHasDial
  <2>4. LedsFollowSilence
    BY DEF Sound, LedMatch, LedsFollowSilence
  <2> QED
    BY <2>2, <2>3, <2>4 DEF ShownByOwner
<1> QED
  BY <1>1, <1>2, <1>3, PTL DEF Spec
=============================================================================
