------------------------------- MODULE Arbiter -------------------------------
(***************************************************************************)
(* The arbiter (htram_arbiter.cpp) shares one buzzer, one screen and three *)
(* LEDs among the features.  Each of its methods is an operator from the   *)
(* state before the call to the state after it, so that a feature's script *)
(* is the composition of the calls it makes.  A state is a record with at  *)
(* least these fields:                                                     *)
(*   prio, owner         audio_priority_, audio_owner_                     *)
(*   mode, screen        screen_mode_, screen_owner_                       *)
(*   sacred, test        silence_sacred_, silence_test_                    *)
(*   snooze              snooze_active_                                    *)
(*   ledPrio, ledOwner   led_priority_, led_owner_                         *)
(*   heard, leds         what the GD32 plays and shows: it obeys each      *)
(*                       command at once and has no queue of sounds        *)
(***************************************************************************)
EXTENDS Naturals

Nobody == "nobody"

UiSound == 10
Notification == 20
AlarmSound == 30
AlertSound == 40

ClockMode == 0
ViewMode == 1
ToolMode == 2
OverlayMode == 3
SilenceMode == 4

Co2Leds == 10
SilenceLeds == 30
UpdateLeds == 100

-----------------------------------------------------------------------------
(* The buzzer *)

\* Mutant: whoever asks last is heard.
Play_NoPriority(u, p, who) == [u EXCEPT !.prio = p, !.owner = who, !.heard = who]

\* play_rtttl and play_beep.  The priority stays taken when the melody ends.
Play(u, p, who) ==
  IF p >= u.prio THEN [u EXCEPT !.prio = p, !.owner = who, !.heard = who] ELSE u

\* stop_sound: the owner, or anybody while nothing but a notification plays.
Stop(u, who) ==
  IF who = u.owner \/ u.prio <= Notification
  THEN [u EXCEPT !.prio = 0, !.owner = Nobody, !.heard = Nobody]
  ELSE u

\* reset_audio: the priority is given up, what sounds is not stopped.
ResetAudio(u) == [u EXCEPT !.prio = 0, !.owner = Nobody]

\* send_beep and play_rtttl of the core, and the chirp with which the GD32 answers
\* every press: not the arbiter's, nobody is asked, and what played is cut off.
Beep == "beep"
BeepDirect(u) == [u EXCEPT !.heard = Beep]

-----------------------------------------------------------------------------
(* The LEDs *)

SetLeds(u, p, who) ==
  IF p >= u.ledPrio THEN [u EXCEPT !.ledPrio = p, !.ledOwner = who, !.leds = who]
  ELSE u

\* The LEDs keep showing what they show.
ReleaseLeds(u, who) ==
  IF who = u.ledOwner THEN [u EXCEPT !.ledPrio = 0, !.ledOwner = Nobody] ELSE u

-----------------------------------------------------------------------------
(* The screen.  The events screen_hide and screen_idle only redraw. *)

\* request_screen, without the event it sends to the owner it displaces.
Granted(u, m, who) == m >= u.mode \/ who = u.screen
TakeScreen(u, m, who) ==
  IF Granted(u, m, who) THEN [u EXCEPT !.mode = m, !.screen = who] ELSE u

ToClock(u) == [u EXCEPT !.mode = ClockMode, !.screen = "clock"]

\* release_screen
Release(u, who) == IF who = u.screen THEN ToClock(u) ELSE u

-----------------------------------------------------------------------------
(* Contexts and events *)

\* is_silence_active
Silent(u) == u.sacred \/ u.test

Any == <<"any", Nobody>>
Clock == <<"clock", Nobody>>
Snooze == <<"snooze", Nobody>>
SilenceTest == <<"silence_test", Nobody>>
Ringing(who) == <<"ringing", who>>
Modal(who) == <<"modal", who>>

\* get_active_context
Context(u) ==
  IF u.sacred THEN <<"silence_sacred", Nobody>>
  ELSE IF u.test THEN SilenceTest
  ELSE IF u.prio = AlarmSound THEN Ringing(u.owner)
  ELSE IF u.mode # ClockMode THEN Modal(u.screen)
  ELSE IF u.snooze THEN Snooze
  ELSE Clock

\* A handler for the clock also serves while the alarm is put off.
Serves(h, event, context) ==
  /\ h.event = event
  /\ h.context \in {context, Any} \/ (h.context = Clock /\ context = Snooze)

\* dispatch_event_for_context: of the handlers that serve, only the one with the
\* highest priority runs, even if it then decides to do nothing.
Chosen(handlers, event, context) ==
  LET serving == {h \in handlers : Serves(h, event, context)}
  IN IF serving = {} THEN "nothing"
     ELSE (CHOOSE h \in serving : \A g \in serving : h.priority >= g.priority).do
=============================================================================
