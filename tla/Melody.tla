------------------------------- MODULE Melody -------------------------------
(* A song on its way to the buzzer: the ESP32 turns RTTTL into notes and     *)
(* their beats (play_rtttl, htram_gd32.cpp), and the main loop of the GD32   *)
(* looks at every pass whether the note is over (periph_buzzer_tick,         *)
(* periph.c), by a clock of milliseconds that wraps.                         *)
EXTENDS Integers, Sequences, SequencesExt

CONSTANTS Clock,     \* 2^32: values of the millisecond clock
          MaxNotes,  \* 96: notes a melody holds
          MaxBeat,   \* 65535: the longest beat
          Minute4,   \* 240000: the milliseconds of a whole note at one beat a minute
          Songs,     \* the songs the checks use: [bpm, dur, notes]
          Gaps,      \* how far apart the passes of the loop are, over and over
          Starts     \* when a song begins

NoDur == -1   \* a note that names no duration
Note == [dur : Nat \cup {NoDur}, dotted : BOOLEAN]

ASSUME MelodyAssumption == /\ Clock \in Nat /\ Clock % 2 = 0 /\ Clock > 0
                           /\ MaxNotes \in Nat /\ MaxBeat \in Nat /\ MaxBeat < Clock \div 2
                           /\ Minute4 \in Nat /\ Starts \subseteq 0 .. (Clock - 1)

\* The loop takes time: there are gaps, none of them zero.
ASSUME SongsAssumption == /\ Songs \subseteq [bpm : Nat, dur : Nat, notes : Seq(Note)]
                          /\ \A gaps \in Gaps : gaps \in Seq(Nat \ {0}) /\ gaps # << >>

(* ---- play_rtttl ---- *)
Given(song, note) == IF note.dur = NoDur THEN song.dur ELSE note.dur
Tempo(song) == IF song.bpm = 0 THEN 63 ELSE song.bpm

Beats(song) ==
  LET whole == Minute4 \div Tempo(song)
      Plain(note) == whole \div (IF Given(song, note) > 0 THEN Given(song, note) ELSE 4)
      Beat(note) == Min({MaxBeat, Plain(note) + (IF note.dotted THEN Plain(note) \div 2 ELSE 0)})
  IN [i \in 1 .. Min({MaxNotes, Len(song.notes)}) |-> Beat(song.notes[i])]

(* ---- the player: the note it sounds, 0 for none, and when that ends ---- *)
Silent == [note |-> 0, end |-> 0]

\* (int32_t)(now - time) >= 0
Reached(now, time) == (now - time) % Clock < Clock \div 2

Started(beats, now) ==
  IF beats = << >> THEN Silent ELSE [note |-> 1, end |-> (now + beats[1]) % Clock]

\* Mutant: every note lasts its beat from the pass that began it.
Tick_drifts(s, beats, now) ==
  IF s.note = 0 \/ ~Reached(now, s.end) THEN s
  ELSE IF s.note = Len(beats) THEN Silent
  ELSE [note |-> s.note + 1, end |-> (now + beats[s.note + 1]) % Clock]

\* A note ends its beat after the one before it was due to end, unless the loop has
\* stood still so long that this is past already.
Tick(s, beats, now) ==
  IF s.note = 0 \/ ~Reached(now, s.end) THEN s
  ELSE IF s.note = Len(beats) THEN Silent
  ELSE LET beat == beats[s.note + 1]
           due == (s.end + beat) % Clock
       IN [note |-> s.note + 1,
           end |-> IF Reached(now, due) THEN (now + beat) % Clock ELSE due]

-----------------------------------------------------------------------------
(* The song as it is heard. *)

\* in[1] numbers, in[2] how many of them: their sum.
Total[in \in Seq(Nat) \X Nat] ==
  IF in[2] = 0 THEN 0 ELSE Total[<< in[1], in[2] - 1 >>] + in[1][in[2]]

\* in[1] the beats, in[2] the gaps, in[3] when the song was started: how long after
\* that pass in[4] of the loop comes, and what the player then does.
Pass[in \in Seq(Nat) \X Seq(Nat) \X Nat \X Nat] ==
  IF in[4] = 0 THEN [at |-> 0, player |-> Started(in[1], in[3])]
  ELSE LET was == Pass[<< in[1], in[2], in[3], in[4] - 1 >>]
           at == was.at + in[2][((in[4] - 1) % Len(in[2])) + 1]
       IN [at |-> at, player |-> Tick(was.player, in[1], (in[3] + at) % Clock)]

\* What a note lasts by the score, in units of 1/4 bpm milliseconds.
Quarters(song, note) ==
  LET plain == (4 * Minute4) \div (IF Given(song, note) > 0 THEN Given(song, note) ELSE 4)
  IN IF note.dotted THEN plain + plain \div 2 ELSE plain

\* When note n should begin, by the score.
Score(song, n) == Total[<< [i \in DOMAIN song.notes |-> Quarters(song, song.notes[i])], n - 1 >>]

\* A song does not drift: whatever the jitter of the loop and wherever the clock wraps,
\* as long as no pass is later than a beat is long and no beat is too long for its
\* field, note n begins at most one gap between passes after its time by the score,
\* and at most two milliseconds for each note before it early, for the rounding.
\* (periph.c: "Anchor to previous note end to prevent tempo drift across main-loop
\* jitter".)
NoDrift ==
  \A song \in Songs, gaps \in Gaps, start \in Starts :
    LET beats == Beats(song)
        late == Max({gaps[i] : i \in DOMAIN gaps})
        passes == [i \in 0 .. Total[<< beats, Len(beats) >>] |-> Pass[<< beats, gaps, start, i >>]]
        unit == 4 * Tempo(song)
    IN (\A i \in DOMAIN beats : beats[i] >= late /\ beats[i] < MaxBeat) =>
         \A n \in 2 .. Len(beats) :
           \E i \in DOMAIN passes \ {0} :
             /\ passes[i].player.note = n /\ passes[i - 1].player.note = n - 1
             /\ unit * passes[i].at < Score(song, n) + unit * late
             /\ unit * passes[i].at > Score(song, n) - unit * 2 * (n - 1)
=============================================================================
