------------------------------- MODULE MCLink -------------------------------
(* The link for TLC: an image of two rows that make two chunks, one of each  *)
(* kind, three pixel values, and runs of at most three. Songs of three notes *)
(* at two tempi, which do not divide a whole note evenly, and two songs with *)
(* a note too many, one without a tempo; the clock wraps within a beat.      *)
EXTENDS Link

MCImage == << << 1, 1, 1 >>, << 1, 8, 35 >> >>

MCNotes == [dur : {NoDur, 2}, dotted : BOOLEAN]
MCSongs == [bpm : {40, 55}, dur : {4}, notes : [1 .. 3 -> MCNotes]]
             \cup [bpm : {0, 30}, dur : {0}, notes : [1 .. 4 -> {[dur |-> NoDur, dotted |-> TRUE]}]]
MCGaps == [1 .. 3 -> {1, 4}]
=============================================================================
