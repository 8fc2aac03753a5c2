------------------------------ MODULE Downlink ------------------------------
(* What the GD32's packet parser promises of the stream from the ESP32: each *)
(* packet is carried out at most once, in the order they were begun, and     *)
(* nothing is carried out that was not sent. A packet may be lost, and is    *)
(* when a later one is carried out first.                                    *)
EXTENDS Integers, Sequences

CONSTANT Packets

VARIABLES way,    \* the packets begun that may still be carried out, oldest first
          done    \* the packets carried out

Init == way = << >> /\ done = << >>

Send(p) == /\ p \notin {way[i] : i \in 1 .. Len(way)} \cup {done[i] : i \in 1 .. Len(done)}
           /\ way' = Append(way, p)
           /\ UNCHANGED done

Execute(i) == /\ done' = Append(done, way[i])
              /\ way' = SubSeq(way, i + 1, Len(way))

Next == \/ \E p \in Packets : Send(p)
        \/ \E i \in 1 .. Len(way) : Execute(i)

Spec == Init /\ [][Next]_<< way, done >>
=============================================================================
