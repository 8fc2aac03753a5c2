---------------------------- MODULE Link_proofs ----------------------------
(***************************************************************************)
(* The link implements Downlink: for every size of the ring, every image   *)
(* and every number of faults, the GD32 carries out each packet at most    *)
(* once, in the order they were begun.  The argument is about heads only:  *)
(* their numbers rise along the ring, and all of them lie above the packet *)
(* the parser is in and the last one it carried out.                       *)
(*                                                                         *)
(* Three more facts of every instance: an undamaged stream is carried out  *)
(* to its last packet (StreamInv: the units in the ring follow one another *)
(* from what the parser expects to what the ESP32 is about to write); no   *)
(* chunk is begun in a poll whose PAUSE was read (PauseInv); and every     *)
(* variable keeps its type and its bound.                                  *)
(*                                                                         *)
(* And the two about what the link carries, from Payload_proofs.           *)
(***************************************************************************)
EXTENDS Link, Payload_proofs

USE LinkAssumption, ChunksAssumption

Parts == {"rect", "command", "pixels", "crc", "bad"}
Unit == [id : Nat, part : Parts]
Draw == [at : {"idle", "ready", "wait", "pixels", "crc"}, left : Nat, id : Nat]
Parser == [at : {"magic", "body", "crc"}, left : Int, id : Nat]

\* The numbers: what is begun stays within the bound, and so does what is left of a
\* rectangle.
Numbers ==
  /\ sent \in Nat
  /\ draw \in Draw
  /\ draw.at \in {"ready", "wait"} => draw.left > 0
  /\ sent + draw.left <= MaxSent
  /\ parser \in Parser

\* What was carried out, and the packet the parser is in, were begun before.
Carried ==
  /\ done \in Seq(Nat)
  /\ LastDone \in Nat /\ LastDone <= sent
  /\ \A k \in 1 .. Len(done) : done[k] <= LastDone
  /\ parser.id # 0 => LastDone < parser.id /\ parser.id <= sent

\* The heads in the ring: above what is carried out or parsed, and rising.
Above(r) == \A i \in 1 .. Len(r) :
              Opens(r[i]) => LastDone < r[i].id /\ parser.id < r[i].id /\ r[i].id <= sent
Rising(r) == \A i, j \in 1 .. Len(r) :
               i < j /\ Opens(r[i]) /\ Opens(r[j]) => r[i].id < r[j].id
Heads == ring \in Seq(Unit) /\ Above(ring) /\ Rising(ring)

OrderInv == Numbers /\ Carried /\ Heads

-----------------------------------------------------------------------------
LEMMA OneUnit ==
  \A u \in Unit : << u >> \in Seq(Unit) /\ Len(<< u >>) = 1 /\ << u >>[1] = u
OBVIOUS

LEMMA UnitFacts ==
  /\ \A u \in Unit : u.id \in Nat
  /\ \A n \in Nat, p \in Parts : U(n, p) \in Unit /\ U(n, p).id = n /\ U(n, p).part = p
BY DEF Unit, U

\* What arrives of some units: a beginning of them.
LEMMA Beginning ==
  ASSUME NEW us \in Seq(Unit), NEW room \in Int
  PROVE  LET some == SubSeq(us, 1, IF room < Len(us) THEN room ELSE Len(us))
         IN /\ some \in Seq(Unit) /\ Len(some) <= Len(us)
            /\ \A i \in 1 .. Len(some) : some[i] = us[i]
<1> DEFINE n == IF room < Len(us) THEN room ELSE Len(us)
<1>1. n \in Int /\ n <= Len(us) /\ Len(us) \in Nat
  BY LenProperties
<1>2. CASE n < 1
  <2>1. SubSeq(us, 1, n) = << >>
    BY <1>1, <1>2, SubSeqEmpty
  <2> QED
    BY <1>1, <2>1
<1>3. CASE n >= 1
  BY <1>1, <1>3, SubSeqProperties
<1> QED
  BY <1>1, <1>2, <1>3

\* What arrives opens no packet, or opens the one just begun with its first unit.
LEMMA ArriveKeeps ==
  ASSUME OrderInv, NEW us \in Seq(Unit), NEW why, Arrive(us, why),
         \A i \in 1 .. Len(us) : Opens(us[i]) => i = 1 /\ us[i].id = sent + 1 /\ sent' = sent + 1,
         sent' = sent \/ sent' = sent + 1, UNCHANGED << parser, done >>
  PROVE  Heads'
<1> DEFINE room == RingSize - Len(ring)
           some == SubSeq(us, 1, IF room < Len(us) THEN room ELSE Len(us))
<1>1. /\ ring \in Seq(Unit) /\ Len(ring) \in Nat /\ Above(ring) /\ Rising(ring)
      /\ sent \in Nat /\ LastDone \in Nat /\ LastDone <= sent
      /\ parser.id \in Nat /\ parser.id <= sent
  BY LenProperties DEF OrderInv, Heads, Numbers, Carried, Parser
<1>2. some \in Seq(Unit) /\ Len(some) <= Len(us) /\ \A i \in 1 .. Len(some) : some[i] = us[i]
  BY <1>1, Beginning
<1>3. ring' = ring \o some
  BY DEF Arrive
<1>4. LastDone' = LastDone
  BY DEF LastDone
<1> HIDE DEF some
<1>5. /\ ring' \in Seq(Unit) /\ Len(ring') = Len(ring) + Len(some)
      /\ \A i \in 1 .. Len(ring') : ring'[i] = IF i <= Len(ring) THEN ring[i] ELSE some[i - Len(ring)]
  BY <1>1, <1>2, <1>3, ConcatProperties
<1>6. Len(some) \in Nat /\ Len(us) \in Nat
  BY <1>2, LenProperties
<1>7. \A i \in 1 .. Len(ring') : Opens(ring'[i]) =>
        \/ i \in 1 .. Len(ring) /\ ring'[i] = ring[i]
        \/ i = Len(ring) + 1 /\ ring'[i].id = sent + 1 /\ sent' = sent + 1
  <2> SUFFICES ASSUME NEW i \in 1 .. Len(ring'), Opens(ring'[i])
               PROVE  \/ i \in 1 .. Len(ring) /\ ring'[i] = ring[i]
                      \/ i = Len(ring) + 1 /\ ring'[i].id = sent + 1 /\ sent' = sent + 1
    OBVIOUS
  <2>1. CASE i <= Len(ring)
    BY <1>1, <1>5, <2>1
  <2>2. CASE i > Len(ring)
    <3>1. i - Len(ring) \in 1 .. Len(some) /\ i - Len(ring) \in 1 .. Len(us)
      BY <1>1, <1>2, <1>5, <1>6, <2>2
    <3>2. ring'[i] = some[i - Len(ring)]
      BY <1>1, <1>5, <2>2
    <3>3. some[i - Len(ring)] = us[i - Len(ring)]
      BY <1>2, <3>1
    <3>4. i - Len(ring) = 1 /\ us[i - Len(ring)].id = sent + 1 /\ sent' = sent + 1
      BY <3>1, <3>2, <3>3
    <3> QED
      BY <1>1, <3>2, <3>3, <3>4
  <2> QED
    BY <1>1, <1>5, <1>6, <2>1, <2>2
<1>8. ASSUME NEW i \in 1 .. Len(ring'), Opens(ring'[i])
      PROVE  LastDone < ring'[i].id /\ parser.id < ring'[i].id /\ ring'[i].id <= sent'
  <2>1. CASE i \in 1 .. Len(ring) /\ ring'[i] = ring[i]
    <3>1. LastDone < ring[i].id /\ parser.id < ring[i].id /\ ring[i].id <= sent
      BY <1>1, <1>8, <2>1 DEF Above
    <3>2. ring[i].id \in Nat
      BY <1>1, <2>1, ElementOfSeq, UnitFacts
    <3> QED
      BY <1>1, <2>1, <3>1, <3>2
  <2>2. CASE i = Len(ring) + 1 /\ ring'[i].id = sent + 1 /\ sent' = sent + 1
    BY <1>1, <2>2
  <2> QED
    BY <1>7, <1>8, <2>1, <2>2
<1>9. ASSUME NEW i \in 1 .. Len(ring'), NEW j \in 1 .. Len(ring'),
             i < j, Opens(ring'[i]), Opens(ring'[j])
      PROVE  ring'[i].id < ring'[j].id
  <2>1. i \in 1 .. Len(ring) /\ ring'[i] = ring[i]
    BY <1>1, <1>5, <1>6, <1>7, <1>9
  <2>2. CASE j \in 1 .. Len(ring) /\ ring'[j] = ring[j]
    BY <1>1, <1>9, <2>1, <2>2 DEF Rising
  <2>3. CASE j = Len(ring) + 1 /\ ring'[j].id = sent + 1
    <3>1. ring[i].id <= sent
      BY <1>1, <1>9, <2>1 DEF Above
    <3>2. ring[i].id \in Nat
      BY <1>1, <2>1, ElementOfSeq, UnitFacts
    <3> QED
      BY <1>1, <2>1, <2>3, <3>1, <3>2
  <2> QED
    BY <1>7, <1>9, <2>2, <2>3
<1>10. Above(ring)' /\ Rising(ring)'
  BY <1>4, <1>8, <1>9, Zenon DEF Above, Rising
<1> QED
  BY <1>5, <1>10 DEF Heads

\* Whoever leaves the ring and the parser alone leaves the heads as they are.
LEMMA HeadsUntouched ==
  ASSUME OrderInv, UNCHANGED << sent, ring, parser, done >>
  PROVE  Carried' /\ Heads'
BY DEF OrderInv, Carried, Heads, Above, Rising, LastDone

\* The short packets: one more is begun, and its two units arrive.
LEMMA ShortKeeps ==
  ASSUME OrderInv, SendShort
  PROVE  OrderInv'
<1> DEFINE us == << U(sent + 1, "command"), U(sent + 1, "crc") >>
<1>1. sent \in Nat /\ sent' = sent + 1 /\ UNCHANGED << parser, done, draw >>
  BY DEF OrderInv, Numbers, SendShort, gdVars
<1>2. us \in Seq(Unit) /\ Len(us) = 2 /\ us[1] = U(sent + 1, "command") /\ us[2] = U(sent + 1, "crc")
  <2>1. U(sent + 1, "command") \in Unit /\ U(sent + 1, "crc") \in Unit
    BY <1>1, UnitFacts DEF Parts
  <2>2. \A x, y \in Unit : << x, y >> \in Seq(Unit)
    OBVIOUS
  <2> QED
    BY <2>1, <2>2, Zenon
<1>3. PICK why : Arrive(us, why)
  BY DEF SendShort
<1>4. \A i \in 1 .. Len(us) : Opens(us[i]) => i = 1 /\ us[i].id = sent + 1 /\ sent' = sent + 1
  <2>1. ~Opens(us[2]) /\ us[1].id = sent + 1
    BY <1>1, <1>2, UnitFacts DEF Opens, Parts
  <2> QED
    BY <1>1, <1>2, <2>1
<1> HIDE DEF us
<1>5. Heads'
  BY <1>1, <1>2, <1>3, <1>4, ArriveKeeps
<1>6. Numbers'
  BY <1>1 DEF OrderInv, Numbers, SendShort, Draw
<1>7. Carried'
  BY <1>1 DEF OrderInv, Numbers, Carried, LastDone, Parser
<1> QED
  BY <1>5, <1>6, <1>7 DEF OrderInv

\* The parser takes a unit: it is in the packet the unit opens, stays in its own, or is
\* in none, and carries out the one it was in if the CRC fits.
LEMMA ParserMoves ==
  ASSUME OrderInv, ProcessRx
  PROVE  /\ ring # << >> /\ ring' = Tail(ring)
         /\ parser' \in Parser
         /\ \/ /\ done' = done
               /\ parser'.id \in {parser.id, 0} \/ (Opens(ring[1]) /\ parser'.id = ring[1].id)
            \/ /\ parser.id # 0 /\ done' = Append(done, parser.id)
               /\ parser'.id = 0
<1> DEFINE u == Head(ring)
<1>1. /\ ring # << >> /\ ring' = Tail(ring) /\ ring \in Seq(Unit)
      /\ parser \in Parser
      /\ u \in Unit /\ u = ring[1] /\ u.id \in Nat
  BY HeadTailProperties, UnitFacts DEF OrderInv, Numbers, Heads, ProcessRx
<1>2. CASE parser.at = "magic"
  <2>1. parser' \in Hunt(u) /\ done' = done
    BY <1>2 DEF ProcessRx
  <2>2. CASE u.part = "rect"
    <3>1. parser' = [at |-> "body", left |-> 1, id |-> u.id]
      BY <2>1, <2>2 DEF Hunt
    <3> QED
      BY <1>1, <2>1, <2>2, <3>1 DEF Opens, Parser
  <2>3. CASE u.part = "command"
    <3>1. parser' = [at |-> "crc", left |-> 0, id |-> u.id]
      BY <2>1, <2>3 DEF Hunt
    <3> QED
      BY <1>1, <2>1, <2>3, <3>1 DEF Opens, Parser
  <2>4. CASE u.part \notin {"rect", "command"}
    <3>1. \/ parser' = Hunting
          \/ \E n \in 0 .. MaxGarbage :
               parser' = [at |-> IF n = 0 THEN "crc" ELSE "body", left |-> n, id |-> 0]
      BY <2>1, <2>4 DEF Hunt
    <3> QED
      BY <1>1, <2>1, <3>1 DEF Hunting, Parser
  <2> QED
    BY <2>2, <2>3, <2>4
<1>3. CASE parser.at = "body"
  <2>1. parser' = Body(u) /\ done' = done
    BY <1>3 DEF ProcessRx
  <2>2. parser'.id \in {parser.id, 0}
    BY <2>1 DEF Body
  <2>3. parser' \in Parser
    BY <1>1, <2>1 DEF Body, Parser
  <2> QED
    BY <1>1, <2>1, <2>2, <2>3
<1>4. CASE parser.at \notin {"magic", "body"}
  <2>1. parser' = Hunting
    BY <1>4 DEF ProcessRx
  <2>2. done' = done \/ (parser.id # 0 /\ done' = Append(done, parser.id))
    BY DEF ProcessRx, Fits
  <2> QED
    BY <1>1, <2>1, <2>2 DEF Hunting, Parser
<1> QED
  BY <1>2, <1>3, <1>4

\* Taking the first unit leaves the heads behind it above everything.
LEMMA ProcessKeeps ==
  ASSUME OrderInv, ProcessRx
  PROVE  OrderInv'
<1>1. /\ ring \in Seq(Unit) /\ Above(ring) /\ Rising(ring) /\ sent \in Nat /\ sent' = sent
      /\ LastDone \in Nat /\ LastDone <= sent /\ done \in Seq(Nat) /\ parser.id \in Nat
      /\ parser.id # 0 => LastDone < parser.id /\ parser.id <= sent
      /\ \A k \in 1 .. Len(done) : done[k] <= LastDone
  BY DEF OrderInv, Heads, Numbers, Carried, ProcessRx, Parser
<1>2. /\ ring # << >> /\ ring' = Tail(ring)
      /\ parser' \in Parser
      /\ \/ /\ done' = done
            /\ parser'.id \in {parser.id, 0} \/ (Opens(ring[1]) /\ parser'.id = ring[1].id)
         \/ /\ parser.id # 0 /\ done' = Append(done, parser.id)
            /\ parser'.id = 0
  BY ParserMoves
<1>3. Numbers'
  BY <1>2 DEF OrderInv, Numbers, ProcessRx
<1>4. /\ ring' \in Seq(Unit) /\ Len(ring') = Len(ring) - 1 /\ Len(ring) \in Nat \ {0}
      /\ \A i \in 1 .. Len(ring') : ring'[i] = ring[i + 1]
  BY <1>1, <1>2, HeadTailProperties, EmptySeq
<1>5. ring[1].id \in Nat
  BY <1>1, <1>4, ElementOfSeq, UnitFacts
<1>6. Carried' /\ LastDone' <= sent /\ (LastDone' = LastDone \/ LastDone' = parser.id)
      /\ parser'.id \in Nat
  <2>1. CASE done' = done
    <3>1. LastDone' = LastDone
      BY <2>1 DEF LastDone
    <3>2. parser'.id \in {parser.id, 0} \/ (Opens(ring[1]) /\ parser'.id = ring[1].id)
      BY <1>2
    <3>3. parser'.id # 0 => LastDone < parser'.id /\ parser'.id <= sent
      BY <1>1, <1>4, <3>2 DEF Above
    <3> QED
      BY <1>1, <1>5, <2>1, <3>1, <3>2, <3>3 DEF Carried
  <2>2. CASE parser.id # 0 /\ done' = Append(done, parser.id) /\ parser'.id = 0
    <3>1. /\ done' \in Seq(Nat) /\ done' # << >> /\ Len(done') = Len(done) + 1 /\ Len(done) \in Nat
          /\ \A k \in 1 .. Len(done) : done'[k] = done[k]
          /\ done'[Len(done) + 1] = parser.id
      BY <1>1, <2>2, AppendProperties, LenProperties
    <3>2. LastDone' = parser.id
      BY <3>1 DEF LastDone, Last
    <3>3. \A k \in 1 .. Len(done) : done[k] \in Nat
      BY <1>1, ElementOfSeq
    <3>4. \A k \in 1 .. Len(done') : done'[k] <= LastDone'
      BY <1>1, <2>2, <3>1, <3>2, <3>3
    <3> QED
      BY <1>1, <2>2, <3>1, <3>2, <3>4 DEF Carried
  <2>3. done' = done \/ (parser.id # 0 /\ done' = Append(done, parser.id) /\ parser'.id = 0)
    BY <1>2
  <2> QED
    BY <2>1, <2>2, <2>3
<1>7. ASSUME NEW i \in 1 .. Len(ring'), Opens(ring'[i])
      PROVE  LastDone' < ring'[i].id /\ parser'.id < ring'[i].id /\ ring'[i].id <= sent
  <2>1. i + 1 \in 1 .. Len(ring) /\ 1 \in 1 .. Len(ring) /\ 1 < i + 1 /\ ring'[i] = ring[i + 1]
    BY <1>4
  <2>2. LastDone < ring[i + 1].id /\ parser.id < ring[i + 1].id /\ ring[i + 1].id <= sent
    BY <1>1, <1>7, <2>1 DEF Above
  <2>3. Opens(ring[1]) => ring[1].id < ring[i + 1].id
    BY <1>1, <1>7, <2>1 DEF Rising
  <2>4. ring[i + 1].id \in Nat
    BY <1>1, <2>1, ElementOfSeq, UnitFacts
  <2>5. parser'.id \in {parser.id, 0} \/ (Opens(ring[1]) /\ parser'.id = ring[1].id)
    BY <1>2
  <2>6. LastDone' < ring[i + 1].id
    BY <1>6, <2>2
  <2>7. parser'.id < ring[i + 1].id
    <3>1. CASE parser'.id = parser.id
      BY <2>2, <3>1
    <3>2. CASE parser'.id = 0
      BY <1>1, <2>2, <2>4, <3>2
    <3>3. CASE Opens(ring[1]) /\ parser'.id = ring[1].id
      BY <2>3, <3>3
    <3> QED
      BY <2>5, <3>1, <3>2, <3>3
  <2> QED
    BY <2>1, <2>2, <2>6, <2>7
<1>8. ASSUME NEW i \in 1 .. Len(ring'), NEW j \in 1 .. Len(ring'),
             i < j, Opens(ring'[i]), Opens(ring'[j])
      PROVE  ring'[i].id < ring'[j].id
  <2>1. /\ i + 1 \in 1 .. Len(ring) /\ j + 1 \in 1 .. Len(ring) /\ i + 1 < j + 1
        /\ ring'[i] = ring[i + 1] /\ ring'[j] = ring[j + 1]
    BY <1>4, <1>8
  <2> QED
    BY <1>1, <1>8, <2>1 DEF Rising
<1>9. Above(ring)' /\ Rising(ring)'
  BY <1>1, <1>7, <1>8, Zenon DEF Above, Rising
<1> QED
  BY <1>3, <1>4, <1>6, <1>9 DEF OrderInv, Heads

\* A fault of the wire takes a head away or spoils it, and makes none.
LEMMA FaultKeeps ==
  ASSUME OrderInv, WireFault
  PROVE  OrderInv'
<1>1. /\ ring \in Seq(Unit) /\ Above(ring) /\ Rising(ring) /\ ring # << >>
      /\ UNCHANGED << sent, draw, parser, done >>
  BY DEF OrderInv, Heads, WireFault, gdVars
<1>2. Len(ring) \in Nat \ {0}
  BY <1>1, EmptySeq
<1>3. /\ Front(ring) \in Seq(Unit) /\ Len(Front(ring)) = Len(ring) - 1
      /\ \A i \in 1 .. Len(ring) - 1 : Front(ring)[i] = ring[i]
  <2>1. \A i \in 1 .. Len(ring) - 1 : ring[i] \in Unit
    BY <1>1, <1>2, ElementOfSeq
  <2> DEFINE n == Len(ring) - 1
  <2>2. n \in Nat /\ 1 \in Int /\ n \in Int /\ n - 1 + 1 = n
    BY <1>2
  <2> HIDE DEF n
  <2>3. /\ SubSeq(ring, 1, n) \in Seq(Unit)
        /\ Len(SubSeq(ring, 1, n)) = IF 1 <= n THEN n - 1 + 1 ELSE 0
        /\ \A i \in 1 .. n - 1 + 1 : SubSeq(ring, 1, n)[i] = ring[1 + i - 1]
    <3>1. \A i \in 1 .. n : ring[i] \in Unit
      BY <2>1 DEF n
    <3> QED
      BY <2>2, <3>1, SubSeqProperties
  <2>4. Len(SubSeq(ring, 1, n)) = n /\ \A i \in 1 .. n : SubSeq(ring, 1, n)[i] = ring[i]
    BY <2>2, <2>3
  <2> QED
    BY <2>3, <2>4 DEF Front, n
<1>4. U(0, "bad") \in Unit /\ ~Opens(U(0, "bad"))
  BY UnitFacts DEF Opens, Parts
<1>5. /\ ring' \in Seq(Unit) /\ Len(ring') \in Nat /\ Len(ring') <= Len(ring)
      /\ \A i \in 1 .. Len(ring') : Opens(ring'[i]) => ring'[i] = ring[i]
  <2>1. CASE ring' = Front(ring)
    BY <1>2, <1>3, <2>1
  <2>2. CASE ring' = Append(Front(ring), U(0, "bad"))
    <3>1. /\ ring' \in Seq(Unit) /\ Len(ring') = Len(ring)
          /\ \A i \in 1 .. Len(ring) - 1 : ring'[i] = ring[i]
          /\ ring'[Len(ring)] = U(0, "bad")
      BY <1>2, <1>3, <1>4, <2>2, AppendProperties
    <3> QED
      BY <1>2, <1>4, <3>1
  <2> QED
    BY <2>1, <2>2 DEF WireFault
<1>6. LastDone' = LastDone
  BY <1>1 DEF LastDone
<1>7. ASSUME NEW i \in 1 .. Len(ring'), Opens(ring'[i])
      PROVE  i \in 1 .. Len(ring) /\ Opens(ring[i]) /\ ring'[i] = ring[i]
  BY <1>2, <1>5, <1>7
<1>8. Above(ring)'
  BY <1>1, <1>6, <1>7 DEF Above
<1>9. Rising(ring)'
  BY <1>1, <1>7 DEF Rising
<1> QED
  BY <1>1, <1>5, <1>6, <1>8, <1>9 DEF OrderInv, Heads, Numbers, Carried

\* Whatever it waits for, a draw knows what is left of it.
LEMMA AwaitKeeps ==
  ASSUME NEW left \in Nat, Await(left)
  PROVE  /\ draw' \in Draw /\ draw'.left = left
         /\ draw'.at \in {"ready", "wait"} => draw'.left > 0
<1>1. CASE left = 0
  BY <1>1 DEF Await, Idle, Draw
<1>2. CASE left # 0
  BY <1>2 DEF Await, Draw
<1> QED
  BY <1>1, <1>2

\* A chunk of a rectangle, in its three writes, or dropped.
LEMMA WriteKeeps ==
  ASSUME OrderInv, Write
  PROVE  OrderInv'
<1>1. /\ sent \in Nat /\ draw \in Draw /\ sent + draw.left <= MaxSent /\ parser \in Parser
      /\ draw.at \in {"ready", "wait"} => draw.left > 0
      /\ draw.left \in Nat /\ draw.id \in Nat
  BY DEF OrderInv, Numbers, Draw
<1>2. CASE DrawHead
  <2>1. /\ draw.left > 0 /\ sent' = sent + 1 /\ UNCHANGED << parser, done >>
        /\ draw' = [at |-> "pixels", left |-> draw.left - 1, id |-> sent + 1]
        /\ Arrive(<< U(sent + 1, "rect") >>, {})
    BY <1>1, <1>2 DEF DrawHead, MayDraw, gdVars
  <2>2. U(sent + 1, "rect") \in Unit /\ U(sent + 1, "rect").id = sent + 1
    BY <1>1, UnitFacts DEF Parts
  <2>3. Heads'
    <3> DEFINE us == << U(sent + 1, "rect") >>
    <3>1. us \in Seq(Unit) /\ Len(us) = 1 /\ us[1].id = sent + 1
      BY <2>2, OneUnit
    <3>2. \A i \in 1 .. Len(us) : Opens(us[i]) => i = 1 /\ us[i].id = sent + 1 /\ sent' = sent + 1
      BY <2>1, <3>1
    <3> HIDE DEF us
    <3>3. Arrive(us, {})
      BY <2>1 DEF us
    <3> QED
      BY <2>1, <3>1, <3>2, <3>3, ArriveKeeps
  <2>4. Numbers'
    BY <1>1, <2>1 DEF Numbers, Draw
  <2>5. Carried'
    BY <1>1, <2>1 DEF OrderInv, Numbers, Carried, LastDone, Parser
  <2> QED
    BY <2>3, <2>4, <2>5 DEF OrderInv
<1>3. CASE DropChunk
  <2>1. draw.left - 1 \in Nat /\ Await(draw.left - 1) /\ UNCHANGED << sent, ring, parser, done >>
    BY <1>1, <1>3 DEF DropChunk, MayDraw
  <2>2. Numbers'
    BY <1>1, <2>1, AwaitKeeps DEF Numbers
  <2> QED
    BY <2>1, <2>2, HeadsUntouched DEF OrderInv
<1>4. ASSUME NEW p \in {"pixels", "crc"}, UNCHANGED << sent, parser, done >>,
             Arrive(<< U(draw.id, p) >>, {}), draw' \in Draw, draw'.left = draw.left,
             draw'.at \in {"ready", "wait"} => draw'.left > 0
      PROVE  OrderInv'
  <2>1. U(draw.id, p) \in Unit /\ ~Opens(U(draw.id, p))
    BY <1>1, <1>4, UnitFacts DEF Opens, Parts
  <2>2. Heads'
    <3> DEFINE us == << U(draw.id, p) >>
    <3>1. us \in Seq(Unit) /\ Len(us) = 1 /\ us[1] = U(draw.id, p)
      BY <2>1, OneUnit
    <3>2. \A i \in 1 .. Len(us) : ~Opens(us[i])
      BY <2>1, <3>1
    <3>3. Arrive(us, {})
      BY <1>4
    <3> HIDE DEF us
    <3> QED
      BY <1>4, <3>1, <3>2, <3>3, ArriveKeeps
  <2>3. Numbers' /\ Carried'
    BY <1>1, <1>4 DEF OrderInv, Numbers, Carried, LastDone
  <2> QED
    BY <2>2, <2>3 DEF OrderInv
<1>5. CASE DrawPixels
  <2>1. draw' = [draw EXCEPT !.at = "crc"] /\ UNCHANGED << sent, parser, done >>
        /\ Arrive(<< U(draw.id, "pixels") >>, {})
    BY <1>5 DEF DrawPixels, gdVars
  <2>2. draw' \in Draw /\ draw'.left = draw.left /\ draw'.at = "crc"
    BY <1>1, <2>1 DEF Draw
  <2> QED
    BY <1>4, <2>1, <2>2
<1>6. CASE DrawCrc
  <2>1. Await(draw.left) /\ UNCHANGED << sent, parser, done >> /\ Arrive(<< U(draw.id, "crc") >>, {})
    BY <1>6 DEF DrawCrc
  <2> QED
    BY <1>1, <1>4, <2>1, AwaitKeeps
<1> QED
  BY <1>2, <1>3, <1>5, <1>6 DEF Write

LEMMA OrderStarts == LinkInit => OrderInv
<1> SUFFICES ASSUME LinkInit PROVE OrderInv
  OBVIOUS
<1>1. Numbers
  BY DEF LinkInit, Numbers, Idle, Hunting, Draw, Parser
<1>2. Carried
  BY EmptySeq DEF LinkInit, Carried, LastDone, Hunting
<1>3. Heads
  BY EmptySeq DEF LinkInit, Heads, Above, Rising
<1> QED
  BY <1>1, <1>2, <1>3 DEF OrderInv

LEMMA OrderStep == OrderInv /\ [LinkNext]_vars => OrderInv'
<1> SUFFICES ASSUME OrderInv, [LinkNext]_vars PROVE OrderInv'
  OBVIOUS
<1>1. ASSUME UNCHANGED << sent, ring, parser, done, draw >> PROVE OrderInv'
  BY <1>1, HeadsUntouched DEF OrderInv, Numbers
<1>2. CASE UNCHANGED vars
  BY <1>1, <1>2 DEF vars
<1>3. CASE UplinkFault \/ TakeIn \/ Swallow \/ WaitTimesOut \/ EndUpdate \/ SendOther \/ Rest
  BY <1>1, <1>3 DEF UplinkFault, TakeIn, Swallow, WaitTimesOut, EndUpdate, SendOther, Rest, gdVars
<1>4. CASE Poll
  BY <1>1, <1>4 DEF Poll, PausePoll, StartPoll, EndPoll
<1>5. CASE SendCommand \/ SendAsset \/ BeginUpdate
  BY <1>5, ShortKeeps DEF SendCommand, SendAsset, BeginUpdate
<1>6. CASE StartDraw
  <2>1. Await(Chunks) /\ sent + Chunks <= MaxSent /\ UNCHANGED << sent, ring, parser, done >>
    BY <1>6 DEF StartDraw, gdVars
  <2>2. Numbers'
    BY <2>1, AwaitKeeps DEF OrderInv, Numbers
  <2> QED
    BY <2>1, <2>2, HeadsUntouched DEF OrderInv
<1>7. CASE RxIdle
  <2>1. parser' = Hunting /\ UNCHANGED << sent, ring, done, draw >>
    BY <1>7 DEF RxIdle
  <2>2. Numbers' /\ Carried'
    BY <2>1 DEF OrderInv, Numbers, Carried, LastDone, Hunting, Parser
  <2>3. ring \in Seq(Unit) /\ Above(ring) /\ Rising(ring) /\ LastDone \in Nat
    BY DEF OrderInv, Heads, Carried
  <2>4. LastDone' = LastDone /\ parser'.id = 0
    BY <2>1 DEF LastDone, Hunting
  <2>5. \A i \in 1 .. Len(ring) : ring[i].id \in Nat
    BY <2>3, ElementOfSeq, UnitFacts
  <2>6. Above(ring)'
    <3>1. ring' = ring /\ sent' = sent
      BY <2>1
    <3>2. ASSUME NEW i \in 1 .. Len(ring), Opens(ring[i])
          PROVE  LastDone < ring[i].id /\ 0 < ring[i].id /\ ring[i].id <= sent
      <4>1. LastDone < ring[i].id /\ ring[i].id <= sent
        BY <2>3, <3>2 DEF Above
      <4> QED
        BY <2>3, <2>5, <4>1
    <3> QED
      BY <2>4, <3>1, <3>2 DEF Above
  <2>7. Rising(ring)'
    BY <2>1, <2>3 DEF Rising
  <2> QED
    BY <2>1, <2>2, <2>3, <2>6, <2>7 DEF OrderInv, Heads
<1> QED
  BY <1>2, <1>3, <1>4, <1>5, <1>6, <1>7, FaultKeeps, WriteKeeps, ProcessKeeps DEF LinkNext

-----------------------------------------------------------------------------
(* Every step is one of Downlink's. *)

\* What a step does to the packets begun and carried out.
LEMMA StepEffect ==
  ASSUME OrderInv, [LinkNext]_vars
  PROVE  \/ UNCHANGED << sent, done >>
         \/ sent' = sent + 1 /\ done' = done
         \/ sent' = sent /\ parser.id # 0 /\ done' = Append(done, parser.id)
<1>1. CASE UNCHANGED vars
  BY <1>1 DEF vars
<1>2. CASE WireFault \/ UplinkFault \/ TakeIn \/ Swallow \/ StartDraw \/ WaitTimesOut
             \/ EndUpdate \/ RxIdle \/ Poll \/ SendOther \/ Rest
  BY <1>2 DEF WireFault, UplinkFault, TakeIn, Swallow, StartDraw, WaitTimesOut, EndUpdate, RxIdle,
              Poll, PausePoll, StartPoll, EndPoll, SendOther, Rest, gdVars
<1>3. CASE Write
  BY <1>3 DEF Write, DrawHead, DropChunk, DrawPixels, DrawCrc, gdVars
<1>4. CASE SendCommand \/ SendAsset \/ BeginUpdate
  BY <1>4 DEF SendCommand, SendAsset, BeginUpdate, SendShort, gdVars
<1>5. CASE ProcessRx
  BY <1>5, ParserMoves DEF ProcessRx
<1> QED
  BY <1>1, <1>2, <1>3, <1>4, <1>5 DEF LinkNext

\* The packets that may still be carried out are all that were begun after the last.
WayOf(s, l) == [i \in 1 .. s - l |-> l + i]

LEMMA WayFacts ==
  ASSUME NEW s \in Nat, NEW l \in Nat, l <= s
  PROVE  /\ WayOf(s, l) \in Seq(Nat) /\ Len(WayOf(s, l)) = s - l
         /\ \A i \in 1 .. s - l : WayOf(s, l)[i] = l + i
<1>1. s - l \in Nat /\ \A i \in 1 .. s - l : l + i \in Nat
  OBVIOUS
<1> QED
  BY <1>1 DEF WayOf

LEMMA WayIs == Way = WayOf(sent, LastDone) /\ Way' = WayOf(sent', LastDone')
BY DEF Way, WayOf

\* Once packet p is carried out, what is left is the end of it.
LEMMA WayTail ==
  ASSUME NEW s \in Nat, NEW l \in Nat, NEW p \in Nat, l < p, p <= s
  PROVE  SubSeq(WayOf(s, l), p - l + 1, Len(WayOf(s, l))) = WayOf(s, p)
<1> DEFINE w == WayOf(s, l)
           t == WayOf(s, p)
           m == p - l + 1
<1>1. Len(w) = s - l /\ \A i \in 1 .. s - l : w[i] = l + i
  <2>1. l <= s
    OBVIOUS
  <2> QED
    BY <2>1, WayFacts, Zenon
<1>2. t \in Seq(Nat) /\ Len(t) = s - p /\ \A i \in 1 .. s - p : t[i] = p + i
  BY WayFacts
<1>3. /\ m \in Int /\ s - l \in Int /\ (s - l) - m + 1 = s - p
      /\ (IF m <= s - l THEN (s - l) - m + 1 ELSE 0) = s - p
      /\ \A i \in m .. s - l : i \in 1 .. s - l /\ l + i \in Nat
      /\ \A i \in 1 .. s - p : m + i - 1 \in 1 .. s - l /\ l + (m + i - 1) = p + i
  OBVIOUS
<1> HIDE DEF w, t, m
<1>4. /\ SubSeq(w, m, s - l) \in Seq(Nat)
      /\ Len(SubSeq(w, m, s - l)) = s - p
      /\ \A i \in 1 .. s - p : SubSeq(w, m, s - l)[i] = w[m + i - 1]
  <2>1. \A i \in m .. s - l : w[i] \in Nat
    BY <1>1, <1>3
  <2>2. /\ SubSeq(w, m, s - l) \in Seq(Nat)
        /\ Len(SubSeq(w, m, s - l)) = IF m <= s - l THEN (s - l) - m + 1 ELSE 0
        /\ \A i \in 1 .. (s - l) - m + 1 : SubSeq(w, m, s - l)[i] = w[m + i - 1]
    BY <1>3, <2>1, SubSeqProperties
  <2> QED
    BY <1>3, <2>2
<1>5. \A i \in 1 .. s - p : SubSeq(w, m, s - l)[i] = t[i]
  BY <1>1, <1>2, <1>3, <1>4
<1>6. SubSeq(w, m, s - l) = t
  BY <1>2, <1>4, <1>5, SeqEqual
<1> QED
  BY <1>1, <1>6 DEF w, t, m

LEMMA BeginIsSend ==
  ASSUME OrderInv, OrderInv', sent' = sent + 1, done' = done
  PROVE  Promise!Send(sent + 1) /\ sent + 1 \in Ids
<1>1. /\ sent \in Nat /\ LastDone \in Nat /\ LastDone <= sent /\ LastDone' = LastDone
      /\ done \in Seq(Nat) /\ \A k \in 1 .. Len(done) : done[k] <= LastDone
      /\ sent + 1 \in Nat /\ LastDone <= sent + 1
  BY DEF OrderInv, Numbers, Carried, LastDone
<1>2. /\ Way \in Seq(Nat) /\ Len(Way) = sent - LastDone
      /\ \A i \in 1 .. sent - LastDone : Way[i] = LastDone + i
  <2>1. Way = WayOf(sent, LastDone)
    BY WayIs
  <2>2. /\ WayOf(sent, LastDone) \in Seq(Nat) /\ Len(WayOf(sent, LastDone)) = sent - LastDone
        /\ \A i \in 1 .. sent - LastDone : WayOf(sent, LastDone)[i] = LastDone + i
    BY <1>1, WayFacts, Zenon
  <2> QED
    BY <2>1, <2>2
<1>3. /\ Way' \in Seq(Nat) /\ Len(Way') = sent' - LastDone
      /\ \A i \in 1 .. sent' - LastDone : Way'[i] = LastDone + i
  <2>1. Way' = WayOf(sent', LastDone)
    BY <1>1, WayIs
  <2>2. sent' \in Nat /\ LastDone \in Nat /\ LastDone <= sent'
    BY <1>1
  <2>3. /\ WayOf(sent', LastDone) \in Seq(Nat) /\ Len(WayOf(sent', LastDone)) = sent' - LastDone
        /\ \A i \in 1 .. sent' - LastDone : WayOf(sent', LastDone)[i] = LastDone + i
    BY <2>2, WayFacts, Zenon
  <2> QED
    BY <2>1, <2>3, Zenon
<1>4. sent + 1 \in Ids
  BY <1>1 DEF OrderInv, Numbers, Ids, Draw
<1>5. sent + 1 \notin {Way[i] : i \in 1 .. Len(Way)} \cup {done[i] : i \in 1 .. Len(done)}
  <2>1. \A i \in 1 .. Len(Way) : Way[i] # sent + 1
    BY <1>1, <1>2
  <2>2. \A k \in 1 .. Len(done) : done[k] # sent + 1
    BY <1>1, ElementOfSeq
  <2> QED
    BY <2>1, <2>2
<1>6. Way' = Append(Way, sent + 1)
  <2>1. /\ Append(Way, sent + 1) \in Seq(Nat) /\ Len(Append(Way, sent + 1)) = sent - LastDone + 1
        /\ \A i \in 1 .. sent - LastDone : Append(Way, sent + 1)[i] = LastDone + i
        /\ Append(Way, sent + 1)[sent - LastDone + 1] = sent + 1
    BY <1>1, <1>2, AppendProperties
  <2>2. \A i \in 1 .. Len(Way') : Way'[i] = Append(Way, sent + 1)[i]
    BY <1>1, <1>3, <2>1
  <2>3. Len(Way') = Len(Append(Way, sent + 1))
    BY <1>1, <1>3, <2>1
  <2> QED
    BY <1>3, <2>1, <2>2, <2>3, SeqEqual, Zenon
<1> QED
  BY <1>4, <1>5, <1>6 DEF Promise!Send

LEMMA CarryIsExecute ==
  ASSUME OrderInv, OrderInv', sent' = sent, parser.id # 0, done' = Append(done, parser.id)
  PROVE  \E i \in 1 .. Len(Way) : Promise!Execute(i)
<1> DEFINE n == parser.id - LastDone
<1>1. /\ sent \in Nat /\ LastDone \in Nat /\ parser.id \in Nat /\ done \in Seq(Nat)
      /\ LastDone < parser.id /\ parser.id <= sent
      /\ Len(Way) = sent - LastDone /\ \A i \in 1 .. sent - LastDone : Way[i] = LastDone + i
  <2>1. /\ sent \in Nat /\ LastDone \in Nat /\ parser.id \in Nat /\ done \in Seq(Nat)
        /\ LastDone < parser.id /\ parser.id <= sent /\ LastDone <= sent
    BY DEF OrderInv, Numbers, Carried, Parser
  <2>2. /\ Len(WayOf(sent, LastDone)) = sent - LastDone
        /\ \A i \in 1 .. sent - LastDone : WayOf(sent, LastDone)[i] = LastDone + i
    BY <2>1, WayFacts, Zenon
  <2>3. Way = WayOf(sent, LastDone)
    BY WayIs
  <2> QED
    BY <2>1, <2>2, <2>3
<1>2. LastDone' = parser.id
  <2>1. /\ done' # << >> /\ Len(done') = Len(done) + 1 /\ done'[Len(done) + 1] = parser.id
    <3>1. done \in Seq(Nat) /\ parser.id \in Nat
      BY <1>1
    <3> HIDE DEF n
    <3> QED
      BY <3>1, AppendProperties
  <2> QED
    BY <2>1 DEF LastDone, Last
<1>3. n \in 1 .. Len(Way) /\ Way[n] = parser.id
  BY <1>1
<1>4. Way' = SubSeq(Way, n + 1, Len(Way))
  <2>1. Way' = WayOf(sent, parser.id)
    BY <1>2, WayIs
  <2>2. SubSeq(WayOf(sent, LastDone), n + 1, Len(WayOf(sent, LastDone))) = WayOf(sent, parser.id)
    BY <1>1, WayTail
  <2> QED
    BY <2>1, <2>2, WayIs
<1> QED
  BY <1>3, <1>4 DEF Promise!Execute

\* The link refines Downlink, whatever faults, full rings and second senders do.
THEOREM LinkRefinesDownlink == LinkSpec => InOrderOnce
<1>1. LinkInit => Promise!Init
  <2> SUFFICES ASSUME LinkInit PROVE Promise!Init
    OBVIOUS
  <2>1. sent = 0 /\ done = << >> /\ LastDone = 0
    BY DEF LinkInit, LastDone
  <2>2. Way = << >>
    BY <2>1 DEF Way
  <2> QED
    BY <2>1, <2>2 DEF Promise!Init
<1>2. OrderInv /\ OrderInv' /\ [LinkNext]_vars => [Promise!Next]_<< Way, done >>
  <2> SUFFICES ASSUME OrderInv, OrderInv', [LinkNext]_vars
               PROVE  [Promise!Next]_<< Way, done >>
    OBVIOUS
  <2>1. CASE UNCHANGED << sent, done >>
    BY <2>1 DEF Way, LastDone
  <2>2. CASE sent' = sent + 1 /\ done' = done
    BY <2>2, BeginIsSend DEF Promise!Next
  <2>3. CASE sent' = sent /\ parser.id # 0 /\ done' = Append(done, parser.id)
    BY <2>3, CarryIsExecute DEF Promise!Next
  <2> QED
    BY <2>1, <2>2, <2>3, StepEffect
<1> QED
  BY <1>1, <1>2, OrderStarts, OrderStep, PTL DEF LinkSpec, InOrderOnce, Promise!Spec

-----------------------------------------------------------------------------
(* Nothing is lost of a stream that nothing damaged. *)

LEMMA StreamStarts == LinkInit => StreamInv
BY DEF LinkInit, StreamInv, Hunting, Idle, Promised, Expected, Coming, Taken, LastDone, U

\* What arrived without damage is all that was written.
LEMMA ArriveWhole ==
  ASSUME OrderInv, NEW us \in Seq(Unit), NEW why, Arrive(us, why), harm' = {}
  PROVE  /\ harm = {} /\ why = {}
         /\ Len(ring) \in Nat /\ Len(us) \in Nat /\ Len(ring') = Len(ring) + Len(us)
         /\ \A i \in 1 .. Len(ring) + Len(us) :
              ring'[i] = IF i <= Len(ring) THEN ring[i] ELSE us[i - Len(ring)]
<1> DEFINE room == RingSize - Len(ring)
           n == IF room < Len(us) THEN room ELSE Len(us)
<1>1. /\ ring \in Seq(Unit) /\ Len(ring) \in Nat /\ Len(us) \in Nat /\ room \in Int
  BY LenProperties DEF OrderInv, Heads
<1>2. harm = {} /\ why = {} /\ ~(Len(us) > room)
  BY DEF Arrive
<1>3. n = Len(us)
  BY <1>1, <1>2
<1>4. ring' = ring \o SubSeq(us, 1, Len(us))
  BY <1>3 DEF Arrive
<1>5. SubSeq(us, 1, Len(us)) = us
  BY <1>1
<1> QED
  BY <1>1, <1>2, <1>4, <1>5, ConcatProperties

\* The stream goes on with the units that were to come.
LEMMA StreamGrows ==
  ASSUME OrderInv, StreamInv, NEW us \in Seq(Unit), NEW why, Arrive(us, why), harm' = {},
         us # << >>, UNCHANGED << parser, done, rested >>,
         Fulfils(us[1], Coming),
         \A i \in 1 .. Len(us) - 1 : Fulfils(us[i + 1], After(us[i])),
         After(us[Len(us)]) = Coming',
         draw'.at \in {"pixels", "crc"} => draw'.id = sent'
  PROVE  harm' = {} =>
           /\ draw'.at \in {"pixels", "crc"} => draw'.id = sent'
           /\ parser'.at # "magic" => parser'.id > rested'
           /\ parser'.at = "body" => parser'.left = 1
           /\ \A i \in 1 .. Len(ring') : Fulfils(ring'[i], Promised(i)')
           /\ Promised(Len(ring) + 1)' = Coming'
           /\ \A i \in rested' + 1 .. Expected'.id - 1 : \E k \in 1 .. Len(done') : done'[k] = i
<1>1. /\ harm = {} /\ Len(ring) \in Nat /\ Len(us) \in Nat \ {0} /\ Len(ring') = Len(ring) + Len(us)
      /\ \A i \in 1 .. Len(ring) + Len(us) :
              ring'[i] = IF i <= Len(ring) THEN ring[i] ELSE us[i - Len(ring)]
  BY ArriveWhole, EmptySeq
<1>2. Expected' = Expected
  BY DEF Expected, Taken, LastDone
<1>3. /\ \A i \in 1 .. Len(ring) : Fulfils(ring[i], Promised(i))
      /\ Promised(Len(ring) + 1) = Coming
  BY <1>1 DEF StreamInv
<1> DEFINE n == Len(ring)
           m == Len(us)
<1>4. n \in Nat /\ m \in Nat \ {0} /\ Len(ring') = n + m
  BY <1>1
<1>5. /\ \A i \in 1 .. n : ring'[i] = ring[i]
      /\ \A i \in 1 .. m : ring'[n + i] = us[i]
  <2> HIDE DEF n, m
  <2>1. \A i \in 1 .. n + m : ring'[i] = IF i <= n THEN ring[i] ELSE us[i - n]
    BY <1>1 DEF n, m
  <2>2. \A i \in 1 .. m : n + i \in 1 .. n + m /\ ~(n + i <= n) /\ (n + i) - n = i
    BY <1>4
  <2>3. \A i \in 1 .. n : i \in 1 .. n + m
    BY <1>4
  <2> QED
    BY <2>1, <2>2, <2>3
<1> HIDE DEF n, m
<1>6. \A i \in 1 .. n + 1 : Promised(i)' = Promised(i)
  <2> SUFFICES ASSUME NEW i \in 1 .. n + 1 PROVE Promised(i)' = Promised(i)
    OBVIOUS
  <2>1. i # 1 => i - 1 \in 1 .. n
    BY <1>4
  <2> QED
    BY <1>2, <1>5, <2>1 DEF Promised
<1>7. ASSUME NEW i \in 1 .. n + m PROVE Fulfils(ring'[i], Promised(i)')
  <2>1. CASE i \in 1 .. n
    <3>1. Fulfils(ring[i], Promised(i)) /\ i \in 1 .. n + 1
      BY <1>3, <1>4, <2>1 DEF n
    <3> QED
      BY <1>5, <1>6, <2>1, <3>1
  <2>2. CASE i = n + 1
    <3>1. ring'[i] = us[1] /\ Promised(i)' = Coming
      <4>1. n + 1 \in 1 .. n + 1 /\ 1 \in 1 .. m
        BY <1>4
      <4> QED
        BY <1>3, <1>5, <1>6, <2>2, <4>1 DEF n
    <3> QED
      BY <3>1
  <2>3. CASE i > n + 1
    <3> DEFINE j == i - n - 1
    <3>1. j \in 1 .. m - 1 /\ j \in 1 .. m /\ j + 1 \in 1 .. m /\ i = n + (j + 1) /\ i - 1 = n + j /\ i # 1
      BY <1>4, <2>3
    <3>2. ring'[i] = us[j + 1] /\ ring'[i - 1] = us[j]
      BY <1>5, <3>1
    <3>3. Fulfils(us[j + 1], After(us[j]))
      BY <3>1 DEF m
    <3> QED
      BY <3>1, <3>2, <3>3 DEF Promised
  <2> QED
    BY <1>4, <2>1, <2>2, <2>3
<1>8. Promised(Len(ring) + 1)' = Coming'
  <2>1. n + m + 1 # 1 /\ n + m + 1 - 1 = n + m /\ m \in 1 .. m
    BY <1>4
  <2>2. Promised(Len(ring) + 1)' = After(ring'[n + m])
    BY <1>4, <2>1 DEF Promised
  <2> QED
    BY <1>5, <2>1, <2>2 DEF m
<1> QED
  BY <1>1, <1>2, <1>4, <1>7, <1>8 DEF StreamInv

\* What became of the stream, for the steps that write to it.
LEMMA StreamWritten ==
  ASSUME OrderInv, StreamInv, NEW us \in Seq(Unit), NEW why, Arrive(us, why),
         us # << >>, UNCHANGED << parser, done, rested >>, sent' \in {sent, sent + 1},
         harm = {} /\ why = {} =>
           /\ Fulfils(us[1], Coming)
           /\ \A i \in 1 .. Len(us) - 1 : Fulfils(us[i + 1], After(us[i]))
           /\ After(us[Len(us)]) = Coming'
           /\ draw'.at \in {"pixels", "crc"} => draw'.id = sent'
  PROVE  StreamInv'
<1>1. rested' \in 0 .. sent'
  BY DEF StreamInv, OrderInv, Numbers
<1>2. ASSUME harm' = {}
      PROVE  /\ draw'.at \in {"pixels", "crc"} => draw'.id = sent'
             /\ parser'.at # "magic" => parser'.id > rested'
             /\ parser'.at = "body" => parser'.left = 1
             /\ \A i \in 1 .. Len(ring') : Fulfils(ring'[i], Promised(i)')
             /\ Promised(Len(ring) + 1)' = Coming'
             /\ \A i \in rested' + 1 .. Expected'.id - 1 : \E k \in 1 .. Len(done') : done'[k] = i
  <2>1. harm = {} /\ why = {}
    BY <1>2, ArriveWhole
  <2> QED
    BY <1>2, <2>1, StreamGrows
<1> QED
  BY <1>1, <1>2 DEF StreamInv

\* Whoever leaves the stream alone.
LEMMA StreamUntouched ==
  ASSUME StreamInv, UNCHANGED << sent, ring, parser, done, harm, rested >>,
         draw' = draw \/ {draw.at, draw'.at} \cap {"pixels", "crc"} = {}
  PROVE  StreamInv'
<1>1. Expected' = Expected /\ Coming' = Coming
  BY DEF Expected, Coming, Taken, LastDone
<1>2. \A i : Promised(i)' = Promised(i)
  BY <1>1 DEF Promised
<1>3. Promised(Len(ring) + 1)' = Promised(Len(ring) + 1)
  BY <1>1 DEF Promised
<1> QED
  BY <1>1, <1>2, <1>3 DEF StreamInv

LEMMA StreamShort ==
  ASSUME OrderInv, StreamInv, SendShort
  PROVE  StreamInv'
<1> DEFINE us == << U(sent + 1, "command"), U(sent + 1, "crc") >>
           why == IF draw.at \in {"pixels", "crc"} THEN {"mixed"} ELSE {}
<1>1. sent \in Nat /\ sent' = sent + 1 /\ UNCHANGED << parser, done, draw, rested >> /\ Arrive(us, why)
  BY DEF OrderInv, Numbers, SendShort, gdVars
<1>2. us \in Seq(Unit) /\ Len(us) = 2 /\ us[1] = U(sent + 1, "command") /\ us[2] = U(sent + 1, "crc")
  <2>1. U(sent + 1, "command") \in Unit /\ U(sent + 1, "crc") \in Unit
    BY <1>1, UnitFacts DEF Parts
  <2>2. \A x, y \in Unit : << x, y >> \in Seq(Unit)
    OBVIOUS
  <2> QED
    BY <2>1, <2>2, Zenon
<1>3. ASSUME why = {}
      PROVE  /\ Fulfils(us[1], Coming) /\ Fulfils(us[2], After(us[1]))
             /\ After(us[2]) = Coming' /\ draw'.at \notin {"pixels", "crc"}
  <2>1. draw.at \notin {"pixels", "crc"} /\ draw' = draw
    BY <1>1, <1>3
  <2>2. Coming = U(sent + 1, "head") /\ Coming' = U(sent' + 1, "head")
    BY <2>1 DEF Coming
  <2> HIDE DEF us
  <2> QED
    BY <1>1, <1>2, <2>1, <2>2 DEF Fulfils, After, Opens, U
<1>4. \A i \in 1 .. Len(us) - 1 : i = 1
  <2> HIDE DEF us
  <2> QED
    BY <1>2
<1>5. us # << >>
  OBVIOUS
<1> HIDE DEF us, why
<1>6. why = {} => \A i \in 1 .. Len(us) - 1 : Fulfils(us[i + 1], After(us[i]))
  BY <1>3, <1>4
<1> QED
  BY <1>1, <1>2, <1>3, <1>5, <1>6, StreamWritten

\* One write of a chunk.
LEMMA StreamUnit ==
  ASSUME OrderInv, StreamInv, NEW u \in Unit, Arrive(<< u >>, {}),
         UNCHANGED << parser, done, rested >>, sent' \in {sent, sent + 1},
         harm = {} => /\ Fulfils(u, Coming) /\ After(u) = Coming'
                      /\ draw'.at \in {"pixels", "crc"} => draw'.id = sent'
  PROVE  StreamInv'
<1> DEFINE us == << u >>
<1>1. us \in Seq(Unit) /\ Len(us) = 1 /\ us[1] = u /\ us # << >> /\ Arrive(us, {})
  BY OneUnit
<1> HIDE DEF us
<1>2. \A i \in 1 .. Len(us) - 1 : Fulfils(us[i + 1], After(us[i]))
  BY <1>1
<1> QED
  BY <1>1, <1>2, StreamWritten

LEMMA AwaitIsNoWrite ==
  ASSUME NEW left, Await(left)
  PROVE  draw'.at \notin {"pixels", "crc"}
BY DEF Await, Idle

LEMMA StreamWrite ==
  ASSUME OrderInv, StreamInv, Write
  PROVE  StreamInv'
<1>1. sent \in Nat /\ draw \in Draw /\ draw.id \in Nat
  BY DEF OrderInv, Numbers, Draw
<1>2. CASE DrawHead
  <2>1. /\ draw.at \in {"ready", "wait"} /\ sent' = sent + 1 /\ UNCHANGED << parser, done, rested >>
        /\ draw' = [at |-> "pixels", left |-> draw.left - 1, id |-> sent + 1]
        /\ Arrive(<< U(sent + 1, "rect") >>, {})
    BY <1>2 DEF DrawHead, MayDraw, gdVars
  <2>2. U(sent + 1, "rect") \in Unit
    BY <1>1, UnitFacts DEF Parts
  <2>3. Coming = U(sent + 1, "head") /\ Coming' = U(sent + 1, "pixels")
    BY <2>1 DEF Coming
  <2>4. Fulfils(U(sent + 1, "rect"), Coming) /\ After(U(sent + 1, "rect")) = Coming'
    BY <2>3 DEF Fulfils, After, Opens, U
  <2>5. draw'.at \in {"pixels", "crc"} => draw'.id = sent'
    BY <2>1
  <2> QED
    BY <2>1, <2>2, <2>4, <2>5, StreamUnit
<1>3. CASE DropChunk
  BY <1>3, AwaitIsNoWrite, StreamUntouched DEF DropChunk, MayDraw
<1>4. CASE DrawPixels
  <2>1. /\ draw.at = "pixels" /\ draw' = [draw EXCEPT !.at = "crc"]
        /\ UNCHANGED << sent, parser, done, rested >> /\ Arrive(<< U(draw.id, "pixels") >>, {})
    BY <1>4 DEF DrawPixels, gdVars
  <2>2. U(draw.id, "pixels") \in Unit
    BY <1>1, UnitFacts DEF Parts
  <2>3. draw'.at = "crc" /\ draw'.id = draw.id
    BY <1>1, <2>1 DEF Draw
  <2>4. Coming = U(draw.id, "pixels") /\ Coming' = U(draw.id, "crc")
    BY <2>1, <2>3 DEF Coming
  <2>5. Fulfils(U(draw.id, "pixels"), Coming) /\ After(U(draw.id, "pixels")) = Coming'
    BY <2>4 DEF Fulfils, After, U
  <2>6. harm = {} => draw'.id = sent'
    BY <2>1, <2>3 DEF StreamInv
  <2> QED
    BY <2>1, <2>2, <2>5, <2>6, StreamUnit
<1>5. CASE DrawCrc
  <2>1. /\ draw.at = "crc" /\ Await(draw.left)
        /\ UNCHANGED << sent, parser, done, rested >> /\ Arrive(<< U(draw.id, "crc") >>, {})
    BY <1>5 DEF DrawCrc
  <2>2. U(draw.id, "crc") \in Unit
    BY <1>1, UnitFacts DEF Parts
  <2>3. draw'.at \notin {"pixels", "crc"}
    BY <2>1, AwaitIsNoWrite
  <2>4. Coming = U(draw.id, "crc") /\ Coming' = U(sent + 1, "head")
    BY <2>1, <2>3 DEF Coming
  <2>5. harm = {} => draw.id = sent
    BY <2>1 DEF StreamInv
  <2>6. Fulfils(U(draw.id, "crc"), Coming) /\ (harm = {} => After(U(draw.id, "crc")) = Coming')
    BY <2>4, <2>5 DEF Fulfils, After, U
  <2> QED
    BY <2>1, <2>2, <2>3, <2>6, StreamUnit
<1> QED
  BY <1>2, <1>3, <1>4, <1>5 DEF Write

\* The parser takes the unit it expects.
LEMMA StreamParsed ==
  ASSUME OrderInv, StreamInv, ProcessRx
  PROVE  StreamInv'
<1> DEFINE u == Head(ring)
<1>1. /\ ring # << >> /\ ring \in Seq(Unit) /\ ring' = Tail(ring)
      /\ UNCHANGED << sent, draw, harm, rested >>
      /\ u \in Unit /\ u.id \in Nat /\ u = ring[1]
      /\ sent \in Nat /\ LastDone \in Nat /\ done \in Seq(Nat) /\ parser \in Parser /\ parser.id \in Nat
  <2>1. ring # << >> /\ ring' = Tail(ring) /\ UNCHANGED << sent, draw, harm, rested >>
    BY DEF ProcessRx
  <2>2. ring \in Seq(Unit) /\ sent \in Nat /\ LastDone \in Nat /\ done \in Seq(Nat) /\ parser \in Parser
    BY DEF OrderInv, Heads, Numbers, Carried
  <2>3. u \in Unit /\ u = ring[1]
    BY <2>1, <2>2, HeadTailProperties
  <2>4. u.id \in Nat
    BY <2>3, UnitFacts
  <2>5. parser.id \in Nat
    BY <2>2 DEF Parser
  <2> QED
    BY <2>1, <2>2, <2>3, <2>4, <2>5
<1> DEFINE n == Len(ring)
<1>2. n \in Nat \ {0} /\ Len(ring') = n - 1 /\ \A i \in 1 .. n - 1 : ring'[i] = ring[i + 1]
  BY <1>1, HeadTailProperties, EmptySeq
<1> SUFFICES ASSUME harm = {} PROVE StreamInv'
  BY <1>1 DEF StreamInv
<1>3. /\ rested \in 0 .. sent /\ rested \in Nat
      /\ draw.at \in {"pixels", "crc"} => draw.id = sent
      /\ parser.at # "magic" => parser.id > rested
      /\ parser.at = "body" => parser.left = 1
      /\ \A i \in 1 .. n : Fulfils(ring[i], Promised(i))
      /\ Promised(n + 1) = Coming
      /\ \A i \in rested + 1 .. Expected.id - 1 : \E k \in 1 .. Len(done) : done[k] = i
  BY <1>1 DEF StreamInv
<1>4. Fulfils(u, Expected)
  BY <1>1, <1>2, <1>3 DEF Promised
<1> HIDE DEF n
\* The parser is then where the unit leaves it.
<1>5. /\ Expected' = After(u)
      /\ parser'.at # "magic" => parser'.id > rested
      /\ parser'.at = "body" => parser'.left = 1
      /\ \A i \in rested + 1 .. Expected'.id - 1 : \E k \in 1 .. Len(done') : done'[k] = i
  <2> HIDE DEF u
  <2>0. \/ parser.at = "magic" \/ parser.at = "body" \/ parser.at = "crc"
    BY <1>1 DEF Parser
  <2>1. CASE parser.at = "magic"
    <3>1. Expected = U(Taken + 1, "head") /\ Taken \in Nat /\ Taken >= rested
      <4>1. Expected = U(Taken + 1, "head")
        BY <2>1 DEF Expected
      <4>2. Taken = rested \/ (Taken = LastDone /\ LastDone >= rested)
        BY <1>1, <1>3 DEF Taken
      <4> QED
        BY <1>1, <1>3, <4>1, <4>2
    <3>2. u.id = Taken + 1 /\ u.part \in {"rect", "command"}
      BY <1>4, <3>1 DEF Fulfils, Opens, U
    <3>3. done' = done /\ parser' \in Hunt(u)
      BY <2>1 DEF ProcessRx, u
    <3>4. \/ u.part = "rect" /\ parser' = [at |-> "body", left |-> 1, id |-> u.id]
          \/ u.part = "command" /\ parser' = [at |-> "crc", left |-> 0, id |-> u.id]
      BY <3>2, <3>3 DEF Hunt
    <3>5. Expected' = After(u)
      BY <3>4 DEF Expected, After
    <3>6. After(u).id = u.id
      BY <3>2 DEF After, U
    <3>7. Expected'.id = Expected.id
      BY <3>1, <3>2, <3>5, <3>6 DEF U
    <3>8. parser'.id = u.id /\ (parser'.at = "body" => parser'.left = 1)
      BY <3>4
    <3>9. u.id > rested
      BY <1>3, <3>1, <3>2
    <3> QED
      BY <1>3, <3>3, <3>5, <3>7, <3>8, <3>9
  <2>2. CASE parser.at = "body"
    <3>1. Expected = U(parser.id, "pixels")
      BY <2>2 DEF Expected
    <3>2. u.id = parser.id /\ u.part = "pixels"
      BY <1>4, <3>1 DEF Fulfils, U
    <3>3. u = U(parser.id, "pixels")
      BY <1>1, <3>2 DEF Unit, U
    <3>4. parser' = [at |-> "crc", left |-> parser.left - 1, id |-> parser.id] /\ done' = done
      BY <1>3, <2>2, <3>3 DEF ProcessRx, Body, u
    <3>5. Expected' = U(parser.id, "crc") /\ After(u) = U(parser.id, "crc")
      BY <3>2, <3>4 DEF Expected, After
    <3>6. Expected'.id = Expected.id
      BY <3>1, <3>5 DEF U
    <3> QED
      BY <1>3, <2>2, <3>4, <3>5, <3>6
  <2>3. CASE parser.at = "crc"
    <3>1. Expected = U(parser.id, "crc")
      BY <2>3 DEF Expected
    <3>2. u.id = parser.id /\ u.part = "crc" /\ parser.id > rested /\ parser.id # 0
      BY <1>1, <1>3, <1>4, <2>3, <3>1 DEF Fulfils, U
    <3>3. u = U(parser.id, "crc")
      BY <1>1, <3>2 DEF Unit, U
    <3>4. parser' = Hunting /\ done' = Append(done, parser.id)
      BY <2>3, <3>2, <3>3 DEF ProcessRx, Fits, u
    <3>5. /\ done' # << >> /\ Len(done') = Len(done) + 1 /\ Len(done) \in Nat
          /\ \A k \in 1 .. Len(done) : done'[k] = done[k]
          /\ done'[Len(done) + 1] = parser.id
      BY <1>1, <3>4, AppendProperties, LenProperties
    <3>6. LastDone' = parser.id
      BY <3>5 DEF LastDone, Last
    <3>7. Taken' = parser.id
      BY <1>1, <3>2, <3>6 DEF Taken
    <3>8. Expected' = U(parser.id + 1, "head") /\ After(u) = U(parser.id + 1, "head")
      BY <3>2, <3>4, <3>7 DEF Expected, After, Hunting
    <3>9. Expected'.id - 1 = parser.id /\ Expected.id - 1 = parser.id - 1
      BY <1>1, <3>1, <3>8 DEF U
    <3>10. ASSUME NEW i \in rested + 1 .. Expected'.id - 1
           PROVE  \E k \in 1 .. Len(done') : done'[k] = i
      <4>1. CASE i = parser.id
        BY <3>5, <4>1
      <4>2. CASE i # parser.id
        <5>1. i \in rested + 1 .. Expected.id - 1
          BY <1>1, <1>3, <3>9, <3>10, <4>2
        <5>2. PICK k \in 1 .. Len(done) : done[k] = i
          BY <1>3, <5>1
        <5> QED
          BY <3>5, <5>2
      <4> QED
        BY <4>1, <4>2
    <3> QED
      BY <3>4, <3>8, <3>10 DEF Hunting
  <2> QED
    BY <2>0, <2>1, <2>2, <2>3
<1>6. \A i \in 1 .. n : Promised(i)' = Promised(i + 1)
  <2> SUFFICES ASSUME NEW i \in 1 .. n PROVE Promised(i)' = Promised(i + 1)
    OBVIOUS
  <2>1. CASE i = 1
    BY <1>1, <1>5, <2>1 DEF Promised
  <2>2. CASE i # 1
    <3>1. i - 1 \in 1 .. n - 1 /\ i + 1 # 1 /\ (i - 1) + 1 = i /\ (i + 1) - 1 = i
      BY <1>2, <2>2
    <3>2. ring'[i - 1] = ring[i]
      BY <1>2, <3>1
    <3> QED
      BY <2>2, <3>1, <3>2 DEF Promised
  <2> QED
    BY <2>1, <2>2
<1>7. \A i \in 1 .. Len(ring') : Fulfils(ring'[i], Promised(i)')
  <2> SUFFICES ASSUME NEW i \in 1 .. n - 1 PROVE Fulfils(ring'[i], Promised(i)')
    BY <1>2
  <2>1. i \in 1 .. n /\ i + 1 \in 1 .. n
    BY <1>2
  <2> QED
    BY <1>2, <1>3, <1>6, <2>1
<1>8. Promised(Len(ring) + 1)' = Coming'
  <2>1. Len(ring') + 1 = n /\ n \in 1 .. n
    BY <1>2
  <2>2. Promised(Len(ring) + 1)' = Promised(n + 1)
    BY <1>6, <2>1
  <2>3. Coming' = Coming
    BY <1>1 DEF Coming
  <2> QED
    BY <1>3, <2>2, <2>3
<1> QED
  BY <1>1, <1>3, <1>5, <1>7, <1>8 DEF StreamInv

LEMMA StreamStep == OrderInv /\ StreamInv /\ [LinkNext]_vars => StreamInv'
<1> SUFFICES ASSUME OrderInv, StreamInv, [LinkNext]_vars PROVE StreamInv'
  OBVIOUS
<1>1. CASE UNCHANGED vars
  BY <1>1, StreamUntouched DEF vars
<1>2. CASE UplinkFault \/ TakeIn \/ Swallow \/ WaitTimesOut \/ EndUpdate \/ SendOther \/ Poll
  BY <1>2, StreamUntouched
     DEF UplinkFault, TakeIn, Swallow, WaitTimesOut, EndUpdate, SendOther, Poll, PausePoll, StartPoll,
         EndPoll, gdVars
<1>3. CASE StartDraw
  BY <1>3, AwaitIsNoWrite, StreamUntouched DEF StartDraw, gdVars
<1>4. CASE SendCommand \/ SendAsset \/ BeginUpdate
  BY <1>4, StreamShort DEF SendCommand, SendAsset, BeginUpdate
<1>5. CASE WireFault
  BY <1>5 DEF WireFault, StreamInv
\* The parser is not left in the middle of a packet of an undamaged stream.
<1>6. CASE RxIdle
  <2>1. /\ ring = << >> /\ parser.at # "magic" /\ draw.at \notin {"pixels", "crc"}
        /\ UNCHANGED << sent, harm, rested >>
    BY <1>6 DEF RxIdle
  <2>2. Expected.part # "head" /\ Coming.part = "head" /\ Promised(1) = Expected
    BY <2>1 DEF Expected, Coming, Promised, U
  <2>3. harm # {}
    BY <2>1, <2>2 DEF StreamInv
  <2> QED
    BY <2>1, <2>3 DEF StreamInv
<1>7. CASE Rest
  <2>1. /\ ring' = << >> /\ parser' = Hunting /\ draw'.at \notin {"pixels", "crc"}
        /\ rested' = sent /\ sent' = sent /\ LastDone' = LastDone /\ done' = done
    BY <1>7 DEF Rest, AtRest, gdVars, LastDone
  <2>2. LastDone <= sent /\ sent \in Nat /\ LastDone \in Nat
    BY DEF OrderInv, Numbers, Carried
  <2>3. Taken' = sent
    BY <2>1, <2>2 DEF Taken
  <2>4. Expected' = U(sent + 1, "head") /\ Coming' = U(sent + 1, "head")
    BY <2>1, <2>3 DEF Expected, Coming, Hunting
  <2>5. Promised(Len(ring) + 1)' = Coming'
    BY <2>1, <2>4 DEF Promised
  <2>6. \A i \in rested' + 1 .. Expected'.id - 1 : FALSE
    BY <2>1, <2>2, <2>4 DEF U
  <2> QED
    BY <2>1, <2>2, <2>5, <2>6 DEF StreamInv, Hunting
<1> QED
  BY <1>1, <1>2, <1>3, <1>4, <1>5, <1>6, <1>7, StreamWrite, StreamParsed DEF LinkNext

\* Damage does not outlive the packets it hit: a stream that no fault, no full ring and
\* no second sender touched since it was last at rest is carried out to the last
\* packet, whatever happened before (protocol_process_rx is back at the magic after
\* every way a packet can end).
THEOREM DamageEnds == LinkSpec => []NothingLost
<1>1. OrderInv /\ StreamInv => NothingLost
  <2> SUFFICES ASSUME OrderInv, StreamInv, AtRest, harm = {}
               PROVE  \A i \in rested + 1 .. sent : \E k \in 1 .. Len(done) : done[k] = i
    BY DEF NothingLost
  <2>1. Promised(1) = Expected /\ Promised(1) = Coming /\ Coming = U(sent + 1, "head")
    BY DEF AtRest, StreamInv, Promised, Coming
  <2>2. sent \in Nat /\ Expected.id - 1 = sent
    BY <2>1 DEF OrderInv, Numbers, U
  <2> QED
    BY <2>2 DEF StreamInv
<1> QED
  BY <1>1, OrderStarts, OrderStep, StreamStarts, StreamStep, PTL DEF LinkSpec

-----------------------------------------------------------------------------
(* No chunk is begun in a poll whose PAUSE was read. *)

\* What may be on its way to the ESP32, and how much of it.
Sorts == {M("pause"), M("resume"), M("other")} \cup [kind : {"garbled"}, need : 0 .. MaxGarbage]
UpInv ==
  /\ rx \in Seq(Sorts) /\ Len(rx) <= MaxUp
  /\ gd # "run" => Len(rx) < MaxUp

LEMMA SortFacts ==
  /\ \A m \in Sorts : /\ m.kind = "pause" => m = M("pause")
                      /\ m.need \in 0 .. MaxGarbage
                      /\ m.need > 0 => m.kind = "garbled"
                      /\ m.kind \in {"pause", "resume", "other", "garbled"}
  /\ M("pause") \in Sorts /\ M("resume") \in Sorts /\ M("other") \in Sorts
  /\ \A n \in 0 .. MaxGarbage : [kind |-> "garbled", need |-> n] \in Sorts
  /\ M("pause").kind = "pause" /\ M("resume").kind = "resume" /\ M("other").kind = "other"
BY DEF Sorts, M

LEMMA FrontFacts ==
  ASSUME NEW X, NEW q \in Seq(X), q # << >>
  PROVE  /\ Len(q) \in Nat \ {0} /\ Front(q) \in Seq(X) /\ Len(Front(q)) = Len(q) - 1
         /\ \A i \in 1 .. Len(q) - 1 : Front(q)[i] = q[i]
<1>1. Len(q) \in Nat \ {0}
  BY EmptySeq
<1>2. \A i \in 1 .. Len(q) - 1 : q[i] \in X
  BY <1>1, ElementOfSeq
<1> DEFINE n == Len(q) - 1
<1>3. n \in Nat /\ 1 \in Int /\ n \in Int /\ n - 1 + 1 = n
  BY <1>1
<1>4. \A i \in 1 .. n : q[i] \in X
  BY <1>2
<1> HIDE DEF n
<1>5. /\ SubSeq(q, 1, n) \in Seq(X)
      /\ Len(SubSeq(q, 1, n)) = IF 1 <= n THEN n - 1 + 1 ELSE 0
      /\ \A i \in 1 .. n - 1 + 1 : SubSeq(q, 1, n)[i] = q[1 + i - 1]
  BY <1>3, <1>4, SubSeqProperties
<1>6. Len(SubSeq(q, 1, n)) = n /\ \A i \in 1 .. n : SubSeq(q, 1, n)[i] = q[i]
  BY <1>3, <1>5
<1> QED
  BY <1>1, <1>5, <1>6 DEF Front, n

\* A packet eaten by a garbled one in front of it.
LEMMA EatenFacts ==
  ASSUME NEW X, NEW q \in Seq(X), Len(q) > 1, NEW x \in X
  PROVE  LET r == << x >> \o SubSeq(q, 3, Len(q))
         IN /\ r \in Seq(X) /\ Len(r) = Len(q) - 1 /\ r[1] = x
            /\ \A i \in 2 .. Len(q) - 1 : r[i] = q[i + 1]
<1> DEFINE n == Len(q)
           t == SubSeq(q, 3, n)
<1>1. n \in Nat /\ n > 1 /\ \A i \in 3 .. n : q[i] \in X
  BY ElementOfSeq
<1> HIDE DEF n
<1>2. /\ SubSeq(q, 3, n) \in Seq(X)
      /\ Len(SubSeq(q, 3, n)) = IF 3 <= n THEN n - 3 + 1 ELSE 0
      /\ \A i \in 1 .. n - 3 + 1 : SubSeq(q, 3, n)[i] = q[3 + i - 1]
  BY <1>1, SubSeqProperties
<1>3. t \in Seq(X) /\ Len(t) = n - 2 /\ \A i \in 1 .. n - 2 : t[i] = q[i + 2]
  BY <1>1, <1>2
<1> HIDE DEF t
<1>4. << x >> \in Seq(X) /\ Len(<< x >>) = 1 /\ << x >>[1] = x
  OBVIOUS
<1> DEFINE o == << x >>
<1>5. o \in Seq(X) /\ Len(o) = 1 /\ o[1] = x
  BY <1>4
<1> HIDE DEF o
<1> DEFINE a == Len(o)
           b == Len(t)
<1>9. /\ o \o t \in Seq(X) /\ Len(o \o t) = a + b
      /\ \A i \in 1 .. a + b : (o \o t)[i] = IF i <= a THEN o[i] ELSE t[i - a]
  BY <1>3, <1>5, ConcatProperties
<1>10. a = 1 /\ b = n - 2
  BY <1>3, <1>5
<1> HIDE DEF a, b
<1>6. /\ o \o t \in Seq(X) /\ Len(o \o t) = 1 + (n - 2)
      /\ \A i \in 1 .. 1 + (n - 2) : (o \o t)[i] = IF i <= 1 THEN o[i] ELSE t[i - 1]
  BY <1>9, <1>10
<1>7. Len(o \o t) = n - 1 /\ (o \o t)[1] = x
  BY <1>1, <1>5, <1>6
<1>8. \A i \in 2 .. n - 1 : (o \o t)[i] = q[i + 1]
  <2> SUFFICES ASSUME NEW i \in 2 .. n - 1 PROVE (o \o t)[i] = q[i + 1]
    OBVIOUS
  <2>1. i \in 1 .. 1 + (n - 2) /\ ~(i <= 1) /\ i - 1 \in 1 .. n - 2 /\ (i - 1) + 2 = i + 1
    BY <1>1
  <2>2. (o \o t)[i] = t[i - 1]
    BY <1>6, <2>1
  <2>3. t[i - 1] = q[(i - 1) + 2]
    BY <1>3, <2>1
  <2> QED
    BY <2>1, <2>2, <2>3
<1> QED
  BY <1>6, <1>7, <1>8 DEF n, t, o

LEMMA PauseStarts == LinkInit => UpInv /\ PauseInv
BY DEF LinkInit, PauseInv, UpInv

\* Whoever leaves the packets to the ESP32 alone.
LEMMA PauseUntouched ==
  ASSUME UpInv, PauseInv, UNCHANGED rx, gd' = "run" <=> gd = "run",
         word' = word \/ (word = "read" /\ word' = "given up"),
         word' = "read" => paused' = paused \/ paused',
         draw' = draw \/ (draw.at = "idle" /\ (paused => draw'.at \in {"idle", "wait"}))
                      \/ (paused => draw'.at \in {"idle", "wait"}) \/ draw.at \notin {"idle", "wait"}
  PROVE  UpInv' /\ PauseInv'
BY DEF UpInv, PauseInv

LEMMA AwaitPaused ==
  ASSUME NEW left, Await(left), paused
  PROVE  draw'.at \in {"idle", "wait"}
BY DEF Await, Idle

LEMMA PauseStep == UpInv /\ PauseInv /\ [LinkNext]_vars => UpInv' /\ PauseInv'
<1> SUFFICES ASSUME UpInv, PauseInv, [LinkNext]_vars PROVE UpInv' /\ PauseInv'
  OBVIOUS
<1>0. rx \in Seq(Sorts) /\ Len(rx) \in Nat /\ (gd # "run" => Len(rx) < MaxUp) /\ Len(rx) <= MaxUp
      /\ \A i \in 1 .. Len(rx) : rx[i] \in Sorts
  BY ElementOfSeq, LenProperties DEF UpInv
<1>1. CASE UNCHANGED vars \/ WireFault \/ EndUpdate \/ RxIdle \/ Rest \/ ProcessRx
  BY <1>1, PauseUntouched DEF vars, WireFault, EndUpdate, RxIdle, Rest, ProcessRx, gdVars
<1>2. CASE StartDraw \/ DropChunk
  BY <1>2, PauseUntouched, AwaitPaused DEF StartDraw, DropChunk, Landed, gdVars
<1>3. CASE DrawHead \/ DrawPixels \/ DrawCrc
  <2>1. draw.at = "idle" \/ draw.at = "wait" => draw.at = "wait" /\ ~paused
    BY <1>3 DEF DrawHead, DrawPixels, DrawCrc, MayDraw
  <2>2. gd # "run" => word # "read" \/ draw.at \notin {"idle", "wait"}
    BY <2>1 DEF PauseInv
  <2>3. UNCHANGED << rx, word, paused >> /\ (gd' = "run" <=> gd = "run")
    BY <1>3 DEF DrawHead, DrawPixels, DrawCrc, Landed, gdVars
  <2> QED
    BY <2>2, <2>3 DEF UpInv, PauseInv
<1>4. CASE SendCommand \/ SendAsset \/ BeginUpdate
  BY <1>4, PauseUntouched DEF SendCommand, SendAsset, BeginUpdate, SendShort, gdVars
<1>5. CASE WaitTimesOut
  BY <1>5, PauseUntouched DEF WaitTimesOut, gdVars
<1>6. CASE UplinkFault
  <2>7. /\ rx # << >> /\ UNCHANGED << paused, draw, gd >>
        /\ \/ rx' = Front(rx)
           \/ \E n \in 1 .. MaxGarbage : rx' = Append(Front(rx), [kind |-> "garbled", need |-> n])
    BY <1>6 DEF UplinkFault, gdVars
  <2>8. word' = word \/ word' = "lost"
    BY <1>6 DEF UplinkFault
  <2>9. ASSUME NEW n \in 1 .. MaxGarbage
        PROVE  /\ [kind |-> "garbled", need |-> n] \in Sorts
               /\ [kind |-> "garbled", need |-> n].kind = "garbled"
    <3>1. n \in 0 .. MaxGarbage
      BY LinkAssumption
    <3> QED
      BY <3>1, SortFacts
  <2>1. /\ rx # << >> /\ UNCHANGED << paused, draw, gd >>
        /\ word' = word \/ word' = "lost"
        /\ rx' = Front(rx) \/ \E m \in Sorts : m.kind = "garbled" /\ rx' = Append(Front(rx), m)
    BY <2>7, <2>8, <2>9
  <2>2. /\ Len(rx) \in Nat \ {0} /\ Front(rx) \in Seq(Sorts) /\ Len(Front(rx)) = Len(rx) - 1
        /\ \A i \in 1 .. Len(rx) - 1 : Front(rx)[i] = rx[i]
    BY <1>0, <2>1, FrontFacts
  <2>3. /\ rx' \in Seq(Sorts) /\ Len(rx') \in Nat /\ Len(rx') <= Len(rx)
        /\ \A i \in 1 .. Len(rx') : rx'[i].kind = "pause" => i < Len(rx) /\ rx'[i] = rx[i]
    <3>1. CASE rx' = Front(rx)
      <4>1. /\ rx' \in Seq(Sorts) /\ Len(rx') = Len(rx) - 1
            /\ \A i \in 1 .. Len(rx) - 1 : rx'[i] = rx[i]
        BY <2>2, <3>1
      <4> DEFINE n == Len(rx)
      <4>2. n \in Nat \ {0} /\ Len(rx') = n - 1 /\ \A i \in 1 .. n - 1 : rx'[i] = rx[i]
        BY <2>2, <4>1
      <4> HIDE DEF n
      <4>3. /\ Len(rx') \in Nat /\ Len(rx') <= n
            /\ \A i \in 1 .. Len(rx') : i < n /\ rx'[i] = rx[i]
        BY <4>2
      <4> QED
        BY <4>1, <4>3 DEF n
    <3>2. ASSUME NEW m \in Sorts, m.kind = "garbled", rx' = Append(Front(rx), m)
          PROVE  /\ rx' \in Seq(Sorts) /\ Len(rx') \in Nat /\ Len(rx') <= Len(rx)
                 /\ \A i \in 1 .. Len(rx') : rx'[i].kind = "pause" => i < Len(rx) /\ rx'[i] = rx[i]
      <4>1. /\ rx' \in Seq(Sorts) /\ Len(rx') = Len(rx) /\ rx'[Len(rx)] = m
            /\ \A i \in 1 .. Len(rx) - 1 : rx'[i] = rx[i]
        BY <2>2, <3>2, AppendProperties
      <4> DEFINE n == Len(rx)
                 r == rx'
      <4>2. n \in Nat \ {0} /\ Len(r) = n /\ r[n].kind = "garbled" /\ \A i \in 1 .. n - 1 : r[i] = rx[i]
        BY <2>2, <3>2, <4>1
      <4> HIDE DEF n, r
      <4>3. \A i \in 1 .. n : i = n \/ i \in 1 .. n - 1
        BY <4>2
      <4>4. \A i \in 1 .. n : r[i].kind = "pause" => i < n /\ r[i] = rx[i]
        BY <4>2, <4>3
      <4>5. Len(r) \in Nat /\ Len(r) <= n
        BY <4>2
      <4> QED
        BY <4>1, <4>2, <4>4, <4>5 DEF n, r
    <3> QED
      BY <2>1, <3>1, <3>2
  <2>4. gd # "run" => \A i \in 1 .. Len(rx') : rx'[i].kind # "pause"
    BY <2>2, <2>3 DEF PauseInv
  <2>5. gd # "run" => word' # "read"
    BY <2>1 DEF PauseInv
  <2> QED
    BY <1>0, <2>1, <2>2, <2>3, <2>4, <2>5 DEF UpInv, PauseInv
<1>7. CASE TakeIn
  <2>1. /\ rx # << >> /\ rx' = Tail(rx) /\ UNCHANGED << draw, gd, ota >> /\ Reading
        /\ word' = IF Head(rx).kind = "pause" THEN IF ota THEN "lost" ELSE "read" ELSE word
        /\ Head(rx).kind = "pause" /\ ~ota => paused'
    BY <1>7 DEF TakeIn, gdVars
  <2>2. /\ Head(rx) = rx[1] /\ Len(rx) \in Nat \ {0} /\ rx' \in Seq(Sorts) /\ Len(rx') = Len(rx) - 1
        /\ \A i \in 1 .. Len(rx) - 1 : rx'[i] = rx[i + 1]
    BY <1>0, <2>1, HeadTailProperties, EmptySeq
  <2>3. ASSUME gd # "run", Head(rx).kind = "pause"
        PROVE  rx' = << >> /\ (word' = "read" => paused' /\ draw.at \in {"idle", "wait"})
    <3>1. Len(rx) = 1
      BY <2>2, <2>3 DEF PauseInv
    <3>2. rx' = << >>
      BY <2>2, <3>1, EmptySeq
    <3> QED
      BY <2>1, <2>3, <3>2 DEF Reading
  <2>4. ASSUME gd # "run", Head(rx).kind # "pause"
        PROVE  word' = word /\ word # "read"
    BY <2>1, <2>4 DEF PauseInv
  <2>5. ASSUME gd # "run", NEW i \in 1 .. Len(rx'), rx'[i].kind = "pause"
        PROVE  i = Len(rx') /\ word' = "sent"
    <3>1. i + 1 \in 1 .. Len(rx) /\ rx[i + 1].kind = "pause" /\ i \in 1 .. Len(rx) - 1
      BY <2>2, <2>5
    <3>2. i + 1 = Len(rx) /\ word = "sent"
      BY <2>5, <3>1 DEF PauseInv
    <3>3. Head(rx).kind # "pause"
      BY <2>2, <2>5, <3>1, <3>2 DEF PauseInv
    <3> QED
      BY <2>2, <2>4, <2>5, <3>2, <3>3
  <2>6. gd # "run" /\ word' = "read" => rx' = << >> /\ paused' /\ draw.at \in {"idle", "wait"}
    BY <2>3, <2>4
  <2>7. Len(rx') <= MaxUp /\ (gd # "run" => Len(rx') < MaxUp)
    BY <1>0, <2>2, LinkAssumption
  <2> QED
    BY <2>1, <2>2, <2>5, <2>6, <2>7 DEF UpInv, PauseInv
<1>8. CASE Swallow
  <2> DEFINE x == [rx[1] EXCEPT !.need = @ - 1]
  <2>1. /\ Len(rx) > 1 /\ rx[1].need > 0 /\ UNCHANGED << draw, gd, paused >>
        /\ rx' = << x >> \o SubSeq(rx, 3, Len(rx))
        /\ word' = IF rx[2] = M("pause") THEN "lost" ELSE word
    BY <1>8 DEF Swallow, gdVars
  <2>2. rx[1] \in Sorts /\ rx[2] \in Sorts
    BY <1>0, <2>1
  <2>3. x \in Sorts /\ x.kind = "garbled"
    <3>1. rx[1].kind = "garbled" /\ rx[1] \in [kind : {"garbled"}, need : 0 .. MaxGarbage]
      BY <2>1, <2>2 DEF Sorts, M
    <3>2. x \in [kind : {"garbled"}, need : 0 .. MaxGarbage]
      <4>1. rx[1].need - 1 \in 0 .. MaxGarbage
        BY <2>1, <3>1
      <4> QED
        BY <3>1, <4>1
    <3> QED
      BY <3>2 DEF Sorts
  <2> HIDE DEF x
  <2>4. /\ rx' \in Seq(Sorts) /\ Len(rx') = Len(rx) - 1 /\ rx'[1] = x
        /\ \A i \in 2 .. Len(rx) - 1 : rx'[i] = rx[i + 1]
    BY <1>0, <2>1, <2>3, EatenFacts
  <2>5. ASSUME gd # "run", NEW i \in 1 .. Len(rx'), rx'[i].kind = "pause"
        PROVE  i = Len(rx') /\ word' = "sent"
    <3>1. i # 1
      BY <2>3, <2>4, <2>5
    <3>2. i \in 2 .. Len(rx) - 1 /\ i + 1 \in 1 .. Len(rx) /\ 2 \in 1 .. Len(rx) /\ 2 # Len(rx)
      <4> DEFINE n == Len(rx)
      <4>1. n \in Nat
        BY <1>0, LenProperties
      <4>2. i \in 1 .. n - 1
        BY <2>4
      <4> HIDE DEF n
      <4>3. i \in 2 .. n - 1 /\ i + 1 \in 1 .. n /\ 2 \in 1 .. n /\ 2 # n
        BY <3>1, <4>1, <4>2
      <4> QED
        BY <4>3 DEF n
    <3>3. rx[i + 1].kind = "pause"
      BY <2>4, <2>5, <3>2
    <3>4. i + 1 = Len(rx) /\ word = "sent" /\ rx[2].kind # "pause"
      BY <2>5, <3>2, <3>3 DEF PauseInv
    <3> QED
      BY <1>0, <2>1, <2>4, <3>4, SortFacts
  <2>6. gd # "run" => word' # "read"
    <3>1. rx # << >>
      BY <2>1
    <3> QED
      BY <2>1, <3>1 DEF PauseInv
  <2> QED
    BY <1>0, <2>1, <2>4, <2>5, <2>6 DEF UpInv, PauseInv
<1>9. CASE PausePoll
  <2>1. /\ gd = "run" /\ Len(rx) + 2 <= MaxUp /\ M("pause") \notin Range(rx)
        /\ rx' = Append(rx, M("pause")) /\ word' = "sent"
    BY <1>9 DEF PausePoll
  <2>2. /\ rx' \in Seq(Sorts) /\ Len(rx') = Len(rx) + 1 /\ \A i \in 1 .. Len(rx) : rx'[i] = rx[i]
    BY <1>0, <2>1, SortFacts, AppendProperties
  <2>3. \A i \in 1 .. Len(rx) : rx[i].kind # "pause"
    <3> TAKE i \in 1 .. Len(rx)
    <3>1. rx[i] \in Range(rx) /\ rx[i] \in Sorts
      BY <1>0 DEF Range
    <3> QED
      BY <2>1, <3>1, SortFacts
  <2> QED
    BY <1>0, <2>1, <2>2, <2>3 DEF UpInv, PauseInv
<1>10. CASE StartPoll
  BY <1>10, PauseUntouched DEF StartPoll
<1>11. CASE EndPoll
  <2>1. gd # "run" /\ gd' = "run" /\ rx' = Append(rx, M("resume"))
    BY <1>11 DEF EndPoll
  <2>2. rx' \in Seq(Sorts) /\ Len(rx') = Len(rx) + 1
    BY <1>0, <2>1, SortFacts, AppendProperties
  <2> QED
    BY <1>0, <2>1, <2>2 DEF UpInv, PauseInv
<1>12. CASE SendOther
  <2>1. gd = "run" /\ gd' = "run" /\ rx' = Append(rx, M("other")) /\ Len(rx) + 2 < MaxUp
    BY <1>12 DEF SendOther, gdVars
  <2>2. rx' \in Seq(Sorts) /\ Len(rx') = Len(rx) + 1
    BY <1>0, <2>1, SortFacts, AppendProperties
  <2> QED
    BY <1>0, <2>1, <2>2 DEF UpInv, PauseInv
<1> QED
  BY <1>1, <1>2, <1>3, <1>4, <1>5, <1>6, <1>7, <1>8, <1>9, <1>10, <1>11, <1>12
     DEF LinkNext, Write, Poll

\* During a poll whose PAUSE the ESP32 has read it begins no chunk of pixels, unless it
\* gave up waiting: no flow packet of an earlier poll can be in front of this one's
\* RESUME (pump_rx_, wait_for_flow).
THEOREM PausesHeeded == LinkSpec => PauseHeeded
<1>1. PauseInv /\ [LinkNext]_vars
        => [gd = "poll" /\ draw.at # "pixels" /\ draw'.at = "pixels" => word # "read"]_vars
  <2> SUFFICES ASSUME PauseInv, LinkNext, gd = "poll", draw.at # "pixels", draw'.at = "pixels"
               PROVE  word # "read"
    BY DEF vars
  <2>1. DrawHead
    <3>1. draw' # draw
      OBVIOUS
    <3>2. StartDraw \/ DrawHead \/ DropChunk \/ DrawPixels \/ DrawCrc
      BY <3>1 DEF LinkNext, Write, Poll, WireFault, UplinkFault, TakeIn, Swallow, WaitTimesOut,
                  SendCommand, SendAsset, BeginUpdate, EndUpdate, SendShort, ProcessRx, RxIdle,
                  PausePoll, StartPoll, EndPoll, SendOther, Rest
    <3>3. ASSUME NEW left, Await(left) PROVE FALSE
      BY <3>3 DEF Await, Idle
    <3>4. ~DrawPixels
      BY DEF DrawPixels
    <3> QED
      BY <3>2, <3>3, <3>4 DEF StartDraw, DropChunk, DrawCrc
  <2>2. draw.at = "ready" \/ (draw.at = "wait" /\ ~paused)
    BY <2>1 DEF DrawHead, MayDraw
  <2> QED
    BY <2>2 DEF PauseInv
<1> QED
  BY <1>1, PauseStarts, PauseStep, PTL DEF LinkSpec, PauseHeeded

-----------------------------------------------------------------------------
(* Everything keeps its type. *)

FlagsOK ==
  /\ paused \in BOOLEAN /\ ota \in BOOLEAN
  /\ faults \in 0 .. MaxFaults
WordsOK == /\ spell \in {"open", "inside", "after"} /\ gd \in {"run", "landing", "drain", "poll"}
           /\ word \in {"none", "sent", "read", "lost", "given up"}
HarmOK == harm \subseteq {"wire", "full", "mixed"}
DrawOK == draw.left <= Chunks /\ draw.id <= sent
RingOK == Len(ring) <= RingSize /\ \A i \in 1 .. Len(ring) : ring[i].id <= sent
ParserOK == /\ parser.left \in 0 .. MaxGarbage + 1
            /\ parser.at = "body" => parser.left > 0
DoneOK == \A k \in 1 .. Len(done) : done[k] # 0

\* The numbers of OrderInv once more, without the sequences.
LEMMA Numbered ==
  ASSUME OrderInv
  PROVE  /\ sent \in Nat /\ sent <= MaxSent /\ draw \in Draw /\ draw.left \in Nat /\ draw.id \in Nat
         /\ sent + draw.left <= MaxSent /\ parser \in Parser
         /\ draw.at \in {"ready", "wait"} => draw.left > 0
         /\ ring \in Seq(Unit) /\ Len(ring) \in Nat
         /\ \A i \in 1 .. Len(ring) : ring[i] \in Unit /\ ring[i].id \in Nat
BY ElementOfSeq, LenProperties, UnitFacts DEF OrderInv, Numbers, Heads, Draw

\* The ring takes no more than it has room for.
LEMMA ArriveFits ==
  ASSUME OrderInv, RingOK, NEW us \in Seq(Unit), NEW why, Arrive(us, why),
         \A i \in 1 .. Len(us) : us[i].id <= sent', sent' = sent \/ sent' = sent + 1
  PROVE  RingOK'
<1> DEFINE room == RingSize - Len(ring)
           some == SubSeq(us, 1, IF room < Len(us) THEN room ELSE Len(us))
<1>1. /\ ring \in Seq(Unit) /\ Len(ring) \in Nat /\ sent \in Nat
      /\ Len(ring) <= RingSize /\ room \in Nat /\ Len(us) \in Nat
      /\ \A i \in 1 .. Len(ring) : ring[i].id \in Nat /\ ring[i].id <= sent
  BY Numbered, LenProperties DEF RingOK
<1>2. some \in Seq(Unit) /\ Len(some) <= Len(us) /\ \A i \in 1 .. Len(some) : some[i] = us[i]
  BY <1>1, Beginning
<1>3. Len(some) \in Nat /\ Len(some) <= room
  <2>1. CASE room = 0
    <3>1. some = << >>
      BY <1>1, <2>1, SubSeqEmpty
    <3> QED
      BY <1>1, <3>1
  <2>2. CASE room # 0 /\ room < Len(us)
    <3>1. room \in 1 .. Len(us) /\ some = SubSeq(us, 1, room)
      BY <1>1, <2>2
    <3>2. Len(some) = room
      BY <1>1, <3>1, SubSeqProperties
    <3> QED
      BY <1>1, <3>2
  <2>3. CASE room >= Len(us)
    BY <1>1, <1>2, <2>3, LenProperties
  <2> QED
    BY <1>1, <2>1, <2>2, <2>3
<1>4. ring' = ring \o some
  BY DEF Arrive
<1> DEFINE a == Len(ring)
           b == Len(some)
<1> HIDE DEF some
<1>5. /\ Len(ring') = a + b
      /\ \A i \in 1 .. a + b : ring'[i] = IF i <= a THEN ring[i] ELSE some[i - a]
  BY <1>1, <1>2, <1>4, ConcatProperties
<1>6. a \in Nat /\ b \in Nat /\ b <= RingSize - a /\ Len(us) \in Nat /\ b <= Len(us)
  BY <1>1, <1>2, <1>3
<1>7. \A i \in 1 .. b : some[i].id <= sent'
  BY <1>2, <1>6
<1>8. \A i \in 1 .. a : ring[i].id <= sent'
  BY <1>1
<1> HIDE DEF a, b, room
<1>9. a + b <= RingSize
  BY <1>6
<1>10. ASSUME NEW i \in 1 .. a + b PROVE ring'[i].id <= sent'
  <2>1. CASE i <= a
    <3>1. i \in 1 .. a /\ ring'[i] = ring[i]
      BY <1>5, <1>6, <2>1
    <3> QED
      BY <1>8, <3>1
  <2>2. CASE ~(i <= a)
    <3>1. i - a \in 1 .. b /\ ring'[i] = some[i - a]
      BY <1>5, <1>6, <2>2
    <3> QED
      BY <1>7, <3>1
  <2> QED
    BY <2>1, <2>2
<1> QED
  BY <1>5, <1>9, <1>10 DEF RingOK

LEMMA ArriveHarm ==
  ASSUME HarmOK, NEW us, NEW why \in SUBSET {"mixed"}, Arrive(us, why)
  PROVE  HarmOK'
BY DEF HarmOK, Arrive

\* A draw that waits, or is over.
LEMMA AwaitFits ==
  ASSUME NEW left \in Nat, left <= Chunks, Await(left)
  PROVE  draw'.left <= Chunks /\ draw'.id = 0
BY DEF Await, Idle

LEMMA ShortFits ==
  ASSUME OrderInv, RingOK, HarmOK, DrawOK, SendShort
  PROVE  RingOK' /\ HarmOK' /\ DrawOK'
<1> DEFINE us == << U(sent + 1, "command"), U(sent + 1, "crc") >>
<1>1. sent \in Nat /\ sent' = sent + 1 /\ UNCHANGED draw /\ draw.id \in Nat
  BY Numbered DEF SendShort
<1>2. us \in Seq(Unit) /\ Len(us) = 2 /\ us[1].id = sent + 1 /\ us[2].id = sent + 1
  <2>1. /\ U(sent + 1, "command") \in Unit /\ U(sent + 1, "crc") \in Unit
        /\ U(sent + 1, "command").id = sent + 1 /\ U(sent + 1, "crc").id = sent + 1
    BY <1>1, UnitFacts DEF Parts
  <2>2. \A x, y \in Unit : << x, y >> \in Seq(Unit)
    OBVIOUS
  <2>3. us \in Seq(Unit)
    BY <2>1, <2>2, Zenon
  <2> QED
    BY <2>1, <2>3
<1> DEFINE why == IF draw.at \in {"pixels", "crc"} THEN {"mixed"} ELSE {}
<1>3. Arrive(us, why) /\ why \in SUBSET {"mixed"}
  BY DEF SendShort
<1> HIDE DEF us, why
<1>4. RingOK'
  BY <1>1, <1>2, <1>3, ArriveFits
<1>5. HarmOK'
  BY <1>3, ArriveHarm
<1> QED
  BY <1>1, <1>4, <1>5 DEF DrawOK

LEMMA WriteFits ==
  ASSUME OrderInv, RingOK, HarmOK, DrawOK, Write
  PROVE  RingOK' /\ HarmOK' /\ DrawOK'
<1>1. /\ sent \in Nat /\ draw.id \in Nat /\ draw.left \in Nat /\ draw \in Draw
      /\ draw.at \in {"ready", "wait"} => draw.left > 0
      /\ draw.left <= Chunks /\ draw.id <= sent
  BY Numbered DEF DrawOK
<1>2. CASE DrawHead
  <2>1. /\ draw.left > 0 /\ sent' = sent + 1
        /\ draw' = [at |-> "pixels", left |-> draw.left - 1, id |-> sent + 1]
        /\ Arrive(<< U(sent + 1, "rect") >>, {})
    BY <1>1, <1>2 DEF DrawHead, MayDraw
  <2>2. U(sent + 1, "rect") \in Unit /\ U(sent + 1, "rect").id = sent + 1
    BY <1>1, UnitFacts DEF Parts
  <2> DEFINE us == << U(sent + 1, "rect") >>
  <2>3. us \in Seq(Unit) /\ Len(us) = 1 /\ us[1].id = sent + 1 /\ Arrive(us, {})
    BY <2>1, <2>2, OneUnit
  <2> HIDE DEF us
  <2>4. RingOK' /\ HarmOK'
    <3>1. sent' = sent + 1 /\ \A i \in 1 .. Len(us) : us[i].id <= sent'
      BY <1>1, <2>1, <2>3
    <3>2. RingOK'
      BY <2>3, <3>1, ArriveFits
    <3> QED
      BY <2>3, <3>2, ArriveHarm
  <2>5. DrawOK'
    BY <1>1, <2>1 DEF DrawOK
  <2> QED
    BY <2>4, <2>5
<1>3. CASE DrawPixels \/ DrawCrc
  <2>1. PICK part \in Parts : Arrive(<< U(draw.id, part) >>, {})
    BY <1>3 DEF DrawPixels, DrawCrc, Parts
  <2>2. U(draw.id, part) \in Unit /\ U(draw.id, part).id = draw.id /\ sent' = sent
    BY <1>1, <1>3, UnitFacts DEF DrawPixels, DrawCrc
  <2> DEFINE us == << U(draw.id, part) >>
  <2>3. us \in Seq(Unit) /\ Len(us) = 1 /\ us[1].id = draw.id /\ Arrive(us, {})
    BY <2>1, <2>2, OneUnit
  <2> HIDE DEF us
  <2>4. RingOK' /\ HarmOK'
    BY <1>1, <2>2, <2>3, ArriveFits, ArriveHarm
  <2>5. CASE DrawPixels
    <3>1. draw'.left = draw.left /\ draw'.id = draw.id
      BY <1>1, <2>5 DEF DrawPixels, Draw
    <3> QED
      BY <1>1, <2>2, <2>4, <3>1 DEF DrawOK
  <2>6. CASE DrawCrc
    <3>1. Await(draw.left)
      BY <2>6 DEF DrawCrc
    <3> QED
      BY <1>1, <2>2, <2>4, <3>1, AwaitFits DEF DrawOK
  <2> QED
    BY <1>3, <2>5, <2>6
<1>4. CASE DropChunk
  <2>1. Await(draw.left - 1) /\ UNCHANGED << ring, sent, harm >> /\ draw.left > 0
    BY <1>1, <1>4 DEF DropChunk, MayDraw
  <2>2. draw.left - 1 \in Nat /\ draw.left - 1 <= Chunks
    BY <1>1, <2>1
  <2>3. DrawOK'
    BY <1>1, <2>1, <2>2, AwaitFits DEF DrawOK
  <2> QED
    BY <2>1, <2>3 DEF RingOK, HarmOK
<1> QED
  BY <1>2, <1>3, <1>4 DEF Write

\* The parser and what it carries out.
LEMMA ParsedFits ==
  ASSUME OrderInv, RingOK, ParserOK, DoneOK, ProcessRx
  PROVE  RingOK' /\ ParserOK' /\ DoneOK'
<1>1. /\ ring \in Seq(Unit) /\ ring # << >> /\ ring' = Tail(ring) /\ sent' = sent
      /\ done \in Seq(Nat) /\ parser \in Parser /\ parser.id \in Nat
      /\ Len(ring) <= RingSize /\ \A i \in 1 .. Len(ring) : ring[i].id <= sent
  BY DEF ProcessRx, OrderInv, Numbers, Carried, Heads, RingOK, Parser
<1>2. /\ Len(ring') = Len(ring) - 1 /\ Len(ring) \in Nat \ {0}
      /\ \A i \in 1 .. Len(ring') : ring'[i] = ring[i + 1]
  BY <1>1, HeadTailProperties, EmptySeq
<1>3. RingOK'
  <2> DEFINE n == Len(ring)
  <2>1. /\ n \in Nat \ {0} /\ n <= RingSize /\ Len(ring') = n - 1
        /\ \A i \in 1 .. n : ring[i].id <= sent
        /\ \A i \in 1 .. n - 1 : ring'[i] = ring[i + 1]
    BY <1>1, <1>2
  <2> HIDE DEF n
  <2>2. \A i \in 1 .. n - 1 : ring'[i].id <= sent
    <3> TAKE i \in 1 .. n - 1
    <3>1. i + 1 \in 1 .. n /\ ring'[i] = ring[i + 1]
      BY <2>1
    <3> QED
      BY <2>1, <3>1
  <2> QED
    BY <1>1, <2>1, <2>2 DEF RingOK
<1>4. ParserOK'
  <2> DEFINE u == Head(ring)
  <2>1. CASE parser.at = "magic"
    <3>1. parser' \in Hunt(u)
      BY <2>1 DEF ProcessRx
    <3>2. \/ parser' = [at |-> "body", left |-> 1, id |-> u.id]
          \/ parser' = [at |-> "crc", left |-> 0, id |-> u.id]
          \/ parser' = Hunting
          \/ \E n \in 0 .. MaxGarbage :
               parser' = [at |-> IF n = 0 THEN "crc" ELSE "body", left |-> n, id |-> 0]
      BY <3>1 DEF Hunt
    <3> QED
      BY <3>2 DEF ParserOK, Hunting
  <2>2. CASE parser.at = "body"
    <3>1. parser' = Body(u)
      BY <2>2 DEF ProcessRx
    <3> QED
      BY <2>2, <3>1 DEF Body, ParserOK
  <2>3. CASE parser.at \notin {"magic", "body"}
    <3>1. parser' = Hunting
      BY <2>3 DEF ProcessRx
    <3> QED
      BY <3>1 DEF Hunting, ParserOK
  <2> QED
    BY <2>1, <2>2, <2>3
<1>5. DoneOK'
  <2>1. done' = done \/ (parser.id # 0 /\ done' = Append(done, parser.id))
    BY DEF ProcessRx, Fits
  <2>2. CASE done' = done
    BY <2>2 DEF DoneOK
  <2>3. CASE parser.id # 0 /\ done' = Append(done, parser.id)
    <3>1. /\ Len(done') = Len(done) + 1 /\ Len(done) \in Nat /\ done'[Len(done) + 1] = parser.id
          /\ \A k \in 1 .. Len(done) : done'[k] = done[k]
      BY <1>1, <2>3, AppendProperties, LenProperties
    <3> QED
      BY <2>3, <3>1 DEF DoneOK
  <2> QED
    BY <2>1, <2>2, <2>3
<1> QED
  BY <1>3, <1>4, <1>5

LEMMA FaultFits ==
  ASSUME OrderInv, RingOK, WireFault
  PROVE  RingOK'
<1>1. /\ ring \in Seq(Unit) /\ ring # << >> /\ sent' = sent /\ sent \in Nat
      /\ Len(ring) <= RingSize /\ \A i \in 1 .. Len(ring) : ring[i].id <= sent
      /\ ring' = Front(ring) \/ ring' = Append(Front(ring), U(0, "bad"))
  BY Numbered DEF WireFault, RingOK
<1>2. /\ Len(ring) \in Nat \ {0} /\ Front(ring) \in Seq(Unit) /\ Len(Front(ring)) = Len(ring) - 1
      /\ \A i \in 1 .. Len(ring) - 1 : Front(ring)[i] = ring[i]
  BY <1>1, FrontFacts
<1>3. U(0, "bad") \in Unit /\ U(0, "bad").id = 0
  BY UnitFacts DEF Parts
<1> DEFINE n == Len(ring)
           f == Front(ring)
<1>4. /\ n \in Nat \ {0} /\ n <= RingSize /\ f \in Seq(Unit) /\ Len(f) = n - 1
      /\ \A i \in 1 .. n - 1 : f[i].id <= sent
  BY <1>1, <1>2
<1> HIDE DEF n, f
<1>5. CASE ring' = f
  <2>1. Len(ring') <= RingSize /\ \A i \in 1 .. Len(ring') : ring'[i].id <= sent
    BY <1>4, <1>5, LinkAssumption
  <2> QED
    BY <1>1, <2>1 DEF RingOK
<1>6. CASE ring' = Append(f, U(0, "bad"))
  <2>1. /\ Len(ring') = n /\ ring'[n] = U(0, "bad")
        /\ \A i \in 1 .. n - 1 : ring'[i] = f[i]
    BY <1>3, <1>4, <1>6, AppendProperties
  <2>2. \A i \in 1 .. n : ring'[i].id <= sent
    <3> TAKE i \in 1 .. n
    <3>1. CASE i = n
      BY <1>1, <1>3, <2>1, <3>1
    <3>2. CASE i # n
      <4>1. i \in 1 .. n - 1
        BY <1>4, <3>2
      <4> QED
        BY <1>4, <2>1, <4>1
    <3> QED
      BY <3>1, <3>2
  <2> QED
    BY <1>1, <1>4, <2>1, <2>2 DEF RingOK
<1> QED
  BY <1>1, <1>5, <1>6 DEF f

TypeInv == FlagsOK /\ WordsOK /\ HarmOK /\ DrawOK /\ RingOK /\ ParserOK /\ DoneOK

LEMMA TypeStarts == LinkInit => TypeInv
<1> SUFFICES ASSUME LinkInit PROVE TypeInv
  OBVIOUS
<1>1. FlagsOK /\ WordsOK /\ HarmOK
  <2>1. paused = FALSE /\ ota = FALSE /\ faults = 0 /\ spell = "open" /\ gd = "run" /\ word = "none"
        /\ harm = {}
    BY DEF LinkInit
  <2>2. FlagsOK
    <3>1. faults \in 0 .. MaxFaults
      BY <2>1
    <3>2. paused \in BOOLEAN /\ ota \in BOOLEAN
      BY <2>1, Zenon
    <3> QED
      BY <3>1, <3>2 DEF FlagsOK
  <2>3. WordsOK
    BY <2>1 DEF WordsOK
  <2>4. HarmOK
    BY <2>1 DEF HarmOK
  <2> QED
    BY <2>2, <2>3, <2>4
<1>2. DrawOK /\ ParserOK
  BY DEF LinkInit, DrawOK, ParserOK, Idle, Hunting
<1>3. RingOK /\ DoneOK
  BY DEF LinkInit, RingOK, DoneOK
<1> QED
  BY <1>1, <1>2, <1>3 DEF TypeInv

LEMMA TypeStep == OrderInv /\ TypeInv /\ [LinkNext]_vars => TypeInv'
<1> SUFFICES ASSUME OrderInv, TypeInv, [LinkNext]_vars PROVE TypeInv'
  OBVIOUS
<1> USE DEF TypeInv
<1>1. FlagsOK'
  <2>1. paused' \in BOOLEAN /\ ota' \in BOOLEAN
    BY DEF FlagsOK, LinkNext, vars, WireFault, UplinkFault, TakeIn, Swallow, StartDraw, WaitTimesOut,
           Write, DrawHead, DropChunk, DrawPixels, DrawCrc, SendCommand, SendAsset, BeginUpdate,
           EndUpdate, SendShort, ProcessRx, RxIdle, Poll, PausePoll, StartPoll, EndPoll, SendOther, Rest
  <2>2. faults' = faults \/ (faults < MaxFaults /\ faults' = faults + 1)
    BY DEF LinkNext, vars, WireFault, UplinkFault, TakeIn, Swallow, StartDraw, WaitTimesOut,
           Write, DrawHead, DropChunk, DrawPixels, DrawCrc, SendCommand, SendAsset, BeginUpdate,
           EndUpdate, SendShort, ProcessRx, RxIdle, Poll, PausePoll, StartPoll, EndPoll, SendOther, Rest
  <2> QED
    BY <2>1, <2>2 DEF FlagsOK
<1>2. WordsOK'
  <2>1. spell' \in {spell, "open", "inside", "after"}
    BY DEF LinkNext, vars, WireFault, UplinkFault, TakeIn, Swallow, StartDraw, WaitTimesOut, Await,
           Write, DrawHead, DropChunk, DrawPixels, DrawCrc, SendCommand, SendAsset, BeginUpdate,
           EndUpdate, SendShort, ProcessRx, RxIdle, Poll, PausePoll, StartPoll, EndPoll, SendOther, Rest
  <2>2. gd' \in {gd, "run", "landing", "drain", "poll"}
    BY DEF LinkNext, vars, gdVars, WireFault, UplinkFault, TakeIn, Swallow, StartDraw, WaitTimesOut, Landed,
           Write, DrawHead, DropChunk, DrawPixels, DrawCrc, SendCommand, SendAsset, BeginUpdate,
           EndUpdate, SendShort, ProcessRx, RxIdle, Poll, PausePoll, StartPoll, EndPoll, SendOther, Rest
  <2>3. word' \in {word, "sent", "read", "lost", "given up"}
    BY DEF LinkNext, vars, WireFault, UplinkFault, TakeIn, Swallow, StartDraw, WaitTimesOut,
           Write, DrawHead, DropChunk, DrawPixels, DrawCrc, SendCommand, SendAsset, BeginUpdate,
           EndUpdate, SendShort, ProcessRx, RxIdle, Poll, PausePoll, StartPoll, EndPoll, SendOther, Rest
  <2> QED
    BY <2>1, <2>2, <2>3 DEF WordsOK
<1>3. HarmOK' /\ DrawOK' /\ RingOK' /\ ParserOK' /\ DoneOK'
  <2>1. CASE \/ UNCHANGED vars \/ UplinkFault \/ TakeIn \/ Swallow \/ WaitTimesOut \/ EndUpdate
             \/ Poll \/ SendOther
    <3>1. UNCHANGED << harm, draw, ring, parser, done, sent >>
      BY <2>1 DEF vars, UplinkFault, TakeIn, Swallow, WaitTimesOut, EndUpdate, Poll, PausePoll, StartPoll,
                  EndPoll, SendOther, gdVars
    <3> QED
      BY <3>1 DEF HarmOK, DrawOK, RingOK, ParserOK, DoneOK
  <2>2. CASE WireFault
    <3>1. UNCHANGED << draw, parser, done, sent >> /\ harm' = harm \cup {"wire"}
      BY <2>2 DEF WireFault, gdVars
    <3> QED
      BY <2>2, <3>1, FaultFits DEF HarmOK, DrawOK, ParserOK, DoneOK
  <2>3. CASE StartDraw
    <3>1. Await(Chunks) /\ UNCHANGED << harm, ring, parser, done, sent >>
      BY <2>3 DEF StartDraw, gdVars
    <3>2. draw'.left <= Chunks /\ draw'.id = 0 /\ sent \in Nat
      BY <3>1, AwaitFits, Numbered
    <3> QED
      BY <3>1, <3>2 DEF HarmOK, DrawOK, RingOK, ParserOK, DoneOK
  <2>4. CASE Write
    <3>1. UNCHANGED << parser, done >>
      BY <2>4 DEF Write, DrawHead, DropChunk, DrawPixels, DrawCrc, gdVars
    <3> QED
      BY <2>4, <3>1, WriteFits DEF ParserOK, DoneOK
  <2>5. CASE SendCommand \/ SendAsset \/ BeginUpdate
    <3>1. SendShort /\ UNCHANGED << parser, done >>
      BY <2>5 DEF SendCommand, SendAsset, BeginUpdate, SendShort, gdVars
    <3> QED
      BY <3>1, ShortFits DEF ParserOK, DoneOK
  <2>6. CASE ProcessRx
    <3>1. UNCHANGED << harm, draw, sent >>
      BY <2>6 DEF ProcessRx
    <3> QED
      BY <2>6, <3>1, ParsedFits DEF HarmOK, DrawOK
  <2>7. CASE RxIdle
    <3>1. UNCHANGED << harm, draw, ring, done, sent >> /\ parser' = Hunting
      BY <2>7 DEF RxIdle
    <3> QED
      BY <3>1 DEF HarmOK, DrawOK, RingOK, ParserOK, DoneOK, Hunting
  <2>8. CASE Rest
    <3>1. UNCHANGED << draw, ring, parser, done, sent >> /\ harm' = {}
      BY <2>8 DEF Rest, gdVars
    <3> QED
      BY <3>1 DEF HarmOK, DrawOK, RingOK, ParserOK, DoneOK
  <2> QED
    BY <2>1, <2>2, <2>3, <2>4, <2>5, <2>6, <2>7, <2>8 DEF LinkNext
<1> QED
  BY <1>1, <1>2, <1>3

\* Every variable of the link keeps its type and its bound: no number leaves the range
\* its field has, the ring never holds more than it has room for, and the way to the
\* ESP32 has room for the flow packets of a poll.
THEOREM LinkTypeCorrect == LinkSpec => []LinkTypeOK
<1>1. OrderInv /\ TypeInv /\ StreamInv /\ UpInv => LinkTypeOK
  <2> SUFFICES ASSUME OrderInv, TypeInv, StreamInv, UpInv PROVE LinkTypeOK
    OBVIOUS
  <2>1. /\ sent \in 0 .. MaxSent /\ draw \in Draw /\ parser \in Parser
        /\ Len(ring) \in Nat
        /\ \A i \in 1 .. Len(ring) : ring[i] \in Unit /\ ring[i].id \in Nat
    BY Numbered
  <2>2. \A i \in 1 .. Len(done) : done[i] \in Ids
    <3>1. /\ done \in Seq(Nat) /\ LastDone \in Nat /\ LastDone <= sent
          /\ \A k \in 1 .. Len(done) : done[k] <= LastDone /\ done[k] # 0
      BY DEF OrderInv, Carried, TypeInv, DoneOK
    <3>2. \A k \in 1 .. Len(done) : done[k] \in Nat
      BY <3>1, ElementOfSeq
    <3> QED
      BY <2>1, <3>1, <3>2 DEF Ids
  <2>3. draw \in [at : {"idle", "ready", "wait", "pixels", "crc"}, left : 0 .. Chunks, id : 0 .. MaxSent]
    <3>1. draw.left \in 0 .. Chunks /\ draw.id \in 0 .. MaxSent
      BY <2>1 DEF TypeInv, DrawOK, Draw
    <3> QED
      BY <2>1, <3>1 DEF Draw
  <2>4. parser \in [at : {"magic", "body", "crc"}, left : 0 .. MaxGarbage + 1, id : 0 .. MaxSent]
    <3>1. parser.left \in 0 .. MaxGarbage + 1 /\ parser.id \in 0 .. MaxSent
      BY <2>1 DEF TypeInv, ParserOK, OrderInv, Carried, Parser
    <3> QED
      BY <2>1, <3>1 DEF Parser
  <2>5. Len(ring) <= RingSize /\ \A i \in 1 .. Len(ring) : ring[i] \in Units
    <3>1. ASSUME NEW i \in 1 .. Len(ring) PROVE ring[i] \in Units
      <4>1. ring[i] \in Unit /\ ring[i].id \in 0 .. MaxSent
        BY <2>1 DEF TypeInv, RingOK
      <4> QED
        BY <4>1 DEF Unit, Units, Parts
    <3> QED
      BY <3>1 DEF TypeInv, RingOK
  <2>6. Len(rx) <= MaxUp /\ \A i \in 1 .. Len(rx) : rx[i] \in Up
    <3>1. \A i \in 1 .. Len(rx) : rx[i] \in Sorts
      BY ElementOfSeq DEF UpInv
    <3>2. \A m \in Sorts : m \in Up
      BY LinkAssumption DEF Sorts, M, Up
    <3> QED
      BY <3>1, <3>2 DEF UpInv
  <2>7. rested \in 0 .. MaxSent
    BY <2>1 DEF StreamInv
  <2> QED
    BY <2>1, <2>2, <2>3, <2>4, <2>5, <2>6, <2>7 DEF LinkTypeOK, TypeInv, FlagsOK, WordsOK, HarmOK
<1> QED
  BY <1>1, OrderStarts, OrderStep, StreamStarts, StreamStep, PauseStarts, PauseStep, TypeStarts, TypeStep,
     PTL DEF LinkSpec

-----------------------------------------------------------------------------
(* What the link carries. *)

\* The pictures: every way the ESP32 cuts and compresses an image is undone by the
\* decoders of the GD32 and of the ESP32 itself (draw_pixels_at, protocol_process_rx,
\* decode_tga_rle_rgb565).
THEOREM CodecIsSound == LinkSpec => []CodecSound
<1>1. CodecSound
  BY CodecAgreesHolds, ChunksCoverHolds DEF CodecSound
<1> QED
  BY <1>1, PTL

\* The songs: no note begins later after its time than one pass of the GD32's loop
\* (play_rtttl, periph_buzzer_tick).
THEOREM SongsAreInTime == LinkSpec => []SongsKeepTime
<1>1. SongsKeepTime
  BY NoDriftHolds DEF SongsKeepTime
<1> QED
  BY <1>1, PTL
=============================================================================
