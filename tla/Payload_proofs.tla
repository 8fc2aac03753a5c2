--------------------------- MODULE Payload_proofs ---------------------------
(***************************************************************************)
(* What the link carries, for payloads of any size.                        *)
(*                                                                         *)
(* A picture: the two decoders give back every sequence of pixels that was *)
(* encoded, and a rectangle cut into packets arrives whole and in order    *)
(* (Codec).  A song: whatever its notes and however the loop of the GD32   *)
(* jitters, no note begins later than one pass after its time (Melody).    *)
(*                                                                         *)
(* The functions of both are recursive.  Each is given an instance of      *)
(* Recursion, which turns its definition into its equation; what it        *)
(* computes is then proved by induction on the set of the numbers for      *)
(* which the fact holds.                                                   *)
(***************************************************************************)
EXTENDS Codec, Melody, SequenceTheorems, TLAPS

Pixel == 0 .. (Base * Base - 1)
Byte == 0 .. (Base - 1)

-----------------------------------------------------------------------------
(* The recursive functions of the codec are what their equations say. *)

Left(in) == Len(in[1])
EncoderDef(f, in) ==
  LET s == in[1]
      item == RleItem(s)
  IN IF s = << >> \/ Len(item.bytes) > in[2] THEN << >>
     ELSE item.bytes \o f[<< SubSeq(s, item.n + 1, Len(s)), in[2] - Len(item.bytes) >>]

Encoder == INSTANCE Recursion WITH S <- Seq(Nat) \X Int, Size <- Left, Def <- EncoderDef

DecoderDef(f, in) ==
  LET s == in[1]
      n == (s[1] % MaxRun) + 1
      run == s[1] >= MaxRun
      used == IF run THEN 3 ELSE 1 + 2 * n
      px(i) == LET at == IF run THEN 2 ELSE 2 * i IN s[at] * Base + s[at + 1]
      fit == Largest({k \in 0 .. n : k <= in[2]})
  IN IF s = << >> \/ in[2] = 0 \/ used > Len(s) THEN << >>
     ELSE [i \in 1 .. fit |-> px(i)]
            \o f[<< SubSeq(s, used + 1, Len(s)), in[2] - fit >>]

Decoder == INSTANCE Recursion WITH S <- Seq(Nat) \X Nat, Size <- Left, Def <- DecoderDef

LEMMA BaseFacts ==
  /\ MaxRun \in Nat /\ MaxRun >= 2 /\ Base = 2 * MaxRun /\ Base \in Nat /\ Base >= 4
  /\ Pixel \subseteq Nat /\ Byte \subseteq Nat
BY CodecAssumption DEF Base, Pixel, Byte

LEMMA LargestFacts ==
  ASSUME NEW m \in Nat, NEW T, T \subseteq 0 .. m, T # {}
  PROVE  Largest(T) \in T /\ \A y \in T : y <= Largest(T)
<1>1. \E x \in T : \A y \in T : y <= x
  BY Encoder!Greatest
<1> QED
  BY <1>1 DEF Largest

LEMMA MaxFacts ==
  ASSUME NEW m \in Nat, NEW T, T \subseteq 0 .. m, T # {}
  PROVE  Max(T) \in T /\ \A y \in T : y <= Max(T)
<1>1. \E x \in T : \A y \in T : x >= y
  BY Encoder!Greatest
<1> QED
  BY <1>1 DEF Max

LEMMA TopOf ==
  ASSUME NEW k \in Nat, NEW x \in SUBSET (1 .. k + 1), k + 1 \in x
  PROVE  Max(x) = k + 1 /\ x \ {k + 1} \in SUBSET (1 .. k) /\ x \ {k + 1} \in SUBSET (1 .. k + 1)
<1>1. x \subseteq 0 .. k + 1 /\ x # {}
  OBVIOUS
<1>2. k + 1 \in Nat
  OBVIOUS
<1> DEFINE m == Max(x)
<1>3. m \in x /\ \A y \in x : y <= m
  BY <1>1, <1>2, MaxFacts
<1> HIDE DEF m
<1>4. m = k + 1
  <2>1. m \in 1 .. k + 1 /\ k + 1 <= m
    BY <1>3
  <2> QED
    BY <2>1
<1> QED
  BY <1>4 DEF m

LEMMA RestOf ==
  ASSUME NEW B, NEW s \in Seq(B), NEW n \in Nat, n <= Len(s)
  PROVE  /\ SubSeq(s, n + 1, Len(s)) \in Seq(B)
         /\ Len(SubSeq(s, n + 1, Len(s))) = Len(s) - n
         /\ \A i \in 1 .. Len(s) - n : SubSeq(s, n + 1, Len(s))[i] = s[n + i]
<1>1. \A i \in n + 1 .. Len(s) : s[i] \in B
  BY ElementOfSeq
<1> QED
  BY <1>1, SubSeqProperties

LEMMA PrefixIs ==
  ASSUME NEW B, NEW s \in Seq(B)
  PROVE  Prefix(s) = 1 .. IF Len(s) <= MaxRun THEN Len(s) ELSE MaxRun
<1> DEFINE T == {n \in 0 .. MaxRun : n <= Len(s)}
           k == IF Len(s) <= MaxRun THEN Len(s) ELSE MaxRun
<1>1. Len(s) \in Nat
  OBVIOUS
<1>2. T \subseteq 0 .. MaxRun /\ k \in T /\ \A y \in T : y <= k
  BY <1>1, BaseFacts
<1>3. Largest(T) \in T /\ \A y \in T : y <= Largest(T)
  BY <1>2, LargestFacts, BaseFacts
<1>4. Largest(T) = k
  BY <1>2, <1>3, BaseFacts
<1> QED
  BY <1>4 DEF Prefix

\* A run and a raw packet are of one pixel at least and of no more than there are.
LEMMA RunLenFacts ==
  ASSUME NEW s \in Seq(Nat), s # << >>
  PROVE  /\ RunLen(s) \in 1 .. MaxRun /\ RunLen(s) <= Len(s)
         /\ \A i \in 1 .. RunLen(s) : s[i] = s[1]
         /\ Len(s) >= 2 /\ s[2] = s[1] => RunLen(s) >= 2
         /\ RunLen(s) = 1 => Len(s) = 1 \/ s[1] # s[2]
<1> DEFINE T == {n \in Prefix(s) : \A i \in 1 .. n : s[i] = s[1]}
           k == IF Len(s) <= MaxRun THEN Len(s) ELSE MaxRun
<1>1. Len(s) \in Nat \ {0} /\ k \in 1 .. MaxRun /\ k <= Len(s) /\ Prefix(s) = 1 .. k
  BY PrefixIs, EmptySeq, BaseFacts
<1>2. T \subseteq 0 .. MaxRun /\ 1 \in T
  BY <1>1, BaseFacts
<1>3. Len(s) >= 2 /\ s[2] = s[1] => 2 \in T
  BY <1>1, BaseFacts
<1>4. Largest(T) \in T /\ \A y \in T : y <= Largest(T)
  BY <1>2, LargestFacts, BaseFacts
<1>5. RunLen(s) = Largest(T)
  BY DEF RunLen
<1>6. Len(s) >= 2 /\ s[2] = s[1] => RunLen(s) >= 2
  BY <1>3, <1>4, <1>5
<1>7. Len(s) = 1 \/ Len(s) >= 2
  <2>1. Len(s) \in Nat \ {0}
    BY EmptySeq
  <2> QED
    BY <2>1
<1>8. RunLen(s) \in 1 .. MaxRun /\ RunLen(s) <= Len(s) /\ \A i \in 1 .. RunLen(s) : s[i] = s[1]
  BY <1>1, <1>2, <1>4, <1>5, BaseFacts
<1> HIDE DEF k, T
<1> QED
  BY <1>6, <1>7, <1>8

\* A raw packet is full, or the last, or the next packet is a run.
LEMMA RawLenFacts ==
  ASSUME NEW s \in Seq(Nat), s # << >>
  PROVE  /\ RawLen(s) \in 1 .. MaxRun /\ RawLen(s) <= Len(s)
         /\ RunLen(s) = 1 => \/ RawLen(s) \in {MaxRun, Len(s)}
                             \/ RawLen(s) + 2 <= Len(s) /\ s[RawLen(s) + 1] = s[RawLen(s) + 2]
<1> DEFINE T == {1} \cup {n \in Prefix(s) : \A i \in 1 .. n : i = Len(s) \/ s[i] # s[i + 1]}
           k == IF Len(s) <= MaxRun THEN Len(s) ELSE MaxRun
           q == RawLen(s)
<1>1. Len(s) \in Nat \ {0} /\ k \in 1 .. MaxRun /\ k <= Len(s) /\ Prefix(s) = 1 .. k
  BY PrefixIs, EmptySeq, BaseFacts
<1>2. T \subseteq 0 .. MaxRun /\ 1 \in T
  BY <1>1, BaseFacts
<1>3. Largest(T) \in T /\ \A y \in T : y <= Largest(T)
  BY <1>2, LargestFacts, BaseFacts
<1>4. q = Largest(T)
  BY DEF RawLen
<1>5. q \in 1 .. k
  BY <1>1, <1>3, <1>4
<1>6. ASSUME RunLen(s) = 1, q # MaxRun, q # Len(s)
      PROVE  q + 2 <= Len(s) /\ s[q + 1] = s[q + 2]
  <2>0. q + 1 \in 1 .. k
    BY <1>1, <1>5, <1>6, BaseFacts
  <2>1. q + 1 \in Prefix(s) /\ q + 1 \notin T
    <3> HIDE DEF T, q, k
    <3> QED
      BY <2>0, <1>1, <1>3, <1>4, <1>5
  <2>2. \A i \in 1 .. q : i = Len(s) \/ s[i] # s[i + 1]
    <3>1. CASE q = 1
      <4>1. \A i \in 1 .. q : i = 1
        BY <3>1
      <4>2. Len(s) = 1 \/ s[1] # s[2]
        BY <1>6, RunLenFacts
      <4> QED
        BY <4>1, <4>2
    <3>2. CASE q # 1
      BY <3>2, <1>3, <1>4
    <3> QED
      BY <3>1, <3>2
  <2>3. PICK i \in 1 .. q + 1 : ~ (i = Len(s) \/ s[i] # s[i + 1])
    BY <2>1
  <2>4. i = q + 1
    BY <2>2, <2>3, <1>5
  <2> QED
    BY <2>3, <2>4, <1>1, <1>5, <1>6
<1> QED
  BY <1>1, <1>5, <1>6, BaseFacts

-----------------------------------------------------------------------------
(* Sequences of sequences. *)

Flattens(f, ss, n) == \A i \in 1 .. n : f[i] = IF i = 1 THEN ss[i] ELSE f[i - 1] \o ss[i]

LEMMA FlattenExists ==
  ASSUME NEW ss, NEW n \in Nat
  PROVE  \E f : f = [i \in 1 .. n |-> IF i = 1 THEN ss[i] ELSE f[i - 1] \o ss[i]]
<1> DEFINE H(f, k) == f = [i \in 1 .. k |-> IF i = 1 THEN ss[i] ELSE f[i - 1] \o ss[i]]
           T == {k \in Nat : \E f : H(f, k)}
<1>1. 0 \in T
  <2>1. H(<< >>, 0)
    OBVIOUS
  <2> QED
    BY <2>1
<1>2. ASSUME NEW k \in Nat, k \in T PROVE k + 1 \in T
  <2>1. PICK f : H(f, k)
    BY <1>2
  <2> DEFINE h == [i \in 1 .. k + 1 |-> IF i = 1 THEN ss[i] ELSE f[i - 1] \o ss[i]]
  <2>2. \A i \in 1 .. k : h[i] = f[i]
    <3> SUFFICES ASSUME NEW i \in 1 .. k PROVE h[i] = f[i]
      OBVIOUS
    <3>1. i \in 1 .. k + 1
      OBVIOUS
    <3>2. f[i] = IF i = 1 THEN ss[i] ELSE f[i - 1] \o ss[i]
      BY <2>1, Zenon
    <3> QED
      BY <3>1, <3>2, Zenon
  <2>3. \A i \in 1 .. k + 1 : h[i] = IF i = 1 THEN ss[i] ELSE h[i - 1] \o ss[i]
    <3> SUFFICES ASSUME NEW i \in 1 .. k + 1 PROVE h[i] = IF i = 1 THEN ss[i] ELSE h[i - 1] \o ss[i]
      BY Zenon
    <3>1. i # 1 => i - 1 \in 1 .. k
      OBVIOUS
    <3>2. h[i] = IF i = 1 THEN ss[i] ELSE f[i - 1] \o ss[i]
      BY Zenon
    <3> QED
      BY <2>2, <3>1, <3>2, Zenon
  <2>4. h = [i \in 1 .. k + 1 |-> h[i]]
    OBVIOUS
  <2> HIDE DEF h
  <2>5. H(h, k + 1)
    BY <2>3, <2>4
  <2> HIDE DEF H
  <2> QED
    BY <2>5
<1> HIDE DEF T
<1>3. n \in T
  BY <1>1, <1>2, Encoder!Induction
<1> QED
  BY <1>3 DEF T

LEMMA FlattenIs ==
  ASSUME NEW B, NEW ss \in Seq(B), ss # << >>
  PROVE  \E f : Flattens(f, ss, Len(ss)) /\ FlattenSeq(ss) = f[Len(ss)]
<1> DEFINE f == CHOOSE g : g = [i \in 1 .. Len(ss) |-> IF i = 1 THEN ss[i] ELSE g[i - 1] \o ss[i]]
<1>1. Len(ss) # 0 /\ Len(ss) \in Nat
  BY EmptySeq
<1>2. FlattenSeq(ss) = f[Len(ss)]
  BY <1>1, Zenon DEF FlattenSeq
<1>3. f = [i \in 1 .. Len(ss) |-> IF i = 1 THEN ss[i] ELSE f[i - 1] \o ss[i]]
  BY <1>1, FlattenExists, Zenon
<1> HIDE DEF f
<1>4. Flattens(f, ss, Len(ss))
  BY <1>3 DEF Flattens
<1> QED
  BY <1>2, <1>4

LEMMA FlattensSame ==
  ASSUME NEW n \in Nat, NEW f, NEW ff, NEW ss, NEW tt, Flattens(f, ss, n), Flattens(ff, tt, n),
         \A i \in 1 .. n : ss[i] = tt[i]
  PROVE  \A i \in 1 .. n : f[i] = ff[i]
<1> DEFINE T == {k \in Nat : k \in 1 .. n => f[k] = ff[k]}
<1>1. 0 \in T
  OBVIOUS
<1>2. ASSUME NEW k \in Nat, k \in T PROVE k + 1 \in T
  <2> SUFFICES ASSUME k + 1 \in 1 .. n PROVE f[k + 1] = ff[k + 1]
    OBVIOUS
  <2>1. /\ f[k + 1] = IF k + 1 = 1 THEN ss[k + 1] ELSE f[k] \o ss[k + 1]
        /\ ff[k + 1] = IF k + 1 = 1 THEN tt[k + 1] ELSE ff[k] \o tt[k + 1]
    BY DEF Flattens
  <2>2. k + 1 # 1 => f[k] = ff[k]
    BY <1>2
  <2> QED
    BY <2>1, <2>2
<1> HIDE DEF T
<1>3. \A k \in Nat : k \in T
  BY <1>1, <1>2, Encoder!Induction
<1> QED
  BY <1>3 DEF T

LEMMA FlattensLast ==
  ASSUME NEW n \in Nat, n > 1, NEW f, NEW ss, Flattens(f, ss, n)
  PROVE  f[n] = f[n - 1] \o ss[n]
<1>1. n \in 1 .. n /\ n # 1
  OBVIOUS
<1> QED
  BY <1>1, Zenon DEF Flattens

LEMMA FlattenEmpty == FlattenSeq(<< >>) = << >>
BY DEF FlattenSeq

LEMMA FlattenAppend ==
  ASSUME NEW B, NEW ss \in Seq(Seq(B)), NEW s \in Seq(B)
  PROVE  FlattenSeq(Append(ss, s)) = FlattenSeq(ss) \o s
<1> DEFINE tt == Append(ss, s)
           n == Len(ss)
<1>1. /\ n \in Nat /\ tt \in Seq(Seq(B)) /\ Len(tt) = n + 1 /\ tt # << >>
      /\ tt[n + 1] = s /\ \A i \in 1 .. n : tt[i] = ss[i]
  BY AppendProperties, EmptySeq
<1> HIDE DEF tt
<1>2. PICK ff : Flattens(ff, tt, n + 1) /\ FlattenSeq(tt) = ff[n + 1]
  BY <1>1, FlattenIs
<1>3. CASE n = 0
  <2>1. ss = << >>
    BY <1>3, EmptySeq
  <2>2. FlattenSeq(tt) = s
    BY <1>1, <1>2, <1>3 DEF Flattens
  <2> QED
    BY <2>1, <2>2, FlattenEmpty, ConcatEmptySeq DEF tt
<1>4. CASE n # 0
  <2>1. PICK f : Flattens(f, ss, n) /\ FlattenSeq(ss) = f[n]
    BY <1>4, EmptySeq, FlattenIs
  <2>2. Flattens(ff, tt, n)
    BY <1>1, <1>2 DEF Flattens
  <2>3. ff[n] = f[n]
    <3>1. n \in 1 .. n /\ \A i \in 1 .. n : tt[i] = ss[i]
      BY <1>1, <1>4
    <3> HIDE DEF n
    <3> QED
      BY <1>1, <2>1, <2>2, <3>1, FlattensSame
  <2>4. ff[n + 1] = ff[n] \o s
    <3> DEFINE m == n + 1
    <3>1. m \in Nat /\ m > 1 /\ m - 1 = n /\ Flattens(ff, tt, m) /\ tt[m] = s
      BY <1>1, <1>2, <1>4
    <3> HIDE DEF m, n
    <3>2. ff[m] = ff[m - 1] \o tt[m]
      BY <3>1, FlattensLast
    <3>3. ff[m] = ff[n] \o s
      BY <3>1, <3>2, Zenon
    <3> QED
      BY <3>3 DEF m
  <2> QED
    BY <1>2, <2>1, <2>3, <2>4 DEF tt
<1> QED
  BY <1>3, <1>4

LEMMA FlattenType ==
  ASSUME NEW B, NEW ss \in Seq(Seq(B))
  PROVE  FlattenSeq(ss) \in Seq(B)
<1> DEFINE n == Len(ss)
<1>1. n \in Nat /\ \A i \in 1 .. n : ss[i] \in Seq(B)
  BY ElementOfSeq
<1>2. CASE ss = << >>
  BY <1>2, FlattenEmpty, EmptySeq
<1>3. CASE ss # << >>
  <2>1. PICK f : Flattens(f, ss, n) /\ FlattenSeq(ss) = f[n]
    BY <1>3, FlattenIs
  <2> DEFINE T == {k \in Nat : k \in 1 .. n => f[k] \in Seq(B)}
  <2>2. 0 \in T
    OBVIOUS
  <2>3. ASSUME NEW k \in Nat, k \in T PROVE k + 1 \in T
    <3> SUFFICES ASSUME k + 1 \in 1 .. n PROVE f[k + 1] \in Seq(B)
      OBVIOUS
    <3>1. f[k + 1] = IF k + 1 = 1 THEN ss[k + 1] ELSE f[k] \o ss[k + 1]
      BY <2>1 DEF Flattens
    <3>2. ss[k + 1] \in Seq(B)
      BY <1>1
    <3>3. k + 1 # 1 => f[k] \in Seq(B)
      BY <2>3
    <3> QED
      BY <3>1, <3>2, <3>3, ConcatProperties
  <2> HIDE DEF T
  <2>4. \A k \in Nat : k \in T
    BY <2>2, <2>3, Encoder!Induction
  <2>5. n \in 1 .. n
    BY <1>1, <1>3, EmptySeq
  <2> QED
    BY <1>1, <2>1, <2>4, <2>5 DEF T
<1> QED
  BY <1>2, <1>3

-----------------------------------------------------------------------------
(* Pixels as bytes. *)

LEMMA DivMod ==
  ASSUME NEW p \in Nat, NEW b \in Nat, b > 0
  PROVE  p \div b \in Nat /\ p % b \in 0 .. b - 1 /\ (p \div b) * b + (p % b) = p
OBVIOUS

LEMMA DivSmall ==
  ASSUME NEW p \in Nat, NEW b \in Nat, b > 0, p < b * b
  PROVE  p \div b < b
OBVIOUS

LEMMA BytesFacts ==
  /\ \A p \in Nat : p \div Base \in Nat /\ p % Base \in Nat
  /\ \A p \in Pixel : /\ p \in Nat /\ p \div Base \in Byte /\ p % Base \in Byte
                      /\ (p \div Base) * Base + (p % Base) = p
<1>1. \A p \in Nat : /\ p \div Base \in Nat /\ p % Base \in 0 .. Base - 1
                     /\ (p \div Base) * Base + (p % Base) = p
  BY BaseFacts, DivMod
<1>2. ASSUME NEW p \in Pixel PROVE p \in Nat /\ p \div Base < Base
  <2> DEFINE b == Base
  <2>1. b \in Nat /\ b > 0
    BY BaseFacts
  <2>2. p \in 0 .. b * b - 1
    BY DEF Pixel
  <2> HIDE DEF b
  <2>3. p \in Nat /\ p < b * b
    BY <2>1, <2>2
  <2>4. p \div b < b
    BY <2>1, <2>3, DivSmall
  <2> QED
    BY <2>3, <2>4 DEF b
<1> DEFINE b == Base
<1>3. b \in Nat /\ b > 0
  BY BaseFacts
<1> HIDE DEF b
<1>4. ASSUME NEW p \in Pixel PROVE p \div b \in 0 .. b - 1
  BY <1>1, <1>2, <1>3 DEF b
<1> QED
  BY <1>1, <1>2, <1>4 DEF Byte, b

Pairs(s, n) == [i \in 1 .. n |-> Bytes(s[i])]
Halves(b, s, n) == \A i \in 1 .. n : b[2 * i - 1] = s[i] \div Base /\ b[2 * i] = s[i] % Base

LEMMA PairsOneMore ==
  ASSUME NEW s, NEW n \in Nat
  PROVE  Pairs(s, n + 1) = Append(Pairs(s, n), Bytes(s[n + 1]))
<1>1. Len(Pairs(s, n)) = n
  BY DEF Pairs
<1>2. Append(Pairs(s, n), Bytes(s[n + 1])) =
        [i \in 1 .. n + 1 |-> IF i <= n THEN Pairs(s, n)[i] ELSE Bytes(s[n + 1])]
  BY <1>1 DEF Pairs
<1> QED
  BY <1>2 DEF Pairs

PairsGood(C, s, n) ==
  /\ Pairs(s, n) \in Seq(Seq(C))
  /\ FlattenSeq(Pairs(s, n)) \in Seq(C)
  /\ Len(FlattenSeq(Pairs(s, n))) = 2 * n
  /\ Halves(FlattenSeq(Pairs(s, n)), s, n)

LEMMA PairsNext ==
  ASSUME NEW C, NEW s, NEW n \in Nat, PairsGood(C, s, n),
         s[n + 1] \div Base \in C, s[n + 1] % Base \in C
  PROVE  PairsGood(C, s, n + 1)
<1> DEFINE b == FlattenSeq(Pairs(s, n))
           c == Bytes(s[n + 1])
           d == b \o c
<1>1. /\ Pairs(s, n) \in Seq(Seq(C)) /\ b \in Seq(C) /\ Len(b) = 2 * n /\ Halves(b, s, n)
  BY DEF PairsGood
<1>2. c \in Seq(C) /\ Len(c) = 2 /\ c[1] = s[n + 1] \div Base /\ c[2] = s[n + 1] % Base
  BY DEF Bytes
<1>3. Pairs(s, n + 1) = Append(Pairs(s, n), c)
  BY PairsOneMore
<1> HIDE DEF c
<1>4. Pairs(s, n + 1) \in Seq(Seq(C)) /\ FlattenSeq(Pairs(s, n + 1)) = d
  <2>1. FlattenSeq(Append(Pairs(s, n), c)) = FlattenSeq(Pairs(s, n)) \o c
    BY <1>1, <1>2, FlattenAppend
  <2>2. Append(Pairs(s, n), c) \in Seq(Seq(C))
    BY <1>1, <1>2, AppendProperties
  <2> QED
    BY <1>3, <2>1, <2>2
<1> HIDE DEF b
<1>5. d \in Seq(C) /\ Len(d) = Len(b) + Len(c)
      /\ \A i \in 1 .. Len(b) + Len(c) : d[i] = IF i <= Len(b) THEN b[i] ELSE c[i - Len(b)]
  BY <1>1, <1>2, ConcatProperties
<1> HIDE DEF d
<1>6. Halves(d, s, n + 1)
  <2> SUFFICES ASSUME NEW i \in 1 .. n + 1
               PROVE  d[2 * i - 1] = s[i] \div Base /\ d[2 * i] = s[i] % Base
    BY DEF Halves
  <2>1. CASE i = n + 1
    BY <1>1, <1>2, <1>5, <2>1
  <2>2. CASE i # n + 1
    BY <1>1, <1>2, <1>5, <2>2 DEF Halves
  <2> QED
    BY <2>1, <2>2
<1> QED
  BY <1>1, <1>2, <1>4, <1>5, <1>6 DEF PairsGood

\* The bytes of n pixels: two each, in the order of the pixels.
LEMMA PairsFlat ==
  ASSUME NEW C, NEW s, NEW n \in Nat,
         \A i \in 1 .. n : s[i] \div Base \in C /\ s[i] % Base \in C
  PROVE  PairsGood(C, s, n)
<1> DEFINE T == {k \in Nat : k <= n => PairsGood(C, s, k)}
<1>1. 0 \in T
  <2>1. Pairs(s, 0) = << >>
    BY DEF Pairs
  <2>2. FlattenSeq(Pairs(s, 0)) = << >>
    BY <2>1, FlattenEmpty
  <2>3. Halves(<< >>, s, 0)
    BY DEF Halves
  <2>4. << >> \in Seq(C) /\ << >> \in Seq(Seq(C)) /\ Len(<< >>) = 2 * 0
    BY EmptySeq
  <2>5. PairsGood(C, s, 0)
    BY <2>1, <2>2, <2>3, <2>4, Zenon DEF PairsGood
  <2> QED
    BY <2>5
<1>2. ASSUME NEW k \in Nat, k \in T PROVE k + 1 \in T
  BY <1>2, PairsNext
<1> HIDE DEF T
<1>3. n \in T
  BY <1>1, <1>2, Encoder!Induction
<1> QED
  BY <1>3 DEF T

-----------------------------------------------------------------------------
(* The decoders of the GD32, fed with the bytes one by one. *)

Fed(kind, d, b) == IF kind = "rle" THEN RleByte(d, b) ELSE RawByte(d, b)

Folds(kind, d, s, n, g) ==
  g = [x \in SUBSET (1 .. n) |-> IF x = {} THEN d ELSE Fed(kind, g[x \ {Max(x)}], s[Max(x)])]

LEMMA FoldExists ==
  ASSUME NEW kind, NEW d, NEW s, NEW n \in Nat
  PROVE  \E g : Folds(kind, d, s, n, g)
<1> DEFINE H(g, k) == g = [x \in SUBSET (1 .. k) |->
                             IF x = {} THEN d ELSE Fed(kind, g[x \ {Max(x)}], s[Max(x)])]
           T == {k \in Nat : \E g : H(g, k)}
<1>1. 0 \in T
  <2>1. SUBSET (1 .. 0) = {{}}
    OBVIOUS
  <2>2. H([x \in {{}} |-> d], 0)
    BY <2>1
  <2> QED
    BY <2>2
<1>2. ASSUME NEW k \in Nat, k \in T PROVE k + 1 \in T
  <2>1. PICK g : H(g, k)
    BY <1>2
  <2> DEFINE h == [x \in SUBSET (1 .. k + 1) |-> IF k + 1 \in x THEN Fed(kind, g[x \ {k + 1}], s[k + 1]) ELSE g[x]]
  <2>2. \A x \in SUBSET (1 .. k) : g[x] = IF x = {} THEN d ELSE Fed(kind, g[x \ {Max(x)}], s[Max(x)])
    BY <2>1
  <2>3. ASSUME NEW x \in SUBSET (1 .. k + 1)
        PROVE  h[x] = IF x = {} THEN d ELSE Fed(kind, h[x \ {Max(x)}], s[Max(x)])
    <3>1. CASE k + 1 \in x
      <4>1. x # {}
        BY <3>1
      <4> HIDE DEF h, H, T
      <4>3. Max(x) = k + 1 /\ x \ {k + 1} \in SUBSET (1 .. k) /\ x \ {k + 1} \in SUBSET (1 .. k + 1)
        BY <3>1, TopOf
      <4> USE DEF h
      <4>4. h[x] = Fed(kind, g[x \ {k + 1}], s[k + 1])
        BY <3>1
      <4>5. h[x \ {k + 1}] = g[x \ {k + 1}]
        BY <4>3
      <4> QED
        BY <4>1, <4>3, <4>4, <4>5
    <3>2. CASE k + 1 \notin x
      <4>1. h[x] = g[x] /\ h[x \ {Max(x)}] = g[x \ {Max(x)}]
        BY <3>2
      <4>2. x \in SUBSET (1 .. k)
        BY <3>2
      <4> QED
        BY <4>1, <4>2, <2>2
    <3> QED
      BY <3>1, <3>2
  <2>4. h = [x \in SUBSET (1 .. k + 1) |-> h[x]]
    OBVIOUS
  <2> HIDE DEF h
  <2>5. H(h, k + 1)
    BY <2>3, <2>4
  <2> HIDE DEF H
  <2> QED
    BY <2>5
<1> HIDE DEF T
<1>3. n \in T
  BY <1>1, <1>2, Encoder!Induction
<1> QED
  BY <1>3 DEF T, Folds

Fold(kind, d, s) == IF kind = "rle" THEN FoldLeft(RleByte, d, s) ELSE FoldLeft(RawByte, d, s)

\* The states of a decoder on its way through the bytes s.
Follows(kind, t, d, s, n) == t[0] = d /\ \A k \in 1 .. n : t[k] = Fed(kind, t[k - 1], s[k])

LEMMA RleFolds ==
  ASSUME NEW d, NEW B, NEW s \in Seq(B)
  PROVE  \E g : Folds("rle", d, s, Len(s), g) /\ FoldLeft(RleByte, d, s) = g[1 .. Len(s)]
<1> DEFINE f == CHOOSE g : g = [x \in SUBSET (1 .. Len(s)) |->
                                  IF x = {} THEN d ELSE RleByte(g[x \ {Max(x)}], s[Max(x)])]
<1>1. DOMAIN s = 1 .. Len(s) /\ Len(s) \in Nat
  OBVIOUS
<1>2. FoldLeft(RleByte, d, s) = f[1 .. Len(s)]
  BY <1>1, Zenon DEF FoldLeft, MapThenFoldSet
<1>3. \E g : g = [x \in SUBSET (1 .. Len(s)) |-> IF x = {} THEN d ELSE RleByte(g[x \ {Max(x)}], s[Max(x)])]
  <2>1. \A g, x : Fed("rle", g[x \ {Max(x)}], s[Max(x)]) = RleByte(g[x \ {Max(x)}], s[Max(x)])
    BY DEF Fed
  <2>2. PICK g : Folds("rle", d, s, Len(s), g)
    BY <1>1, FoldExists, Zenon
  <2>3. g = [x \in SUBSET (1 .. Len(s)) |-> IF x = {} THEN d ELSE RleByte(g[x \ {Max(x)}], s[Max(x)])]
    BY <2>1, <2>2 DEF Folds
  <2> QED
    BY <2>3
<1>4. f = [x \in SUBSET (1 .. Len(s)) |-> IF x = {} THEN d ELSE RleByte(f[x \ {Max(x)}], s[Max(x)])]
  BY <1>3, Zenon
<1> HIDE DEF f
<1>5. Folds("rle", d, s, Len(s), f)
  <2>1. \A x : Fed("rle", f[x \ {Max(x)}], s[Max(x)]) = RleByte(f[x \ {Max(x)}], s[Max(x)])
    BY DEF Fed
  <2> QED
    BY <1>4, <2>1 DEF Folds
<1> QED
  BY <1>2, <1>5, Zenon

LEMMA RawFolds ==
  ASSUME NEW d, NEW B, NEW s \in Seq(B)
  PROVE  \E g : Folds("raw", d, s, Len(s), g) /\ FoldLeft(RawByte, d, s) = g[1 .. Len(s)]
<1> DEFINE f == CHOOSE g : g = [x \in SUBSET (1 .. Len(s)) |->
                                  IF x = {} THEN d ELSE RawByte(g[x \ {Max(x)}], s[Max(x)])]
<1>1. DOMAIN s = 1 .. Len(s) /\ Len(s) \in Nat
  OBVIOUS
<1>2. FoldLeft(RawByte, d, s) = f[1 .. Len(s)]
  BY <1>1, Zenon DEF FoldLeft, MapThenFoldSet
<1>3. \E g : g = [x \in SUBSET (1 .. Len(s)) |-> IF x = {} THEN d ELSE RawByte(g[x \ {Max(x)}], s[Max(x)])]
  <2>1. \A g, x : Fed("raw", g[x \ {Max(x)}], s[Max(x)]) = RawByte(g[x \ {Max(x)}], s[Max(x)])
    BY DEF Fed
  <2>2. PICK g : Folds("raw", d, s, Len(s), g)
    BY <1>1, FoldExists, Zenon
  <2>3. g = [x \in SUBSET (1 .. Len(s)) |-> IF x = {} THEN d ELSE RawByte(g[x \ {Max(x)}], s[Max(x)])]
    BY <2>1, <2>2 DEF Folds
  <2> QED
    BY <2>3
<1>4. f = [x \in SUBSET (1 .. Len(s)) |-> IF x = {} THEN d ELSE RawByte(f[x \ {Max(x)}], s[Max(x)])]
  BY <1>3, Zenon
<1> HIDE DEF f
<1>5. Folds("raw", d, s, Len(s), f)
  <2>1. \A x : Fed("raw", f[x \ {Max(x)}], s[Max(x)]) = RawByte(f[x \ {Max(x)}], s[Max(x)])
    BY DEF Fed
  <2> QED
    BY <1>4, <2>1 DEF Folds
<1> QED
  BY <1>2, <1>5, Zenon

LEMMA FoldTrace ==
  ASSUME NEW kind \in {"rle", "raw"}, NEW d, NEW B, NEW s \in Seq(B)
  PROVE  \E t : Follows(kind, t, d, s, Len(s)) /\ Fold(kind, d, s) = t[Len(s)]
<1> DEFINE n == Len(s)
<1>1. n \in Nat
  OBVIOUS
<1>2. PICK g : Folds(kind, d, s, n, g) /\ Fold(kind, d, s) = g[1 .. n]
  <2>1. CASE kind = "rle"
    BY <2>1, RleFolds, Zenon DEF Fold
  <2>2. CASE kind = "raw"
    <3>1. Fold(kind, d, s) = FoldLeft(RawByte, d, s)
      BY <2>2 DEF Fold
    <3> QED
      BY <2>2, <3>1, RawFolds, Zenon
  <2> QED
    BY <2>1, <2>2
<1>2a. \A x \in SUBSET (1 .. n) : g[x] = IF x = {} THEN d ELSE Fed(kind, g[x \ {Max(x)}], s[Max(x)])
  BY <1>2, Zenon DEF Folds
<1> HIDE DEF n
<1> DEFINE t == [k \in 0 .. n |-> g[1 .. k]]
<1>3. t[0] = d /\ t[n] = g[1 .. n]
  <2>1. 1 .. 0 = {} /\ {} \in SUBSET (1 .. n)
    OBVIOUS
  <2>2. g[{}] = d
    BY <1>2a, <2>1, Zenon
  <2>3. 0 \in 0 .. n /\ n \in 0 .. n
    BY <1>1
  <2>4. t[0] = g[1 .. 0] /\ t[n] = g[1 .. n]
    BY <2>3, Zenon
  <2> QED
    BY <2>1, <2>2, <2>4, Zenon
<1>4. ASSUME NEW k \in 1 .. n PROVE t[k] = Fed(kind, t[k - 1], s[k])
  <2>0. k \in Nat /\ k >= 1 /\ k <= n
    BY <1>1
  <2>1. 1 .. k \in SUBSET (1 .. n) /\ 1 .. k # {} /\ k - 1 \in Nat /\ k \in 1 .. k
    <3> HIDE DEF t
    <3>1. \A i \in 1 .. k : i \in 1 .. n
      BY <1>1, <2>0
    <3>2. 1 .. k \in SUBSET (1 .. n)
      BY <3>1, Zenon
    <3>3. k \in 1 .. k /\ k - 1 \in Nat
      BY <2>0
    <3> QED
      BY <3>2, <3>3
  <2>2. Max(1 .. k) = k
    BY <2>1, TopOf, k - 1 + 1 = k
  <2>3. (1 .. k) \ {k} = 1 .. k - 1
    BY <1>1
  <2>4. g[1 .. k] = Fed(kind, g[1 .. k - 1], s[k])
    BY <1>2a, <2>1, <2>2, <2>3
  <2>5. t[k] = g[1 .. k] /\ t[k - 1] = g[1 .. k - 1]
    BY <1>1
  <2> QED
    BY <2>4, <2>5
<1> HIDE DEF t
<1>5. Follows(kind, t, d, s, n) /\ Fold(kind, d, s) = t[n]
  BY <1>2, <1>3, <1>4 DEF Follows
<1> QED
  BY <1>5 DEF n

LEMMA FollowsSame ==
  ASSUME NEW kind, NEW d, NEW n \in Nat, NEW t, NEW tt, NEW s, NEW ss,
         Follows(kind, t, d, s, n), Follows(kind, tt, d, ss, n), \A k \in 1 .. n : s[k] = ss[k]
  PROVE  t[n] = tt[n]
<1> DEFINE T == {k \in Nat : k <= n => t[k] = tt[k]}
<1>1. 0 \in T
  BY DEF Follows
<1>2. ASSUME NEW k \in Nat, k \in T PROVE k + 1 \in T
  <2> SUFFICES ASSUME k + 1 <= n PROVE t[k + 1] = tt[k + 1]
    OBVIOUS
  <2>1. k + 1 \in 1 .. n /\ k + 1 - 1 = k /\ t[k] = tt[k]
    BY <1>2
  <2>2. t[k + 1] = Fed(kind, t[k], s[k + 1]) /\ tt[k + 1] = Fed(kind, tt[k], ss[k + 1])
    BY <2>1 DEF Follows
  <2> QED
    BY <2>1, <2>2
<1> HIDE DEF T
<1>3. n \in T
  BY <1>1, <1>2, Encoder!Induction
<1> QED
  BY <1>3 DEF T

LEMMA FoldEmpty ==
  ASSUME NEW kind \in {"rle", "raw"}, NEW d
  PROVE  Fold(kind, d, << >>) = d
<1>1. << >> \in Seq(Nat) /\ Len(<< >>) = 0
  BY EmptySeq
<1>2. PICK t : Follows(kind, t, d, << >>, Len(<< >>)) /\ Fold(kind, d, << >>) = t[Len(<< >>)]
  BY <1>1, FoldTrace, Zenon
<1> QED
  BY <1>1, <1>2 DEF Follows

LEMMA FoldAppend ==
  ASSUME NEW kind \in {"rle", "raw"}, NEW d, NEW B, NEW s \in Seq(B), NEW b \in B
  PROVE  Fold(kind, d, Append(s, b)) = Fed(kind, Fold(kind, d, s), b)
<1> DEFINE ss == Append(s, b)
           n == Len(s)
<1>1. /\ n \in Nat /\ ss \in Seq(B) /\ Len(ss) = n + 1 /\ ss[n + 1] = b
      /\ \A k \in 1 .. n : s[k] = ss[k]
  BY AppendProperties
<1> HIDE DEF ss
<1>2. PICK t : Follows(kind, t, d, s, n) /\ Fold(kind, d, s) = t[n]
  BY FoldTrace
<1>3. PICK tt : Follows(kind, tt, d, ss, n + 1) /\ Fold(kind, d, ss) = tt[n + 1]
  BY <1>1, FoldTrace
<1> HIDE DEF n
<1>4. Follows(kind, tt, d, ss, n)
  BY <1>1, <1>3 DEF Follows
<1>5. t[n] = tt[n]
  BY <1>1, <1>2, <1>4, FollowsSame
<1>6. tt[n + 1] = Fed(kind, tt[n], b)
  <2>1. n + 1 \in 1 .. n + 1 /\ n + 1 - 1 = n
    BY <1>1
  <2> QED
    BY <1>1, <1>3, <2>1 DEF Follows
<1> QED
  BY <1>2, <1>3, <1>5, <1>6 DEF ss

LEMMA SeqInduction ==
  ASSUME NEW B, NEW T, << >> \in T, \A s \in Seq(B), b \in B : s \in T => Append(s, b) \in T
  PROVE  \A s \in Seq(B) : s \in T
<1> DEFINE N == {n \in Nat : \A s \in Seq(B) : Len(s) = n => s \in T}
<1>1. 0 \in N
  <2>1. \A s \in Seq(B) : Len(s) = 0 => s = << >>
    BY EmptySeq
  <2> QED
    BY <2>1
<1>2. ASSUME NEW n \in Nat, n \in N PROVE n + 1 \in N
  <2> SUFFICES ASSUME NEW s \in Seq(B), Len(s) = n + 1 PROVE s \in T
    OBVIOUS
  <2>1. s # << >>
    BY EmptySeq
  <2>2. PICK u \in Seq(B), b \in B : s = Append(u, b)
    BY <2>1, SequenceEmptyOrAppend
  <2>3. Len(u) = n
    BY <2>2, AppendProperties
  <2>4. u \in T
    BY <1>2, <2>3
  <2> QED
    BY <2>2, <2>4
<1> HIDE DEF N
<1>3. \A n \in Nat : n \in N
  BY <1>1, <1>2, Encoder!Induction
<1> SUFFICES ASSUME NEW s \in Seq(B) PROVE s \in T
  OBVIOUS
<1>4. Len(s) \in Nat
  OBVIOUS
<1> QED
  BY <1>3, <1>4 DEF N

\* A packet in two parts is taken as the two, one after the other.
LEMMA FoldConcat ==
  ASSUME NEW kind \in {"rle", "raw"}, NEW d, NEW B, NEW s \in Seq(B)
  PROVE  \A u \in Seq(B) : Fold(kind, d, s \o u) = Fold(kind, Fold(kind, d, s), u)
<1> DEFINE T == {u \in Seq(B) : Fold(kind, d, s \o u) = Fold(kind, Fold(kind, d, s), u)}
<1>1. << >> \in T
  <2>1. s \o << >> = s /\ << >> \in Seq(B)
    BY ConcatEmptySeq, EmptySeq
  <2>2. Fold(kind, Fold(kind, d, s), << >>) = Fold(kind, d, s)
    BY FoldEmpty
  <2> QED
    BY <2>1, <2>2
<1>2. ASSUME NEW u \in Seq(B), NEW b \in B, u \in T PROVE Append(u, b) \in T
  <2>1. Append(u, b) \in Seq(B) /\ s \o u \in Seq(B)
    BY AppendProperties, ConcatProperties
  <2>2. s \o Append(u, b) = Append(s \o u, b)
    <3>1. << b >> \in Seq(B)
      OBVIOUS
    <3>2. Append(u, b) = u \o << b >> /\ Append(s \o u, b) = (s \o u) \o << b >>
      BY <2>1, AppendIsConcat
    <3> QED
      BY <3>1, <3>2, ConcatAssociative
  <2>3. Fold(kind, d, Append(s \o u, b)) = Fed(kind, Fold(kind, d, s \o u), b)
    <3> DEFINE v == s \o u
    <3>1. v \in Seq(B)
      BY <2>1
    <3> HIDE DEF v
    <3>2. Fold(kind, d, Append(v, b)) = Fed(kind, Fold(kind, d, v), b)
      BY <3>1, FoldAppend
    <3> QED
      BY <3>2 DEF v
  <2>4. Fold(kind, Fold(kind, d, s), Append(u, b)) = Fed(kind, Fold(kind, Fold(kind, d, s), u), b)
    BY FoldAppend
  <2> QED
    BY <1>2, <2>1, <2>2, <2>3, <2>4
<1> HIDE DEF T
<1>3. \A u \in Seq(B) : u \in T
  BY <1>1, <1>2, SeqInduction
<1> QED
  BY <1>3 DEF T

LEMMA FoldOne ==
  ASSUME NEW kind \in {"rle", "raw"}, NEW d, NEW a
  PROVE  Fold(kind, d, << a >>) = Fed(kind, d, a)
<1> DEFINE e == << >>
           B == {a}
<1>1. e \in Seq(B) /\ a \in B /\ << a >> = Append(e, a)
  BY EmptySeq
<1>2. Fold(kind, d, e) = d
  BY FoldEmpty
<1> HIDE DEF e, B
<1>3. Fold(kind, d, Append(e, a)) = Fed(kind, Fold(kind, d, e), a)
  BY <1>1, FoldAppend
<1> QED
  BY <1>1, <1>2, <1>3

LEMMA FoldTwo ==
  ASSUME NEW kind \in {"rle", "raw"}, NEW d, NEW a, NEW b
  PROVE  Fold(kind, d, << a, b >>) = Fed(kind, Fed(kind, d, a), b)
<1> DEFINE e == << a >>
           B == {a, b}
<1>1. e \in Seq(B) /\ b \in B /\ << a, b >> = Append(e, b)
  OBVIOUS
<1>2. Fold(kind, d, e) = Fed(kind, d, a)
  BY FoldOne
<1> HIDE DEF e, B
<1>3. Fold(kind, d, Append(e, b)) = Fed(kind, Fold(kind, d, e), b)
  BY <1>1, FoldAppend
<1> QED
  BY <1>1, <1>2, <1>3

-----------------------------------------------------------------------------
(* One item of the encoder: a run or a raw packet. *)

ItemLen(s) == IF RunLen(s) >= 2 THEN 3 ELSE 1 + 2 * RawLen(s)

LEMMA RunItem ==
  ASSUME NEW s, RunLen(s) >= 2
  PROVE  /\ RleItem(s).n = RunLen(s)
         /\ RleItem(s).bytes = << MaxRun + RunLen(s) - 1 >> \o Bytes(s[1])
BY DEF RleItem

LEMMA RawItem ==
  ASSUME NEW s, ~ (RunLen(s) >= 2)
  PROVE  /\ RleItem(s).n = RawLen(s)
         /\ RleItem(s).bytes = << RawLen(s) - 1 >> \o FlattenSeq(Pairs(s, RawLen(s)))
BY DEF RleItem, Pairs

LEMMA ItemFacts ==
  ASSUME NEW C, 0 .. Base - 1 \subseteq C, NEW s \in Seq(Nat), s # << >>,
         \A i \in 1 .. Len(s) : s[i] \div Base \in C /\ s[i] % Base \in C
  PROVE  /\ RleItem(s).n \in 1 .. Len(s)
         /\ RleItem(s).bytes \in Seq(C)
         /\ Len(RleItem(s).bytes) = ItemLen(s)
<1> DEFINE r == RunLen(s)
           q == RawLen(s)
<1>1. /\ r \in 1 .. MaxRun /\ r <= Len(s) /\ q \in 1 .. MaxRun /\ q <= Len(s)
      /\ Len(s) \in Nat /\ Len(s) >= 1
  <2>1. Len(s) \in Nat /\ Len(s) >= 1
    BY EmptySeq
  <2> QED
    BY <2>1, RunLenFacts, RawLenFacts
<1>2. CASE r >= 2
  <2>1. RleItem(s).n = r /\ RleItem(s).bytes = << MaxRun + r - 1 >> \o Bytes(s[1])
    BY <1>2, RunItem
  <2>2. MaxRun + r - 1 \in C /\ s[1] \div Base \in C /\ s[1] % Base \in C
    <3>1. MaxRun + r - 1 \in 0 .. Base - 1
      <4> HIDE DEF r, q
      <4> QED
        BY <1>1, BaseFacts
    <3> QED
      BY <1>1, <3>1
  <2>3. << MaxRun + r - 1 >> \in Seq(C) /\ Bytes(s[1]) \in Seq(C) /\ Len(Bytes(s[1])) = 2
        /\ Len(<< MaxRun + r - 1 >>) = 1
    BY <2>2 DEF Bytes
  <2>4. RleItem(s).bytes \in Seq(C) /\ Len(RleItem(s).bytes) = 3
    <3> DEFINE a == << MaxRun + r - 1 >>
               b == Bytes(s[1])
    <3>1. RleItem(s).bytes = a \o b /\ a \in Seq(C) /\ b \in Seq(C) /\ Len(a) = 1 /\ Len(b) = 2
      BY <2>1, <2>3
    <3> HIDE DEF a, b
    <3>2. a \o b \in Seq(C) /\ Len(a \o b) = Len(a) + Len(b)
      BY <3>1, ConcatProperties
    <3> QED
      BY <3>1, <3>2
  <2> QED
    BY <1>1, <1>2, <2>1, <2>4 DEF ItemLen
<1>3. CASE ~ (r >= 2)
  <2> DEFINE b == FlattenSeq(Pairs(s, q))
  <2>1. RleItem(s).n = q /\ RleItem(s).bytes = << q - 1 >> \o b
    BY <1>3, RawItem
  <2>2. b \in Seq(C) /\ Len(b) = 2 * q
    <3>1. q \in Nat /\ \A i \in 1 .. q : s[i] \div Base \in C /\ s[i] % Base \in C
      BY <1>1
    <3>2. PairsGood(C, s, q)
      BY <3>1, PairsFlat
    <3> QED
      BY <3>2 DEF PairsGood
  <2>3. q - 1 \in C
    BY <1>1, BaseFacts
  <2>4. << q - 1 >> \in Seq(C) /\ Len(<< q - 1 >>) = 1
    BY <2>3
  <2> HIDE DEF b
  <2>5. RleItem(s).bytes \in Seq(C) /\ Len(RleItem(s).bytes) = 1 + 2 * q
    BY <2>1, <2>2, <2>4, ConcatProperties
  <2> QED
    BY <1>1, <1>3, <2>1, <2>5 DEF ItemLen
<1> QED
  BY <1>2, <1>3

LEMMA NatItem ==
  ASSUME NEW s \in Seq(Nat), s # << >>
  PROVE  /\ RleItem(s).n \in 1 .. Len(s)
         /\ RleItem(s).bytes \in Seq(Nat)
         /\ Len(RleItem(s).bytes) = ItemLen(s)
         /\ ItemLen(s) \in Nat
<1>1. \A i \in 1 .. Len(s) : s[i] \div Base \in Nat /\ s[i] % Base \in Nat
  BY BytesFacts, ElementOfSeq
<1>2. 0 .. Base - 1 \subseteq Nat
  BY BaseFacts
<1>3. ItemLen(s) \in Nat
  BY RawLenFacts DEF ItemLen
<1> QED
  BY <1>1, <1>2, <1>3, ItemFacts

LEMMA PixelSeq ==
  ASSUME NEW s \in Seq(Pixel)
  PROVE  s \in Seq(Nat)
BY BaseFacts, SeqMonotonic

LEMMA PixelItem ==
  ASSUME NEW s \in Seq(Pixel), s # << >>
  PROVE  RleItem(s).bytes \in Seq(Byte)
<1>1. \A i \in 1 .. Len(s) : s[i] \div Base \in Byte /\ s[i] % Base \in Byte
  BY BytesFacts, ElementOfSeq
<1> QED
  BY <1>1, PixelSeq, ItemFacts DEF Byte

-----------------------------------------------------------------------------
(* The encoder, unfolded. *)

LEMMA EncoderSized == Encoder!Sized
BY DEF Encoder!Sized, Left

LEMMA EncoderLooksDown == Encoder!LooksDown
<1> SUFFICES ASSUME NEW g, NEW h, NEW x \in Seq(Nat) \X Int,
                    \A y \in Seq(Nat) \X Int : Left(y) < Left(x) => g[y] = h[y]
             PROVE  EncoderDef(g, x) = EncoderDef(h, x)
  BY Zenon DEF Encoder!LooksDown
<1>1. CASE x[1] = << >>
  BY <1>1 DEF EncoderDef
<1>2. CASE x[1] # << >>
  <2> DEFINE s == x[1]
             item == RleItem(s)
             u == SubSeq(s, item.n + 1, Len(s))
             r == x[2] - Len(item.bytes)
  <2>1. s \in Seq(Nat) /\ x[2] \in Int /\ item.n \in 1 .. Len(s) /\ Len(item.bytes) \in Nat
        /\ Len(s) \in Nat
    BY <1>2, NatItem
  <2>2. u \in Seq(Nat) /\ Len(u) < Len(s)
    <3> HIDE DEF s, item
    <3>1. item.n \in Nat /\ item.n <= Len(s)
      BY <2>1
    <3>2. u \in Seq(Nat) /\ Len(u) = Len(s) - item.n
      BY <2>1, <3>1, RestOf
    <3> HIDE DEF u
    <3> QED
      BY <2>1, <3>2
  <2>3. r \in Int
    BY <2>1
  <2>4. << u, r >> \in Seq(Nat) \X Int /\ Left(<< u, r >>) < Left(x)
    <3>1. Left(x) = Len(s) /\ Left(<< u, r >>) = Len(u)
      BY DEF Left
    <3> HIDE DEF s, item, u, r
    <3> QED
      BY <2>2, <2>3, <3>1
  <2>5. g[<< u, r >>] = h[<< u, r >>]
    BY <2>4
  <2> QED
    BY <2>5, Zenon DEF EncoderDef
<1> QED
  BY <1>1, <1>2

LEMMA EncoderIs ==
  ASSUME NEW s \in Seq(Nat), NEW room \in Int
  PROVE  encode_tga_rle_rgb565[<< s, room >>] =
           IF s = << >> \/ Len(RleItem(s).bytes) > room THEN << >>
           ELSE RleItem(s).bytes
                  \o encode_tga_rle_rgb565[<< SubSeq(s, RleItem(s).n + 1, Len(s)),
                                              room - Len(RleItem(s).bytes) >>]
<1> DEFINE D == Seq(Nat) \X Int
           f == encode_tga_rle_rgb565
<1>1. \E g : g = [x \in D |-> EncoderDef(g, x)]
  BY EncoderSized, EncoderLooksDown, Encoder!RecursionDefines
<1>2. f = [x \in D |-> EncoderDef(f, x)]
  BY <1>1, Zenon DEF encode_tga_rle_rgb565, EncoderDef
<1> HIDE DEF f
<1>3. << s, room >> \in D
  OBVIOUS
<1>4. f[<< s, room >>] = EncoderDef(f, << s, room >>)
  BY <1>2, <1>3, Zenon
<1>5. << s, room >>[1] = s /\ << s, room >>[2] = room
  OBVIOUS
<1>6. f[<< s, room >>] =
        IF s = << >> \/ Len(RleItem(s).bytes) > room THEN << >>
        ELSE RleItem(s).bytes \o f[<< SubSeq(s, RleItem(s).n + 1, Len(s)), room - Len(RleItem(s).bytes) >>]
  BY <1>4, <1>5, Zenon DEF EncoderDef
<1> QED
  BY <1>6 DEF f

-----------------------------------------------------------------------------
(* One item in the decoder of the GD32. *)

RleState == [sub : {"header", "hi", "lo"}, run : BOOLEAN, n : Nat, hi : Nat, out : Seq(Nat)]

\* Between two items, the pixels o on the panel.
Between(d, o) == d \in RleState /\ d.sub = "header" /\ d.out = o

\* In a raw item, n pixels still to come.
Within(d, n, o) == /\ d \in RleState /\ d.run = FALSE /\ d.n = n /\ d.out = o
                   /\ d.sub = IF n = 0 THEN "header" ELSE "hi"

LEMMA ModSmall ==
  ASSUME NEW p \in Nat, NEW b \in Nat, p < b
  PROVE  p % b = p
OBVIOUS

LEMMA ModPlus ==
  ASSUME NEW p \in Nat, NEW b \in Nat, p < b
  PROVE  (b + p) % b = p
OBVIOUS

LEMMA HeaderByte ==
  ASSUME NEW d \in RleState, d.sub = "header", NEW b \in Nat
  PROVE  /\ RleByte(d, b) \in RleState
         /\ RleByte(d, b).sub = "hi" /\ RleByte(d, b).run = (b >= MaxRun)
         /\ RleByte(d, b).n = (b % MaxRun) + 1 /\ RleByte(d, b).out = d.out
<1>1. RleByte(d, b) = [d EXCEPT !.sub = "hi", !.run = b >= MaxRun, !.n = (b % MaxRun) + 1]
  BY DEF RleByte
<1> DEFINE n == (b % MaxRun) + 1
           run == b >= MaxRun
<1>2. n \in Nat
  BY BaseFacts, DivMod
<1>3. run \in BOOLEAN
  OBVIOUS
<1>4. RleByte(d, b) = [d EXCEPT !.sub = "hi", !.run = run, !.n = n]
  BY <1>1
<1> HIDE DEF n, run
<1>5. /\ RleByte(d, b) \in RleState /\ RleByte(d, b).sub = "hi" /\ RleByte(d, b).run = run
      /\ RleByte(d, b).n = n /\ RleByte(d, b).out = d.out
  BY <1>2, <1>3, <1>4 DEF RleState
<1> QED
  BY <1>5 DEF n, run

LEMMA HighByte ==
  ASSUME NEW d \in RleState, d.sub = "hi", NEW b \in Nat
  PROVE  RleByte(d, b) = [d EXCEPT !.sub = "lo", !.hi = b]
BY DEF RleByte

LEMMA LowByteOfRun ==
  ASSUME NEW d \in RleState, d.sub = "lo", d.run = TRUE, NEW b \in Nat
  PROVE  RleByte(d, b) = [d EXCEPT !.sub = "header", !.n = 0,
                                   !.out = @ \o [i \in 1 .. d.n |-> d.hi * Base + b]]
BY DEF RleByte

LEMMA LowByteOfRaw ==
  ASSUME NEW d \in RleState, d.sub = "lo", d.run = FALSE, NEW b \in Nat
  PROVE  RleByte(d, b) = [d EXCEPT !.sub = IF d.n = 1 THEN "header" ELSE "hi",
                                   !.n = @ - 1, !.out = Append(@, d.hi * Base + b)]
BY DEF RleByte

LEMMA FeedRun ==
  ASSUME NEW d, NEW o \in Seq(Nat), Between(d, o), NEW r \in 1 .. MaxRun, NEW p \in Pixel
  PROVE  Between(Fold("rle", d, << MaxRun + r - 1 >> \o Bytes(p)), o \o [i \in 1 .. r |-> p])
<1> DEFINE h == MaxRun + r - 1
           x == p \div Base
           y == p % Base
           d1 == RleByte(d, h)
           d2 == RleByte(d1, x)
           d3 == RleByte(d2, y)
           c == << h >>
<1>1. h \in Nat /\ h >= MaxRun /\ (h % MaxRun) + 1 = r
  <2> DEFINE k == r - 1
  <2>1. k \in Nat /\ k < MaxRun /\ h = MaxRun + k /\ MaxRun \in Nat /\ r = k + 1
    BY BaseFacts
  <2> HIDE DEF k, h
  <2>2. (MaxRun + k) % MaxRun = k
    BY <2>1, ModPlus
  <2> QED
    BY <2>1, <2>2
<1>2. p \in Nat /\ x \in Nat /\ y \in Nat /\ x * Base + y = p /\ Bytes(p) = << x, y >>
  BY BytesFacts DEF Bytes
<1> HIDE DEF h, x, y
<1>3. Fold("rle", d, c \o Bytes(p)) = d3
  <2>1. c \in Seq(Nat) /\ Bytes(p) \in Seq(Nat)
    BY <1>1, <1>2
  <2>2. Fold("rle", d, c) = d1
    BY FoldOne DEF Fed
  <2>3. Fold("rle", d1, Bytes(p)) = d3
    BY <1>2, FoldTwo DEF Fed
  <2> HIDE DEF c
  <2>4. Fold("rle", d, c \o Bytes(p)) = Fold("rle", Fold("rle", d, c), Bytes(p))
    BY <2>1, FoldConcat
  <2> QED
    BY <2>2, <2>3, <2>4
<1>4. /\ d1 \in RleState /\ d1.sub = "hi" /\ d1.run = TRUE /\ d1.n = r /\ d1.out = o
  BY <1>1, HeaderByte DEF Between
<1> HIDE DEF d1
<1>5. d2 = [d1 EXCEPT !.sub = "lo", !.hi = x]
  BY <1>2, <1>4, HighByte, Zenon
<1>6. /\ d2 \in RleState /\ d2.sub = "lo" /\ d2.run = TRUE /\ d2.n = r /\ d2.out = o /\ d2.hi = x
  BY <1>2, <1>4, <1>5 DEF RleState
<1> HIDE DEF d2
<1>7. d3 = [d2 EXCEPT !.sub = "header", !.n = 0, !.out = @ \o [i \in 1 .. r |-> p]]
  <2>1. d3 = [d2 EXCEPT !.sub = "header", !.n = 0,
                        !.out = @ \o [i \in 1 .. d2.n |-> d2.hi * Base + y]]
    BY <1>2, <1>6, LowByteOfRun, Zenon
  <2>2. [i \in 1 .. d2.n |-> d2.hi * Base + y] = [i \in 1 .. r |-> p]
    BY <1>2, <1>6
  <2> QED
    BY <2>1, <2>2
<1> HIDE DEF d3
<1>8. o \o [i \in 1 .. r |-> p] \in Seq(Nat)
  <2>1. [i \in 1 .. r |-> p] \in Seq(Nat)
    BY <1>2
  <2> QED
    BY <2>1, ConcatProperties
<1>9. d3 \in RleState /\ d3.sub = "header" /\ d3.out = o \o [i \in 1 .. r |-> p]
  BY <1>6, <1>7, <1>8 DEF RleState
<1> QED
  BY <1>3, <1>9 DEF Between, h

LEMMA SubSeqGrows ==
  ASSUME NEW B, NEW o \in Seq(B), NEW s \in Seq(B), NEW k \in Nat, k < Len(s)
  PROVE  /\ SubSeq(s, 1, k) \in Seq(B) /\ Len(SubSeq(s, 1, k)) = k
         /\ \A i \in 1 .. k : SubSeq(s, 1, k)[i] = s[i]
         /\ o \o SubSeq(s, 1, k) \in Seq(B)
         /\ o \o SubSeq(s, 1, k + 1) = Append(o \o SubSeq(s, 1, k), s[k + 1])
<1> DEFINE m == k + 1
           u == SubSeq(s, 1, k)
<1>1. m \in 1 .. Len(s) /\ m - 1 = k /\ 1 \in 1 .. Len(s) /\ m \in 1 .. Len(s) /\ s[m] \in B
      /\ k \in Int /\ \A i \in 1 .. k : s[i] \in B
  <2>1. Len(s) \in Nat
    OBVIOUS
  <2>2. m \in 1 .. Len(s) /\ 1 \in 1 .. Len(s)
    BY <2>1
  <2> QED
    BY <2>1, <2>2, ElementOfSeq
<1>2. u \in Seq(B) /\ Len(u) = k /\ \A i \in 1 .. k : u[i] = s[i]
  BY <1>1, SubSeqProperties
<1>3. SubSeq(s, 1, m) = SubSeq(s, 1, m - 1) \o << s[m] >>
  <2> HIDE DEF m
  <2>1. 1 \in 1 .. Len(s) /\ m \in 1 .. Len(s)
    BY <1>1
  <2> QED
    BY <2>1, SubSeqRecursiveSecond
<1> HIDE DEF m, u
<1>4. << s[m] >> \in Seq(B) /\ o \o u \in Seq(B)
  BY <1>1, <1>2, ConcatProperties
<1>5. Append(o \o u, s[m]) = (o \o u) \o << s[m] >>
  BY <1>1, <1>4, AppendIsConcat
<1>6. (o \o u) \o << s[m] >> = o \o (u \o << s[m] >>)
  BY <1>2, <1>4, ConcatAssociative
<1>7. SubSeq(s, 1, m) = u \o << s[m] >>
  BY <1>1, <1>3 DEF u
<1>8. o \o SubSeq(s, 1, m) = Append(o \o u, s[m])
  BY <1>5, <1>6, <1>7
<1> QED
  BY <1>2, <1>4, <1>8 DEF m, u

LEMMA NatGrows ==
  \A o, s \in Seq(Nat), k \in Nat : k < Len(s) =>
    /\ o \o SubSeq(s, 1, k) \in Seq(Nat)
    /\ o \o SubSeq(s, 1, k + 1) = Append(o \o SubSeq(s, 1, k), s[k + 1])
<1> SUFFICES ASSUME NEW o \in Seq(Nat), NEW s \in Seq(Nat), NEW k \in Nat, k < Len(s)
             PROVE  /\ o \o SubSeq(s, 1, k) \in Seq(Nat)
                    /\ o \o SubSeq(s, 1, k + 1) = Append(o \o SubSeq(s, 1, k), s[k + 1])
  BY Zenon
<1>1. o \o SubSeq(s, 1, k) \in Seq(Nat)
  BY SubSeqGrows
<1>2. o \o SubSeq(s, 1, k + 1) = Append(o \o SubSeq(s, 1, k), s[k + 1])
  BY SubSeqGrows
<1> QED
  BY <1>1, <1>2

LEMMA PixelBytes ==
  ASSUME NEW p \in Pixel
  PROVE  Bytes(p) \in Seq(Nat) /\ Bytes(p) \in Seq(Byte) /\ Len(Bytes(p)) = 2
BY BytesFacts DEF Bytes

LEMMA PairsFlatNext ==
  ASSUME NEW s \in Seq(Pixel), NEW k \in Nat, k < Len(s)
  PROVE  /\ FlattenSeq(Pairs(s, k)) \in Seq(Nat)
         /\ FlattenSeq(Pairs(s, k + 1)) = FlattenSeq(Pairs(s, k)) \o Bytes(s[k + 1])
<1>1. \A i \in 1 .. Len(s) : s[i] \div Base \in Nat /\ s[i] % Base \in Nat
  BY PixelSeq, BytesFacts, ElementOfSeq
<1>2. Len(s) \in Nat
  OBVIOUS
<1>3. \A i \in 1 .. k : s[i] \div Base \in Nat /\ s[i] % Base \in Nat
  BY <1>1, <1>2
<1>4. PairsGood(Nat, s, k)
  BY <1>3, PairsFlat
<1>5. Bytes(s[k + 1]) \in Seq(Nat)
  <2>1. k + 1 \in 1 .. Len(s)
    BY <1>2
  <2> QED
    BY <1>1, <2>1 DEF Bytes
<1>6. FlattenSeq(Append(Pairs(s, k), Bytes(s[k + 1]))) = FlattenSeq(Pairs(s, k)) \o Bytes(s[k + 1])
  BY <1>4, <1>5, FlattenAppend DEF PairsGood
<1> QED
  BY <1>4, <1>6, PairsOneMore DEF PairsGood

LEMMA FeedPixel ==
  ASSUME NEW d, NEW n \in Nat, NEW o \in Seq(Nat), Within(d, n + 1, o), NEW p \in Pixel
  PROVE  Within(Fold("rle", d, Bytes(p)), n, Append(o, p))
<1> DEFINE x == p \div Base
           y == p % Base
           d2 == RleByte(d, x)
           d3 == RleByte(d2, y)
<1>1. p \in Nat /\ x \in Nat /\ y \in Nat /\ x * Base + y = p /\ Bytes(p) = << x, y >>
  BY BytesFacts DEF Bytes
<1> HIDE DEF x, y
<1>2. Fold("rle", d, Bytes(p)) = d3
  BY <1>1, FoldTwo DEF Fed
<1>3. d \in RleState /\ d.sub = "hi" /\ d.run = FALSE /\ d.n = n + 1 /\ d.out = o
  BY DEF Within
<1>4. d2 = [d EXCEPT !.sub = "lo", !.hi = x]
  BY <1>1, <1>3, HighByte, Zenon
<1>5. d2 \in RleState /\ d2.sub = "lo" /\ d2.run = FALSE /\ d2.n = n + 1 /\ d2.out = o /\ d2.hi = x
  BY <1>1, <1>3, <1>4 DEF RleState
<1> HIDE DEF d2
<1>6. d3 = [d2 EXCEPT !.sub = IF d2.n = 1 THEN "header" ELSE "hi",
                      !.n = @ - 1, !.out = Append(@, d2.hi * Base + y)]
  BY <1>1, <1>5, LowByteOfRaw, Zenon
<1>7. Append(o, p) \in Seq(Nat)
  BY <1>1, AppendProperties
<1> DEFINE sub == IF n = 0 THEN "header" ELSE "hi"
<1>6a. d3 = [d2 EXCEPT !.sub = sub, !.n = n, !.out = Append(o, p)]
  <2>1. /\ (IF d2.n = 1 THEN "header" ELSE "hi") = sub /\ d2.n - 1 = n
        /\ Append(d2.out, d2.hi * Base + y) = Append(o, p)
    BY <1>1, <1>5
  <2> QED
    BY <1>6, <2>1
<1>6b. sub \in {"header", "hi", "lo"}
  OBVIOUS
<1> HIDE DEF d3, sub
<1>8. /\ d3 \in RleState /\ d3.run = FALSE /\ d3.n = n /\ d3.out = Append(o, p)
      /\ d3.sub = sub
  BY <1>5, <1>6a, <1>6b, <1>7 DEF RleState
<1> QED
  BY <1>2, <1>8 DEF Within, sub

LEMMA FeedPixels ==
  ASSUME NEW d, NEW o \in Seq(Nat), NEW s \in Seq(Pixel), NEW q \in Nat, q <= Len(s), Within(d, q, o)
  PROVE  Within(Fold("rle", d, FlattenSeq(Pairs(s, q))), 0, o \o SubSeq(s, 1, q))
<1> DEFINE At(k) == Within(Fold("rle", d, FlattenSeq(Pairs(s, k))), q - k, o \o SubSeq(s, 1, k))
           T == {k \in Nat : k <= q => At(k)}
<1>0. s \in Seq(Nat) /\ Len(s) \in Nat
  BY PixelSeq
<1>1. 0 \in T
  <2>1. Pairs(s, 0) = << >> /\ SubSeq(s, 1, 0) = << >>
    BY SubSeqEmpty DEF Pairs
  <2>2. FlattenSeq(Pairs(s, 0)) = << >>
    BY <2>1, FlattenEmpty
  <2>3. Fold("rle", d, FlattenSeq(Pairs(s, 0))) = d
    BY <2>2, FoldEmpty
  <2>4. o \o SubSeq(s, 1, 0) = o /\ q - 0 = q
    BY <2>1, ConcatEmptySeq
  <2> QED
    BY <2>3, <2>4
<1>2. ASSUME NEW k \in Nat, k \in T PROVE k + 1 \in T
  <2> SUFFICES ASSUME k + 1 <= q PROVE At(k + 1)
    OBVIOUS
  <2> DEFINE b == FlattenSeq(Pairs(s, k))
             m == k + 1
             c == Bytes(s[m])
             u == o \o SubSeq(s, 1, k)
  <2>1. k < Len(s) /\ m \in 1 .. Len(s)
    BY <1>0
  <2>2. b \in Seq(Nat) /\ FlattenSeq(Pairs(s, m)) = b \o c
    BY <2>1, PairsFlatNext
  <2>3. u \in Seq(Nat) /\ o \o SubSeq(s, 1, m) = Append(u, s[m])
    BY <1>0, <2>1, NatGrows, Zenon
  <2>4. s[m] \in Pixel
    BY <2>1, ElementOfSeq
  <2>5. c \in Seq(Nat)
    BY <2>4, PixelBytes
  <2>6. At(k)
    BY <1>2, <2>1
  <2> HIDE DEF b, u
  <2>7. Fold("rle", d, b \o c) = Fold("rle", Fold("rle", d, b), c)
    <3> HIDE DEF c
    <3> QED
      BY <2>2, <2>5, FoldConcat
  <2> DEFINE e == Fold("rle", d, b)
             n == q - m
  <2>8. n \in Nat /\ Within(e, n + 1, u)
    BY <2>1, <2>6 DEF b, u
  <2> HIDE DEF e, n, m
  <2>9. Within(Fold("rle", e, c), n, Append(u, s[m]))
    BY <2>3, <2>4, <2>8, FeedPixel
  <2> HIDE DEF c
  <2>10. Within(Fold("rle", d, FlattenSeq(Pairs(s, m))), n, o \o SubSeq(s, 1, m))
    BY <2>2, <2>3, <2>7, <2>9 DEF e
  <2> QED
    BY <2>10 DEF m, n
<1> HIDE DEF T
<1>3. q \in T
  BY <1>1, <1>2, Encoder!Induction
<1> QED
  BY <1>3 DEF T

\* An item brings its pixels to the panel and leaves the decoder between two items.
LEMMA FeedItem ==
  ASSUME NEW d, NEW o \in Seq(Nat), Between(d, o), NEW s \in Seq(Pixel), s # << >>
  PROVE  Between(Fold("rle", d, RleItem(s).bytes), o \o SubSeq(s, 1, RleItem(s).n))
<1> DEFINE r == RunLen(s)
           q == RawLen(s)
<1>1. /\ s \in Seq(Nat) /\ Len(s) \in Nat /\ Len(s) >= 1 /\ s[1] \in Pixel
      /\ r \in 1 .. MaxRun /\ r <= Len(s) /\ \A i \in 1 .. r : s[i] = s[1]
      /\ q \in 1 .. MaxRun /\ q <= Len(s)
  <2>1. s \in Seq(Nat) /\ Len(s) \in Nat /\ Len(s) >= 1
    BY PixelSeq, EmptySeq
  <2>2. 1 \in 1 .. Len(s)
    BY <2>1
  <2>3. s[1] \in Pixel
    BY <2>2, ElementOfSeq
  <2> QED
    BY <2>1, <2>3, RunLenFacts, RawLenFacts
<1>2. CASE r >= 2
  <2> DEFINE c == [i \in 1 .. r |-> s[1]]
             u == SubSeq(s, 1, r)
  <2>1. RleItem(s).n = r /\ RleItem(s).bytes = << MaxRun + r - 1 >> \o Bytes(s[1])
    BY <1>2, RunItem
  <2>2. u = c
    <3>1. u \in Seq(Nat) /\ Len(u) = r /\ \A i \in 1 .. r : u[i] = s[i]
      <4>1. 1 \in Int /\ r \in Int /\ r >= 1 /\ \A i \in 1 .. r : s[i] \in Nat
        <5> HIDE DEF r, q
        <5>1. \A i \in 1 .. r : i \in 1 .. Len(s)
          BY <1>1
        <5>2. \A i \in 1 .. r : s[i] \in Nat
          BY <1>1, <5>1, ElementOfSeq
        <5> QED
          BY <1>1, <5>2
      <4> HIDE DEF r
      <4> QED
        BY <4>1, SubSeqProperties
    <3>2. c \in Seq(Nat) /\ Len(c) = r /\ \A i \in 1 .. r : c[i] = s[1]
      <4> HIDE DEF r, q
      <4>1. s[1] \in Nat /\ r \in Nat
        BY <1>1, BaseFacts
      <4> QED
        BY <4>1
    <3> HIDE DEF u, c, r, q
    <3> QED
      BY <1>1, <3>1, <3>2, SeqEqual
  <2>3. Between(Fold("rle", d, << MaxRun + r - 1 >> \o Bytes(s[1])), o \o c)
    <3> DEFINE p == s[1]
    <3>1. p \in Pixel /\ r \in 1 .. MaxRun
      BY <1>1
    <3> HIDE DEF r, q, p
    <3>2. Between(Fold("rle", d, << MaxRun + r - 1 >> \o Bytes(p)), o \o [i \in 1 .. r |-> p])
      BY <3>1, FeedRun
    <3> QED
      BY <3>2 DEF p
  <2> QED
    BY <2>1, <2>2, <2>3
<1>3. CASE ~ (r >= 2)
  <2> DEFINE b == FlattenSeq(Pairs(s, q))
             h == q - 1
             c == << h >>
             d1 == RleByte(d, h)
  <2>1. RleItem(s).n = q /\ RleItem(s).bytes = c \o b
    BY <1>3, RawItem
  <2>2. h \in Nat /\ h < MaxRun /\ h + 1 = q /\ MaxRun \in Nat /\ q \in Nat
    <3> HIDE DEF q, r
    <3> QED
      BY <1>1, BaseFacts
  <2>3. h % MaxRun = h
    <3> HIDE DEF h
    <3> QED
      BY <2>2, ModSmall
  <2>4. b \in Seq(Nat)
    <3> HIDE DEF q, r
    <3>1. \A i \in 1 .. q : i \in 1 .. Len(s)
      BY <1>1
    <3>2. \A i \in 1 .. q : s[i] \div Base \in Nat /\ s[i] % Base \in Nat
      BY <1>1, <3>1, BytesFacts, ElementOfSeq
    <3>3. PairsGood(Nat, s, q)
      BY <2>2, <3>2, PairsFlat
    <3> QED
      BY <3>3 DEF PairsGood
  <2>5. c \in Seq(Nat)
    BY <2>2
  <2>6. Fold("rle", d, c) = d1
    BY FoldOne DEF Fed
  <2> HIDE DEF h
  <2>7. Within(d1, q, o)
    <3>1. /\ d1 \in RleState /\ d1.sub = "hi" /\ d1.run = (h >= MaxRun)
          /\ d1.n = (h % MaxRun) + 1 /\ d1.out = o
      BY <2>2, HeaderByte DEF Between
    <3>2. (h >= MaxRun) = FALSE /\ q # 0
      BY <1>1, <2>2
    <3> HIDE DEF d1, q
    <3> QED
      BY <2>2, <2>3, <3>1, <3>2 DEF Within
  <2> HIDE DEF d1, c, b, q, r
  <2>8. Fold("rle", d, c \o b) = Fold("rle", d1, b)
    BY <2>4, <2>5, <2>6, FoldConcat
  <2>9. Within(Fold("rle", d1, b), 0, o \o SubSeq(s, 1, q))
    BY <1>1, <2>2, <2>7, FeedPixels DEF b
  <2> QED
    BY <2>1, <2>8, <2>9 DEF Within, Between
<1> QED
  BY <1>2, <1>3

-----------------------------------------------------------------------------
(* The decoder of the ESP32, unfolded. *)

LEMMA DecoderSized == Decoder!Sized
BY DEF Decoder!Sized, Left

Count(e) == (e[1] % MaxRun) + 1
Used(e) == IF e[1] >= MaxRun THEN 3 ELSE 1 + 2 * Count(e)
PixelAt(e, i) == LET at == IF e[1] >= MaxRun THEN 2 ELSE 2 * i IN e[at] * Base + e[at + 1]
Fit(n, m) == Largest({k \in 0 .. n : k <= m})

Stops(e, m) == e = << >> \/ m = 0 \/ Used(e) > Len(e)
Decoded(e, m) == [i \in 1 .. Fit(Count(e), m) |-> PixelAt(e, i)]
AfterItem(e, m) == << SubSeq(e, Used(e) + 1, Len(e)), m - Fit(Count(e), m) >>

LEMMA FitFacts ==
  ASSUME NEW n \in Nat, NEW m \in Nat
  PROVE  Fit(n, m) = IF n <= m THEN n ELSE m
<1> DEFINE T == {k \in 0 .. n : k <= m}
<1>1. T \subseteq 0 .. n /\ 0 \in T
  OBVIOUS
<1>2. Largest(T) \in T /\ \A k \in T : k <= Largest(T)
  BY <1>1, LargestFacts
<1>3. (IF n <= m THEN n ELSE m) \in T
  OBVIOUS
<1> QED
  BY <1>2, <1>3 DEF Fit

LEMMA CountFacts ==
  ASSUME NEW e \in Seq(Nat), e # << >>
  PROVE  /\ Len(e) \in Nat /\ Len(e) >= 1 /\ e[1] \in Nat
         /\ Count(e) \in Nat /\ Used(e) \in Nat /\ Used(e) >= 1
<1>1. Len(e) \in Nat /\ Len(e) >= 1
  BY EmptySeq
<1>2. 1 \in 1 .. Len(e)
  BY <1>1
<1>3. e[1] \in Nat
  BY <1>2, ElementOfSeq
<1>4. Count(e) \in Nat
  BY <1>3, BaseFacts, DivMod DEF Count
<1>5. Used(e) = 3 \/ Used(e) = 1 + 2 * Count(e)
  BY Zenon DEF Used
<1>6. \A c \in Nat : 1 + 2 * c \in Nat /\ 1 + 2 * c >= 1
  OBVIOUS
<1>7. Used(e) \in Nat /\ Used(e) >= 1
  BY <1>4, <1>5, <1>6
<1> QED
  BY <1>1, <1>3, <1>4, <1>7

LEMMA DecoderDefIs ==
  ASSUME NEW f, NEW e, NEW m
  PROVE  /\ Stops(e, m) => DecoderDef(f, << e, m >>) = << >>
         /\ ~ Stops(e, m) => DecoderDef(f, << e, m >>) = Decoded(e, m) \o f[AfterItem(e, m)]
<1>1. << e, m >>[1] = e /\ << e, m >>[2] = m
  OBVIOUS
<1> QED
  BY <1>1, Zenon DEF DecoderDef, Count, Used, Fit, PixelAt, Stops, Decoded, AfterItem

LEMMA DecoderLooksDown == Decoder!LooksDown
<1>0. SUFFICES ASSUME NEW g, NEW h, NEW x \in Seq(Nat) \X Nat,
                    \A y \in Seq(Nat) \X Nat : Left(y) < Left(x) => g[y] = h[y]
             PROVE  DecoderDef(g, x) = DecoderDef(h, x)
  BY Zenon DEF Decoder!LooksDown
<1> DEFINE e == x[1]
           m == x[2]
<1>1. e \in Seq(Nat) /\ m \in Nat /\ x = << e, m >>
  OBVIOUS
<1> HIDE DEF e, m
<1>2. CASE Stops(e, m)
  BY <1>1, <1>2, DecoderDefIs, Zenon
<1>3. CASE ~ Stops(e, m)
  <2> DEFINE u == SubSeq(e, Used(e) + 1, Len(e))
             r == m - Fit(Count(e), m)
  <2>0. e # << >> /\ ~ (Used(e) > Len(e))
    BY <1>3 DEF Stops
  <2>1. u \in Seq(Nat) /\ Len(u) < Len(e)
    <3>1. u \in Seq(Nat) /\ Len(u) = Len(e) - Used(e)
      BY <1>1, <2>0, CountFacts, RestOf
    <3> HIDE DEF u
    <3> QED
      BY <1>1, <2>0, <3>1, CountFacts
  <2>2. r \in Nat
    BY <1>1, <2>0, CountFacts, FitFacts
  <2>3. << u, r >> \in Seq(Nat) \X Nat /\ Left(<< u, r >>) < Left(x)
    <3>1. Left(x) = Len(e) /\ Left(<< u, r >>) = Len(u)
      BY <1>1 DEF Left
    <3> HIDE DEF u, r
    <3> QED
      BY <2>1, <2>2, <3>1
  <2>4. g[<< u, r >>] = h[<< u, r >>]
    BY <1>0, <2>3
  <2>5. AfterItem(e, m) = << u, r >>
    BY DEF AfterItem
  <2>6. g[AfterItem(e, m)] = h[AfterItem(e, m)]
    BY <2>4, <2>5, Zenon
  <2>7. DecoderDef(g, << e, m >>) = Decoded(e, m) \o g[AfterItem(e, m)]
    BY <1>3, DecoderDefIs
  <2>8. DecoderDef(h, << e, m >>) = Decoded(e, m) \o h[AfterItem(e, m)]
    BY <1>3, DecoderDefIs
  <2> QED
    BY <1>1, <2>6, <2>7, <2>8, Zenon
<1> QED
  BY <1>2, <1>3

LEMMA DecoderIs ==
  ASSUME NEW e \in Seq(Nat), NEW m \in Nat
  PROVE  /\ Stops(e, m) => decode_tga_rle_rgb565[<< e, m >>] = << >>
         /\ ~ Stops(e, m) =>
              decode_tga_rle_rgb565[<< e, m >>] = Decoded(e, m) \o decode_tga_rle_rgb565[AfterItem(e, m)]
<1> DEFINE D == Seq(Nat) \X Nat
           f == decode_tga_rle_rgb565
<1>1. \E g : g = [x \in D |-> DecoderDef(g, x)]
  BY DecoderSized, DecoderLooksDown, Decoder!RecursionDefines
<1>2. f = [x \in D |-> DecoderDef(f, x)]
  BY <1>1, Zenon DEF decode_tga_rle_rgb565, DecoderDef
<1> HIDE DEF f
<1>3. << e, m >> \in D
  OBVIOUS
<1>4. f[<< e, m >>] = DecoderDef(f, << e, m >>)
  BY <1>2, <1>3, Zenon
<1> QED
  BY <1>4, DecoderDefIs, Zenon DEF f

LEMMA ConcatAt ==
  ASSUME NEW B, NEW a \in Seq(B), NEW b \in Seq(B)
  PROVE  /\ a \o b \in Seq(B) /\ Len(a \o b) = Len(a) + Len(b)
         /\ \A i \in 1 .. Len(a) : (a \o b)[i] = a[i]
         /\ \A i \in 1 .. Len(b) : (a \o b)[Len(a) + i] = b[i]
<1>1. /\ a \o b \in Seq(B) /\ Len(a \o b) = Len(a) + Len(b)
      /\ \A i \in 1 .. Len(a) + Len(b) : (a \o b)[i] = IF i <= Len(a) THEN a[i] ELSE b[i - Len(a)]
  BY ConcatProperties
<1>2. Len(a) \in Nat /\ Len(b) \in Nat
  OBVIOUS
<1>3. ASSUME NEW i \in 1 .. Len(a) PROVE (a \o b)[i] = a[i]
  BY <1>1, <1>2
<1>4. ASSUME NEW i \in 1 .. Len(b) PROVE (a \o b)[Len(a) + i] = b[i]
  <2> DEFINE j == Len(a) + i
  <2>1. j \in 1 .. Len(a) + Len(b) /\ ~ (j <= Len(a)) /\ j - Len(a) = i
    BY <1>2
  <2> HIDE DEF j
  <2>2. (a \o b)[j] = b[i]
    BY <1>1, <2>1
  <2> QED
    BY <2>2 DEF j
<1> QED
  BY <1>1, <1>3, <1>4

\* What comes after a first part.
LEMMA AfterFirst ==
  ASSUME NEW B, NEW a \in Seq(B), NEW b \in Seq(B)
  PROVE  SubSeq(a \o b, Len(a) + 1, Len(a \o b)) = b
<1> DEFINE c == a \o b
           n == Len(a)
           u == SubSeq(c, n + 1, Len(c))
<1>1. c \in Seq(B) /\ Len(c) = n + Len(b) /\ \A i \in 1 .. Len(b) : c[n + i] = b[i]
  BY ConcatAt
<1>2. n \in Nat /\ Len(b) \in Nat
  OBVIOUS
<1> HIDE DEF c, n
<1>3. n <= Len(c) /\ Len(c) - n = Len(b)
  BY <1>1, <1>2
<1>4. u \in Seq(B) /\ Len(u) = Len(b) /\ \A i \in 1 .. Len(b) : u[i] = c[n + i]
  BY <1>1, <1>2, <1>3, RestOf
<1> HIDE DEF u
<1>5. u = b
  BY <1>1, <1>4, SeqEqual
<1> QED
  BY <1>5 DEF u, c, n

\* The pixels and the length the decoder reads from the head of an item.
Reads(e, s) == /\ Count(e) = RleItem(s).n /\ Used(e) = ItemLen(s)
               /\ \A i \in 1 .. RleItem(s).n : PixelAt(e, i) = s[i]

LEMMA RunReads ==
  ASSUME NEW s, NEW r \in 1 .. MaxRun, RunLen(s) = r, r >= 2, RleItem(s).n = r,
         s[1] \in Pixel, \A i \in 1 .. r : s[i] = s[1],
         NEW e, e[1] = MaxRun + r - 1, e[2] = s[1] \div Base, e[3] = s[1] % Base
  PROVE  Reads(e, s)
<1> DEFINE k == r - 1
<1>1. k \in Nat /\ k < MaxRun /\ MaxRun \in Nat /\ e[1] = MaxRun + k /\ r = k + 1 /\ e[1] >= MaxRun
  BY BaseFacts
<1> HIDE DEF k
<1>2. (MaxRun + k) % MaxRun = k
  BY <1>1, ModPlus
<1>3. Count(e) = r
  BY <1>1, <1>2 DEF Count
<1>4. Used(e) = ItemLen(s)
  BY <1>1 DEF Used, ItemLen
<1>5. \A i : PixelAt(e, i) = e[2] * Base + e[3]
  BY <1>1 DEF PixelAt
<1>6. e[2] * Base + e[3] = s[1]
  BY BytesFacts
<1> QED
  BY <1>3, <1>4, <1>5, <1>6 DEF Reads

LEMMA RawReads ==
  ASSUME NEW s, NEW q \in 1 .. MaxRun, RawLen(s) = q, ~ (RunLen(s) >= 2), RleItem(s).n = q,
         \A i \in 1 .. q : s[i] \in Pixel,
         NEW e, e[1] = q - 1,
         \A i \in 1 .. q : e[2 * i] = s[i] \div Base /\ e[2 * i + 1] = s[i] % Base
  PROVE  Reads(e, s)
<1> DEFINE k == q - 1
<1>1. k \in Nat /\ k < MaxRun /\ MaxRun \in Nat /\ e[1] = k /\ q = k + 1 /\ ~ (e[1] >= MaxRun)
  BY BaseFacts
<1> HIDE DEF k
<1>2. k % MaxRun = k
  BY <1>1, ModSmall
<1>3. Count(e) = q
  BY <1>1, <1>2 DEF Count
<1>4. Used(e) = ItemLen(s)
  BY <1>1, <1>3 DEF Used, ItemLen
<1>5. ASSUME NEW i \in 1 .. q PROVE PixelAt(e, i) = s[i]
  <2>1. PixelAt(e, i) = e[2 * i] * Base + e[2 * i + 1]
    BY <1>1 DEF PixelAt
  <2>2. e[2 * i] = s[i] \div Base /\ e[2 * i + 1] = s[i] % Base
    OBVIOUS
  <2>3. (s[i] \div Base) * Base + (s[i] % Base) = s[i]
    BY BytesFacts
  <2> QED
    BY <2>1, <2>2, <2>3, Zenon
<1> QED
  BY <1>3, <1>4, <1>5 DEF Reads

LEMMA OneAndTwo ==
  ASSUME NEW h, NEW x, NEW y
  PROVE  << h >> \o << x, y >> = << h, x, y >>
<1> DEFINE B == {h, x, y}
           a == << h >>
           b == << x, y >>
           c == << h, x, y >>
<1>1. /\ a \in Seq(B) /\ Len(a) = 1 /\ a[1] = h
      /\ b \in Seq(B) /\ Len(b) = 2 /\ b[1] = x /\ b[2] = y
      /\ c \in Seq(B) /\ Len(c) = 3 /\ c[1] = h /\ c[2] = x /\ c[3] = y
  OBVIOUS
<1> HIDE DEF a, b, c, B
<1>2. a \o b \in Seq(B) /\ Len(a \o b) = 3
      /\ \A i \in 1 .. 3 : (a \o b)[i] = IF i <= 1 THEN a[i] ELSE b[i - 1]
  <2>1. /\ a \o b \in Seq(B) /\ Len(a \o b) = Len(a) + Len(b)
        /\ \A i \in 1 .. Len(a) + Len(b) : (a \o b)[i] = IF i <= Len(a) THEN a[i] ELSE b[i - Len(a)]
    BY <1>1, ConcatProperties
  <2> QED
    BY <1>1, <2>1
<1>3. \A i \in 1 .. 3 : i = 1 \/ i = 2 \/ i = 3
  OBVIOUS
<1>4. \A i \in 1 .. 3 : (a \o b)[i] = c[i]
  BY <1>1, <1>2, <1>3
<1>5. a \o b = c
  BY <1>1, <1>2, <1>4, SeqEqual
<1> QED
  BY <1>5 DEF a, b, c

LEMMA FirstPixels ==
  ASSUME NEW s \in Seq(Pixel), s # << >>
  PROVE  /\ s \in Seq(Nat) /\ Len(s) \in Nat /\ Len(s) >= 1 /\ s[1] \in Pixel
         /\ RunLen(s) \in 1 .. MaxRun /\ RunLen(s) <= Len(s)
         /\ \A i \in 1 .. RunLen(s) : s[i] = s[1]
         /\ RawLen(s) \in 1 .. MaxRun /\ RawLen(s) <= Len(s)
         /\ \A i \in 1 .. RawLen(s) : s[i] \in Pixel
<1>1. s \in Seq(Nat) /\ Len(s) \in Nat /\ Len(s) >= 1
  BY PixelSeq, EmptySeq
<1>2. \A i \in 1 .. Len(s) : s[i] \in Pixel
  BY ElementOfSeq
<1>3. /\ RunLen(s) \in 1 .. MaxRun /\ RunLen(s) <= Len(s)
      /\ \A i \in 1 .. RunLen(s) : s[i] = s[1]
      /\ RawLen(s) \in 1 .. MaxRun /\ RawLen(s) <= Len(s)
  BY <1>1, RunLenFacts, RawLenFacts
<1>4. 1 \in 1 .. Len(s) /\ \A i \in 1 .. RawLen(s) : i \in 1 .. Len(s)
  BY <1>1, <1>3
<1> QED
  BY <1>1, <1>2, <1>3, <1>4

LEMMA ItemReads ==
  ASSUME NEW s \in Seq(Pixel), s # << >>, NEW rest \in Seq(Nat)
  PROVE  Reads(RleItem(s).bytes \o rest, s)
<1> DEFINE r == RunLen(s)
           q == RawLen(s)
           b == RleItem(s).bytes
           e == b \o rest
<1>1. /\ s \in Seq(Nat) /\ s[1] \in Pixel /\ r \in 1 .. MaxRun /\ \A i \in 1 .. r : s[i] = s[1]
      /\ q \in 1 .. MaxRun /\ \A i \in 1 .. q : s[i] \in Pixel
  BY FirstPixels
<1>2. b \in Seq(Nat)
  BY <1>1, NatItem
<1>3. Len(b) \in Nat /\ \A i \in 1 .. Len(b) : e[i] = b[i]
  BY <1>2, ConcatAt
<1> HIDE DEF e
<1>4. CASE r >= 2
  <2>1. RleItem(s).n = r /\ b = << MaxRun + r - 1 >> \o Bytes(s[1])
    BY <1>4, RunItem
  <2> DEFINE h == MaxRun + r - 1
             x == s[1] \div Base
             y == s[1] % Base
  <2>2. b = << h, x, y >>
    BY <2>1, OneAndTwo, Zenon DEF Bytes
  <2> HIDE DEF b, h, x, y
  <2>3. Len(b) = 3 /\ b[1] = h /\ b[2] = x /\ b[3] = y
    BY <2>2
  <2>4. e[1] = h /\ e[2] = x /\ e[3] = y
    BY <1>3, <2>3
  <2> HIDE DEF r
  <2>5. RunLen(s) = r
    BY DEF r
  <2>6. Reads(e, s)
    BY <1>1, <1>4, <2>1, <2>4, <2>5, RunReads DEF h, x, y
  <2> QED
    BY <2>6 DEF e, b
<1>5. CASE ~ (r >= 2)
  <2> DEFINE c == << q - 1 >>
             p == FlattenSeq(Pairs(s, q))
  <2>1. RleItem(s).n = q /\ b = c \o p
    BY <1>5, RawItem
  <2>2. p \in Seq(Nat) /\ Len(p) = 2 * q /\ Halves(p, s, q)
    <3> HIDE DEF q
    <3>0. q \in Nat
      BY <1>1, BaseFacts
    <3>1. ASSUME NEW i \in 1 .. q PROVE s[i] \div Base \in Nat /\ s[i] % Base \in Nat
      BY <1>1, BytesFacts
    <3>2. PairsGood(Nat, s, q)
      BY <3>0, <3>1, PairsFlat
    <3> QED
      BY <3>2 DEF PairsGood
  <2>3. c \in Seq(Nat) /\ Len(c) = 1 /\ c[1] = q - 1 /\ q \in Nat /\ q >= 1
    <3>1. q - 1 \in Nat /\ q \in Nat /\ q >= 1
      <4> HIDE DEF q
      <4> QED
        BY <1>1, BaseFacts
    <3> QED
      BY <3>1
  <2> HIDE DEF c, p, b, q
  <2>4. Len(b) = 1 + 2 * q /\ b[1] = q - 1 /\ \A i \in 1 .. 2 * q : b[1 + i] = p[i]
    <3>1. /\ Len(c \o p) = Len(c) + Len(p) /\ \A i \in 1 .. Len(c) : (c \o p)[i] = c[i]
          /\ \A i \in 1 .. Len(p) : (c \o p)[Len(c) + i] = p[i]
      <4>1. c \in Seq(Nat) /\ p \in Seq(Nat)
        BY <2>2, <2>3
      <4> QED
        BY ONLY <4>1, ConcatAt
    <3>2. Len(b) = 1 + 2 * q
      BY <2>1, <2>2, <2>3, <3>1
    <3>3. b[1] = q - 1
      <4>1. 1 \in 1 .. Len(c)
        BY <2>3
      <4> QED
        BY <2>1, <2>3, <3>1, <4>1
    <3>4. \A i \in 1 .. 2 * q : b[1 + i] = p[i]
      BY <2>1, <2>2, <2>3, <3>1, Zenon
    <3> QED
      BY <3>2, <3>3, <3>4
  <2>5. e[1] = q - 1
    BY <1>3, <2>3, <2>4
  <2>6. ASSUME NEW i \in 1 .. q PROVE e[2 * i] = s[i] \div Base /\ e[2 * i + 1] = s[i] % Base
    <3> DEFINE j == 2 * i - 1
    <3>1. j \in 1 .. 2 * q /\ j + 1 \in 1 .. 2 * q /\ 1 + j = 2 * i /\ 1 + (j + 1) = 2 * i + 1
          /\ 2 * i \in 1 .. Len(b) /\ 2 * i + 1 \in 1 .. Len(b) /\ j + 1 = 2 * i
      BY <2>3, <2>4
    <3>2. p[j] = s[i] \div Base /\ p[j + 1] = s[i] % Base
      BY <2>2, <3>1 DEF Halves
    <3> HIDE DEF j
    <3>3. b[1 + j] = p[j] /\ b[1 + (j + 1)] = p[j + 1]
      BY <2>4, <3>1
    <3>4. e[2 * i] = b[2 * i] /\ e[2 * i + 1] = b[2 * i + 1]
      BY <1>3, <3>1
    <3> QED
      BY <3>1, <3>2, <3>3, <3>4
  <2>7. RawLen(s) = q
    BY DEF q
  <2>8. Reads(e, s)
    BY <1>1, <1>5, <2>1, <2>5, <2>6, <2>7, RawReads
  <2> QED
    BY <2>8 DEF e, b
<1> QED
  BY <1>4, <1>5

\* The decoder takes an item as a whole.
LEMMA DecodeItem ==
  ASSUME NEW s \in Seq(Pixel), s # << >>, NEW rest \in Seq(Nat), NEW m \in Nat, m >= Len(s)
  PROVE  decode_tga_rle_rgb565[<< RleItem(s).bytes \o rest, m >>] =
           SubSeq(s, 1, RleItem(s).n) \o decode_tga_rle_rgb565[<< rest, m - RleItem(s).n >>]
<1> DEFINE b == RleItem(s).bytes
           n == RleItem(s).n
           e == b \o rest
           u == SubSeq(s, 1, n)
<1>1. /\ s \in Seq(Nat) /\ Len(s) \in Nat /\ n \in 1 .. Len(s) /\ b \in Seq(Nat)
      /\ Len(b) = ItemLen(s) /\ ItemLen(s) \in Nat
  BY PixelSeq, NatItem
<1>2. e \in Seq(Nat) /\ Len(e) = Len(b) + Len(rest) /\ Len(rest) \in Nat
  <2>1. Len(rest) \in Nat
    OBVIOUS
  <2>2. b \in Seq(Nat)
    BY <1>1
  <2> HIDE DEF b
  <2>3. b \o rest \in Seq(Nat)
    BY <2>2, ConcatProperties
  <2>4. Len(b \o rest) = Len(b) + Len(rest)
    BY <2>2, ConcatProperties
  <2> QED
    BY <2>1, <2>3, <2>4
<1>3. SubSeq(e, Len(b) + 1, Len(e)) = rest
  BY <1>1, AfterFirst
<1>4. Count(e) = n /\ Used(e) = Len(b) /\ \A i \in 1 .. n : PixelAt(e, i) = s[i]
  BY <1>1, ItemReads DEF Reads
<1>5. ItemLen(s) >= 1
  BY <1>1, RawLenFacts DEF ItemLen
<1> HIDE DEF e, b, n
<1>6. ~ Stops(e, m)
  <2>0. Len(e) >= 1 /\ m # 0
    <3>1. m >= 1
      BY <1>1
    <3>2. Len(b) \in Nat /\ Len(b) >= 1
      BY <1>1, <1>5
    <3> QED
      BY <1>2, <3>1, <3>2
  <2>1. e # << >>
    BY <2>0
  <2>2. ~ (Used(e) > Len(e))
    BY <1>1, <1>2, <1>4
  <2> QED
    BY <2>0, <2>1, <2>2 DEF Stops
<1>7. Fit(Count(e), m) = n
  <2>1. n \in Nat /\ n <= m
    BY <1>1
  <2> QED
    BY <1>4, <2>1, FitFacts
<1>8. Decoded(e, m) = u
  <2>1. Decoded(e, m) = [i \in 1 .. n |-> s[i]]
    BY <1>4, <1>7 DEF Decoded
  <2>2. \A i \in 1 .. n : s[i] \in Nat
    <3>1. \A i \in 1 .. n : i \in 1 .. Len(s)
      BY <1>1
    <3> QED
      BY <1>1, <3>1, ElementOfSeq
  <2>3. u \in Seq(Nat) /\ Len(u) = n /\ \A i \in 1 .. n : u[i] = s[i]
    BY <1>1, <2>2, SubSeqProperties
  <2> DEFINE v == [i \in 1 .. n |-> s[i]]
  <2>4. v \in Seq(Nat) /\ Len(v) = n /\ \A i \in 1 .. n : v[i] = s[i]
    BY <1>1, <2>2
  <2> HIDE DEF u, v
  <2>5. u = v
    BY <1>1, <2>3, <2>4, SeqEqual
  <2> QED
    BY <2>1, <2>5 DEF v
<1>9. AfterItem(e, m) = << rest, m - n >>
  BY <1>3, <1>4, <1>7 DEF AfterItem
<1>10. decode_tga_rle_rgb565[<< e, m >>] = u \o decode_tga_rle_rgb565[<< rest, m - n >>]
  <2>1. decode_tga_rle_rgb565[<< e, m >>] = Decoded(e, m) \o decode_tga_rle_rgb565[AfterItem(e, m)]
    BY <1>2, <1>6, DecoderIs
  <2> QED
    BY <1>8, <1>9, <2>1, Zenon
<1> QED
  BY <1>10 DEF e, b, n

-----------------------------------------------------------------------------
(* The room the encoder needs. *)

\* Two bytes a pixel, and a header for every full raw packet and for one that is not.
Bound(s) == IF s = << >> THEN 0
            ELSE 2 * Len(s) + (Len(s) \div MaxRun) + IF RunLen(s) >= 2 THEN 0 ELSE 1

LEMMA DivMono ==
  ASSUME NEW a \in Nat, NEW c \in Nat, a <= c, NEW b \in Nat, b > 0
  PROVE  a \div b <= c \div b
OBVIOUS

LEMMA DivPlus ==
  ASSUME NEW a \in Nat, NEW b \in Nat, b > 0
  PROVE  (a + b) \div b = (a \div b) + 1
OBVIOUS

LEMMA BoundFacts ==
  ASSUME NEW s \in Seq(Nat)
  PROVE  /\ Bound(s) \in Nat /\ Bound(s) <= EncBound(Len(s))
         /\ Bound(s) <= 2 * Len(s) + (Len(s) \div MaxRun) + 1
         /\ RunLen(s) >= 2 => Bound(s) <= 2 * Len(s) + (Len(s) \div MaxRun)
<1> DEFINE d == Len(s) \div MaxRun
<1>1. Len(s) \in Nat /\ d \in Nat
  BY BaseFacts, DivMod
<1>2. EncBound(Len(s)) = 2 * Len(s) + (d + 2) * 2
  BY DEF EncBound
<1>3. Bound(s) = 0 \/ Bound(s) = 2 * Len(s) + d \/ (Bound(s) = 2 * Len(s) + d + 1 /\ ~ (RunLen(s) >= 2))
  <2> HIDE DEF d
  <2> QED
    BY <1>1 DEF Bound, d
<1>4. /\ Bound(s) \in Nat /\ Bound(s) <= EncBound(Len(s)) /\ Bound(s) <= 2 * Len(s) + d + 1
      /\ RunLen(s) >= 2 => Bound(s) <= 2 * Len(s) + d
  <2> HIDE DEF d
  <2> QED
    BY <1>1, <1>2, <1>3
<1> QED
  BY <1>4

LEMMA Sums ==
  ASSUME NEW L \in Nat, NEW k \in Nat, NEW n \in Nat, NEW d \in Nat, NEW c \in Nat, NEW b \in Nat,
         L = k + n, c <= d
  PROVE  /\ n >= 2 /\ b <= 2 * k + c + 1 => 3 + b <= 2 * L + d
         /\ d = c + 1 /\ b <= 2 * k + c + 1 => 1 + 2 * n + b <= 2 * L + d + 1
         /\ b <= 2 * k + c => 1 + 2 * n + b <= 2 * L + d + 1
OBVIOUS

\* An item and what the rest needs: no more than what the whole needs.
LEMMA BoundStep ==
  ASSUME NEW s \in Seq(Nat), s # << >>
  PROVE  ItemLen(s) + Bound(SubSeq(s, RleItem(s).n + 1, Len(s))) <= Bound(s)
<1> DEFINE n == RleItem(s).n
           u == SubSeq(s, n + 1, Len(s))
           L == Len(s)
           k == L - n
           d == L \div MaxRun
           c == k \div MaxRun
           b == Bound(u)
<1> SUFFICES ItemLen(s) + b <= Bound(s)
  OBVIOUS
<1>1. L \in Nat /\ L >= 1 /\ n \in 1 .. L
  BY NatItem, EmptySeq
<1>2. u \in Seq(Nat) /\ Len(u) = k /\ \A i \in 1 .. k : u[i] = s[n + i]
  <2> HIDE DEF n
  <2>1. n \in Nat /\ n <= Len(s)
    BY <1>1
  <2> QED
    BY <2>1, RestOf
<1>3. k \in Nat /\ k < L /\ L = k + n /\ n \in Nat /\ MaxRun \in Nat /\ MaxRun > 0 /\ MaxRun >= 2
  <2> HIDE DEF n, L
  <2> QED
    BY <1>1, BaseFacts
<1>4. d \in Nat /\ c \in Nat /\ c <= d
  <2>1. k <= L
    <3> HIDE DEF k, L, n
    <3> QED
      BY <1>1, <1>3
  <2> HIDE DEF k, L
  <2>2. d \in Nat /\ c \in Nat
    BY <1>1, <1>3, DivMod
  <2>3. c <= d
    BY <1>1, <1>3, <2>1, DivMono
  <2> QED
    BY <2>2, <2>3
<1>5. b \in Nat /\ b <= 2 * k + c + 1 /\ (RunLen(u) >= 2 => b <= 2 * k + c)
  <2> HIDE DEF u, k
  <2> QED
    BY <1>2, BoundFacts
<1>6. k = 0 => b = 0
  <2> HIDE DEF u, k
  <2> QED
    BY <1>2, EmptySeq DEF Bound
<1>7. Bound(s) = 2 * L + d + IF RunLen(s) >= 2 THEN 0 ELSE 1
  BY DEF Bound
<1>8. CASE RunLen(s) >= 2
  <2>1. ItemLen(s) = 3
    BY <1>8 DEF ItemLen
  <2>2. n = RunLen(s)
    BY <1>8, RunItem
  <2>3. Bound(s) = 2 * L + d
    <3> HIDE DEF L, d
    <3> QED
      BY <1>1, <1>4, <1>7, <1>8
  <2> HIDE DEF b, u, k, n, L, d, c
  <2> QED
    BY <1>1, <1>3, <1>4, <1>5, <1>8, <2>1, <2>2, <2>3, Sums
<1>9. CASE ~ (RunLen(s) >= 2)
  <2>1. ItemLen(s) = 1 + 2 * n /\ n = RawLen(s) /\ Bound(s) = 2 * L + d + 1
    BY <1>9, <1>7, RawItem DEF ItemLen
  <2>2. RunLen(s) = 1
    BY <1>9, RunLenFacts, BaseFacts
  <2>3. n = MaxRun \/ n = L \/ (n + 2 <= L /\ s[n + 1] = s[n + 2])
    <3> HIDE DEF n
    <3> QED
      BY <2>1, <2>2, RawLenFacts
  <2>4. CASE n = MaxRun
    <3>1. d = c + 1
      <4>1. k + MaxRun = L
        BY <1>1, <1>3, <2>4
      <4> HIDE DEF k, L
      <4> QED
        BY <1>3, <4>1, DivPlus
    <3> HIDE DEF b, u, k, n, L, d, c
    <3>3. 1 + 2 * n + b <= 2 * L + d + 1
      <4>1. /\ L \in Nat /\ k \in Nat /\ n \in Nat /\ d \in Nat /\ c \in Nat /\ b \in Nat
            /\ L = k + n /\ c <= d
        BY <1>1, <1>3, <1>4, <1>5
      <4> QED
        BY ONLY <1>5, <4>1, <3>1, Sums
    <3> QED
      BY <2>1, <3>3
  <2>5. CASE n = L
    <3> HIDE DEF b, u, k, n, L, d, c
    <3> QED
      BY <1>1, <1>3, <1>4, <1>6, <2>1, <2>5
  <2>6. CASE n + 2 <= L /\ s[n + 1] = s[n + 2]
    <3>1. k >= 2 /\ u[1] = s[n + 1] /\ u[2] = s[n + 2]
      <4> HIDE DEF u, n, L
      <4>1. k >= 2 /\ 1 \in 1 .. k /\ 2 \in 1 .. k
        BY <1>1, <2>6
      <4> QED
        BY <1>2, <4>1
    <3>2. RunLen(u) >= 2
      <4> HIDE DEF u, n, L, k
      <4>1. Len(u) >= 2 /\ u[2] = u[1] /\ u # << >>
        BY <1>2, <3>1, <2>6
      <4> QED
        BY <1>2, <4>1, RunLenFacts
    <3> HIDE DEF b, u, k, n, L, d, c
    <3>3. 1 + 2 * n + b <= 2 * L + d + 1
      <4>1. /\ L \in Nat /\ k \in Nat /\ n \in Nat /\ d \in Nat /\ c \in Nat /\ b \in Nat
            /\ L = k + n /\ c <= d
        BY <1>1, <1>3, <1>4, <1>5
      <4> QED
        BY ONLY <1>5, <4>1, <3>2, Sums
    <3> QED
      BY <2>1, <3>3
  <2> QED
    BY <2>3, <2>4, <2>5, <2>6
<1> QED
  BY <1>8, <1>9

-----------------------------------------------------------------------------
(* The encoder against the two decoders. *)

LEMMA Splits ==
  ASSUME NEW B, NEW s \in Seq(B), NEW n \in 1 .. Len(s)
  PROVE  /\ SubSeq(s, 1, n) \in Seq(B) /\ SubSeq(s, n + 1, Len(s)) \in Seq(B)
         /\ Len(SubSeq(s, n + 1, Len(s))) = Len(s) - n
         /\ SubSeq(s, 1, n) \o SubSeq(s, n + 1, Len(s)) = s
<1>1. Len(s) \in Nat /\ n \in Nat /\ n >= 1 /\ n <= Len(s)
  OBVIOUS
<1>2. SubSeq(s, n + 1, Len(s)) \in Seq(B) /\ Len(SubSeq(s, n + 1, Len(s))) = Len(s) - n
  BY <1>1, RestOf
<1>3. \A i \in 1 .. n : s[i] \in B
  <2>1. \A i \in 1 .. n : i \in 1 .. Len(s)
    BY <1>1
  <2> QED
    BY <2>1, ElementOfSeq
<1>4. SubSeq(s, 1, n) \in Seq(B)
  BY <1>1, <1>3, SubSeqProperties
<1>5. SubSeq(s, 1, n) \o SubSeq(s, n + 1, Len(s)) = SubSeq(s, 1, Len(s))
  <2> DEFINE L == Len(s)
  <2>1. 1 \in 1 .. L + 1 /\ n \in 1 - 1 .. L /\ L \in n .. L
    BY <1>1
  <2> QED
    BY <2>1, ConcatAdjacentSubSeq
<1>6. SubSeq(s, 1, Len(s)) = s
  BY SubSeqFull
<1>7. SubSeq(s, 1, n) \o SubSeq(s, n + 1, Len(s)) = s
  BY <1>5, <1>6, Zenon
<1> QED
  BY <1>2, <1>4, <1>7, Zenon

\* The bytes e stand for the pixels s: for the decoder of the GD32 from wherever it
\* is between two items, and for the one of the ESP32; and they are no more than Bound.
StandsFor(e, s) ==
  /\ e \in Seq(Byte) /\ Len(e) <= Bound(s) /\ (s # << >> => Len(e) >= 1)
  /\ \A d : \A o \in Seq(Nat) : Between(d, o) => Between(Fold("rle", d, e), o \o s)
  /\ \A m \in Nat : m >= Len(s) => decode_tga_rle_rgb565[<< e, m >>] = s

LEMMA EmptyStands == StandsFor(<< >>, << >>)
<1>1. << >> \in Seq(Byte) /\ Len(<< >>) = 0 /\ Bound(<< >>) = 0
  BY EmptySeq DEF Bound
<1>2. ASSUME NEW d, NEW o \in Seq(Nat), Between(d, o)
      PROVE  Between(Fold("rle", d, << >>), o \o << >>)
  BY <1>2, FoldEmpty, ConcatEmptySeq
<1>3. ASSUME NEW m \in Nat PROVE decode_tga_rle_rgb565[<< << >>, m >>] = << >>
  <2> DEFINE e == << >>
  <2>1. e \in Seq(Nat) /\ Stops(e, m)
    BY EmptySeq DEF Stops
  <2> HIDE DEF e
  <2>2. decode_tga_rle_rgb565[<< e, m >>] = << >>
    BY <2>1, DecoderIs
  <2> QED
    BY <2>2 DEF e
<1> QED
  BY <1>1, <1>2, <1>3 DEF StandsFor

LEMMA ByteSeq ==
  ASSUME NEW e \in Seq(Byte)
  PROVE  e \in Seq(Nat) /\ Len(e) \in Nat
<1>1. Byte \subseteq Nat
  BY BaseFacts
<1>2. e \in Seq(Nat)
  BY <1>1, SeqMonotonic
<1> QED
  BY <1>2

LEMMA ItemStands ==
  ASSUME NEW s \in Seq(Pixel), s # << >>, NEW e,
         StandsFor(e, SubSeq(s, RleItem(s).n + 1, Len(s)))
  PROVE  StandsFor(RleItem(s).bytes \o e, s)
<1> DEFINE n == RleItem(s).n
           b == RleItem(s).bytes
           h == SubSeq(s, 1, n)
           u == SubSeq(s, n + 1, Len(s))
           c == b \o e
<1>1. /\ s \in Seq(Nat) /\ Len(s) \in Nat /\ n \in 1 .. Len(s) /\ b \in Seq(Byte) /\ b \in Seq(Nat)
      /\ Len(b) = ItemLen(s) /\ ItemLen(s) \in Nat /\ ItemLen(s) >= 1
  <2>1. s \in Seq(Nat) /\ Len(s) \in Nat
    BY PixelSeq
  <2>2. ItemLen(s) >= 1
    BY <2>1, RawLenFacts DEF ItemLen
  <2> QED
    BY <2>1, <2>2, NatItem, PixelItem
<1>2. ItemLen(s) + Bound(u) <= Bound(s) /\ Bound(u) \in Nat /\ Bound(s) \in Nat
  <2>1. u \in Seq(Nat)
    <3> HIDE DEF n
    <3> QED
      BY <1>1, Splits
  <2> QED
    BY <1>1, <2>1, BoundStep, BoundFacts
<1>3. /\ h \in Seq(Pixel) /\ u \in Seq(Pixel) /\ h \in Seq(Nat) /\ u \in Seq(Nat)
      /\ Len(u) = Len(s) - n /\ h \o u = s
  <2> HIDE DEF n
  <2> QED
    BY <1>1, Splits, PixelSeq
<1>4. /\ e \in Seq(Byte) /\ Len(e) <= Bound(u)
      /\ \A d : \A o \in Seq(Nat) : Between(d, o) => Between(Fold("rle", d, e), o \o u)
      /\ \A m \in Nat : m >= Len(u) => decode_tga_rle_rgb565[<< e, m >>] = u
  BY DEF StandsFor
<1>4a. e \in Seq(Byte) /\ Len(e) <= Bound(u)
  BY <1>4
<1> HIDE DEF b, h, u, n
<1>5. e \in Seq(Nat) /\ Len(e) \in Nat
  BY <1>4a, ByteSeq
<1>6. c \in Seq(Byte) /\ Len(c) = Len(b) + Len(e)
  BY <1>1, <1>4a, ConcatProperties
<1> HIDE DEF c
<1>7. Len(c) <= Bound(s) /\ Len(c) >= 1
  <2>1. Len(c) = ItemLen(s) + Len(e)
    BY <1>1, <1>6
  <2>2. \A i, j, k, l \in Nat : i + k <= l /\ j <= k /\ i >= 1 => i + j <= l /\ i + j >= 1
    OBVIOUS
  <2> QED
    BY <1>1, <1>2, <1>4a, <1>5, <2>1, <2>2
<1>8. ASSUME NEW d, NEW o \in Seq(Nat), Between(d, o)
      PROVE  Between(Fold("rle", d, c), o \o s)
  <2> DEFINE dd == Fold("rle", d, b)
             oo == o \o h
  <2>1. Between(dd, oo)
    BY <1>8, FeedItem DEF b, h, n
  <2>2. oo \in Seq(Nat) /\ oo \o u = o \o s
    <3>1. h \in Seq(Nat) /\ u \in Seq(Nat)
      BY <1>3
    <3>2. oo \in Seq(Nat)
      BY <3>1, ConcatProperties
    <3>3. (o \o h) \o u = o \o (h \o u)
      BY <3>1, ConcatAssociative
    <3> QED
      BY <1>3, <3>2, <3>3, Zenon
  <2>3. Fold("rle", d, c) = Fold("rle", dd, e)
    BY <1>1, <1>5, FoldConcat DEF c
  <2> HIDE DEF dd, oo
  <2>4. Between(Fold("rle", dd, e), oo \o u)
    BY <1>4, <2>1, <2>2, Zenon
  <2> QED
    BY <2>2, <2>3, <2>4, Zenon
<1>9. ASSUME NEW m \in Nat, m >= Len(s)
      PROVE  decode_tga_rle_rgb565[<< c, m >>] = s
  <2>1. decode_tga_rle_rgb565[<< c, m >>] = h \o decode_tga_rle_rgb565[<< e, m - n >>]
    BY <1>5, <1>9, DecodeItem DEF c, b, h, n
  <2>2. m - n \in Nat /\ m - n >= Len(u)
    BY <1>1, <1>3, <1>9
  <2>3. decode_tga_rle_rgb565[<< e, m - n >>] = u
    BY <1>4, <2>2
  <2> QED
    BY <1>3, <2>1, <2>3, Zenon
<1>10. StandsFor(c, s)
  BY <1>6, <1>7, <1>8, <1>9 DEF StandsFor
<1> QED
  BY <1>10 DEF c, b

\* With room for Bound, the encoder does not stop before the end.
LEMMA EncoderStands ==
  ASSUME NEW s \in Seq(Pixel), NEW room \in Int, room >= Bound(s)
  PROVE  StandsFor(encode_tga_rle_rgb565[<< s, room >>], s)
<1> DEFINE T == {n \in Nat : \A t \in Seq(Pixel) : \A r \in Int :
                   Len(t) = n /\ r >= Bound(t) => StandsFor(encode_tga_rle_rgb565[<< t, r >>], t)}
<1>1. ASSUME NEW n \in Nat, \A m \in 0 .. n - 1 : m \in T
      PROVE  n \in T
  <2> SUFFICES ASSUME NEW t \in Seq(Pixel), NEW r \in Int, Len(t) = n, r >= Bound(t)
               PROVE  StandsFor(encode_tga_rle_rgb565[<< t, r >>], t)
    OBVIOUS
  <2>0. t \in Seq(Nat)
    BY PixelSeq
  <2>1. CASE t = << >>
    <3>1. encode_tga_rle_rgb565[<< t, r >>] = << >>
      BY <2>0, <2>1, EncoderIs
    <3> QED
      BY <2>1, <3>1, EmptyStands
  <2>2. CASE t # << >>
    <3> DEFINE b == RleItem(t).bytes
               u == SubSeq(t, RleItem(t).n + 1, Len(t))
               q == r - Len(b)
               e == encode_tga_rle_rgb565[<< u, q >>]
    <3>1. Len(b) = ItemLen(t) /\ ItemLen(t) \in Nat /\ RleItem(t).n \in 1 .. Len(t)
      BY <2>0, <2>2, NatItem
    <3>2. u \in Seq(Pixel) /\ Len(u) = Len(t) - RleItem(t).n
      <4> DEFINE k == RleItem(t).n
      <4> HIDE DEF k
      <4>1. k \in 1 .. Len(t)
        BY <3>1 DEF k
      <4>2. SubSeq(t, k + 1, Len(t)) \in Seq(Pixel) /\ Len(SubSeq(t, k + 1, Len(t))) = Len(t) - k
        BY <4>1, Splits
      <4> QED
        BY <4>2 DEF k
    <3>3. Len(u) \in 0 .. n - 1
      <4> DEFINE k == RleItem(t).n
                 l == Len(u)
      <4>1. k \in 1 .. n /\ l = n - k
        BY <3>1, <3>2
      <4> HIDE DEF k, l
      <4>2. l \in 0 .. n - 1
        BY <4>1
      <4> QED
        BY <4>2 DEF l
    <3>4. ItemLen(t) + Bound(u) <= Bound(t)
      BY <2>0, <2>2, BoundStep
    <3>5. Bound(u) \in Nat /\ Bound(t) \in Nat
      BY <2>0, <3>2, PixelSeq, BoundFacts
    <3> HIDE DEF b, u
    <3>6. ~ (Len(b) > r) /\ q \in Int /\ q >= Bound(u)
      BY <3>1, <3>4, <3>5
    <3>7. encode_tga_rle_rgb565[<< t, r >>] = b \o e
      BY <2>0, <2>2, <3>6, EncoderIs, Zenon DEF b, u
    <3> HIDE DEF q
    <3>8. StandsFor(e, u)
      BY <1>1, <3>2, <3>3, <3>6
    <3> HIDE DEF e
    <3>9. StandsFor(b \o e, t)
      BY <2>2, <3>8, ItemStands DEF b, u
    <3> QED
      BY <3>7, <3>9, Zenon
  <2> QED
    BY <2>1, <2>2
<1> HIDE DEF T
<1>2. \A n \in Nat : n \in T
  BY <1>1, Encoder!StrongInduction
<1>3. Len(s) \in Nat
  OBVIOUS
<1> QED
  BY <1>2, <1>3 DEF T

LEMMA EncodeStands ==
  ASSUME NEW s \in Seq(Pixel)
  PROVE  StandsFor(Encode(s), s)
<1>1. s \in Seq(Nat) /\ Len(s) \in Nat
  BY PixelSeq
<1>2. Bound(s) <= EncBound(Len(s)) /\ Bound(s) \in Nat
  BY <1>1, BoundFacts
<1>3. EncBound(Len(s)) \in Int
  BY <1>1, BaseFacts, DivMod DEF EncBound
<1> QED
  BY <1>2, <1>3, EncoderStands DEF Encode

LEMMA OnPanelIs ==
  ASSUME NEW s \in Seq(Pixel)
  PROVE  OnPanel(TRUE, Encode(s)) = [px |-> s, whole |-> TRUE]
<1> DEFINE e == Encode(s)
           d == Fold("rle", RleStart, e)
<1>1. Between(RleStart, << >>) /\ << >> \in Seq(Nat)
  BY EmptySeq DEF Between, RleStart, RleState
<1>2. Between(d, << >> \o s)
  BY <1>1, EncodeStands DEF StandsFor
<1>3. << >> \o s = s
  BY ConcatEmptySeq
<1>4. OnPanel(TRUE, e) = [px |-> d.out, whole |-> d.sub = "header"]
  BY DEF OnPanel, Fold
<1> HIDE DEF d, e
<1>5. OnPanel(TRUE, e) = [px |-> s, whole |-> TRUE]
  BY <1>2, <1>3, <1>4 DEF Between
<1> QED
  BY <1>5 DEF e

\* Whatever the pixels of a packet: the GD32 and the ESP32 both decode what was
\* encoded (encode_tga_rle_rgb565, protocol_process_rx, decode_tga_rle_rgb565).
THEOREM RoundTrip ==
  ASSUME NEW s \in Seq(Pixel)
  PROVE  /\ OnPanel(TRUE, Encode(s)) = [px |-> s, whole |-> TRUE]
         /\ decode_tga_rle_rgb565[<< Encode(s), Len(s) >>] = s
<1>1. Len(s) \in Nat /\ Len(s) >= Len(s)
  OBVIOUS
<1>2. decode_tga_rle_rgb565[<< Encode(s), Len(s) >>] = s
  BY <1>1, EncodeStands DEF StandsFor
<1> QED
  BY <1>2, OnPanelIs

\* The two decoders give back what was encoded, for the pixels of the checks.
THEOREM CodecAgreesHolds == CodecAgrees
<1>1. ASSUME NEW s \in PixelSeqs PROVE s \in Seq(Pixel)
  <2>1. Pixels \subseteq Pixel
    BY CodecAssumption, BaseFacts DEF Pixel
  <2>2. PICK n \in 1 .. MaxPixels : s \in [1 .. n -> Pixels]
    BY DEF PixelSeqs
  <2>3. n \in Nat
    BY CodecAssumption
  <2>4. s \in Seq(Pixels)
    BY <2>2, <2>3
  <2> QED
    BY <2>1, <2>4, SeqMonotonic
<1>2. ASSUME NEW s \in PixelSeqs
      PROVE  /\ OnPanel(TRUE, Encode(s)) = [px |-> s, whole |-> TRUE]
             /\ decode_tga_rle_rgb565[<< Encode(s), Len(s) >>] = s
  BY <1>1, RoundTrip
<1> QED
  BY <1>2, Zenon DEF CodecAgrees

-----------------------------------------------------------------------------
(* A rectangle cut into packets. *)

ChunksDef(f, in) ==
  IF in[2] >= Len(in[1]) THEN << >>
  ELSE LET c == ChunkAt(in[1], in[2], in[3])
       IN << c >> \o f[<< in[1], in[2] + c.h, in[3] >>]

RowsLeft(in) == IF in[2] < Len(in[1]) THEN Len(in[1]) - in[2] ELSE 0
Chunker == INSTANCE Recursion WITH S <- Rectangles \X Nat \X BOOLEAN, Size <- RowsLeft,
                                   Def <- ChunksDef

Width(img) == Len(img[1])

LEMMA RectangleFacts ==
  ASSUME NEW img \in Rectangles
  PROVE  /\ img \in Seq(Seq(Nat)) /\ Len(img) \in Nat
         /\ \A i \in 1 .. Len(img) : Len(img[i]) = Width(img)
         /\ Len(img) > 0 => Width(img) \in Nat /\ Width(img) > 0
<1>1. img \in Seq(Seq(Nat)) /\ Len(img) \in Nat
  BY DEF Rectangles
<1>2. \A i \in 1 .. Len(img) : Len(img[i]) = Len(img[1]) /\ Len(img[1]) > 0
  BY DEF Rectangles
<1>3. ASSUME Len(img) > 0 PROVE Width(img) \in Nat /\ Width(img) > 0
  <2>1. 1 \in 1 .. Len(img)
    BY <1>1, <1>3
  <2>2. img[1] \in Seq(Nat)
    BY <1>1, <2>1, ElementOfSeq
  <2> QED
    BY <1>2, <2>1, <2>2 DEF Width
<1> QED
  BY <1>1, <1>2, <1>3 DEF Width

LEMMA RleRowsFacts ==
  ASSUME NEW img \in Rectangles, NEW y \in Nat, y < Len(img)
  PROVE  /\ RleRows(img, y) \in 1 .. (Len(img) - y)
         /\ RleRows(img, y) = 1 \/ Len(Encode(Rows(img, y, RleRows(img, y)))) <= MaxBytes
<1> DEFINE L == Len(img) - y
           T == {n \in 1 .. L : \A k \in 1 .. n : Len(Encode(Rows(img, y, k))) <= MaxBytes}
           r == Largest({1} \cup T)
<1>1. L \in Nat /\ L >= 1
  BY RectangleFacts
<1>2. RleRows(img, y) = r
  BY DEF RleRows
<1>3. {1} \cup T \subseteq 0 .. L /\ {1} \cup T \subseteq 1 .. L /\ {1} \cup T # {}
  BY <1>1
<1>4. r \in {1} \cup T
  <2> HIDE DEF L, T
  <2> QED
    BY <1>1, <1>3, LargestFacts
<1>5. r \in 1 .. L
  <2> HIDE DEF L, T, r
  <2> QED
    BY <1>3, <1>4
<1>6. ASSUME r # 1 PROVE Len(Encode(Rows(img, y, r))) <= MaxBytes
  <2>1. r \in T
    <3> HIDE DEF T, r
    <3> QED
      BY <1>4, <1>6
  <2>2. r \in 1 .. r
    <3> HIDE DEF r
    <3> QED
      BY <1>1, <1>5
  <2> HIDE DEF r
  <2> QED
    BY <2>1, <2>2
<1> QED
  BY <1>2, <1>5, <1>6

LEMMA DivTimes ==
  ASSUME NEW a \in Nat, NEW b \in Nat, b > 0, NEW n \in Nat, n <= a \div b
  PROVE  n * b <= a
<1>1. (a \div b) * b <= a /\ a \div b \in Nat
  OBVIOUS
<1>2. \A c \in Nat : n <= c => n * b <= c * b
  OBVIOUS
<1> QED
  BY <1>1, <1>2

LEMMA PlainRowsFacts ==
  ASSUME NEW img \in Rectangles, NEW y \in Nat, y < Len(img)
  PROVE  /\ PlainRows(img, y) \in 1 .. (Len(img) - y)
         /\ PlainRows(img, y) = 1 \/ PlainRows(img, y) * (2 * Width(img)) <= MaxBytes
<1> DEFINE L == Len(img) - y
           b == 2 * Width(img)
           q == MaxBytes \div b
           most == Largest({1, q})
           r == PlainRows(img, y)
<1>1. L \in Nat /\ L >= 1 /\ b \in Nat /\ b > 0
  <2>1. Len(img) \in Nat /\ Width(img) \in Nat /\ Width(img) > 0
    BY RectangleFacts
  <2> QED
    BY <2>1
<1>2. MaxBytes \in Nat /\ q \in Nat
  <2>1. MaxBytes \in Nat
    BY CodecAssumption
  <2> HIDE DEF b
  <2> QED
    BY <1>1, <2>1, DivMod
<1>3. r = IF most < L THEN most ELSE L
  BY DEF PlainRows, Width
<1> HIDE DEF L, b, q, r
<1>4. most \in {1, q} /\ most >= 1
  <2>1. {1, q} \subseteq 0 .. q + 1 /\ q + 1 \in Nat
    BY <1>2
  <2> QED
    BY <2>1, LargestFacts
<1> HIDE DEF most
<1>5. r \in 1 .. L /\ (r = 1 \/ (r \in Nat /\ r <= q))
  BY <1>1, <1>2, <1>3, <1>4
<1>6. r = 1 \/ r * b <= MaxBytes
  BY <1>1, <1>2, <1>5, DivTimes DEF q
<1> QED
  BY <1>5, <1>6 DEF L, b, r

ChunkRows(img, y, rle) == IF rle THEN RleRows(img, y) ELSE PlainRows(img, y)

LEMMA ChunkRowsFacts ==
  ASSUME NEW img \in Rectangles, NEW y \in Nat, y < Len(img), NEW rle \in BOOLEAN
  PROVE  /\ ChunkAt(img, y, rle).y = y /\ ChunkAt(img, y, rle).h = ChunkRows(img, y, rle)
         /\ ChunkRows(img, y, rle) \in 1 .. (Len(img) - y)
<1>1. ChunkAt(img, y, rle).y = y /\ ChunkAt(img, y, rle).h = ChunkRows(img, y, rle)
  BY DEF ChunkAt, ChunkRows
<1>2. ChunkRows(img, y, rle) \in 1 .. (Len(img) - y)
  BY RleRowsFacts, PlainRowsFacts DEF ChunkRows
<1> QED
  BY <1>1, <1>2

NextChunk(img, y, rle) == << img, y + ChunkAt(img, y, rle).h, rle >>

LEMMA ChunksDefIs ==
  ASSUME NEW f, NEW img, NEW y, NEW rle
  PROVE  /\ y >= Len(img) => ChunksDef(f, << img, y, rle >>) = << >>
         /\ ~ (y >= Len(img)) => ChunksDef(f, << img, y, rle >>) =
                                  << ChunkAt(img, y, rle) >> \o f[NextChunk(img, y, rle)]
<1>1. << img, y, rle >>[1] = img /\ << img, y, rle >>[2] = y /\ << img, y, rle >>[3] = rle
  OBVIOUS
<1> QED
  BY <1>1, Zenon DEF ChunksDef, NextChunk

LEMMA ChunkerSized == Chunker!Sized
<1>1. ASSUME NEW x \in Rectangles \X Nat \X BOOLEAN PROVE RowsLeft(x) \in Nat
  <2>1. x[1] \in Rectangles /\ x[2] \in Nat
    OBVIOUS
  <2>2. Len(x[1]) \in Nat
    BY <2>1, RectangleFacts
  <2> QED
    BY <2>1, <2>2 DEF RowsLeft
<1> QED
  BY <1>1 DEF Chunker!Sized

LEMMA NextChunkFacts ==
  ASSUME NEW img \in Rectangles, NEW y \in Nat, ~ (y >= Len(img)), NEW rle \in BOOLEAN
  PROVE  /\ y < Len(img) /\ NextChunk(img, y, rle) = << img, y + ChunkRows(img, y, rle), rle >>
         /\ y + ChunkRows(img, y, rle) \in Nat /\ y + ChunkRows(img, y, rle) <= Len(img)
         /\ NextChunk(img, y, rle) \in Rectangles \X Nat \X BOOLEAN
         /\ RowsLeft(NextChunk(img, y, rle)) < RowsLeft(<< img, y, rle >>)
<1>1. Len(img) \in Nat /\ y < Len(img)
  BY RectangleFacts
<1> DEFINE n == ChunkRows(img, y, rle)
           z == y + n
<1>2. NextChunk(img, y, rle) = << img, z, rle >> /\ n \in 1 .. (Len(img) - y)
  BY <1>1, ChunkRowsFacts DEF NextChunk
<1>3. z \in Nat /\ z <= Len(img) /\ z > y
  <2> HIDE DEF n
  <2> QED
    BY <1>1, <1>2
<1> HIDE DEF n, z
<1>4. << img, z, rle >> \in Rectangles \X Nat \X BOOLEAN
  BY <1>3
<1>5. /\ RowsLeft(<< img, z, rle >>) = IF z < Len(img) THEN Len(img) - z ELSE 0
      /\ RowsLeft(<< img, y, rle >>) = IF y < Len(img) THEN Len(img) - y ELSE 0
  BY DEF RowsLeft
<1>6. RowsLeft(<< img, z, rle >>) < RowsLeft(<< img, y, rle >>)
  BY <1>1, <1>3, <1>5
<1> QED
  BY <1>1, <1>2, <1>3, <1>4, <1>6 DEF z, n

LEMMA ChunkerLooksDown == Chunker!LooksDown
<1>0. SUFFICES ASSUME NEW g, NEW h, NEW x \in Rectangles \X Nat \X BOOLEAN,
                    \A z \in Rectangles \X Nat \X BOOLEAN : RowsLeft(z) < RowsLeft(x) => g[z] = h[z]
             PROVE  ChunksDef(g, x) = ChunksDef(h, x)
  BY Zenon DEF Chunker!LooksDown
<1> DEFINE img == x[1]
           y == x[2]
           rle == x[3]
<1>1. img \in Rectangles /\ y \in Nat /\ rle \in BOOLEAN /\ x = << img, y, rle >>
  OBVIOUS
<1> HIDE DEF img, y, rle
<1>2. CASE y >= Len(img)
  BY <1>1, <1>2, ChunksDefIs, Zenon
<1>3. CASE ~ (y >= Len(img))
  <2>1. NextChunk(img, y, rle) \in Rectangles \X Nat \X BOOLEAN
        /\ RowsLeft(NextChunk(img, y, rle)) < RowsLeft(x)
    BY <1>1, <1>3, NextChunkFacts
  <2>2. g[NextChunk(img, y, rle)] = h[NextChunk(img, y, rle)]
    BY <1>0, <2>1
  <2>3. ChunksDef(g, << img, y, rle >>) = << ChunkAt(img, y, rle) >> \o g[NextChunk(img, y, rle)]
    BY <1>3, ChunksDefIs
  <2>4. ChunksDef(h, << img, y, rle >>) = << ChunkAt(img, y, rle) >> \o h[NextChunk(img, y, rle)]
    BY <1>3, ChunksDefIs
  <2> QED
    BY <1>1, <2>2, <2>3, <2>4, Zenon
<1> QED
  BY <1>2, <1>3

LEMMA ChunksIs ==
  ASSUME NEW img \in Rectangles, NEW y \in Nat, NEW rle \in BOOLEAN
  PROVE  /\ y >= Len(img) => draw_pixels_at[<< img, y, rle >>] = << >>
         /\ ~ (y >= Len(img)) =>
              draw_pixels_at[<< img, y, rle >>] =
                << ChunkAt(img, y, rle) >> \o draw_pixels_at[NextChunk(img, y, rle)]
<1> DEFINE D == Rectangles \X Nat \X BOOLEAN
           f == draw_pixels_at
<1>1. \E g : g = [x \in D |-> ChunksDef(g, x)]
  BY ChunkerSized, ChunkerLooksDown, Chunker!RecursionDefines
<1>2. f = [x \in D |-> ChunksDef(f, x)]
  BY <1>1, Zenon DEF draw_pixels_at, ChunksDef
<1> HIDE DEF f
<1>3. << img, y, rle >> \in D
  OBVIOUS
<1>4. f[<< img, y, rle >>] = ChunksDef(f, << img, y, rle >>)
  BY <1>2, <1>3, Zenon
<1> QED
  BY <1>4, ChunksDefIs, Zenon DEF f

\* A rectangle of pixels: of the values two bytes can hold.
Pictures == {img \in Rectangles : img \in Seq(Seq(Pixel))}

LEMMA PictureFacts ==
  ASSUME NEW img \in Pictures
  PROVE  img \in Rectangles /\ img \in Seq(Seq(Pixel))
BY DEF Pictures

LEMMA FlattenConcat ==
  ASSUME NEW B, NEW a \in Seq(Seq(B))
  PROVE  \A b \in Seq(Seq(B)) : FlattenSeq(a \o b) = FlattenSeq(a) \o FlattenSeq(b)
<1> DEFINE T == {b \in Seq(Seq(B)) : FlattenSeq(a \o b) = FlattenSeq(a) \o FlattenSeq(b)}
<1>1. << >> \in T
  <2>1. << >> \in Seq(Seq(B)) /\ a \o << >> = a
    BY EmptySeq, ConcatEmptySeq
  <2>2. FlattenSeq(a) \in Seq(B)
    BY FlattenType
  <2>3. FlattenSeq(a) \o << >> = FlattenSeq(a)
    BY <2>2, ConcatEmptySeq
  <2> QED
    BY <2>1, <2>3, FlattenEmpty
<1>2. ASSUME NEW u \in Seq(Seq(B)), NEW s \in Seq(B), u \in T PROVE Append(u, s) \in T
  <2>1. Append(u, s) \in Seq(Seq(B)) /\ a \o u \in Seq(Seq(B))
    BY AppendProperties, ConcatProperties
  <2>2. a \o Append(u, s) = Append(a \o u, s)
    <3>1. << s >> \in Seq(Seq(B))
      OBVIOUS
    <3>2. Append(u, s) = u \o << s >> /\ Append(a \o u, s) = (a \o u) \o << s >>
      BY <2>1, AppendIsConcat
    <3> QED
      BY <3>1, <3>2, ConcatAssociative
  <2>3. FlattenSeq(Append(a \o u, s)) = FlattenSeq(a \o u) \o s
    <3> DEFINE v == a \o u
    <3>1. v \in Seq(Seq(B))
      BY <2>1
    <3> HIDE DEF v
    <3>2. FlattenSeq(Append(v, s)) = FlattenSeq(v) \o s
      BY <3>1, FlattenAppend
    <3> QED
      BY <3>2 DEF v
  <2>4. FlattenSeq(Append(u, s)) = FlattenSeq(u) \o s
    BY FlattenAppend
  <2>5. FlattenSeq(a) \in Seq(B) /\ FlattenSeq(u) \in Seq(B)
    BY FlattenType
  <2>6. (FlattenSeq(a) \o FlattenSeq(u)) \o s = FlattenSeq(a) \o (FlattenSeq(u) \o s)
    BY <2>5, ConcatAssociative
  <2>7. FlattenSeq(a \o u) = FlattenSeq(a) \o FlattenSeq(u)
    BY <1>2
  <2> QED
    BY <2>1, <2>2, <2>3, <2>4, <2>6, <2>7
<1> HIDE DEF T
<1>3. \A b \in Seq(Seq(B)) : b \in T
  BY <1>1, <1>2, SeqInduction
<1> QED
  BY <1>3 DEF T

LEMMA FlattenOne ==
  ASSUME NEW B, NEW s \in Seq(B)
  PROVE  FlattenSeq(<< s >>) = s
<1> DEFINE e == << >>
<1>1. e \in Seq(Seq(B)) /\ << s >> = Append(e, s)
  BY EmptySeq
<1>2. FlattenSeq(e) = << >>
  BY FlattenEmpty
<1> HIDE DEF e
<1>3. FlattenSeq(Append(e, s)) = FlattenSeq(e) \o s
  BY <1>1, FlattenAppend
<1> QED
  BY <1>1, <1>2, <1>3, ConcatEmptySeq

Stretch(img, y, n) == SubSeq(img, y + 1, y + n)

\* The rows of a stretch of the picture, one more at a time.
LEMMA StretchGrows ==
  ASSUME NEW img \in Pictures, NEW y \in Nat, NEW n \in Nat, y + n < Len(img)
  PROVE  /\ Stretch(img, y, n) \in Seq(Seq(Pixel))
         /\ Stretch(img, y, n + 1) = Append(Stretch(img, y, n), img[y + n + 1])
         /\ img[y + n + 1] \in Seq(Pixel) /\ Len(img[y + n + 1]) = Width(img)
<1> DEFINE a == y + 1
           m == y + n + 1
<1>0. img \in Rectangles /\ img \in Seq(Seq(Pixel)) /\ Len(img) \in Nat
  BY PictureFacts, RectangleFacts
<1>1. a \in 1 .. Len(img) /\ m \in 1 .. Len(img) /\ a <= m /\ m - 1 = y + n /\ y + (n + 1) = m
  BY <1>0
<1>2. img[m] \in Seq(Pixel) /\ Len(img[m]) = Width(img)
  <2>1. \A i \in 1 .. Len(img) : img[i] \in Seq(Pixel) /\ Len(img[i]) = Width(img)
    BY <1>0, ElementOfSeq, RectangleFacts
  <2> QED
    BY <1>1, <2>1
<1>3. SubSeq(img, a, m - 1) \in Seq(Seq(Pixel))
  <2>1. \A i \in a .. m - 1 : i \in 1 .. Len(img)
    BY <1>0, <1>1
  <2>2. \A i \in a .. m - 1 : img[i] \in Seq(Pixel)
    BY <1>0, <2>1, ElementOfSeq
  <2>3. a \in Int /\ m - 1 \in Int
    OBVIOUS
  <2> HIDE DEF a, m
  <2> QED
    BY <2>2, <2>3, SubSeqProperties
<1>4. SubSeq(img, a, m) = SubSeq(img, a, m - 1) \o << img[m] >>
  <2> HIDE DEF a, m
  <2> QED
    BY <1>0, <1>1, SubSeqRecursiveSecond
<1>5. Append(SubSeq(img, a, m - 1), img[m]) = SubSeq(img, a, m - 1) \o << img[m] >>
  <2> HIDE DEF a, m
  <2> QED
    BY <1>2, <1>3, AppendIsConcat
<1>6. Stretch(img, y, n) = SubSeq(img, a, m - 1) /\ Stretch(img, y, n + 1) = SubSeq(img, a, m)
  BY <1>1 DEF Stretch
<1> QED
  BY <1>2, <1>3, <1>4, <1>5, <1>6

LEMMA NoStretch ==
  ASSUME NEW img, NEW y \in Nat
  PROVE  Stretch(img, y, 0) = << >>
<1>1. y + 1 > y + 0
  OBVIOUS
<1> QED
  BY <1>1, SubSeqEmpty DEF Stretch

LEMMA TimesNext ==
  ASSUME NEW n \in Nat, NEW w \in Nat
  PROVE  (n + 1) * w = n * w + w /\ n * w \in Nat /\ 0 * w = 0
OBVIOUS

LEMMA RowsFacts ==
  ASSUME NEW img \in Pictures, NEW y \in Nat, NEW q \in Nat, y + q <= Len(img), Len(img) > 0
  PROVE  /\ Stretch(img, y, q) \in Seq(Seq(Pixel))
         /\ Rows(img, y, q) \in Seq(Pixel) /\ Len(Rows(img, y, q)) = q * Width(img)
<1> DEFINE w == Width(img)
           Good(n) == /\ Stretch(img, y, n) \in Seq(Seq(Pixel))
                      /\ FlattenSeq(Stretch(img, y, n)) \in Seq(Pixel)
                      /\ Len(FlattenSeq(Stretch(img, y, n))) = n * w
           T == {n \in Nat : n <= q => Good(n)}
<1>0. w \in Nat /\ Len(img) \in Nat
  BY PictureFacts, RectangleFacts
<1>1. 0 \in T
  <2> DEFINE e == << >>
  <2>1. Stretch(img, y, 0) = e
    BY NoStretch
  <2>2. e \in Seq(Seq(Pixel)) /\ FlattenSeq(e) = e /\ e \in Seq(Pixel) /\ Len(e) = 0
    BY FlattenEmpty, EmptySeq
  <2>3. 0 * w = 0
    BY <1>0, TimesNext
  <2> HIDE DEF e, w
  <2>4. Good(0)
    BY <2>1, <2>2, <2>3
  <2> QED
    BY <2>4
<1>2. ASSUME NEW n \in Nat, n \in T PROVE n + 1 \in T
  <2> SUFFICES ASSUME n + 1 <= q PROVE Good(n + 1)
    OBVIOUS
  <2> DEFINE s == Stretch(img, y, n)
             r == img[y + n + 1]
             b == FlattenSeq(s)
  <2>1. y + n < Len(img) /\ Good(n)
    BY <1>0, <1>2
  <2>2. /\ s \in Seq(Seq(Pixel)) /\ Stretch(img, y, n + 1) = Append(s, r)
        /\ r \in Seq(Pixel) /\ Len(r) = w
    BY <2>1, StretchGrows
  <2>3. b \in Seq(Pixel) /\ Len(b) = n * w
    BY <2>1
  <2> HIDE DEF s, r, w
  <2>4. FlattenSeq(Append(s, r)) = b \o r
    BY <2>2, FlattenAppend
  <2>5. Append(s, r) \in Seq(Seq(Pixel))
    BY <2>2, AppendProperties
  <2> HIDE DEF b
  <2>6. b \o r \in Seq(Pixel) /\ Len(b \o r) = n * w + w
    BY <2>2, <2>3, ConcatProperties
  <2>7. (n + 1) * w = n * w + w
    BY <1>0, TimesNext
  <2> QED
    BY <2>2, <2>4, <2>5, <2>6, <2>7
<1> HIDE DEF T
<1>3. q \in T
  BY <1>1, <1>2, Encoder!Induction
<1>4. Rows(img, y, q) = FlattenSeq(Stretch(img, y, q))
  BY DEF Rows, Stretch
<1> QED
  BY <1>3, <1>4 DEF T

-----------------------------------------------------------------------------
(* The packets without compression. *)

RawState == [phase : {0, 1}, hi : Nat, out : Seq(Nat)]
RawIdle(d, o) == d \in RawState /\ d.phase = 0 /\ d.out = o

LEMMA RawPixel ==
  ASSUME NEW d, NEW o \in Seq(Nat), RawIdle(d, o), NEW p \in Pixel
  PROVE  RawIdle(Fold("raw", d, Bytes(p)), Append(o, p))
<1> DEFINE x == p \div Base
           y == p % Base
           d2 == RawByte(d, x)
           d3 == RawByte(d2, y)
<1>1. p \in Nat /\ x \in Nat /\ y \in Nat /\ x * Base + y = p /\ Bytes(p) = << x, y >>
  BY BytesFacts DEF Bytes
<1> HIDE DEF x, y
<1>2. Fold("raw", d, Bytes(p)) = d3
  BY <1>1, FoldTwo DEF Fed
<1>3. d \in RawState /\ d.phase = 0 /\ d.out = o
  BY DEF RawIdle
<1>4. d2 = [d EXCEPT !.phase = 1, !.hi = x]
  BY <1>3 DEF RawByte
<1>5. d2 \in RawState /\ d2.phase = 1 /\ d2.hi = x /\ d2.out = o
  BY <1>1, <1>3, <1>4 DEF RawState
<1> HIDE DEF d2
<1>6. d3 = [d2 EXCEPT !.phase = 0, !.out = Append(@, d2.hi * Base + y)]
  BY <1>5 DEF RawByte
<1>7. Append(d2.out, d2.hi * Base + y) = Append(o, p) /\ Append(o, p) \in Seq(Nat)
  BY <1>1, <1>5, AppendProperties
<1>8. d3 = [d2 EXCEPT !.phase = 0, !.out = Append(o, p)]
  BY <1>6, <1>7
<1> HIDE DEF d3
<1>9. d3 \in RawState /\ d3.phase = 0 /\ d3.out = Append(o, p)
  BY <1>5, <1>7, <1>8 DEF RawState
<1> QED
  BY <1>2, <1>9 DEF RawIdle

LEMMA RawPixels ==
  ASSUME NEW d, NEW o \in Seq(Nat), RawIdle(d, o), NEW s \in Seq(Pixel)
  PROVE  RawIdle(Fold("raw", d, FlattenSeq(Pairs(s, Len(s)))), o \o s)
<1> DEFINE At(k) == RawIdle(Fold("raw", d, FlattenSeq(Pairs(s, k))), o \o SubSeq(s, 1, k))
           T == {k \in Nat : k <= Len(s) => At(k)}
<1>0. s \in Seq(Nat) /\ Len(s) \in Nat
  BY PixelSeq
<1>1. 0 \in T
  <2>1. Pairs(s, 0) = << >> /\ SubSeq(s, 1, 0) = << >>
    BY SubSeqEmpty DEF Pairs
  <2>2. FlattenSeq(Pairs(s, 0)) = << >>
    BY <2>1, FlattenEmpty
  <2>3. Fold("raw", d, FlattenSeq(Pairs(s, 0))) = d
    BY <2>2, FoldEmpty
  <2>4. o \o SubSeq(s, 1, 0) = o
    BY <2>1, ConcatEmptySeq
  <2> QED
    BY <2>3, <2>4
<1>2. ASSUME NEW k \in Nat, k \in T PROVE k + 1 \in T
  <2> SUFFICES ASSUME k + 1 <= Len(s) PROVE At(k + 1)
    OBVIOUS
  <2> DEFINE b == FlattenSeq(Pairs(s, k))
             m == k + 1
             c == Bytes(s[m])
             u == o \o SubSeq(s, 1, k)
  <2>1. k < Len(s) /\ m \in 1 .. Len(s)
    BY <1>0
  <2>2. b \in Seq(Nat) /\ FlattenSeq(Pairs(s, m)) = b \o c
    BY <2>1, PairsFlatNext
  <2>3. u \in Seq(Nat) /\ o \o SubSeq(s, 1, m) = Append(u, s[m])
    BY <1>0, <2>1, NatGrows, Zenon
  <2>4. s[m] \in Pixel
    BY <2>1, ElementOfSeq
  <2>5. c \in Seq(Nat)
    BY <2>4, PixelBytes
  <2>6. At(k)
    BY <1>0, <1>2, <2>1
  <2> HIDE DEF b, u
  <2>7. Fold("raw", d, b \o c) = Fold("raw", Fold("raw", d, b), c)
    <3> HIDE DEF c
    <3> QED
      BY <2>2, <2>5, FoldConcat
  <2> DEFINE e == Fold("raw", d, b)
  <2>8. RawIdle(e, u)
    BY <2>6 DEF b, u
  <2> HIDE DEF e, m
  <2>9. RawIdle(Fold("raw", e, c), Append(u, s[m]))
    BY <2>3, <2>4, <2>8, RawPixel
  <2> HIDE DEF c
  <2>10. RawIdle(Fold("raw", d, FlattenSeq(Pairs(s, m))), o \o SubSeq(s, 1, m))
    BY <2>2, <2>3, <2>7, <2>9 DEF e
  <2> QED
    BY <2>10 DEF m
<1> HIDE DEF T
<1>3. Len(s) \in T
  BY <1>0, <1>1, <1>2, Encoder!Induction
<1>4. SubSeq(s, 1, Len(s)) = s
  BY SubSeqFull
<1>5. At(Len(s))
  BY <1>0, <1>3 DEF T
<1> QED
  BY <1>4, <1>5

Plain(px) == FlattenSeq([i \in 1 .. Len(px) |-> Bytes(px[i])])

LEMMA RawOnPanel ==
  ASSUME NEW s \in Seq(Pixel)
  PROVE  /\ OnPanel(FALSE, Plain(s)) = [px |-> s, whole |-> TRUE]
         /\ Plain(s) \in Seq(Nat) /\ Len(Plain(s)) = 2 * Len(s)
<1> DEFINE e == Plain(s)
           d == Fold("raw", RawStart, e)
<1>0. e = FlattenSeq(Pairs(s, Len(s)))
  BY DEF Plain, Pairs
<1>1. RawIdle(RawStart, << >>) /\ << >> \in Seq(Nat)
  BY EmptySeq DEF RawIdle, RawStart, RawState
<1>2. RawIdle(d, << >> \o s)
  BY <1>0, <1>1, RawPixels
<1>3. << >> \o s = s
  BY ConcatEmptySeq
<1>4. OnPanel(FALSE, e) = [px |-> d.out, whole |-> d.phase = 0]
  BY DEF OnPanel, Fold
<1>5. e \in Seq(Nat) /\ Len(e) = 2 * Len(s)
  <2>1. \A i \in 1 .. Len(s) : s[i] \div Base \in Nat /\ s[i] % Base \in Nat
    BY PixelSeq, BytesFacts, ElementOfSeq
  <2>2. Len(s) \in Nat
    OBVIOUS
  <2>3. PairsGood(Nat, s, Len(s))
    BY <2>1, <2>2, PairsFlat
  <2> QED
    BY <1>0, <2>3 DEF PairsGood
<1> HIDE DEF d, e
<1>6. OnPanel(FALSE, e) = [px |-> s, whole |-> TRUE]
  BY <1>2, <1>3, <1>4 DEF RawIdle
<1> QED
  BY <1>5, <1>6 DEF e

-----------------------------------------------------------------------------
(* One packet of a rectangle. *)

Chunk == [y : Nat, h : Nat, rle : BOOLEAN, bytes : Seq(Nat)]
Shown(c) == OnPanel(c.rle, c.bytes).px

\* What a packet with n rows from the row y on is: these rows, in no more bytes
\* than their plain form, and in no more than the limit but for a single row.
Carries(c, img, y, n) ==
  /\ c \in Chunk /\ c.y = y /\ c.h = n /\ Shown(c) = Rows(img, y, n)
  /\ Len(c.bytes) \in 1 .. 2 * c.h * Len(img[1])
  /\ Len(c.bytes) <= MaxBytes \/ c.h = 1

LEMMA Doubled ==
  ASSUME NEW n \in Nat, NEW w \in Nat, n >= 1, w >= 1
  PROVE  /\ 2 * (n * w) = 2 * n * w /\ n * (2 * w) = 2 * n * w
         /\ n * w \in Nat /\ n * w >= 1 /\ 2 * n * w \in Nat
<1>1. n * w \in Nat /\ n * w >= 1
  <2>1. n * w >= 1 * w
    BY \A a, b \in Nat : a <= b => a * w <= b * w
  <2> QED
    BY <2>1
<1> QED
  BY <1>1

LEMMA ChunkCarries ==
  ASSUME NEW img \in Pictures, NEW y \in Nat, y < Len(img), NEW rle \in BOOLEAN
  PROVE  Carries(ChunkAt(img, y, rle), img, y, ChunkRows(img, y, rle))
<1> DEFINE n == ChunkRows(img, y, rle)
           w == Width(img)
           px == Rows(img, y, n)
           enc == Encode(px)
           raw == Plain(px)
           small == rle /\ Len(enc) < Len(raw)
           bytes == IF small THEN enc ELSE raw
           c == ChunkAt(img, y, rle)
<1>1. /\ img \in Rectangles /\ Len(img) \in Nat /\ Len(img) > 0
      /\ w \in Nat /\ w >= 1 /\ MaxBytes \in Nat
  <2>1. img \in Rectangles /\ Len(img) \in Nat
    BY PictureFacts, RectangleFacts
  <2>2. Len(img) > 0
    BY <2>1
  <2>3. w \in Nat /\ w > 0
    BY <2>1, <2>2, RectangleFacts
  <2> QED
    BY <2>1, <2>2, <2>3, CodecAssumption
<1>2. n \in 1 .. (Len(img) - y)
  BY <1>1, ChunkRowsFacts
<1> HIDE DEF w
<1>3. c = [y |-> y, h |-> n, rle |-> small, bytes |-> bytes]
  BY DEF ChunkAt, ChunkRows, Plain
<1>4. rle => n = 1 \/ Len(enc) <= MaxBytes
  BY <1>1, RleRowsFacts DEF ChunkRows
<1>5. ~ rle => n = 1 \/ n * (2 * w) <= MaxBytes
  BY <1>1, PlainRowsFacts DEF ChunkRows, w
<1> HIDE DEF n, c
<1>6. n \in Nat /\ n >= 1 /\ y + n <= Len(img)
  BY <1>1, <1>2
<1>7. px \in Seq(Pixel) /\ Len(px) = n * w
  BY <1>1, <1>6, RowsFacts DEF w
<1> HIDE DEF px
<1>8. n * w \in Nat /\ n * w >= 1 /\ 2 * n * w \in Nat /\ 2 * (n * w) = 2 * n * w /\ n * (2 * w) = 2 * n * w
  BY <1>1, <1>6, Doubled
<1>9. OnPanel(FALSE, raw).px = px /\ raw \in Seq(Nat) /\ Len(raw) = 2 * n * w
  <2>1. /\ OnPanel(FALSE, raw) = [px |-> px, whole |-> TRUE]
        /\ raw \in Seq(Nat) /\ Len(raw) = 2 * Len(px)
    BY <1>7, RawOnPanel
  <2> HIDE DEF raw
  <2>2. OnPanel(FALSE, raw).px = px
    <3> DEFINE r == OnPanel(FALSE, raw)
    <3>1. r = [px |-> px, whole |-> TRUE]
      BY <2>1
    <3> HIDE DEF r
    <3>2. r.px = px
      BY <3>1
    <3> QED
      BY <3>2 DEF r
  <2>3. Len(raw) = 2 * n * w
    BY <1>7, <1>8, <2>1, Zenon
  <2> QED
    BY <2>1, <2>2, <2>3
<1>10. OnPanel(TRUE, enc).px = px /\ enc \in Seq(Nat) /\ Len(enc) \in Nat /\ Len(enc) >= 1
  <2>1. px # << >>
    BY <1>7, <1>8, EmptySeq
  <2>2. enc \in Seq(Byte) /\ Len(enc) >= 1
    BY <1>7, <2>1, EncodeStands DEF StandsFor
  <2>3. enc \in Seq(Nat) /\ Len(enc) \in Nat
    BY <2>2, ByteSeq
  <2>4. OnPanel(TRUE, enc) = [px |-> px, whole |-> TRUE]
    BY <1>7, OnPanelIs
  <2> HIDE DEF enc
  <2>5. OnPanel(TRUE, enc).px = px
    <3> DEFINE r == OnPanel(TRUE, enc)
    <3>1. r = [px |-> px, whole |-> TRUE]
      BY <2>4
    <3> HIDE DEF r
    <3>2. r.px = px
      BY <3>1
    <3> QED
      BY <3>2 DEF r
  <2> QED
    BY <2>2, <2>3, <2>5
<1> HIDE DEF enc, raw
<1>11. small \in BOOLEAN /\ bytes \in Seq(Nat)
  BY <1>9, <1>10
<1>12. OnPanel(small, bytes).px = px
  <2>1. CASE small
    <3>1. small = TRUE /\ bytes = enc
      BY <2>1
    <3> HIDE DEF small, bytes
    <3> QED
      BY <1>10, <3>1
  <2>2. CASE ~ small
    <3>1. small = FALSE /\ bytes = raw
      BY <2>2
    <3> HIDE DEF small, bytes
    <3> QED
      BY <1>9, <3>1
  <2> QED
    BY <2>1, <2>2
<1>13. Len(bytes) \in 1 .. 2 * n * w
  <2> DEFINE a == 2 * n * w
             e == Len(enc)
  <2>1. a \in Nat /\ a >= 1 /\ e \in Nat /\ e >= 1 /\ Len(raw) = a
    <3>1. 2 * n * w >= 1
      BY <1>8
    <3> HIDE DEF e
    <3> QED
      BY <1>8, <1>9, <1>10, <3>1 DEF e
  <2>2. Len(bytes) = IF rle /\ e < a THEN e ELSE a
    BY <2>1
  <2> HIDE DEF a, e, bytes
  <2>3. Len(bytes) \in 1 .. a
    BY <2>1, <2>2
  <2> QED
    BY <2>3 DEF a
<1>14. Len(bytes) <= MaxBytes \/ n = 1
  <2> DEFINE a == 2 * n * w
             e == Len(enc)
  <2>1. /\ a \in Nat /\ e \in Nat /\ Len(raw) = a
        /\ rle => n = 1 \/ e <= MaxBytes
        /\ ~ rle => n = 1 \/ a <= MaxBytes
    BY <1>4, <1>5, <1>8, <1>9, <1>10
  <2>2. Len(bytes) = IF rle /\ e < a THEN e ELSE a
    BY <2>1
  <2> HIDE DEF a, e, bytes
  <2> QED
    BY <1>1, <2>1, <2>2
<1> HIDE DEF small, bytes
<1>15. c \in Chunk /\ c.y = y /\ c.h = n /\ c.rle = small /\ c.bytes = bytes
  BY <1>3, <1>6, <1>11 DEF Chunk
<1>16. Shown(c) = px
  BY <1>12, <1>15 DEF Shown
<1>17. Carries(c, img, y, n)
  BY <1>13, <1>14, <1>15, <1>16 DEF Carries, w, px, Width
<1> QED
  BY <1>17 DEF c, n

-----------------------------------------------------------------------------
(* All the packets of a rectangle. *)

Panels(cs) == [i \in 1 .. Len(cs) |-> Shown(cs[i])]

\* The packets cs are the rows of the rectangle from y on.
CoverFrom(cs, img, y) ==
  /\ cs \in Seq(Chunk)
  /\ \A i \in 1 .. Len(cs) :
       /\ cs[i].y = IF i = 1 THEN y ELSE cs[i - 1].y + cs[i - 1].h
       /\ Shown(cs[i]) \in Seq(Pixel)
       /\ Len(cs[i].bytes) \in 1 .. 2 * cs[i].h * Len(img[1])
       /\ Len(cs[i].bytes) <= MaxBytes \/ cs[i].h = 1
  /\ FlattenSeq(Panels(cs)) = FlattenSeq(SubSeq(img, y + 1, Len(img)))

LEMMA PanelsFirst ==
  ASSUME NEW c \in Chunk, NEW cs \in Seq(Chunk)
  PROVE  Panels(<< c >> \o cs) = << Shown(c) >> \o Panels(cs)
<1> DEFINE d == << c >> \o cs
           e == << Shown(c) >> \o Panels(cs)
<1>1. << c >> \in Seq(Chunk) /\ Len(<< c >>) = 1 /\ << c >>[1] = c /\ Len(cs) \in Nat
  OBVIOUS
<1>2. /\ d \in Seq(Chunk) /\ Len(d) = 1 + Len(cs)
      /\ \A i \in 1 .. 1 + Len(cs) : d[i] = IF i <= 1 THEN c ELSE cs[i - 1]
  <2>1. /\ d \in Seq(Chunk) /\ Len(d) = Len(<< c >>) + Len(cs)
        /\ \A i \in 1 .. Len(<< c >>) + Len(cs) :
             d[i] = IF i <= Len(<< c >>) THEN << c >>[i] ELSE cs[i - Len(<< c >>)]
    BY <1>1, ConcatProperties
  <2> HIDE DEF d
  <2> QED
    BY <1>1, <2>1
<1>3. e = [i \in 1 .. 1 + Len(cs) |-> IF i <= 1 THEN Shown(c) ELSE Shown(cs[i - 1])]
  BY <1>1 DEF Panels
<1> HIDE DEF d, e
<1>4. Panels(d) = [i \in 1 .. 1 + Len(cs) |-> IF i <= 1 THEN Shown(c) ELSE Shown(cs[i - 1])]
  BY <1>1, <1>2 DEF Panels
<1> QED
  BY <1>3, <1>4 DEF d, e

LEMMA PanelsType ==
  ASSUME NEW cs \in Seq(Chunk), \A i \in 1 .. Len(cs) : Shown(cs[i]) \in Seq(Pixel)
  PROVE  Panels(cs) \in Seq(Seq(Pixel))
<1>1. Len(cs) \in Nat
  OBVIOUS
<1> QED
  BY <1>1 DEF Panels

\* One packet more in front.
LEMMA CoverStep ==
  ASSUME NEW img \in Pictures, NEW y \in Nat, NEW n \in Nat, y + n <= Len(img), Len(img) > 0,
         NEW c, Carries(c, img, y, n), NEW cs, CoverFrom(cs, img, y + n)
  PROVE  CoverFrom(<< c >> \o cs, img, y)
<1> DEFINE d == << c >> \o cs
           L == Len(img)
           w == Len(img[1])
           z == y + n
           Fits(b) == /\ Shown(b) \in Seq(Pixel)
                      /\ Len(b.bytes) \in 1 .. 2 * b.h * w
                      /\ Len(b.bytes) <= MaxBytes \/ b.h = 1
           After(b, i, m) == b[i].y = IF i = 1 THEN m ELSE b[i - 1].y + b[i - 1].h
<1>1. c \in Chunk /\ c.y = y /\ c.h = n /\ Shown(c) = Rows(img, y, n)
  BY DEF Carries
<1>2. Rows(img, y, n) \in Seq(Pixel) /\ Stretch(img, y, n) \in Seq(Seq(Pixel))
  BY RowsFacts
<1>3. Fits(c)
  BY <1>1, <1>2 DEF Carries
<1>4. cs \in Seq(Chunk) /\ Len(cs) \in Nat /\ \A i \in 1 .. Len(cs) : After(cs, i, z) /\ Fits(cs[i])
  BY DEF CoverFrom
<1>5. FlattenSeq(Panels(cs)) = FlattenSeq(SubSeq(img, z + 1, L))
  BY DEF CoverFrom
<1>6. /\ img \in Seq(Seq(Pixel)) /\ L \in Nat /\ z \in Nat /\ z <= L
  BY PictureFacts, RectangleFacts
<1> HIDE DEF z, L, w, Fits
<1>7. /\ d \in Seq(Chunk) /\ Len(d) = 1 + Len(cs)
      /\ \A i \in 1 .. 1 + Len(cs) : d[i] = IF i <= 1 THEN c ELSE cs[i - 1]
  <2>1. << c >> \in Seq(Chunk) /\ Len(<< c >>) = 1 /\ << c >>[1] = c
    BY <1>1
  <2>2. /\ d \in Seq(Chunk) /\ Len(d) = Len(<< c >>) + Len(cs)
        /\ \A i \in 1 .. Len(<< c >>) + Len(cs) :
             d[i] = IF i <= Len(<< c >>) THEN << c >>[i] ELSE cs[i - Len(<< c >>)]
    BY <1>4, <2>1, ConcatProperties
  <2> HIDE DEF d
  <2> QED
    BY <1>4, <2>1, <2>2
<1> HIDE DEF d
<1>8. ASSUME NEW i \in 1 .. Len(d) PROVE After(d, i, y) /\ Fits(d[i])
  <2>1. CASE i = 1
    <3>1. d[i] = c
      BY <1>4, <1>7, <2>1
    <3> QED
      BY <1>1, <1>3, <2>1, <3>1
  <2>2. CASE i # 1
    <3> DEFINE j == i - 1
    <3>1. j \in 1 .. Len(cs) /\ d[i] = cs[j] /\ d[i - 1] = IF j = 1 THEN c ELSE cs[j - 1]
      BY <1>4, <1>7, <2>2
    <3>2. After(cs, j, z) /\ Fits(cs[j])
      BY <1>4, <3>1
    <3>3. z = c.y + c.h
      BY <1>1 DEF z
    <3> HIDE DEF j
    <3>4. d[i].y = d[i - 1].y + d[i - 1].h
      BY <3>1, <3>2, <3>3
    <3>5. Fits(d[i])
      BY <3>1, <3>2
    <3> QED
      BY <2>2, <3>4, <3>5
  <2> QED
    BY <2>1, <2>2
<1>9. FlattenSeq(Panels(d)) = FlattenSeq(SubSeq(img, y + 1, L))
  <2> DEFINE rest == SubSeq(img, z + 1, L)
             head == SubSeq(img, y + 1, z)
             p == Panels(cs)
             r == Rows(img, y, n)
  <2>1. Panels(d) = << Shown(c) >> \o p
    BY <1>1, <1>4, PanelsFirst DEF d
  <2>2. p \in Seq(Seq(Pixel))
    BY <1>4, PanelsType DEF Fits
  <2>3. rest \in Seq(Seq(Pixel))
    BY <1>6, RestOf DEF L
  <2>4. head \o rest = SubSeq(img, y + 1, L)
    <3>1. y + 1 \in 1 .. L + 1 /\ z \in (y + 1) - 1 .. L /\ L \in z .. L
      BY <1>6 DEF z
    <3> QED
      BY <1>6, <3>1, ConcatAdjacentSubSeq DEF L
  <2>5. head \in Seq(Seq(Pixel)) /\ FlattenSeq(head) = r
    BY <1>2 DEF Stretch, Rows, z
  <2>6. << r >> \in Seq(Seq(Pixel)) /\ FlattenSeq(<< r >>) = r
    BY <1>2, FlattenOne
  <2> HIDE DEF rest, head, p, r
  <2>7. FlattenSeq(<< r >> \o p) = FlattenSeq(<< r >>) \o FlattenSeq(p)
    BY <2>2, <2>6, FlattenConcat
  <2>8. FlattenSeq(head \o rest) = FlattenSeq(head) \o FlattenSeq(rest)
    BY <2>3, <2>5, FlattenConcat
  <2>9. FlattenSeq(p) = FlattenSeq(rest) /\ Shown(c) = r
    BY <1>1, <1>5 DEF p, rest, r
  <2> QED
    BY <2>1, <2>4, <2>5, <2>6, <2>7, <2>8, <2>9
<1> QED
  BY <1>7, <1>8, <1>9 DEF CoverFrom, d, L, w, Fits

LEMMA NothingLeft ==
  ASSUME NEW img \in Pictures
  PROVE  CoverFrom(<< >>, img, Len(img))
<1> DEFINE e == << >>
           L == Len(img)
<1>1. e \in Seq(Chunk) /\ Len(e) = 0
  BY EmptySeq
<1>2. Panels(e) = << >>
  BY <1>1 DEF Panels
<1>3. SubSeq(img, L + 1, L) = << >>
  <2>1. L \in Nat /\ L + 1 > L
    BY PictureFacts, RectangleFacts
  <2> QED
    BY <2>1, SubSeqEmpty
<1>4. \A i \in 1 .. Len(e) : FALSE
  BY <1>1
<1> HIDE DEF e
<1> QED
  BY <1>1, <1>2, <1>3, <1>4 DEF CoverFrom, e, L

LEMMA ChunksFrom ==
  ASSUME NEW img \in Pictures, NEW rle \in BOOLEAN
  PROVE  \A y \in Nat : y <= Len(img) => CoverFrom(draw_pixels_at[<< img, y, rle >>], img, y)
<1> DEFINE T == {k \in Nat : \A y \in Nat : y <= Len(img) /\ Len(img) - y = k =>
                               CoverFrom(draw_pixels_at[<< img, y, rle >>], img, y)}
<1>0. img \in Rectangles /\ Len(img) \in Nat
  BY PictureFacts, RectangleFacts
<1>1. ASSUME NEW k \in Nat, \A m \in 0 .. k - 1 : m \in T PROVE k \in T
  <2> SUFFICES ASSUME NEW y \in Nat, y <= Len(img), Len(img) - y = k
               PROVE  CoverFrom(draw_pixels_at[<< img, y, rle >>], img, y)
    OBVIOUS
  <2>1. CASE y >= Len(img)
    <3>1. draw_pixels_at[<< img, y, rle >>] = << >>
      BY <1>0, <2>1, ChunksIs
    <3>2. y = Len(img)
      BY <1>0, <2>1
    <3> QED
      BY <3>1, <3>2, NothingLeft
  <2>2. CASE ~ (y >= Len(img))
    <3> DEFINE n == ChunkRows(img, y, rle)
               z == y + n
               c == ChunkAt(img, y, rle)
               cs == draw_pixels_at[<< img, z, rle >>]
    <3>1. /\ y < Len(img) /\ Len(img) > 0 /\ n \in 1 .. (Len(img) - y)
          /\ NextChunk(img, y, rle) = << img, z, rle >>
      <4>1. y < Len(img) /\ NextChunk(img, y, rle) = << img, z, rle >>
        BY <1>0, <2>2, NextChunkFacts
      <4>2. n \in 1 .. (Len(img) - y)
        BY <1>0, <4>1, ChunkRowsFacts
      <4> HIDE DEF n, z
      <4> QED
        BY <1>0, <4>1, <4>2
    <3>2. draw_pixels_at[<< img, y, rle >>] = << c >> \o cs
      BY <1>0, <2>2, <3>1, ChunksIs
    <3>3. Carries(c, img, y, n)
      BY <3>1, ChunkCarries
    <3> HIDE DEF n, c, cs
    <3>4. n \in Nat /\ z \in Nat /\ z <= Len(img) /\ Len(img) - z \in 0 .. k - 1
      BY <1>0, <3>1
    <3>5. CoverFrom(cs, img, z)
      BY <1>1, <3>4 DEF cs
    <3>6. CoverFrom(<< c >> \o cs, img, y)
      BY <3>1, <3>3, <3>4, <3>5, CoverStep
    <3> QED
      BY <3>2, <3>6
  <2> QED
    BY <2>1, <2>2
<1> HIDE DEF T
<1>2. \A k \in Nat : k \in T
  BY <1>1, Encoder!StrongInduction
<1> SUFFICES ASSUME NEW y \in Nat, y <= Len(img)
             PROVE  CoverFrom(draw_pixels_at[<< img, y, rle >>], img, y)
  OBVIOUS
<1>3. Len(img) - y \in Nat
  BY <1>0
<1> QED
  BY <1>2, <1>3 DEF T

\* Whatever its size and its pixels, a rectangle cut into packets arrives whole and in
\* order, in packets of one row at least and, but for a single row, of no more bytes
\* than the limit (draw_pixels_at).
THEOREM AllChunksCover ==
  ASSUME NEW img \in Pictures, NEW rle \in BOOLEAN
  PROVE  LET cs == draw_pixels_at[<< img, 0, rle >>]
         IN /\ FlattenSeq([i \in 1 .. Len(cs) |-> OnPanel(cs[i].rle, cs[i].bytes).px])
                 = FlattenSeq(img)
            /\ \A i \in 1 .. Len(cs) :
                 /\ cs[i].y = IF i = 1 THEN 0 ELSE cs[i - 1].y + cs[i - 1].h
                 /\ Len(cs[i].bytes) \in 1 .. 2 * cs[i].h * Len(img[1])
                 /\ Len(cs[i].bytes) <= MaxBytes \/ cs[i].h = 1
<1> DEFINE cs == draw_pixels_at[<< img, 0, rle >>]
<1>1. img \in Seq(Seq(Pixel)) /\ Len(img) \in Nat
  BY PictureFacts, RectangleFacts
<1>2. CoverFrom(cs, img, 0)
  BY <1>1, ChunksFrom
<1>3. SubSeq(img, 0 + 1, Len(img)) = img
  BY <1>1, SubSeqFull
<1> HIDE DEF cs
<1>4. FlattenSeq(Panels(cs)) = FlattenSeq(img)
  BY <1>2, <1>3 DEF CoverFrom
<1>5. Panels(cs) = [i \in 1 .. Len(cs) |-> OnPanel(cs[i].rle, cs[i].bytes).px]
  BY DEF Panels, Shown
<1>6. \A i \in 1 .. Len(cs) :
        /\ cs[i].y = IF i = 1 THEN 0 ELSE cs[i - 1].y + cs[i - 1].h
        /\ Len(cs[i].bytes) \in 1 .. 2 * cs[i].h * Len(img[1])
        /\ Len(cs[i].bytes) <= MaxBytes \/ cs[i].h = 1
  BY <1>2 DEF CoverFrom
<1> QED
  BY <1>4, <1>5, <1>6 DEF cs

LEMMA SmallAreRectangles ==
  ASSUME NEW img \in SmallImages
  PROVE  img \in Pictures
<1>1. PICK h \in Nat, w \in Nat : h > 0 /\ w > 0 /\ img \in [1 .. h -> [1 .. w -> Pixels]]
  <2>1. PICK size \in {<< 3, 1 >>, << 2, 2 >>, << 4, 1 >>, << 2, 3 >>} :
          img \in [1 .. size[1] -> [1 .. size[2] -> Pixels]]
    BY DEF SmallImages
  <2>2. size[1] \in Nat /\ size[2] \in Nat /\ size[1] > 0 /\ size[2] > 0
    OBVIOUS
  <2> QED
    BY <2>1, <2>2
<1>2. Pixels \subseteq Pixel
  BY CodecAssumption, BaseFacts DEF Pixel
<1>3. \A i \in 1 .. h : img[i] \in Seq(Pixels) /\ Len(img[i]) = w
  BY <1>1
<1>4. \A i \in 1 .. h : img[i] \in Seq(Pixel)
  BY <1>2, <1>3, SeqMonotonic
<1>5. img \in Seq(Seq(Pixel)) /\ Len(img) = h
  BY <1>1, <1>4
<1>6. img \in Seq(Seq(Nat))
  <2>1. \A i \in 1 .. h : img[i] \in Seq(Nat)
    BY <1>4, PixelSeq
  <2> QED
    BY <1>1, <2>1
<1>7. \A i \in 1 .. Len(img) : Len(img[i]) = Len(img[1]) /\ Len(img[1]) > 0
  <2>1. 1 \in 1 .. h
    BY <1>1
  <2> QED
    BY <1>1, <1>3, <1>5, <2>1
<1> QED
  BY <1>5, <1>6, <1>7 DEF Pictures, Rectangles

\* The images of the checks arrive whole.
THEOREM ChunksCoverHolds == ChunksCover
BY SmallAreRectangles, AllChunksCover DEF ChunksCover

-----------------------------------------------------------------------------
(* The clock that wraps. *)

LEMMA ModIs ==
  ASSUME NEW C \in Nat, C > 0, NEW r \in 0 .. C - 1, NEW x, \E q \in Int : x = q * C + r
  PROVE  x % C = r
<1>1. PICK q \in Int : x = q * C + r
  OBVIOUS
<1>2. (q * C + r) % C = r
  OBVIOUS
<1> QED
  BY <1>1, <1>2

LEMMA ModSplit ==
  ASSUME NEW C \in Nat, C > 0, NEW x \in Nat
  PROVE  \E q \in Nat : x = q * C + (x % C) /\ x % C \in 0 .. C - 1
<1>1. x \div C \in Nat /\ x % C \in 0 .. C - 1 /\ (x \div C) * C + (x % C) = x
  BY DivMod
<1> QED
  BY <1>1

LEMMA ModAdd ==
  ASSUME NEW C \in Nat, C > 0, NEW x \in Nat, NEW b \in Nat
  PROVE  ((x % C) + b) % C = (x + b) % C
<1> DEFINE r == x % C
           y == r + b
           t == y % C
<1>1. PICK q \in Nat : x = q * C + r /\ r \in 0 .. C - 1
  BY ModSplit
<1> HIDE DEF r
<1>2. y \in Nat
  BY <1>1
<1>3. PICK p \in Nat : y = p * C + t /\ t \in 0 .. C - 1
  BY <1>2, ModSplit
<1> HIDE DEF t
<1>4. \E k \in Int : x + b = k * C + t
  <2>1. x + b = (q + p) * C + t /\ q + p \in Int
    BY <1>1, <1>3
  <2> QED
    BY <2>1, Zenon
<1>5. (x + b) % C = t
  BY <1>3, <1>4, ModIs
<1> QED
  BY <1>5 DEF t, r

\* The clock tells whether something less than half its range away is over.
LEMMA ModAway ==
  ASSUME NEW C \in Nat, C > 0, NEW x \in Nat, NEW d \in 0 .. C - 1
  PROVE  /\ (((x + d) % C) - (x % C)) % C = d
         /\ d > 0 => ((x % C) - ((x + d) % C)) % C = C - d
<1> DEFINE r == x % C
           t == (x + d) % C
<1>1. PICK q \in Nat : x = q * C + r /\ r \in 0 .. C - 1
  BY ModSplit
<1>2. t = IF r + d < C THEN r + d ELSE r + d - C
  <2> HIDE DEF r
  <2>1. CASE r + d < C
    <3> DEFINE m == r + d
    <3>1. x + d = q * C + m /\ q \in Int /\ m \in 0 .. C - 1
      BY <1>1, <2>1
    <3> HIDE DEF m
    <3>2. \E k \in Int : x + d = k * C + m
      BY <3>1, Zenon
    <3>3. (x + d) % C = m
      BY <3>1, <3>2, ModIs
    <3> QED
      BY <2>1, <3>3 DEF m
  <2>2. CASE ~ (r + d < C)
    <3> DEFINE m == r + d - C
    <3>1. x + d = (q + 1) * C + m /\ q + 1 \in Int /\ m \in 0 .. C - 1
      BY <1>1, <2>2
    <3> HIDE DEF m
    <3>2. \E k \in Int : x + d = k * C + m
      BY <3>1, Zenon
    <3>3. (x + d) % C = m
      BY <3>1, <3>2, ModIs
    <3> QED
      BY <2>2, <3>3 DEF m
  <2> QED
    BY <2>1, <2>2
<1> HIDE DEF r, t
<1>3. (t - r) % C = d
  <2>1. t - r = 0 * C + d \/ t - r = (-1) * C + d
    BY <1>1, <1>2
  <2>2. \E k \in Int : t - r = k * C + d
    BY <2>1
  <2> QED
    BY <2>2, ModIs
<1>4. ASSUME d > 0 PROVE (r - t) % C = C - d
  <2> DEFINE m == C - d
  <2>1. m \in 0 .. C - 1 /\ (r - t = (-1) * C + m \/ r - t = 0 * C + m)
    BY <1>1, <1>2, <1>4
  <2> HIDE DEF m
  <2>2. \E k \in Int : r - t = k * C + m
    <3> DEFINE y == r - t
    <3>1. y = (-1) * C + m \/ y = 0 * C + m
      BY <2>1
    <3>2. -1 \in Int /\ 0 \in Int
      OBVIOUS
    <3> HIDE DEF y
    <3>3. \E k \in Int : y = k * C + m
      BY <3>1, <3>2, Zenon
    <3> QED
      BY <3>3 DEF y
  <2>3. (r - t) % C = m
    BY <2>1, <2>2, ModIs
  <2> QED
    BY <2>3 DEF m
<1> QED
  BY <1>3, <1>4 DEF r, t

LEMMA ClockFacts ==
  /\ Clock \in Nat /\ Clock > 0 /\ Clock \div 2 \in Nat /\ 2 * (Clock \div 2) = Clock
  /\ MaxBeat \in Nat /\ MaxBeat < Clock \div 2 /\ MaxNotes \in Nat /\ Minute4 \in Nat
BY MelodyAssumption

LEMMA ReachedIs ==
  ASSUME NEW x \in Nat, NEW d \in Nat, d <= MaxBeat
  PROVE  /\ Reached((x + d) % Clock, x % Clock)
         /\ d > 0 => ~ Reached(x % Clock, (x + d) % Clock)
<1> DEFINE H == Clock \div 2
           t == (x + d) % Clock
           r == x % Clock
<1>0. /\ Clock \in Nat /\ Clock > 0 /\ H \in Nat /\ 2 * H = Clock /\ MaxBeat < H /\ MaxBeat \in Nat
  BY ClockFacts
<1>1. d \in 0 .. Clock - 1
  <2> HIDE DEF H
  <2> QED
    BY <1>0
<1>2. (t - r) % Clock = d /\ (d > 0 => (r - t) % Clock = Clock - d)
  BY <1>0, <1>1, ModAway
<1>3. /\ Reached(t, r) <=> (t - r) % Clock < H
      /\ Reached(r, t) <=> (r - t) % Clock < H
  BY DEF Reached
<1> HIDE DEF H, t, r
<1>4. Reached(t, r) /\ (d > 0 => ~ Reached(r, t))
  BY <1>0, <1>2, <1>3
<1> QED
  BY <1>4 DEF t, r

-----------------------------------------------------------------------------
(* Sums and passes, unfolded. *)

TotalDef(f, in) == IF in[2] = 0 THEN 0 ELSE f[<< in[1], in[2] - 1 >>] + in[1][in[2]]
Terms(in) == in[2]
Summer == INSTANCE Recursion WITH S <- Seq(Nat) \X Nat, Size <- Terms, Def <- TotalDef

LEMMA SummerWell == Summer!Sized /\ Summer!LooksDown
<1>1. Summer!Sized
  BY DEF Summer!Sized, Terms
<1>2. Summer!LooksDown
  <2>0. SUFFICES ASSUME NEW g, NEW h, NEW x \in Seq(Nat) \X Nat,
                        \A y \in Seq(Nat) \X Nat : Terms(y) < Terms(x) => g[y] = h[y]
                 PROVE  TotalDef(g, x) = TotalDef(h, x)
    BY Zenon DEF Summer!LooksDown
  <2> DEFINE s == x[1]
             n == x[2]
             y == << s, n - 1 >>
  <2>1. s \in Seq(Nat) /\ n \in Nat
    OBVIOUS
  <2>2. CASE n = 0
    BY <2>2 DEF TotalDef
  <2>3. CASE n # 0
    <3>1. y \in Seq(Nat) \X Nat /\ Terms(y) < Terms(x)
      BY <2>1, <2>3 DEF Terms
    <3>2. g[y] = h[y]
      BY <2>0, <3>1
    <3>3. TotalDef(g, x) = g[y] + s[n] /\ TotalDef(h, x) = h[y] + s[n]
      BY <2>3 DEF TotalDef
    <3> QED
      BY <3>2, <3>3
  <2> QED
    BY <2>2, <2>3
<1> QED
  BY <1>1, <1>2

LEMMA TotalIs ==
  ASSUME NEW s \in Seq(Nat), NEW n \in Nat
  PROVE  /\ Total[<< s, 0 >>] = 0
         /\ Total[<< s, n + 1 >>] = Total[<< s, n >>] + s[n + 1]
<1> DEFINE D == Seq(Nat) \X Nat
           f == Total
           m == n + 1
<1>1. \E g : g = [x \in D |-> TotalDef(g, x)]
  BY SummerWell, Summer!RecursionDefines
<1>2. f = [x \in D |-> TotalDef(f, x)]
  BY <1>1, Zenon DEF Total, TotalDef
<1> HIDE DEF f
<1>3. << s, 0 >> \in D /\ << s, m >> \in D
  OBVIOUS
<1>4. f[<< s, 0 >>] = TotalDef(f, << s, 0 >>) /\ f[<< s, m >>] = TotalDef(f, << s, m >>)
  BY <1>2, <1>3, Zenon
<1>5. TotalDef(f, << s, 0 >>) = 0
  BY DEF TotalDef
<1>6. TotalDef(f, << s, m >>) = f[<< s, n >>] + s[m]
  <2>1. m # 0 /\ m - 1 = n
    OBVIOUS
  <2> QED
    BY <2>1 DEF TotalDef
<1> QED
  BY <1>4, <1>5, <1>6 DEF f

LEMMA TotalType ==
  ASSUME NEW s \in Seq(Nat), NEW n \in Nat, n <= Len(s)
  PROVE  Total[<< s, n >>] \in Nat
<1> DEFINE T(k) == Total[<< s, k >>] \in Nat
           N == {k \in Nat : k <= Len(s) => T(k)}
<1>1. 0 \in N
  <2>1. Total[<< s, 0 >>] = 0
    BY TotalIs, Zenon
  <2> QED
    BY <2>1
<1>2. ASSUME NEW k \in Nat, k \in N PROVE k + 1 \in N
  <2> SUFFICES ASSUME k + 1 <= Len(s) PROVE T(k + 1)
    OBVIOUS
  <2> DEFINE m == k + 1
             a == Total[<< s, k >>]
             b == s[m]
  <2>0. Len(s) \in Nat
    OBVIOUS
  <2>1. m \in 1 .. Len(s) /\ k <= Len(s)
    BY <2>0
  <2>2. b \in Nat
    BY <2>1, ElementOfSeq
  <2>3. a \in Nat
    BY <1>2, <2>1
  <2>4. Total[<< s, m >>] = a + b
    BY TotalIs
  <2> HIDE DEF a, b
  <2>5. a + b \in Nat
    BY <2>2, <2>3
  <2>6. Total[<< s, m >>] \in Nat
    BY <2>4, <2>5
  <2> QED
    BY <2>6
<1> HIDE DEF N
<1>3. \A k \in Nat : k \in N
  BY <1>1, <1>2, Summer!Induction
<1> QED
  BY <1>3 DEF N

\* A sum is no less than the ones before it.
LEMMA TotalGrows ==
  ASSUME NEW s \in Seq(Nat), NEW k \in Nat
  PROVE  \A n \in Nat : k + n <= Len(s) => Total[<< s, k >>] <= Total[<< s, k + n >>]
<1> DEFINE T(n) == Total[<< s, k >>] <= Total[<< s, k + n >>]
           N == {n \in Nat : k + n <= Len(s) => T(n)}
<1>0. Len(s) \in Nat
  OBVIOUS
<1>1. 0 \in N
  <2> SUFFICES ASSUME k <= Len(s) PROVE Total[<< s, k >>] <= Total[<< s, k + 0 >>]
    OBVIOUS
  <2> DEFINE a == Total[<< s, k >>]
  <2>1. a \in Nat /\ k + 0 = k
    BY TotalType
  <2>2. Total[<< s, k + 0 >>] = a
    BY <2>1
  <2> HIDE DEF a
  <2>3. a <= Total[<< s, k + 0 >>]
    BY <2>1, <2>2
  <2> QED
    BY <2>3 DEF a
<1>2. ASSUME NEW n \in Nat, n \in N PROVE n + 1 \in N
  <2> SUFFICES ASSUME k + (n + 1) <= Len(s) PROVE T(n + 1)
    OBVIOUS
  <2> DEFINE j == k + n
             m == j + 1
             a == Total[<< s, k >>]
             b == Total[<< s, j >>]
             c == s[m]
  <2>1. j \in Nat /\ j <= Len(s) /\ k <= Len(s) /\ k + (n + 1) = m /\ m \in 1 .. Len(s)
    BY <1>0
  <2>2. a <= b
    BY <1>2, <2>1
  <2>3. Total[<< s, m >>] = b + c
    BY <2>1, TotalIs
  <2>4. a \in Nat /\ b \in Nat /\ c \in Nat
    BY <2>1, TotalType, ElementOfSeq
  <2>5. a <= b + c
    <3> HIDE DEF a, b, c
    <3> QED
      BY <2>2, <2>4
  <2>6. Total[<< s, k >>] <= Total[<< s, m >>]
    BY <2>3, <2>5
  <2> HIDE DEF m
  <2> QED
    BY <2>1, <2>6
<1> HIDE DEF N
<1>3. \A n \in Nat : n \in N
  BY <1>1, <1>2, Summer!Induction
<1> QED
  BY <1>3 DEF N

PassDef(f, in) ==
  IF in[4] = 0 THEN [at |-> 0, player |-> Started(in[1], in[3])]
  ELSE LET was == f[<< in[1], in[2], in[3], in[4] - 1 >>]
           at == was.at + in[2][((in[4] - 1) % Len(in[2])) + 1]
       IN [at |-> at, player |-> Tick(was.player, in[1], (in[3] + at) % Clock)]
Passed(in) == in[4]
Looper == INSTANCE Recursion WITH S <- Seq(Nat) \X Seq(Nat) \X Nat \X Nat,
                                  Size <- Passed, Def <- PassDef

Gap(gaps, i) == gaps[((i - 1) % Len(gaps)) + 1]
NextPass(was, beats, gaps, start, i) ==
  [at |-> was.at + Gap(gaps, i),
   player |-> Tick(was.player, beats, (start + (was.at + Gap(gaps, i))) % Clock)]

LEMMA PassDefIs ==
  ASSUME NEW f, NEW beats, NEW gaps, NEW start
  PROVE  PassDef(f, << beats, gaps, start, 0 >>) = [at |-> 0, player |-> Started(beats, start)]
<1> DEFINE in == << beats, gaps, start, 0 >>
<1>1. in[1] = beats /\ in[2] = gaps /\ in[3] = start /\ in[4] = 0
  OBVIOUS
<1> HIDE DEF in
<1>2. PassDef(f, in) = [at |-> 0, player |-> Started(beats, start)]
  BY <1>1, Zenon DEF PassDef
<1> QED
  BY <1>2 DEF in

LEMMA PassDefNext ==
  ASSUME NEW f, NEW beats, NEW gaps, NEW start, NEW i, i # 0
  PROVE  PassDef(f, << beats, gaps, start, i >>) =
           NextPass(f[<< beats, gaps, start, i - 1 >>], beats, gaps, start, i)
<1> DEFINE in == << beats, gaps, start, i >>
<1>1. in[1] = beats /\ in[2] = gaps /\ in[3] = start /\ in[4] = i
  OBVIOUS
<1> HIDE DEF in
<1>2. PassDef(f, in) = NextPass(f[<< beats, gaps, start, i - 1 >>], beats, gaps, start, i)
  BY <1>1, Zenon DEF PassDef, NextPass, Gap
<1> QED
  BY <1>2 DEF in

LEMMA LooperWell == Looper!Sized /\ Looper!LooksDown
<1>1. Looper!Sized
  BY DEF Looper!Sized, Passed
<1>2. Looper!LooksDown
  <2> DEFINE D == Seq(Nat) \X Seq(Nat) \X Nat \X Nat
  <2>0. SUFFICES ASSUME NEW g, NEW h, NEW x \in D,
                        \A y \in D : Passed(y) < Passed(x) => g[y] = h[y]
                 PROVE  PassDef(g, x) = PassDef(h, x)
    BY Zenon DEF Looper!LooksDown
  <2> DEFINE a == x[1]
             b == x[2]
             c == x[3]
             i == x[4]
             y == << a, b, c, i - 1 >>
  <2>1. a \in Seq(Nat) /\ b \in Seq(Nat) /\ c \in Nat /\ i \in Nat /\ x = << a, b, c, i >>
    OBVIOUS
  <2> HIDE DEF a, b, c, i
  <2>2. CASE i = 0
    <3>1. PassDef(g, << a, b, c, 0 >>) = [at |-> 0, player |-> Started(a, c)]
      BY PassDefIs
    <3>2. PassDef(h, << a, b, c, 0 >>) = [at |-> 0, player |-> Started(a, c)]
      BY PassDefIs
    <3> QED
      BY <2>1, <2>2, <3>1, <3>2, Zenon
  <2>3. CASE i # 0
    <3>1. y \in D /\ Passed(y) = i - 1 /\ Passed(x) = i
      BY <2>1, <2>3 DEF Passed
    <3>2. g[y] = h[y]
      <4> HIDE DEF y
      <4>1. Passed(y) < Passed(x)
        BY <2>1, <3>1
      <4> QED
        BY <2>0, <3>1, <4>1
    <3>3. PassDef(g, << a, b, c, i >>) = NextPass(g[y], a, b, c, i)
      BY <2>3, PassDefNext, Zenon
    <3>4. PassDef(h, << a, b, c, i >>) = NextPass(h[y], a, b, c, i)
      BY <2>3, PassDefNext, Zenon
    <3> QED
      BY <2>1, <3>2, <3>3, <3>4, Zenon
  <2> QED
    BY <2>2, <2>3
<1> QED
  BY <1>1, <1>2

LEMMA PassIs ==
  ASSUME NEW beats \in Seq(Nat), NEW gaps \in Seq(Nat), NEW start \in Nat
  PROVE  /\ Pass[<< beats, gaps, start, 0 >>] = [at |-> 0, player |-> Started(beats, start)]
         /\ \A i \in Nat : Pass[<< beats, gaps, start, i + 1 >>] =
                             NextPass(Pass[<< beats, gaps, start, i >>], beats, gaps, start, i + 1)
<1> DEFINE D == Seq(Nat) \X Seq(Nat) \X Nat \X Nat
           f == Pass
<1>1. \E g : g = [x \in D |-> PassDef(g, x)]
  BY LooperWell, Looper!RecursionDefines
<1>2. f = [x \in D |-> PassDef(f, x)]
  BY <1>1, Zenon DEF Pass, PassDef
<1> HIDE DEF f
<1>3. << beats, gaps, start, 0 >> \in D
  OBVIOUS
<1>4. f[<< beats, gaps, start, 0 >>] = PassDef(f, << beats, gaps, start, 0 >>)
  BY <1>2, <1>3, Zenon
<1>5. f[<< beats, gaps, start, 0 >>] = [at |-> 0, player |-> Started(beats, start)]
  BY <1>4, PassDefIs, Zenon
<1>6. ASSUME NEW i \in Nat
      PROVE  f[<< beats, gaps, start, i + 1 >>] =
               NextPass(f[<< beats, gaps, start, i >>], beats, gaps, start, i + 1)
  <2> DEFINE m == i + 1
  <2>1. m \in Nat /\ m # 0 /\ m - 1 = i
    OBVIOUS
  <2> HIDE DEF m
  <2>2. << beats, gaps, start, m >> \in D
    BY <2>1
  <2>3. f[<< beats, gaps, start, m >>] = PassDef(f, << beats, gaps, start, m >>)
    BY <1>2, <2>2, Zenon
  <2>4. f[<< beats, gaps, start, m >>] = NextPass(f[<< beats, gaps, start, m - 1 >>], beats, gaps, start, m)
    BY <2>1, <2>3, PassDefNext, Zenon
  <2>5. f[<< beats, gaps, start, m >>] = NextPass(f[<< beats, gaps, start, i >>], beats, gaps, start, m)
    BY <2>1, <2>4, Zenon
  <2> QED
    BY <2>5 DEF m
<1> QED
  BY <1>5, <1>6 DEF f

-----------------------------------------------------------------------------
(* A note by the score and in beats: the rounding of one. *)

LEMMA DivLeast ==
  ASSUME NEW y \in Nat, NEW d \in Nat, d > 0, NEW x \in Nat
  PROVE  /\ x * d <= y => x <= y \div d
         /\ y < x * d => y \div d < x
<1> DEFINE q == y \div d
           r == y % d
<1>1. q \in Nat /\ r \in 0 .. d - 1 /\ q * d + r = y
  BY DivMod
<1> HIDE DEF q, r
<1>2. ASSUME x * d <= y PROVE x <= q
  <2> SUFFICES ASSUME q + 1 <= x PROVE FALSE
    BY <1>1
  <2>1. (q + 1) * d <= x * d
    BY <1>1
  <2>2. (q + 1) * d = q * d + d
    BY <1>1
  <2> QED
    BY <1>1, <1>2, <2>1, <2>2
<1>3. ASSUME y < x * d PROVE q < x
  <2> SUFFICES ASSUME x <= q PROVE FALSE
    BY <1>1
  <2>1. x * d <= q * d
    BY <1>1
  <2> QED
    BY <1>1, <1>3, <2>1
<1> QED
  BY <1>2, <1>3 DEF q

LEMMA PlainNear ==
  ASSUME NEW m \in Nat, NEW t \in Nat, t > 0, NEW d \in Nat, d > 0
  PROVE  /\ (m \div t) \div d \in Nat /\ (4 * m) \div d \in Nat
         /\ (4 * t) * ((m \div t) \div d) <= (4 * m) \div d
         /\ (4 * m) \div d < (4 * t) * ((m \div t) \div d) + 4 * t
<1> DEFINE w == m \div t
           p == w \div d
           q == (4 * m) \div d
           u == 4 * t
<1>1. w \in Nat /\ w * t <= m /\ m < w * t + t
  <2>1. w \in Nat /\ m % t \in 0 .. t - 1 /\ w * t + (m % t) = m
    BY DivMod
  <2> HIDE DEF w
  <2> QED
    BY <2>1
<1> HIDE DEF w
<1>2. p \in Nat /\ p * d <= w /\ w < p * d + d
  <2>1. p \in Nat /\ w % d \in 0 .. d - 1 /\ p * d + (w % d) = w
    BY <1>1, DivMod
  <2> HIDE DEF p
  <2> QED
    BY <1>1, <2>1
<1> HIDE DEF p
<1>3. 4 * m \in Nat /\ q \in Nat /\ u * p \in Nat /\ u * p + u \in Nat
  <2>1. 4 * m \in Nat
    OBVIOUS
  <2> QED
    BY <1>2, <2>1, DivMod
<1>4. (u * p) * d <= 4 * m
  <2>1. (p * d) * t <= w * t
    BY <1>1, <1>2
  <2>2. (u * p) * d = 4 * ((p * d) * t)
    BY <1>2
  <2> QED
    BY <1>1, <1>2, <2>1, <2>2
<1>5. 4 * m < (u * p + u) * d
  <2> DEFINE e == p * d + d
  <2>1. e \in Nat /\ w + 1 <= e
    BY <1>1, <1>2
  <2>2. (w + 1) * t <= e * t
    BY <1>1, <2>1
  <2>3. (w + 1) * t = w * t + t
    BY <1>1
  <2>4. (u * p + u) * d = 4 * (e * t)
    BY <1>2
  <2> HIDE DEF e
  <2> QED
    BY <1>1, <2>1, <2>2, <2>3, <2>4
<1> HIDE DEF u
<1>6. u * p <= q
  BY <1>3, <1>4, DivLeast
<1>7. q < u * p + u
  BY <1>3, <1>5, DivLeast
<1> QED
  BY <1>2, <1>3, <1>6, <1>7 DEF w, p, q, u

LEMMA DottedNear ==
  ASSUME NEW u \in Nat, NEW p \in Nat, NEW q \in Nat, u * p <= q, q < u * p + u
  PROVE  /\ p \div 2 \in Nat /\ q \div 2 \in Nat
         /\ u * (p + p \div 2) <= q + q \div 2
         /\ q + q \div 2 < u * (p + p \div 2) + 2 * u
<1> DEFINE h == p \div 2
           k == q \div 2
<1>1. h \in Nat /\ 2 * h <= p /\ p <= 2 * h + 1 /\ k \in Nat /\ 2 * k <= q /\ q <= 2 * k + 1
  OBVIOUS
<1> HIDE DEF h, k
<1>2. u * (2 * h) <= u * p /\ u * p <= u * (2 * h + 1)
  BY <1>1
<1>3. u * (2 * h) = 2 * (u * h) /\ u * (2 * h + 1) = 2 * (u * h) + u /\ u * (p + h) = u * p + u * h
      /\ u * h \in Nat /\ u * p \in Nat
  BY <1>1
<1>4. u * h <= k
  BY <1>1, <1>2, <1>3
<1>5. k < u * h + u
  BY <1>1, <1>2, <1>3
<1> QED
  BY <1>1, <1>3, <1>4, <1>5 DEF h, k

LEMMA LeastOfTwo ==
  ASSUME NEW a \in Nat, NEW b \in Nat
  PROVE  Min({a, b}) = IF a <= b THEN a ELSE b
<1> DEFINE c == IF a <= b THEN a ELSE b
           S == {a, b}
<1>1. c \in S /\ \A y \in S : c <= y
  OBVIOUS
<1>2. \A x \in S : (\A y \in S : x <= y) => x = c
  OBVIOUS
<1> HIDE DEF c, S
<1>3. Min(S) = c
  BY <1>1, <1>2, Zenon DEF Min
<1> QED
  BY <1>3 DEF c, S

SongType == [bpm : Nat, dur : Nat, notes : Seq(Note)]
Divisor(song, note) == IF Given(song, note) > 0 THEN Given(song, note) ELSE 4
PlainBeat(song, note) == (Minute4 \div Tempo(song)) \div Divisor(song, note)
FullBeat(song, note) ==
  PlainBeat(song, note) + (IF note.dotted THEN PlainBeat(song, note) \div 2 ELSE 0)
Unit4(song) == 4 * Tempo(song)

LEMMA SongFacts ==
  ASSUME NEW song \in SongType, NEW note \in Note
  PROVE  /\ Tempo(song) \in Nat /\ Tempo(song) > 0
         /\ Divisor(song, note) \in Nat /\ Divisor(song, note) > 0 /\ note.dotted \in BOOLEAN
<1>1. song.bpm \in Nat /\ song.dur \in Nat
  BY DEF SongType
<1>2. note.dur \in Nat \cup {-1} /\ note.dotted \in BOOLEAN
  BY DEF Note, NoDur
<1>3. Given(song, note) \in Int
  BY <1>1, <1>2 DEF Given, NoDur
<1>4. Divisor(song, note) \in Nat /\ Divisor(song, note) > 0
  BY <1>3 DEF Divisor
<1>5. Tempo(song) \in Nat /\ Tempo(song) > 0
  BY <1>1 DEF Tempo
<1> QED
  BY <1>2, <1>4, <1>5

\* A note in beats is no longer than by the score, and less than two milliseconds shorter.
LEMMA NoteNear ==
  ASSUME NEW song \in SongType, NEW note \in Note
  PROVE  /\ FullBeat(song, note) \in Nat /\ Quarters(song, note) \in Nat
         /\ Unit4(song) * FullBeat(song, note) <= Quarters(song, note)
         /\ Quarters(song, note) < Unit4(song) * FullBeat(song, note) + 2 * Unit4(song)
<1> DEFINE u == Unit4(song)
           d == Divisor(song, note)
           p == PlainBeat(song, note)
           q == (4 * Minute4) \div d
<1>1. d \in Nat /\ d > 0 /\ Minute4 \in Nat /\ Tempo(song) \in Nat /\ Tempo(song) > 0
      /\ note.dotted \in BOOLEAN
  BY SongFacts, ClockFacts
<1>2. u \in Nat /\ u > 0
  BY <1>1 DEF Unit4
<1>3. p \in Nat /\ q \in Nat /\ u * p <= q /\ q < u * p + u
  <2> HIDE DEF d
  <2> QED
    BY <1>1, PlainNear DEF PlainBeat, Unit4, d
<1>4. Quarters(song, note) = IF note.dotted THEN q + q \div 2 ELSE q
  BY DEF Quarters, Divisor
<1>5. FullBeat(song, note) = p + IF note.dotted THEN p \div 2 ELSE 0
  BY DEF FullBeat
<1> HIDE DEF u, d, p, q
<1>6. CASE note.dotted
  <2>1. /\ p \div 2 \in Nat /\ q \div 2 \in Nat
        /\ u * (p + p \div 2) <= q + q \div 2
        /\ q + q \div 2 < u * (p + p \div 2) + 2 * u
    BY <1>2, <1>3, DottedNear
  <2>2. Quarters(song, note) = q + q \div 2 /\ FullBeat(song, note) = p + p \div 2
    BY <1>4, <1>5, <1>6
  <2> DEFINE b == p + p \div 2
             c == q + q \div 2
  <2>3. b \in Nat /\ c \in Nat
    BY <1>3, <2>1
  <2> HIDE DEF b, c
  <2> QED
    BY <2>1, <2>2, <2>3 DEF u, b, c
<1>7. CASE ~ note.dotted
  <2>1. Quarters(song, note) = q /\ FullBeat(song, note) = p
    BY <1>3, <1>4, <1>5, <1>7
  <2>2. q < u * p + 2 * u
    BY <1>2, <1>3
  <2> QED
    BY <1>3, <2>1, <2>2 DEF u
<1> QED
  BY <1>1, <1>6, <1>7

LEMMA BeatsFacts ==
  ASSUME NEW song \in SongType
  PROVE  /\ Beats(song) \in Seq(Nat) /\ Len(Beats(song)) <= Len(song.notes)
         /\ \A i \in 1 .. Len(Beats(song)) :
              Beats(song)[i] < MaxBeat => Beats(song)[i] = FullBeat(song, song.notes[i])
<1> DEFINE L == Len(song.notes)
           N == Min({MaxNotes, L})
           B(i) == Min({MaxBeat, FullBeat(song, song.notes[i])})
<1>1. L \in Nat /\ song.notes \in Seq(Note) /\ \A i \in 1 .. L : song.notes[i] \in Note
  <2>1. song.notes \in Seq(Note)
    BY DEF SongType
  <2> QED
    BY <2>1, ElementOfSeq
<1>2. N \in Nat /\ N <= L
  <2>1. N = IF MaxNotes <= L THEN MaxNotes ELSE L
    BY <1>1, ClockFacts, LeastOfTwo
  <2> HIDE DEF N
  <2> QED
    BY <1>1, <2>1, ClockFacts
<1>3. Beats(song) = [i \in 1 .. N |-> B(i)]
  BY DEF Beats, FullBeat, PlainBeat, Divisor
<1>4. ASSUME NEW i \in 1 .. N
      PROVE  B(i) \in Nat /\ (B(i) < MaxBeat => B(i) = FullBeat(song, song.notes[i]))
  <2> DEFINE b == FullBeat(song, song.notes[i])
  <2>1. i \in 1 .. L
    BY <1>1, <1>2
  <2>2. b \in Nat /\ MaxBeat \in Nat
    BY <1>1, <2>1, NoteNear, ClockFacts
  <2> HIDE DEF b
  <2>3. Min({MaxBeat, b}) = IF MaxBeat <= b THEN MaxBeat ELSE b
    BY <2>2, LeastOfTwo
  <2>4. Min({MaxBeat, b}) \in Nat /\ (Min({MaxBeat, b}) < MaxBeat => Min({MaxBeat, b}) = b)
    BY <2>2, <2>3
  <2> QED
    BY <2>4 DEF b
<1> HIDE DEF N, B
<1>5. Beats(song) \in Seq(Nat) /\ Len(Beats(song)) = N /\ \A i \in 1 .. N : Beats(song)[i] = B(i)
  BY <1>2, <1>3, <1>4
<1> QED
  BY <1>2, <1>4, <1>5

ByScore(song) == [i \in DOMAIN song.notes |-> Quarters(song, song.notes[i])]

LEMMA ByScoreFacts ==
  ASSUME NEW song \in SongType
  PROVE  /\ ByScore(song) \in Seq(Nat) /\ Len(ByScore(song)) = Len(song.notes)
         /\ \A i \in 1 .. Len(song.notes) : ByScore(song)[i] = Quarters(song, song.notes[i])
<1>1. song.notes \in Seq(Note) /\ Len(song.notes) \in Nat /\ DOMAIN song.notes = 1 .. Len(song.notes)
  BY DEF SongType
<1>2. \A i \in 1 .. Len(song.notes) : Quarters(song, song.notes[i]) \in Nat
  BY <1>1, NoteNear, ElementOfSeq
<1> QED
  BY <1>1, <1>2 DEF ByScore

LEMMA SumNear ==
  ASSUME NEW u \in Nat, NEW x \in Nat, NEW y \in Nat, NEW v \in Nat, NEW w \in Nat, NEW k \in Nat,
         u * x <= y, y + k <= u * x + u * (2 * k), u * v <= w, w < u * v + 2 * u
  PROVE  /\ x + v \in Nat /\ y + w \in Nat
         /\ u * (x + v) <= y + w /\ y + w + (k + 1) <= u * (x + v) + u * (2 * (k + 1))
<1>1. u * (x + v) = u * x + u * v /\ u * (2 * (k + 1)) = u * (2 * k) + 2 * u
  OBVIOUS
<1>2. u * x \in Nat /\ u * v \in Nat /\ u * (2 * k) \in Nat
  OBVIOUS
<1> QED
  BY <1>1, <1>2

\* The notes before one: what they last by the score and in beats.
LEMMA ScoreNear ==
  ASSUME NEW song \in SongType, \A i \in 1 .. Len(Beats(song)) : Beats(song)[i] < MaxBeat
  PROVE  \A k \in Nat : k <= Len(Beats(song)) =>
           /\ Total[<< Beats(song), k >>] \in Nat /\ Total[<< ByScore(song), k >>] \in Nat
           /\ Unit4(song) * Total[<< Beats(song), k >>] <= Total[<< ByScore(song), k >>]
           /\ Total[<< ByScore(song), k >>] + k <=
                Unit4(song) * Total[<< Beats(song), k >>] + Unit4(song) * (2 * k)
<1> DEFINE b == Beats(song)
           q == ByScore(song)
           u == Unit4(song)
           Near(k) == /\ Total[<< b, k >>] \in Nat /\ Total[<< q, k >>] \in Nat
                      /\ u * Total[<< b, k >>] <= Total[<< q, k >>]
                      /\ Total[<< q, k >>] + k <= u * Total[<< b, k >>] + u * (2 * k)
           T == {k \in Nat : k <= Len(b) => Near(k)}
<1>1. /\ b \in Seq(Nat) /\ q \in Seq(Nat) /\ Len(b) \in Nat /\ Len(b) <= Len(q) /\ u \in Nat
      /\ song.notes \in Seq(Note) /\ Len(q) = Len(song.notes) /\ Len(q) \in Nat
  <2>1. b \in Seq(Nat) /\ Len(b) <= Len(song.notes) /\ song.notes \in Seq(Note)
    BY BeatsFacts DEF SongType
  <2>2. q \in Seq(Nat) /\ Len(q) = Len(song.notes)
    BY ByScoreFacts
  <2>3. u \in Nat
    <3>1. song.bpm \in Nat
      BY DEF SongType
    <3> QED
      BY <3>1 DEF Unit4, Tempo
  <2> HIDE DEF b, q, u
  <2> QED
    BY <2>1, <2>2, <2>3
<1>2. ASSUME NEW i \in 1 .. Len(b)
      PROVE  /\ b[i] \in Nat /\ q[i] \in Nat
             /\ u * b[i] <= q[i] /\ q[i] < u * b[i] + 2 * u
  <2>1. i \in 1 .. Len(song.notes)
    BY <1>1
  <2>2. song.notes[i] \in Note
    BY <1>1, <2>1, ElementOfSeq
  <2>3. b[i] = FullBeat(song, song.notes[i]) /\ q[i] = Quarters(song, song.notes[i])
    BY <2>1, BeatsFacts, ByScoreFacts
  <2> HIDE DEF b, q, u
  <2>4. /\ FullBeat(song, song.notes[i]) \in Nat /\ Quarters(song, song.notes[i]) \in Nat
        /\ u * FullBeat(song, song.notes[i]) <= Quarters(song, song.notes[i])
        /\ Quarters(song, song.notes[i]) < u * FullBeat(song, song.notes[i]) + 2 * u
    BY <2>2, NoteNear DEF u
  <2> QED
    BY <2>3, <2>4
<1>3. 0 \in T
  <2>1. Total[<< b, 0 >>] = 0
    BY <1>1, TotalIs, Zenon
  <2>2. Total[<< q, 0 >>] = 0
    BY <1>1, TotalIs, Zenon
  <2> HIDE DEF b, q, u
  <2>3. Near(0)
    BY <1>1, <2>1, <2>2
  <2> QED
    BY <2>3
<1>4. ASSUME NEW k \in Nat, k \in T PROVE k + 1 \in T
  <2> SUFFICES ASSUME k + 1 <= Len(b) PROVE Near(k + 1)
    OBVIOUS
  <2> DEFINE m == k + 1
             x == Total[<< b, k >>]
             y == Total[<< q, k >>]
  <2>1. m \in 1 .. Len(b) /\ k <= Len(b) /\ m = k + 1
    BY <1>1
  <2>2. x \in Nat /\ y \in Nat /\ u * x <= y /\ y + k <= u * x + u * (2 * k)
    BY <1>4, <2>1
  <2>3. b[m] \in Nat /\ q[m] \in Nat /\ u * b[m] <= q[m] /\ q[m] < u * b[m] + 2 * u
    BY <1>2, <2>1
  <2>4. Total[<< b, m >>] = x + b[m]
    BY <1>1, TotalIs
  <2>5. Total[<< q, m >>] = y + q[m]
    BY <1>1, TotalIs
  <2> DEFINE v == b[m]
             w == q[m]
  <2> HIDE DEF x, y, v, w, b, q, u, m
  <2>6. /\ x + v \in Nat /\ y + w \in Nat
        /\ u * (x + v) <= y + w /\ y + w + (k + 1) <= u * (x + v) + u * (2 * (k + 1))
    <3>1. v \in Nat /\ w \in Nat /\ u * v <= w /\ w < u * v + 2 * u
      BY <2>3 DEF v, w
    <3> QED
      BY <1>1, <2>2, <3>1, SumNear
  <2>7. Total[<< b, m >>] = x + v /\ Total[<< q, m >>] = y + w
    BY <2>4, <2>5 DEF v, w
  <2>8. Near(m)
    BY <2>1, <2>6, <2>7
  <2> QED
    BY <2>1, <2>8
<1> HIDE DEF T
<1>5. \A k \in Nat : k \in T
  BY <1>3, <1>4, Summer!Induction
<1> QED
  BY <1>5 DEF T

-----------------------------------------------------------------------------
(* The song as it is heard. *)

Due(beats, n) == Total[<< beats, n >>]
At(beats, gaps, start, i) == Pass[<< beats, gaps, start, i >>].at
Player(beats, gaps, start, i) == Pass[<< beats, gaps, start, i >>].player

\* No pass of the loop is later than a beat is long.
Steady(beats, gaps, start, late) ==
  /\ beats \in Seq(Nat) /\ gaps \in Seq(Nat) /\ gaps # << >> /\ start \in Nat /\ late \in Nat
  /\ \A i \in 1 .. Len(gaps) : gaps[i] \in 1 .. late
  /\ \A i \in 1 .. Len(beats) : beats[i] >= late /\ beats[i] <= MaxBeat

LEMMA DueFacts ==
  ASSUME NEW beats, NEW gaps, NEW start, NEW late, Steady(beats, gaps, start, late)
  PROVE  /\ Due(beats, 0) = 0 /\ Len(beats) \in Nat /\ late >= 1
         /\ \A n \in 1 .. Len(beats) :
              /\ Due(beats, n - 1) \in Nat /\ Due(beats, n) \in Nat /\ beats[n] \in Nat
              /\ beats[n] >= late /\ beats[n] <= MaxBeat /\ Due(beats, n) = Due(beats, n - 1) + beats[n]
<1>1. beats \in Seq(Nat) /\ Len(beats) \in Nat
  BY DEF Steady
<1>2. Due(beats, 0) = 0
  BY <1>1, TotalIs, Zenon DEF Due
<1>3. late >= 1
  <2>1. gaps \in Seq(Nat) /\ gaps # << >> /\ late \in Nat
    BY DEF Steady
  <2>2. 1 \in 1 .. Len(gaps)
    BY <2>1, EmptySeq
  <2>3. gaps[1] \in 1 .. late
    BY <2>2 DEF Steady
  <2> QED
    BY <2>1, <2>3
<1>4. ASSUME NEW n \in 1 .. Len(beats)
      PROVE  /\ Due(beats, n - 1) \in Nat /\ Due(beats, n) \in Nat /\ beats[n] \in Nat
             /\ beats[n] >= late /\ beats[n] <= MaxBeat /\ Due(beats, n) = Due(beats, n - 1) + beats[n]
  <2> DEFINE k == n - 1
  <2>1. k \in Nat /\ n \in Nat /\ k <= Len(beats) /\ n <= Len(beats) /\ k + 1 = n
    BY <1>1
  <2> HIDE DEF k
  <2>2. Due(beats, k) \in Nat /\ Due(beats, n) \in Nat /\ beats[n] \in Nat
    BY <1>1, <2>1, TotalType, ElementOfSeq DEF Due
  <2>3. Due(beats, k + 1) = Due(beats, k) + beats[k + 1]
    BY <1>1, <2>1, TotalIs DEF Due
  <2>4. beats[n] >= late /\ beats[n] <= MaxBeat
    BY DEF Steady
  <2>5. Due(beats, n) = Due(beats, k) + beats[n]
    BY <2>1, <2>3, Zenon
  <2> QED
    BY <2>2, <2>4, <2>5 DEF k
<1> QED
  BY <1>1, <1>2, <1>3, <1>4

LEMMA DueGrows ==
  ASSUME NEW beats \in Seq(Nat), NEW j \in Nat, NEW k \in Nat, j <= k, k <= Len(beats)
  PROVE  Due(beats, j) <= Due(beats, k)
<1> DEFINE n == k - j
<1>1. n \in Nat /\ j + n = k /\ j + n <= Len(beats)
  OBVIOUS
<1> HIDE DEF n
<1>2. Total[<< beats, j >>] <= Total[<< beats, j + n >>]
  BY <1>1, TotalGrows
<1> QED
  BY <1>1, <1>2 DEF Due

LEMMA GapFacts ==
  ASSUME NEW beats, NEW gaps, NEW start, NEW late, Steady(beats, gaps, start, late), NEW i \in Nat
  PROVE  Gap(gaps, i + 1) \in 1 .. late
<1> DEFINE L == Len(gaps)
           r == i % L
<1>1. gaps \in Seq(Nat) /\ gaps # << >>
  BY DEF Steady
<1>2. L \in Nat /\ L > 0
  BY <1>1, EmptySeq
<1> HIDE DEF L
<1>3. r \in 0 .. L - 1
  BY <1>2, DivMod
<1> HIDE DEF r
<1>4. r + 1 \in 1 .. L
  BY <1>2, <1>3
<1>5. gaps[r + 1] \in 1 .. late
  BY <1>4 DEF Steady, L
<1>6. (i + 1) - 1 = i
  OBVIOUS
<1>7. Gap(gaps, i + 1) = gaps[r + 1]
  BY <1>6 DEF Gap, r, L
<1> QED
  BY <1>5, <1>7

\* A pass and the next.
LEMMA PassFacts ==
  ASSUME NEW beats, NEW gaps, NEW start, NEW late, Steady(beats, gaps, start, late)
  PROVE  /\ At(beats, gaps, start, 0) = 0 /\ Player(beats, gaps, start, 0) = Started(beats, start)
         /\ \A i \in Nat :
              /\ At(beats, gaps, start, i + 1) = At(beats, gaps, start, i) + Gap(gaps, i + 1)
              /\ Player(beats, gaps, start, i + 1) =
                   Tick(Player(beats, gaps, start, i), beats, (start + At(beats, gaps, start, i + 1)) % Clock)
<1>1. beats \in Seq(Nat) /\ gaps \in Seq(Nat) /\ start \in Nat
  BY DEF Steady
<1>2. Pass[<< beats, gaps, start, 0 >>] = [at |-> 0, player |-> Started(beats, start)]
  BY <1>1, PassIs
<1>3. At(beats, gaps, start, 0) = 0 /\ Player(beats, gaps, start, 0) = Started(beats, start)
  BY <1>2 DEF At, Player
<1>4. ASSUME NEW i \in Nat
      PROVE  /\ At(beats, gaps, start, i + 1) = At(beats, gaps, start, i) + Gap(gaps, i + 1)
             /\ Player(beats, gaps, start, i + 1) =
                  Tick(Player(beats, gaps, start, i), beats, (start + At(beats, gaps, start, i + 1)) % Clock)
  <2> DEFINE was == Pass[<< beats, gaps, start, i >>]
             next == Pass[<< beats, gaps, start, i + 1 >>]
             g == Gap(gaps, i + 1)
             p == Tick(was.player, beats, (start + (was.at + g)) % Clock)
  <2>1. next = NextPass(was, beats, gaps, start, i + 1)
    BY <1>1, PassIs
  <2>2. next = [at |-> was.at + g, player |-> p]
    BY <2>1 DEF NextPass
  <2> HIDE DEF next
  <2>3. next.at = was.at + g /\ next.player = p
    <3> HIDE DEF p, g, was
    <3> QED
      BY <2>2
  <2> QED
    BY <2>3 DEF At, Player, next
<1> QED
  BY <1>3, <1>4

LEMMA AtFacts ==
  ASSUME NEW beats, NEW gaps, NEW start, NEW late, Steady(beats, gaps, start, late)
  PROVE  \A i \in Nat : /\ At(beats, gaps, start, i) \in Nat /\ At(beats, gaps, start, i) >= i
                        /\ At(beats, gaps, start, i + 1) > At(beats, gaps, start, i)
                        /\ At(beats, gaps, start, i + 1) <= At(beats, gaps, start, i) + late
<1> DEFINE a == [i \in Nat |-> At(beats, gaps, start, i)]
           T == {i \in Nat : a[i] \in Nat /\ a[i] >= i}
<1>1. late \in Nat /\ a[0] = 0
  BY PassFacts DEF Steady
<1>2. ASSUME NEW i \in Nat PROVE \E g \in 1 .. late : a[i + 1] = a[i] + g
  <2>1. Gap(gaps, i + 1) \in 1 .. late
    BY GapFacts
  <2>2. a[i + 1] = a[i] + Gap(gaps, i + 1)
    BY PassFacts
  <2> QED
    BY <2>1, <2>2, Zenon
<1> HIDE DEF a
<1>3. 0 \in T
  BY <1>1
<1>4. ASSUME NEW i \in Nat, i \in T PROVE i + 1 \in T
  <2>1. PICK g \in 1 .. late : a[i + 1] = a[i] + g
    BY <1>2
  <2>2. a[i] \in Nat /\ a[i] >= i
    BY <1>4
  <2>3. a[i + 1] \in Nat /\ a[i + 1] >= i + 1
    BY <1>1, <2>1, <2>2
  <2> QED
    BY <2>3
<1> HIDE DEF T
<1>5. \A i \in Nat : i \in T
  BY <1>3, <1>4, Summer!Induction
<1> SUFFICES ASSUME NEW i \in Nat
             PROVE  /\ At(beats, gaps, start, i) \in Nat /\ At(beats, gaps, start, i) >= i
                    /\ At(beats, gaps, start, i + 1) > At(beats, gaps, start, i)
                    /\ At(beats, gaps, start, i + 1) <= At(beats, gaps, start, i) + late
  OBVIOUS
<1>6. a[i] \in Nat /\ a[i] >= i
  BY <1>5 DEF T
<1>7. a[i + 1] > a[i] /\ a[i + 1] <= a[i] + late
  <2>1. PICK g \in 1 .. late : a[i + 1] = a[i] + g
    BY <1>2
  <2> QED
    BY <1>1, <1>6, <2>1
<1>8. a[i] = At(beats, gaps, start, i) /\ a[i + 1] = At(beats, gaps, start, i + 1)
  BY DEF a
<1> QED
  BY <1>6, <1>7, <1>8

\* At time t of a song that is not over, the player is where the score has it.
OnTime(p, beats, start, t) ==
  t < Due(beats, Len(beats)) =>
    /\ p.note \in 1 .. Len(beats)
    /\ Due(beats, p.note - 1) <= t /\ t < Due(beats, p.note)
    /\ p.end = (start + Due(beats, p.note)) % Clock

LEMMA StartsOnTime ==
  ASSUME NEW beats, NEW gaps, NEW start, NEW late, Steady(beats, gaps, start, late)
  PROVE  OnTime(Started(beats, start), beats, start, 0)
<1> SUFFICES ASSUME 0 < Due(beats, Len(beats))
             PROVE  /\ Started(beats, start).note \in 1 .. Len(beats)
                    /\ Due(beats, Started(beats, start).note - 1) <= 0
                    /\ 0 < Due(beats, Started(beats, start).note)
                    /\ Started(beats, start).end = (start + Due(beats, Started(beats, start).note)) % Clock
  BY DEF OnTime
<1>1. beats \in Seq(Nat) /\ Len(beats) \in Nat /\ Due(beats, 0) = 0 /\ late >= 1 /\ late \in Nat
  BY DueFacts DEF Steady
<1>2. Len(beats) # 0
  BY <1>1
<1>3. 1 \in 1 .. Len(beats) /\ beats # << >>
  BY <1>1, <1>2
<1>4. Due(beats, 1 - 1) = 0
  BY <1>1
<1>5. Due(beats, 1) = beats[1] /\ beats[1] \in Nat /\ beats[1] > 0
  <2>1. /\ Due(beats, 1) = Due(beats, 1 - 1) + beats[1] /\ beats[1] \in Nat /\ beats[1] >= late
    BY <1>3, DueFacts
  <2> QED
    BY <1>1, <1>4, <2>1
<1>6. Started(beats, start) = [note |-> 1, end |-> (start + beats[1]) % Clock]
  BY <1>3 DEF Started
<1>7. Started(beats, start).note = 1 /\ Started(beats, start).end = (start + beats[1]) % Clock
  BY <1>6
<1> QED
  BY <1>3, <1>4, <1>5, <1>7

\* The player does not move before its note is due to end.
LEMMA WaitsForEnd ==
  ASSUME NEW start \in Nat, NEW t \in Nat, NEW e \in Nat, t < e, e - t <= MaxBeat
  PROVE  ~ Reached((start + t) % Clock, (start + e) % Clock)
<1> DEFINE x == start + t
           d == e - t
<1>1. x \in Nat /\ d \in Nat /\ d > 0 /\ d <= MaxBeat /\ start + e = x + d
  OBVIOUS
<1> HIDE DEF x, d
<1>2. ~ Reached(x % Clock, (x + d) % Clock)
  BY <1>1, ReachedIs
<1> QED
  BY <1>1, <1>2 DEF x

LEMMA SeesEnd ==
  ASSUME NEW start \in Nat, NEW t \in Nat, NEW e \in Nat, t >= e, t - e <= MaxBeat
  PROVE  Reached((start + t) % Clock, (start + e) % Clock)
<1> DEFINE x == start + e
           d == t - e
<1>1. x \in Nat /\ d \in Nat /\ d <= MaxBeat /\ start + t = x + d
  OBVIOUS
<1> HIDE DEF x, d
<1>2. Reached((x + d) % Clock, x % Clock)
  BY <1>1, ReachedIs
<1> QED
  BY <1>1, <1>2 DEF x

\* The arithmetic of one pass: z is at most one pass after t, t is in a note of c
\* milliseconds that ends at e, and the next note lasts d.
LEMMA PassTimes ==
  ASSUME NEW b \in Nat, NEW e \in Nat, NEW c \in Nat, NEW d \in Nat, NEW f \in Nat,
         NEW t \in Nat, NEW z \in Nat, NEW late \in Nat, NEW M \in Nat,
         z > t, z <= t + late, b <= t, t < e, e = b + c, c <= M, late <= d, d <= M, f = e + d
  PROVE  /\ b <= z
         /\ e - z <= M
         /\ z < f /\ f > 0
         /\ z >= e => z - e <= M /\ f - z <= M
  OBVIOUS

\* One pass later, if that is no later than a beat is long.
LEMMA StaysOnTime ==
  ASSUME NEW beats, NEW gaps, NEW start, NEW late, Steady(beats, gaps, start, late),
         NEW t \in Nat, NEW g \in 1 .. late, NEW p, OnTime(p, beats, start, t)
  PROVE  OnTime(Tick(p, beats, (start + (t + g)) % Clock), beats, start, t + g)
<1> DEFINE N == Len(beats)
           z == t + g
           now == (start + z) % Clock
           n == p.note
           q == Tick(p, beats, now)
           e == Due(beats, n)
           b == Due(beats, n - 1)
           c == beats[n]
           M == MaxBeat
           end == p.end
           D == Due(beats, N)
<1>0. /\ beats \in Seq(Nat) /\ N \in Nat /\ late \in Nat /\ start \in Nat /\ M \in Nat
      /\ Clock \in Nat /\ Clock > 0
  BY DueFacts, ClockFacts DEF Steady
<1>1. z \in Nat /\ z > t /\ z <= t + late
  BY <1>0
<1> SUFFICES ASSUME z < D
             PROVE  /\ q.note \in 1 .. N /\ Due(beats, q.note - 1) <= z /\ z < Due(beats, q.note)
                    /\ q.end = (start + Due(beats, q.note)) % Clock
  BY DEF OnTime
<1>2. D \in Nat
  BY <1>0, TotalType DEF Due
<1>3. t < D
  <2> HIDE DEF D, z
  <2> QED
    BY <1>1, <1>2
<1>4. n \in 1 .. N /\ b <= t /\ t < e /\ end = (start + e) % Clock
  BY <1>3 DEF OnTime
<1>5. /\ b \in Nat /\ e \in Nat /\ c \in Nat /\ c >= late /\ c <= M
      /\ e = b + c
  BY <1>4, DueFacts
<1>6. N = n => D = e
  OBVIOUS
<1>7. Tick(p, beats, now) = IF n = 0 \/ ~ Reached(now, end) THEN p
                            ELSE IF n = N THEN Silent
                            ELSE [note |-> n + 1,
                                  end |-> IF Reached(now, (end + beats[n + 1]) % Clock)
                                          THEN (now + beats[n + 1]) % Clock
                                          ELSE (end + beats[n + 1]) % Clock]
  BY DEF Tick
<1>8. p.note = n /\ p.end = end /\ Due(beats, n) = e /\ Due(beats, n - 1) = b /\ q = Tick(p, beats, now)
  OBVIOUS
<1>9. M = MaxBeat /\ now = (start + z) % Clock /\ Len(beats) = N
  OBVIOUS
<1> HIDE DEF N, z, now, n, q, e, b, c, M, end, D
<1>10. n \in Nat /\ n # 0
  BY <1>0, <1>4
<1>11. CASE z < e
  <2>1. e - z <= M
    BY <1>0, <1>1, <1>4, <1>5
  <2>2. ~ Reached((start + z) % Clock, (start + e) % Clock)
    BY <1>0, <1>1, <1>5, <1>9, <1>11, <2>1, WaitsForEnd
  <2>3. q = p
    BY <1>4, <1>7, <1>8, <1>9, <2>2
  <2>4. b <= z
    BY <1>1, <1>4, <1>5
  <2> QED
    BY <1>4, <1>8, <1>11, <2>3, <2>4
<1>12. CASE z >= e
  <2> DEFINE m == n + 1
             f == Due(beats, m)
             d == beats[m]
             due == (end + d) % Clock
  <2>3. n # N
    <3> SUFFICES ASSUME n = N PROVE FALSE
      OBVIOUS
    <3>1. D = e /\ z < D
      BY <1>6
    <3> QED
      BY <1>1, <1>5, <1>12, <3>1
  <2>4. m \in 1 .. N /\ m - 1 = n
    BY <1>0, <1>4, <2>3
  <2>5. m = n + 1 /\ f = Due(beats, m) /\ d = beats[n + 1] /\ due = (end + d) % Clock /\ beats[m] = d
    OBVIOUS
  <2> HIDE DEF m, f, d, due
  <2>6. /\ Due(beats, m - 1) = e /\ f \in Nat /\ d \in Nat /\ d >= late /\ d <= M
        /\ f = e + d
    <3>1. m \in 1 .. Len(beats)
      BY <1>9, <2>4
    <3>2. /\ Due(beats, m - 1) \in Nat /\ Due(beats, m) \in Nat /\ beats[m] \in Nat
          /\ beats[m] >= late /\ beats[m] <= MaxBeat
          /\ Due(beats, m) = Due(beats, m - 1) + beats[m]
      BY <3>1, DueFacts
    <3>3. Due(beats, m - 1) = e
      BY <1>8, <2>4
    <3> QED
      BY <1>9, <2>5, <3>2, <3>3
  <2>7. b <= z /\ z < f /\ z - e <= M /\ f - z <= M
    BY <1>0, <1>1, <1>4, <1>5, <1>12, <2>6, PassTimes
  <2>8. Reached((start + z) % Clock, (start + e) % Clock)
    BY <1>0, <1>1, <1>5, <1>9, <1>12, <2>7, SeesEnd
  <2>9. due = (start + f) % Clock
    <3> DEFINE x == start + e
    <3>1. x \in Nat /\ x + d = start + f
      BY <1>0, <1>5, <2>6
    <3>2. end = x % Clock
      BY <1>4
    <3> HIDE DEF x
    <3>3. ((x % Clock) + d) % Clock = (x + d) % Clock
      <4>1. Clock \in Nat /\ Clock > 0 /\ x \in Nat /\ d \in Nat
        BY <1>0, <2>6, <3>1
      <4> QED
        BY <4>1, ModAdd, Zenon
    <3> QED
      BY <2>5, <3>1, <3>2, <3>3
  <2>10. ~ Reached((start + z) % Clock, (start + f) % Clock)
    BY <1>0, <1>1, <1>9, <2>6, <2>7, WaitsForEnd
  <2>11. Reached(now, end) /\ ~ Reached(now, due)
    BY <1>4, <1>9, <2>8, <2>9, <2>10
  <2>12. q = [note |-> m, end |-> due]
    BY <1>7, <1>8, <1>10, <2>3, <2>5, <2>11, Zenon
  <2>13. q.note = m /\ q.end = due
    BY <2>12
  <2>14. e <= z
    BY <1>12
  <2>15. q.note \in 1 .. N /\ Due(beats, q.note - 1) <= z /\ z < Due(beats, q.note)
    BY <2>4, <2>5, <2>6, <2>7, <2>13, <2>14
  <2>16. q.end = (start + Due(beats, q.note)) % Clock
    BY <2>5, <2>9, <2>13
  <2> QED
    BY <2>15, <2>16
<1> QED
  BY <1>1, <1>5, <1>11, <1>12

LEMMA AlwaysOnTime ==
  ASSUME NEW beats, NEW gaps, NEW start, NEW late, Steady(beats, gaps, start, late)
  PROVE  \A i \in Nat : OnTime(Player(beats, gaps, start, i), beats, start, At(beats, gaps, start, i))
<1> DEFINE Good(i) == OnTime(Player(beats, gaps, start, i), beats, start, At(beats, gaps, start, i))
           T == {i \in Nat : Good(i)}
<1>1. 0 \in T
  <2>1. OnTime(Started(beats, start), beats, start, 0)
    BY StartsOnTime
  <2>2. Good(0)
    BY <2>1, PassFacts
  <2> QED
    BY <2>2
<1>2. ASSUME NEW i \in Nat, i \in T PROVE i + 1 \in T
  <2> DEFINE t == At(beats, gaps, start, i)
             g == Gap(gaps, i + 1)
             p == Player(beats, gaps, start, i)
  <2>1. t \in Nat /\ g \in 1 .. late
    BY AtFacts, GapFacts
  <2>2. OnTime(p, beats, start, t)
    BY <1>2
  <2>3. /\ At(beats, gaps, start, i + 1) = t + g
        /\ Player(beats, gaps, start, i + 1) = Tick(p, beats, (start + (t + g)) % Clock)
    BY PassFacts
  <2> HIDE DEF t, g, p
  <2>4. OnTime(Tick(p, beats, (start + (t + g)) % Clock), beats, start, t + g)
    BY <2>1, <2>2, StaysOnTime
  <2>5. Good(i + 1)
    BY <2>3, <2>4
  <2> QED
    BY <2>5
<1> HIDE DEF T
<1>3. \A i \in Nat : i \in T
  BY <1>1, <1>2, Summer!Induction
<1> QED
  BY <1>3 DEF T

\* The times at which two notes end do not overlap.
LEMMA OneNote ==
  ASSUME NEW beats, NEW gaps, NEW start, NEW late, Steady(beats, gaps, start, late),
         NEW t \in Nat, NEW k \in 1 .. Len(beats), NEW n \in 1 .. Len(beats),
         Due(beats, k - 1) <= t, t < Due(beats, k), Due(beats, n - 1) <= t, t < Due(beats, n)
  PROVE  k = n
<1>1. ASSUME NEW i \in 1 .. Len(beats), NEW j \in 1 .. Len(beats),
             Due(beats, j - 1) <= t, t < Due(beats, i)
      PROVE  j <= i
  <2> DEFINE x == Due(beats, i)
             y == Due(beats, j - 1)
             m == j - 1
  <2>1. x \in Nat /\ y \in Nat
    BY DueFacts
  <2>2. i \in Nat /\ m \in Nat /\ m <= Len(beats) /\ j = m + 1 /\ beats \in Seq(Nat)
    BY DueFacts DEF Steady
  <2>3. y <= t /\ t < x
    BY <1>1
  <2>4. y = Due(beats, m)
    OBVIOUS
  <2> HIDE DEF m
  <2>5. i <= m => x <= y
    BY <2>2, <2>4, DueGrows
  <2> HIDE DEF x, y
  <2>6. ~ (i <= m)
    BY <2>1, <2>3, <2>5
  <2> QED
    BY <2>2, <2>6
<1>2. k <= n /\ n <= k
  BY <1>1
<1> QED
  BY <1>2

\* Every time from the start on is reached, by the first pass that is not earlier.
LEMMA FirstPass ==
  ASSUME NEW beats, NEW gaps, NEW start, NEW late, Steady(beats, gaps, start, late),
         NEW target \in Nat, target > 0
  PROVE  \E i \in 1 .. target :
           /\ At(beats, gaps, start, i - 1) < target /\ At(beats, gaps, start, i) >= target
           /\ At(beats, gaps, start, i) < target + late
<1> DEFINE a == [i \in Nat |-> At(beats, gaps, start, i)]
           S == {i \in Nat : a[i] >= target}
<1>1. late \in Nat /\ a[0] = 0
  BY PassFacts DEF Steady
<1>2. \A i \in Nat : a[i] \in Nat /\ a[i] >= i /\ a[i + 1] <= a[i] + late
  BY AtFacts
<1>3. \A i \in Nat : At(beats, gaps, start, i) = a[i]
  OBVIOUS
<1> HIDE DEF a
<1>4. target \in S
  BY <1>2
<1>5. \E i \in S : \A j \in S : i <= j
  BY <1>4, Summer!Least DEF S
<1>6. PICK i \in S : \A j \in S : i <= j
  BY <1>5
<1>7. i \in Nat /\ a[i] >= target /\ i <= target
  BY <1>4, <1>6
<1> DEFINE k == i - 1
<1>8. i # 0
  BY <1>1, <1>7
<1>9. k \in Nat /\ i = k + 1 /\ i \in 1 .. target
  BY <1>7, <1>8
<1> HIDE DEF k
<1>10. k \notin S
  BY <1>6, <1>7, <1>9
<1> HIDE DEF S
<1>11. a[k] < target
  BY <1>2, <1>9, <1>10 DEF S
<1>12. a[i] < target + late
  BY <1>1, <1>2, <1>9, <1>11
<1>13. i - 1 = k
  BY <1>9
<1> QED
  BY <1>3, <1>7, <1>9, <1>11, <1>12, <1>13

\* A sequence of numbers has a bound.
LEMMA Bounded ==
  ASSUME NEW s \in Seq(Nat)
  PROVE  \E m \in Nat : \A i \in 1 .. Len(s) : s[i] <= m
<1> DEFINE Below(k) == \E m \in Nat : \A i \in 1 .. Len(s) : i <= k => s[i] <= m
           T == {k \in Nat : Below(k)}
<1>1. Len(s) \in Nat /\ \A i \in 1 .. Len(s) : i \in Nat /\ s[i] \in Nat
  BY ElementOfSeq
<1>2. 0 \in T
  <2>1. \A i \in 1 .. Len(s) : i <= 0 => s[i] <= 0
    BY <1>1
  <2>2. Below(0)
    BY <2>1
  <2> QED
    BY <2>2
<1>3. ASSUME NEW k \in Nat, k \in T PROVE k + 1 \in T
  <2>1. PICK m \in Nat : \A i \in 1 .. Len(s) : i <= k => s[i] <= m
    BY <1>3
  <2>2. Below(k + 1)
    <3>1. CASE k + 1 \in 1 .. Len(s)
      <4> DEFINE v == s[k + 1]
                 w == m + v
      <4>1. v \in Nat
        BY <1>1, <3>1
      <4>2. w \in Nat /\ m <= w /\ v <= w
        BY <4>1
      <4> HIDE DEF w
      <4>3. ASSUME NEW i \in 1 .. Len(s), i <= k + 1 PROVE s[i] <= w
        <5>1. i \in Nat /\ s[i] \in Nat
          BY <1>1
        <5>2. CASE i <= k
          <6>1. s[i] <= m
            BY <2>1, <5>2
          <6> DEFINE x == s[i]
          <6>2. x \in Nat /\ x <= m
            BY <5>1, <6>1
          <6> HIDE DEF x
          <6>3. x <= w
            BY <4>2, <6>2
          <6> QED
            BY <6>3 DEF x
        <5>3. CASE i = k + 1
          BY <4>2, <5>3
        <5> QED
          BY <4>3, <5>1, <5>2, <5>3
      <4> QED
        BY <4>2, <4>3
    <3>2. CASE k + 1 \notin 1 .. Len(s)
      <4>1. \A i \in 1 .. Len(s) : i <= k + 1 => i <= k
        BY <1>1, <3>2
      <4> QED
        BY <2>1, <4>1
    <3> QED
      BY <3>1, <3>2
  <2> HIDE DEF Below
  <2> QED
    BY <2>2
<1> HIDE DEF T
<1>4. \A k \in Nat : k \in T
  BY <1>2, <1>3, Summer!Induction
<1>5. Below(Len(s))
  BY <1>1, <1>4 DEF T
<1>6. PICK m \in Nat : \A i \in 1 .. Len(s) : i <= Len(s) => s[i] <= m
  BY <1>5
<1>7. \A i \in 1 .. Len(s) : i <= Len(s)
  BY <1>1
<1>8. \A i \in 1 .. Len(s) : s[i] <= m
  BY <1>6, <1>7
<1> QED
  BY <1>8

LEMMA LatestGap ==
  ASSUME NEW gaps \in Seq(Nat \ {0}), gaps # << >>
  PROVE  /\ Max({gaps[i] : i \in DOMAIN gaps}) \in Nat
         /\ \A i \in 1 .. Len(gaps) : gaps[i] \in 1 .. Max({gaps[j] : j \in DOMAIN gaps})
<1> DEFINE T == {gaps[i] : i \in DOMAIN gaps}
<1>1. gaps \in Seq(Nat) /\ Len(gaps) \in Nat /\ DOMAIN gaps = 1 .. Len(gaps)
  OBVIOUS
<1>2. PICK m \in Nat : \A i \in 1 .. Len(gaps) : gaps[i] <= m
  BY <1>1, Bounded
<1>3. \A i \in 1 .. Len(gaps) : gaps[i] \in Nat \ {0} /\ gaps[i] \in T
  BY <1>1, ElementOfSeq
<1>4. \A x \in T : x \in 0 .. m
  BY <1>1, <1>2, <1>3
<1>5. 1 \in 1 .. Len(gaps)
  BY <1>1, EmptySeq
<1>6. gaps[1] \in T
  BY <1>3, <1>5
<1> HIDE DEF T
<1>7. T \subseteq 0 .. m /\ T # {}
  BY <1>4, <1>6
<1>8. Max(T) \in T /\ \A y \in T : y <= Max(T)
  BY <1>7, MaxFacts
<1> DEFINE M == Max(T)
<1>8a. M \in T /\ \A y \in T : y <= M
  BY <1>8
<1> HIDE DEF M
<1>9. M \in Nat /\ \A y \in T : y <= M
  BY <1>7, <1>8a
<1>10. ASSUME NEW i \in 1 .. Len(gaps) PROVE gaps[i] \in 1 .. M
  <2> DEFINE g == gaps[i]
  <2>1. g \in Nat \ {0} /\ g \in T
    BY <1>3
  <2> HIDE DEF g
  <2>2. g \in 1 .. M
    BY <1>9, <2>1
  <2> QED
    BY <2>2 DEF g
<1> QED
  BY <1>9, <1>10 DEF M, T

LEMMA Times ==
  ASSUME NEW u \in Nat, NEW a \in Nat, NEW b \in Nat, u > 0
  PROVE  /\ a <= b => u * a <= u * b
         /\ a < b => u * a < u * b
<1> SUFFICES ASSUME a <= b
             PROVE  u * a <= u * b /\ (a < b => u * a < u * b)
  OBVIOUS
<1> DEFINE c == b - a
           v == u * c
           w == u * a
<1>1. c \in Nat /\ b = a + c
  OBVIOUS
<1>2. v \in Nat /\ w \in Nat /\ u * b = w + v
  BY <1>1
<1>3. c > 0 => v > 0
  BY <1>1
<1>4. a < b => c > 0
  OBVIOUS
<1>5. u * a = w
  OBVIOUS
<1> HIDE DEF v, w, c
<1> QED
  BY <1>2, <1>3, <1>4, <1>5

\* A note that begins less than one gap after its time by the beats begins near its
\* time by the score.
LEMMA HeardNear ==
  ASSUME NEW u \in Nat, NEW d \in Nat, NEW sc \in Nat, NEW a \in Nat, NEW late \in Nat, NEW k \in Nat,
         u > 0, k > 0, u * d <= sc, sc + k <= u * d + u * (2 * k), d <= a, a < d + late
  PROVE  u * a < sc + u * late /\ u * a > sc - u * (2 * k)
<1> DEFINE x == u * a
           y == u * d
           z == u * late
           w == u * (2 * k)
           e == u * (d + late)
<1>1. x \in Nat /\ y \in Nat /\ z \in Nat /\ w \in Nat /\ e \in Nat /\ e = y + z
  OBVIOUS
<1>2. y <= x
  BY Times
<1>3. x < e
  <2> DEFINE f == d + late
  <2>1. f \in Nat /\ a < f
    OBVIOUS
  <2> HIDE DEF f
  <2>2. u * a < u * f
    BY <2>1, Times
  <2> QED
    BY <2>2 DEF f
<1>4. y <= sc /\ sc + k <= y + w
  OBVIOUS
<1> HIDE DEF x, y, z, w, e
<1>5. x < sc + z /\ x > sc - w
  BY <1>1, <1>2, <1>3, <1>4
<1> QED
  BY <1>5 DEF x, z, w

\* The pass at which note n begins.
LEMMA Crossing ==
  ASSUME NEW beats, NEW gaps, NEW start, NEW late, Steady(beats, gaps, start, late),
         NEW n \in 2 .. Len(beats)
  PROVE  \E i \in 1 .. Due(beats, Len(beats)) :
           /\ Player(beats, gaps, start, i).note = n /\ Player(beats, gaps, start, i - 1).note = n - 1
           /\ At(beats, gaps, start, i) \in Nat
           /\ Due(beats, n - 1) <= At(beats, gaps, start, i)
           /\ At(beats, gaps, start, i) < Due(beats, n - 1) + late
<1> DEFINE N == Len(beats)
           k == n - 1
           j == k - 1
           x == Due(beats, j)
           y == Due(beats, k)
           z == Due(beats, n)
           D == Due(beats, N)
<1>1. N \in Nat /\ late \in Nat /\ late >= 1 /\ beats \in Seq(Nat)
  BY DueFacts DEF Steady
<1>2. k \in 1 .. N /\ n \in 1 .. N /\ j \in Nat /\ n \in Nat /\ k < n
  BY <1>1
<1>3. /\ x \in Nat /\ y \in Nat /\ \E c \in Nat : c >= late /\ y = x + c
  BY <1>2, DueFacts
<1>4. /\ z \in Nat /\ \E c \in Nat : c >= late /\ z = y + c
  BY <1>2, DueFacts
<1>5. z <= D
  BY <1>1, <1>2, DueGrows
<1>6. D \in Nat
  BY <1>1, TotalType DEF Due
<1>7. Due(beats, n - 1) = y /\ Due(beats, k - 1) = x /\ Due(beats, n) = z /\ Due(beats, k) = y
      /\ Due(beats, Len(beats)) = D /\ n - 1 = k /\ Len(beats) = N
  OBVIOUS
<1> HIDE DEF N, k, j, x, y, z, D
<1>8. x + late <= y /\ y + late <= z /\ y > 0 /\ y <= D
  <2>1. PICK c \in Nat : c >= late /\ y = x + c
    BY <1>3
  <2>2. PICK b \in Nat : b >= late /\ z = y + b
    BY <1>4
  <2>3. x + late <= y /\ y > 0
    BY <1>1, <1>3, <2>1
  <2>4. y + late <= z
    BY <1>1, <1>3, <2>2
  <2>5. y <= D
    BY <1>1, <1>3, <1>4, <1>5, <1>6, <2>4
  <2> QED
    BY <2>3, <2>4, <2>5
<1>9. PICK i \in 1 .. y :
        /\ At(beats, gaps, start, i - 1) < y /\ At(beats, gaps, start, i) >= y
        /\ At(beats, gaps, start, i) < y + late
  BY <1>3, <1>8, FirstPass
<1> DEFINE h == i - 1
           s == At(beats, gaps, start, h)
           t == At(beats, gaps, start, i)
<1>10. h \in Nat /\ i \in Nat /\ i = h + 1 /\ i - 1 = h
  BY <1>3
<1> HIDE DEF h
<1>11. s \in Nat /\ t \in Nat /\ t <= s + late
  BY <1>10, AtFacts
<1>12. s < y /\ t >= y /\ t < y + late
  BY <1>9, <1>10
<1>13. At(beats, gaps, start, i) = t /\ At(beats, gaps, start, h) = s
  OBVIOUS
<1> HIDE DEF s, t
<1>14. t < z /\ t < D /\ s < D /\ x <= s
  <2>1. x \in Nat /\ y \in Nat /\ z \in Nat /\ D \in Nat /\ s \in Nat /\ t \in Nat /\ late \in Nat
    BY <1>1, <1>3, <1>4, <1>6, <1>11
  <2>2. t < z
    BY <1>8, <1>12, <2>1
  <2>3. t < D /\ s < D
    BY <1>5, <1>8, <1>12, <2>1, <2>2
  <2>4. x <= s
    BY <1>8, <1>11, <1>12, <2>1
  <2> QED
    BY <2>2, <2>3, <2>4
<1>15. Player(beats, gaps, start, i).note = n
  <2> DEFINE p == Player(beats, gaps, start, i)
  <2>1. OnTime(p, beats, start, t)
    BY <1>10, <1>13, AlwaysOnTime
  <2> HIDE DEF p
  <2>2. p.note \in 1 .. N /\ Due(beats, p.note - 1) <= t /\ t < Due(beats, p.note)
    BY <1>7, <1>14, <2>1 DEF OnTime
  <2>3. Due(beats, n - 1) <= t /\ t < Due(beats, n)
    BY <1>3, <1>7, <1>11, <1>12, <1>14
  <2> DEFINE q == p.note
  <2>4. q \in 1 .. Len(beats) /\ Due(beats, q - 1) <= t /\ t < Due(beats, q)
    BY <1>7, <2>2
  <2> HIDE DEF q
  <2>5. q = n
    BY <1>2, <1>7, <1>11, <2>3, <2>4, OneNote
  <2> QED
    BY <2>5 DEF p, q
<1>16. Player(beats, gaps, start, h).note = k
  <2> DEFINE p == Player(beats, gaps, start, h)
  <2>1. OnTime(p, beats, start, s)
    BY <1>10, <1>13, AlwaysOnTime
  <2> HIDE DEF p
  <2>2. p.note \in 1 .. N /\ Due(beats, p.note - 1) <= s /\ s < Due(beats, p.note)
    BY <1>7, <1>14, <2>1 DEF OnTime
  <2>3. Due(beats, k - 1) <= s /\ s < Due(beats, k)
    BY <1>7, <1>12, <1>14
  <2> DEFINE q == p.note
  <2>4. q \in 1 .. Len(beats) /\ Due(beats, q - 1) <= s /\ s < Due(beats, q)
    BY <1>7, <2>2
  <2> HIDE DEF q
  <2>5. q = k
    BY <1>2, <1>7, <1>11, <2>3, <2>4, OneNote
  <2> QED
    BY <2>5 DEF p, q
<1>17. i \in 1 .. D
  BY <1>3, <1>6, <1>8
<1> QED
  BY <1>7, <1>10, <1>11, <1>12, <1>13, <1>15, <1>16, <1>17

\* One note of one song.
LEMMA NoteOnTime ==
  ASSUME NEW song \in SongType, NEW gaps, NEW start, NEW late,
         Steady(Beats(song), gaps, start, late),
         \A i \in 1 .. Len(Beats(song)) : Beats(song)[i] < MaxBeat,
         NEW n \in 2 .. Len(Beats(song))
  PROVE  \E i \in 1 .. Due(Beats(song), Len(Beats(song))) :
           /\ Player(Beats(song), gaps, start, i).note = n
           /\ Player(Beats(song), gaps, start, i - 1).note = n - 1
           /\ Unit4(song) * At(Beats(song), gaps, start, i) < Score(song, n) + Unit4(song) * late
           /\ Unit4(song) * At(Beats(song), gaps, start, i) > Score(song, n) - Unit4(song) * 2 * (n - 1)
<1> DEFINE beats == Beats(song)
           u == Unit4(song)
           k == n - 1
           d == Due(beats, k)
           sc == Score(song, n)
           N == Len(beats)
<1>1. N \in Nat /\ late \in Nat /\ beats \in Seq(Nat)
  BY DEF Steady
<1>2. u \in Nat /\ u > 0
  <2> DEFINE m == Tempo(song)
  <2>1. m \in Nat /\ m > 0
    <3>1. song.bpm \in Nat
      BY DEF SongType
    <3> QED
      BY <3>1 DEF Tempo
  <2>2. u = 4 * m
    BY DEF Unit4
  <2> HIDE DEF m, u
  <2> QED
    BY <2>1, <2>2
<1>3. sc = Total[<< ByScore(song), k >>] /\ d = Total[<< beats, k >>] /\ n - 1 = k
  BY DEF Score, ByScore, Due
<1>4. k \in Nat /\ k > 0 /\ k <= N
  BY <1>1
<1> HIDE DEF k, d, sc
<1>5. d \in Nat /\ sc \in Nat /\ u * d <= sc /\ sc + k <= u * d + u * (2 * k)
  BY <1>3, <1>4, ScoreNear, Zenon
<1>6. PICK i \in 1 .. Due(beats, N) :
        /\ Player(beats, gaps, start, i).note = n /\ Player(beats, gaps, start, i - 1).note = n - 1
        /\ At(beats, gaps, start, i) \in Nat
        /\ Due(beats, n - 1) <= At(beats, gaps, start, i)
        /\ At(beats, gaps, start, i) < Due(beats, n - 1) + late
  BY Crossing
<1> DEFINE a == At(beats, gaps, start, i)
<1>7. a \in Nat /\ d <= a /\ a < d + late
  <2>1. Due(beats, n - 1) = d
    BY <1>3 DEF d
  <2> QED
    BY <1>6, <2>1
<1> HIDE DEF u, a, beats
<1>8. u * a < sc + u * late /\ u * a > sc - u * (2 * k)
  BY <1>1, <1>2, <1>4, <1>5, <1>7, HeardNear
<1>9. u * (2 * k) = u * 2 * k
  BY <1>2, <1>4
<1>10. u * a > sc - u * 2 * k
  BY <1>8, <1>9
<1> QED
  BY <1>3, <1>6, <1>8, <1>10 DEF u, a, beats, N, sc

\* No song drifts: for every set of songs, of gaps between the passes of the loop and
\* of starting times, NoDrift holds of play_rtttl and periph_buzzer_tick.
THEOREM NoDriftHolds == NoDrift
<1> SUFFICES ASSUME NEW song \in Songs, NEW gaps \in Gaps, NEW start \in Starts,
                    \A i \in DOMAIN Beats(song) :
                      /\ Beats(song)[i] >= Max({gaps[j] : j \in DOMAIN gaps})
                      /\ Beats(song)[i] < MaxBeat,
                    NEW n \in 2 .. Len(Beats(song))
             PROVE  LET beats == Beats(song)
                        late == Max({gaps[i] : i \in DOMAIN gaps})
                        passes == [i \in 0 .. Total[<< beats, Len(beats) >>] |->
                                     Pass[<< beats, gaps, start, i >>]]
                        unit == 4 * Tempo(song)
                    IN \E i \in DOMAIN passes \ {0} :
                         /\ passes[i].player.note = n /\ passes[i - 1].player.note = n - 1
                         /\ unit * passes[i].at < Score(song, n) + unit * late
                         /\ unit * passes[i].at > Score(song, n) - unit * 2 * (n - 1)
  BY Zenon DEF NoDrift
<1> DEFINE beats == Beats(song)
           late == Max({gaps[i] : i \in DOMAIN gaps})
           D == Total[<< beats, Len(beats) >>]
           passes == [i \in 0 .. D |-> Pass[<< beats, gaps, start, i >>]]
           unit == 4 * Tempo(song)
<1>1. song \in SongType /\ gaps \in Seq(Nat \ {0}) /\ gaps # << >>
  BY SongsAssumption DEF SongType
<1>2. start \in Nat
  <2>1. start \in 0 .. (Clock - 1)
    BY MelodyAssumption, Zenon
  <2> QED
    BY <2>1
<1>3. late \in Nat /\ \A i \in 1 .. Len(gaps) : gaps[i] \in 1 .. late
  BY <1>1, LatestGap, Zenon
<1>4. beats \in Seq(Nat) /\ DOMAIN beats = 1 .. Len(beats)
  BY <1>1, BeatsFacts
<1>5. gaps \in Seq(Nat)
  BY <1>1
<1> HIDE DEF late
<1>6. \A i \in 1 .. Len(beats) : beats[i] >= late /\ beats[i] < MaxBeat
  BY <1>4, Zenon DEF late
<1>7. \A i \in 1 .. Len(beats) : beats[i] <= MaxBeat
  <2>1. ASSUME NEW i \in 1 .. Len(beats) PROVE beats[i] <= MaxBeat
    <3> DEFINE b == beats[i]
    <3>1. b \in Nat /\ MaxBeat \in Nat /\ b < MaxBeat
      BY <1>4, <1>6, ElementOfSeq, MelodyAssumption
    <3> HIDE DEF b
    <3>2. b <= MaxBeat
      BY <3>1
    <3> QED
      BY <3>2 DEF b
  <2> QED
    BY <2>1
<1>8. Steady(beats, gaps, start, late)
  BY <1>1, <1>2, <1>3, <1>4, <1>5, <1>6, <1>7 DEF Steady
<1>9. PICK i \in 1 .. Due(beats, Len(beats)) :
        /\ Player(beats, gaps, start, i).note = n
        /\ Player(beats, gaps, start, i - 1).note = n - 1
        /\ Unit4(song) * At(beats, gaps, start, i) < Score(song, n) + Unit4(song) * late
        /\ Unit4(song) * At(beats, gaps, start, i) > Score(song, n) - Unit4(song) * 2 * (n - 1)
  BY <1>1, <1>6, <1>8, NoteOnTime
<1>10. D \in Nat /\ D = Due(beats, Len(beats))
  BY <1>4, TotalType DEF Due
<1> DEFINE S == 0 .. D
<1>11. i \in S /\ i - 1 \in S /\ i \in S \ {0} /\ DOMAIN passes = S
  BY <1>9, <1>10
<1>12. passes[i] = Pass[<< beats, gaps, start, i >>] /\ passes[i - 1] = Pass[<< beats, gaps, start, i - 1 >>]
  <2> HIDE DEF D
  <2> QED
    BY <1>11
<1> HIDE DEF passes, D, S
<1>13. /\ passes[i].player.note = n /\ passes[i - 1].player.note = n - 1
       /\ unit * passes[i].at < Score(song, n) + unit * late
       /\ unit * passes[i].at > Score(song, n) - unit * 2 * (n - 1)
  BY <1>9, <1>12 DEF Player, At, Unit4
<1>14. i \in DOMAIN passes \ {0}
  BY <1>11
<1>15. \E j \in DOMAIN passes \ {0} :
         /\ passes[j].player.note = n /\ passes[j - 1].player.note = n - 1
         /\ unit * passes[j].at < Score(song, n) + unit * late
         /\ unit * passes[j].at > Score(song, n) - unit * 2 * (n - 1)
  BY <1>13, <1>14, Zenon
<1> QED
  BY <1>15, Zenon DEF passes, D, late
=============================================================================
