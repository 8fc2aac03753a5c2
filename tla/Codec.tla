------------------------------- MODULE Codec -------------------------------
(* The pixel codec of the display link: how the ESP32 cuts a rectangle into  *)
(* packets and compresses them (htram_gd32.cpp), and how the GD32 unpacks    *)
(* the stream byte by byte straight onto the panel (protocol_engine.c). The  *)
(* two ends share no code. A byte is a number; a pixel is two of them. The   *)
(* width of the run field and the size of a chunk are the parameters.        *)
EXTENDS Integers, Sequences, SequencesExt

CONSTANTS MaxRun,     \* 128: the longest run or raw packet; its value is the run flag too
          MaxBytes,   \* 512: max_bytes_per_chunk
          Pixels,     \* the pixel values the checks use
          MaxPixels   \* the longest pixel sequence they use

ASSUME CodecAssumption == /\ MaxRun \in Nat \ {0, 1}
                          /\ MaxBytes \in Nat \ {0}
                          /\ Pixels \subseteq 0 .. (4 * MaxRun * MaxRun - 1)
                          /\ MaxPixels \in Nat

Largest(S) == CHOOSE x \in S : \A y \in S : y <= x

Base == 2 * MaxRun                                   \* values of a byte
Bytes(p) == << p \div Base, p % Base >>              \* big-endian
Prefix(s) == 1 .. Largest({n \in 0 .. MaxRun : n <= Len(s)})

(* ---- the encoder of the ESP32 ---- *)
RunLen(s) == Largest({n \in Prefix(s) : \A i \in 1 .. n : s[i] = s[1]})

\* a raw packet stops before a pixel that repeats
RawLen(s) == Largest({1} \cup {n \in Prefix(s) : \A i \in 1 .. n :
                                 i = Len(s) \/ s[i] # s[i + 1]})

\* Mutant: the count is not stored less one.
RleItem_count(s) ==
  IF RunLen(s) >= 2
  THEN [n |-> RunLen(s), bytes |-> << MaxRun + RunLen(s) >> \o Bytes(s[1])]
  ELSE [n |-> RawLen(s),
        bytes |-> << RawLen(s) >>
                    \o FlattenSeq([i \in 1 .. RawLen(s) |-> Bytes(s[i])])]

RleItem(s) ==
  IF RunLen(s) >= 2
  THEN [n |-> RunLen(s), bytes |-> << MaxRun + RunLen(s) - 1 >> \o Bytes(s[1])]
  ELSE [n |-> RawLen(s),
        bytes |-> << RawLen(s) - 1 >>
                    \o FlattenSeq([i \in 1 .. RawLen(s) |-> Bytes(s[i])])]

\* in[1] the pixels left, in[2] the room left in the output
encode_tga_rle_rgb565[in \in Seq(Nat) \X Int] ==
  LET s == in[1]
      item == RleItem(s)
  IN IF s = << >> \/ Len(item.bytes) > in[2] THEN << >>
     ELSE item.bytes \o encode_tga_rle_rgb565[<< SubSeq(s, item.n + 1, Len(s)),
                                                 in[2] - Len(item.bytes) >>]

EncBound(n) == 2 * n + (n \div MaxRun + 2) * 2
Encode(s) == encode_tga_rle_rgb565[<< s, EncBound(Len(s)) >>]

(* ---- the decoder of the GD32: one byte at a time ---- *)
RleStart == [sub |-> "header", run |-> FALSE, n |-> 0, hi |-> 0, out |-> << >>]

RleByte(d, b) ==
  LET p == d.hi * Base + b
  IN CASE d.sub = "header" -> [d EXCEPT !.sub = "hi", !.run = b >= MaxRun,
                                        !.n = (b % MaxRun) + 1]
       [] d.sub = "hi" -> [d EXCEPT !.sub = "lo", !.hi = b]
       [] d.sub = "lo" /\ d.run ->
            [d EXCEPT !.sub = "header", !.n = 0,
                      !.out = @ \o [i \in 1 .. d.n |-> p]]
       [] OTHER -> [d EXCEPT !.sub = IF d.n = 1 THEN "header" ELSE "hi",
                             !.n = @ - 1, !.out = Append(@, p)]

RawStart == [phase |-> 0, hi |-> 0, out |-> << >>]

RawByte(d, b) ==
  IF d.phase = 0 THEN [d EXCEPT !.phase = 1, !.hi = b]
  ELSE [d EXCEPT !.phase = 0, !.out = Append(@, d.hi * Base + b)]

\* What reaches the panel of a packet, and whether the decoder stands between pixels.
OnPanel(rle, bytes) ==
  IF rle THEN LET d == FoldLeft(RleByte, RleStart, bytes)
              IN [px |-> d.out, whole |-> d.sub = "header"]
         ELSE LET d == FoldLeft(RawByte, RawStart, bytes)
              IN [px |-> d.out, whole |-> d.phase = 0]

(* ---- the ESP32's own decoder of stored assets ---- *)
\* in[1] the bytes left, in[2] the pixels there is room for
decode_tga_rle_rgb565[in \in Seq(Nat) \X Nat] ==
  LET s == in[1]
      n == (s[1] % MaxRun) + 1
      run == s[1] >= MaxRun
      used == IF run THEN 3 ELSE 1 + 2 * n
      px(i) == LET at == IF run THEN 2 ELSE 2 * i IN s[at] * Base + s[at + 1]
      fit == Largest({k \in 0 .. n : k <= in[2]})
  IN IF s = << >> \/ in[2] = 0 \/ used > Len(s) THEN << >>
     ELSE [i \in 1 .. fit |-> px(i)]
            \o decode_tga_rle_rgb565[<< SubSeq(s, used + 1, Len(s)), in[2] - fit >>]

(* ---- the rectangle cut into packets ---- *)
\* rows of one width; one with no pixels is not drawn
Rectangles == {img \in Seq(Seq(Nat)) :
                 \A i \in 1 .. Len(img) : Len(img[i]) = Len(img[1]) /\ Len(img[1]) > 0}

Rows(img, y, n) == FlattenSeq(SubSeq(img, y + 1, y + n))

\* rows are added while what is encoded so far fits; the first one always is
RleRows(img, y) ==
  Largest({1} \cup {n \in 1 .. (Len(img) - y) :
                      \A k \in 1 .. n : Len(Encode(Rows(img, y, k))) <= MaxBytes})

PlainRows(img, y) ==
  LET most == Largest({1, MaxBytes \div (2 * Len(img[1]))})
  IN IF most < Len(img) - y THEN most ELSE Len(img) - y

ChunkAt(img, y, rle) ==
  LET n == IF rle THEN RleRows(img, y) ELSE PlainRows(img, y)
      px == Rows(img, y, n)
      raw == FlattenSeq([i \in 1 .. Len(px) |-> Bytes(px[i])])
      small == rle /\ Len(Encode(px)) < Len(raw)
  IN [y |-> y, h |-> n, rle |-> small, bytes |-> IF small THEN Encode(px) ELSE raw]

\* in[1] the image, in[2] the first row not sent, in[3] whether the GD32 takes RLE
draw_pixels_at[in \in Rectangles \X Nat \X BOOLEAN] ==
  IF in[2] >= Len(in[1]) THEN << >>
  ELSE LET c == ChunkAt(in[1], in[2], in[3])
       IN << c >> \o draw_pixels_at[<< in[1], in[2] + c.h, in[3] >>]

(* ---- what the checks go over ---- *)
PixelSeqs == UNION {[1 .. n -> Pixels] : n \in 1 .. MaxPixels}
SmallImages == UNION {[1 .. size[1] -> [1 .. size[2] -> Pixels]] :
                        size \in {<< 3, 1 >>, << 2, 2 >>, << 4, 1 >>, << 2, 3 >>}}

\* The two decoders give back what was encoded, to the pixel: the one of the
\* GD32, which cannot look ahead, ends between two packets, and the encoder
\* never runs into the bound its caller computed for it (where it would stop
\* in the middle of the rectangle and say nothing).
CodecAgrees ==
  \A s \in PixelSeqs :
    /\ OnPanel(TRUE, Encode(s)) = [px |-> s, whole |-> TRUE]
    /\ decode_tga_rle_rgb565[<< Encode(s), Len(s) >>] = s

\* A rectangle cut into chunks arrives whole, in order and once, whichever of
\* the two forms each chunk takes; no chunk is empty, none is larger than its
\* plain form, and one over the limit is a single row (draw_pixels_at).
ChunksCover ==
  \A img \in SmallImages, rle \in BOOLEAN :
    LET cs == draw_pixels_at[<< img, 0, rle >>]
    IN /\ FlattenSeq([i \in 1 .. Len(cs) |-> OnPanel(cs[i].rle, cs[i].bytes).px])
            = FlattenSeq(img)
       /\ \A i \in 1 .. Len(cs) :
            /\ cs[i].y = IF i = 1 THEN 0 ELSE cs[i - 1].y + cs[i - 1].h
            /\ Len(cs[i].bytes) \in 1 .. 2 * cs[i].h * Len(img[1])
            /\ Len(cs[i].bytes) <= MaxBytes \/ cs[i].h = 1
=============================================================================
