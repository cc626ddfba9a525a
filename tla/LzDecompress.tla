---------------------------- MODULE LzDecompress ----------------------------
(***************************************************************************)
(* lz_decompress of disasm/sh2/master/lz.c, one control byte or one token  *)
(* to a step, with its 16-bit window, its source word and the bits left in *)
(* it.  The stream is chosen as it is read.                                *)
(*                                                                         *)
(* A length of n + 1 bits and the distance after it are shifted out as n   *)
(* bits and the rest together: lz_read_bits(n) leaves the length's last    *)
(* bit on top of the window and the caller clears it.                      *)
(***************************************************************************)
EXTENDS Binary, Sequences

CONSTANTS
  Controls, Literals,   \* bytes a stream may hold as control bytes and literals
  BitWords,             \* words a stream may hold for its bits, as <<low, high>>
  Limit,                \* limit, the size of dst
  SrcMax                \* bytes of a stream that are looked at

ASSUME StreamAssumption ==
  /\ Controls \subseteq 0..255
  /\ BitWords \subseteq (0..255) \X (0..255)
  /\ Limit \in Nat

VARIABLES
  src,                   \* bytes read through p
  window, word, avail,   \* lz_stream
  ctrl, tokens,          \* control byte, tokens of its group done
  dst, lzpc              \* output; "prime", "control", "token", "done", "overrun"

bitstream == <<src, window, word, avail>>
decoder == <<bitstream, ctrl, tokens, dst, lzpc>>

TokenRoom == 256
WordMax == 65535
Field(w, low, bits) == (w \div Weight[low]) % Weight[bits]

\* The state of a reader: its window, source word, bits left, and what it took.
Reader == [w |-> window, word |-> word, avail |-> avail, took |-> <<>>]

\* A word is fetched when the bits left do not suffice.
Fetches(s, n) == n > s.avail
Pairs(s, n) == IF Fetches(s, n) THEN BitWords ELSE {<<>>}

\* Mutation: the high byte of a word is taken to come first.
WordOfBig(pair) == pair[1] * 256 + pair[2]

\* The stream's words are little-endian.
WordOf(pair) == pair[2] * 256 + pair[1]

\* lz_read_bits; the fields that are or-ed together do not overlap.
ReadBits(s, n, pair) ==
  LET fetch == pair # <<>>
      m == IF fetch THEN n - s.avail ELSE n
      source == IF fetch THEN WordOf(pair) ELSE s.word
      left == IF fetch THEN 16 - m ELSE s.avail - m
      got == IF fetch THEN Field(s.word, 0, s.avail) * Weight[m] ELSE 0
  IN [w |-> Field(s.w * Weight[n], 0, 16) + got + Field(source, left, m),
      word |-> source, avail |-> left, took |-> s.took \o pair]

\* Length and bits to shift, by the highest bit set; 255 ends the block.
LengthAt(w) ==
  CASE Field(w, 15, 1) = 1 -> <<1, 0>>
    [] Field(w, 14, 2) = 1 -> <<Field(w, 13, 2), 2>>
    [] Field(w, 13, 3) = 1 -> <<Field(w, 11, 3), 4>>
    [] Field(w, 12, 4) = 1 -> <<Field(w, 9, 4), 6>>
    [] Field(w, 11, 5) = 1 -> <<Field(w, 7, 5), 8>>
    [] Field(w, 10, 6) = 1 -> <<Field(w, 5, 6), 10>>
    [] Field(w, 9, 7) = 1  -> <<Field(w, 3, 7), 12>>
    [] OTHER               -> <<Field(w, 2, 7) + 128, 13>>
EndMark == 255

TopSet(w) == 4096 + Field(w, 0, 12)   \* (w & 0x1FFF) | 0x1000

Between(w, low, high) == low <= w /\ w < high

\* Mutation: the fourth class takes the first code of the fifth.
DistanceOffByOne(w) ==
  CASE w < 2048                 -> <<Field(w, 9, 2), 7>>
    [] Between(w, 2048, 3072)   -> <<Field(w, 8, 2) + 4, 8>>
    [] Between(w, 3072, 6144)   -> <<Field(w - 3072, 7, 5) + 8, 9>>
    [] Between(w, 6144, 12289)  -> <<Field(w - 6144, 6, 7) + 32, 10>>
    [] OTHER                    -> <<TopSet(w) \div 32, 11>>

\* Distance and bits to shift, w's top bit being clear.
DistanceAt(w) ==
  CASE w < 2048                 -> <<Field(w, 9, 2), 7>>
    [] Between(w, 2048, 3072)   -> <<Field(w, 8, 2) + 4, 8>>
    [] Between(w, 3072, 6144)   -> <<Field(w - 3072, 7, 5) + 8, 9>>
    [] Between(w, 6144, 12288)  -> <<Field(w - 6144, 6, 7) + 32, 10>>
    [] Between(w, 12288, 16384) -> <<TopSet(w) \div 32, 11>>
    [] Between(w, 16384, 20480) -> <<TopSet(w) \div 16, 12>>
    [] Between(w, 20480, 24576) -> <<TopSet(w) \div 8, 13>>
    [] Between(w, 24576, 28672) -> <<TopSet(w) \div 4, 14>>
    [] OTHER                    -> <<TopSet(w) \div 2, 15>>

\* Bits of v from the highest of n down, for the refinement.
BitsOf(v, n) == [k \in 1..n |-> Field(v, n - k, 1)]

\* Byte at a time and forwards, so an overlapping copy repeats itself.
Copied(length, distance) ==
  LET out[k \in 0..length + 1] ==
        IF k = 0 THEN dst
        ELSE LET text == out[k - 1] IN Append(text, text[Len(text) - distance])
  IN out[length + 1]

---------------------------------------------------------------------------
DecoderInit ==
  /\ src = <<>> /\ window = 0 /\ word = 0 /\ avail = 0
  /\ ctrl = 0 /\ tokens = 0 /\ dst = <<>>
  /\ lzpc = "prime"

Take(s) ==
  /\ window' = s.w /\ word' = s.word /\ avail' = s.avail
  /\ src' = src \o s.took

Prime ==
  /\ lzpc = "prime" /\ lzpc' = "control"
  /\ \E pair \in Pairs(Reader, 16) : Take(ReadBits(Reader, 16, pair))
  /\ UNCHANGED <<ctrl, tokens, dst>>

More == Len(src) < SrcMax

Control ==
  /\ lzpc = "control" /\ lzpc' = "token" /\ More
  /\ \E c \in Controls : ctrl' = c /\ src' = src \o <<c>>
  /\ tokens' = 0
  /\ UNCHANGED <<window, word, avail, dst>>

\* Mutation: the output is checked after the fact.
OverrunTooLate == Len(dst) > Limit

\* The check before a token is written.
Overrun == Len(dst) + TokenRoom > Limit

NextToken ==
  /\ ctrl' = (2 * ctrl) % 256
  /\ tokens' = tokens + 1
  /\ lzpc' = IF tokens = 7 THEN "control" ELSE "token"

TokenRefused ==
  /\ lzpc = "token" /\ Overrun
  /\ lzpc' = "overrun"
  /\ UNCHANGED <<bitstream, ctrl, tokens, dst>>

TokenLiteral ==
  /\ lzpc = "token" /\ ~Overrun
  /\ Field(ctrl, 7, 1) = 1 /\ More
  /\ \E b \in Literals : dst' = Append(dst, b) /\ src' = src \o <<b>>
  /\ NextToken
  /\ UNCHANGED <<window, word, avail>>

TokenEnd ==
  /\ lzpc = "token" /\ ~Overrun
  /\ Field(ctrl, 7, 1) = 0 /\ LengthAt(window)[1] = EndMark
  /\ lzpc' = "done"
  /\ UNCHANGED <<bitstream, ctrl, tokens, dst>>

\* The blocks of the cartridge never reach back before their first byte.
TokenMatch ==
  /\ lzpc = "token" /\ ~Overrun
  /\ Field(ctrl, 7, 1) = 0 /\ LengthAt(window)[1] # EndMark /\ More
  /\ LET length == LengthAt(window)
     IN \E p1 \in IF length[2] = 0 THEN {<<>>} ELSE Pairs(Reader, length[2]) :
          LET s1 == IF length[2] = 0 THEN Reader ELSE ReadBits(Reader, length[2], p1)
              s2 == [s1 EXCEPT !.w = Field(@, 0, 15)]
              distance == DistanceAt(s2.w)
          IN /\ distance[1] < Len(dst)
             /\ \E p2 \in Pairs(s2, distance[2]) : Take(ReadBits(s2, distance[2], p2))
             /\ dst' = Copied(length[1], distance[1])
  /\ NextToken

DecoderNext == Prime \/ Control \/ TokenRefused \/ TokenLiteral \/ TokenEnd \/ TokenMatch

DecoderSpec == DecoderInit /\ [][DecoderNext]_decoder

---------------------------------------------------------------------------
\* The window and the source word stay 16-bit, fewer than 16 bits are left over
\* between tokens, and lzpc is one of the loop's places.
DecoderTypeOK ==
  /\ window \in 0..WordMax /\ word \in 0..WordMax /\ avail \in 0..15
  /\ ctrl \in 0..255 /\ tokens \in 0..8
  /\ lzpc \in {"prime", "control", "token", "done", "overrun"}

\* LZ_OVERRUN's purpose: whatever the stream says, no byte is written past the
\* end of dst, though a token is checked only before it is expanded.
WritesInBounds == Len(dst) <= Limit

\* The decoder implements the code: the window on top of the bits left in the
\* source word is the queue of bits, the control byte shifted so far the queue
\* of flags, and the byte-wise copy repeats the text as the code says.
Code == INSTANCE LzCode WITH
  pending <- IF lzpc = "prime" THEN <<>> ELSE BitsOf(window, 16) \o BitsOf(word, avail),
  flags   <- IF lzpc \in {"prime", "control"} THEN <<>> ELSE BitsOf(ctrl \div Weight[tokens], 8 - tokens),
  text    <- dst,
  status  <- IF lzpc \in {"control", "token"} THEN "run" ELSE lzpc
CodeSpec == Code!Spec

\* The tables of lz_decompress agree with the code on every window a stream can
\* bring: the same length, the same distance behind a length's last bit, and the
\* same number of bits used, a length's last bit being shifted out with the
\* distance.
TokenIsCode ==
  \A w \in 0..WordMax :
    LET bits     == BitsOf(w, 16)
        length   == Code!LengthCode(bits)
        distance == Code!DistanceCode(Tail(bits))
    IN /\ LengthAt(w) = <<length.value, length.used - 1>>
       /\ DistanceAt(Field(w, 0, 15)) = <<distance.value, distance.used + 1>>

\* lz_decompress never writes past the end of its buffer, its window, source word
\* and bit count keep their widths, and its tables agree with the code on every
\* window.
DecoderRight == WritesInBounds /\ DecoderTypeOK /\ TokenIsCode
=============================================================================
