------------------------------- MODULE LzCode -------------------------------
(***************************************************************************)
(* What the game's compressed blocks mean, over a plain queue of bits: the *)
(* promise that the decompressors keep with their 16-bit window            *)
(* (tools/lz_decompress.py, disasm/sh2/master/lz.c, LZ_Decompress in       *)
(* disasm/modules/68k/boot/EarlyInit.asm).                                 *)
(*                                                                         *)
(* Words, control bytes and literals come off one pointer, in the order    *)
(* they are asked for; src is what has been taken so far.                  *)
(***************************************************************************)
EXTENDS Binary, Sequences

CONSTANTS
  Controls, Literals,   \* bytes a stream may hold as control bytes and literals
  BitWords,             \* words a stream may hold for its bits, as <<low, high>>
  Limit                 \* size of the output

VARIABLES
  src,       \* bytes taken from the stream
  pending,   \* bits read and not used
  flags,     \* control bits of this group not used: 1 is a literal
  text,      \* output
  status     \* "prime", "run", "done", "overrun"

vars == <<src, pending, flags, text, status>>

Bits(v, n) == [k \in 1..n |-> (v \div Weight[n - k]) % 2]
Value(bits) ==
  LET v[k \in 0..Len(bits)] == IF k = 0 THEN 0 ELSE 2 * v[k - 1] + bits[k]
  IN v[Len(bits)]
WordOf(pair) == pair[2] * 256 + pair[1]

\* Sixteen bits are kept ready: a word is taken when fewer would be left.
Supply(queue, n) == IF Len(queue) - n < 16 THEN BitWords ELSE {<<>>}
After(queue, n, pair) ==
  SubSeq(queue, n + 1, Len(queue)) \o IF pair = <<>> THEN <<>> ELSE Bits(WordOf(pair), 16)

\* A length is a binary number after as many zeros as it has digits less one;
\* after seven zeros it is 128 and seven more bits, all ones ending the block.
LengthCode(queue) ==
  LET ones == {z \in 0..6 : queue[z + 1] = 1}
      z == IF ones = {} THEN 7 ELSE CHOOSE x \in ones : \A y \in ones : x <= y
  IN IF z < 7 THEN [value |-> Value(SubSeq(queue, z + 1, 2 * z + 1)), used |-> 2 * z + 1]
              ELSE [value |-> 128 + Value(SubSeq(queue, 8, 14)), used |-> 14]
EndMark == 255

\* A distance is a canonical code in nine classes: so many bits, whose number
\* counts from `first` on what the distance counts from `base` on.
Classes ==
  { [bits |-> 6,  first |-> 0,     base |-> 0,    count |-> 4],
    [bits |-> 7,  first |-> 8,     base |-> 4,    count |-> 4],
    [bits |-> 8,  first |-> 24,    base |-> 8,    count |-> 24],
    [bits |-> 9,  first |-> 96,    base |-> 32,   count |-> 96],
    [bits |-> 10, first |-> 384,   base |-> 128,  count |-> 128],
    [bits |-> 11, first |-> 1024,  base |-> 256,  count |-> 256],
    [bits |-> 12, first |-> 2560,  base |-> 512,  count |-> 512],
    [bits |-> 13, first |-> 6144,  base |-> 1024, count |-> 1024],
    [bits |-> 14, first |-> 14336, base |-> 2048, count |-> 2048] }

DistanceCode(queue) ==
  LET V(c) == Value(SubSeq(queue, 1, c.bits)) - c.first
      class == CHOOSE c \in Classes : V(c) \in 0..c.count - 1
  IN [value |-> class.base + V(class), used |-> class.bits]

\* length + 1 bytes that repeat the last distance + 1.
Repeated(length, distance) ==
  [k \in 1..length + 1 |-> text[Len(text) - distance + ((k - 1) % (distance + 1))]]

Fits == Len(text) + 256 <= Limit

---------------------------------------------------------------------------
Init ==
  /\ src = <<>> /\ pending = <<>> /\ flags = <<>> /\ text = <<>>
  /\ status = "prime"

Prime ==
  /\ status = "prime" /\ status' = "run"
  /\ \E w \in BitWords : src' = w /\ pending' = Bits(WordOf(w), 16)
  /\ UNCHANGED <<flags, text>>

NextGroup ==
  /\ status = "run" /\ flags = <<>>
  /\ \E c \in Controls : src' = src \o <<c>> /\ flags' = Bits(c, 8)
  /\ UNCHANGED <<pending, text, status>>

Literal ==
  /\ status = "run" /\ flags # <<>> /\ Head(flags) = 1 /\ Fits
  /\ \E b \in Literals : src' = src \o <<b>> /\ text' = text \o <<b>>
  /\ flags' = Tail(flags)
  /\ UNCHANGED <<pending, status>>

Match ==
  /\ status = "run" /\ flags # <<>> /\ Head(flags) = 0 /\ Fits
  /\ LengthCode(pending).value # EndMark
  /\ LET length == LengthCode(pending)
     IN \E w1 \in Supply(pending, length.used) :
          LET rest     == After(pending, length.used, w1)
              distance == DistanceCode(rest)
          IN /\ distance.value < Len(text)
             /\ text' = text \o Repeated(length.value, distance.value)
             /\ \E w2 \in Supply(rest, distance.used) :
                  /\ pending' = After(rest, distance.used, w2)
                  /\ src' = src \o w1 \o w2
  /\ flags' = Tail(flags)
  /\ UNCHANGED status

End ==
  /\ status = "run" /\ flags # <<>> /\ Head(flags) = 0 /\ Fits
  /\ LengthCode(pending).value = EndMark
  /\ status' = "done"
  /\ UNCHANGED <<src, pending, flags, text>>

Refuse ==
  /\ status = "run" /\ flags # <<>> /\ ~Fits
  /\ status' = "overrun"
  /\ UNCHANGED <<src, pending, flags, text>>

Next == Prime \/ NextGroup \/ Literal \/ Match \/ End \/ Refuse

Spec == Init /\ [][Next]_vars
=============================================================================
