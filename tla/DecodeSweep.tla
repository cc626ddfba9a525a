------------------------------ MODULE DecodeSweep ------------------------------
(***************************************************************************)
(* A sweep of the decoder and of the operands' texts over every word: as an*)
(* opword, as a MOVEM mask and as an operand, a page of 256 at a time, even*)
(* pages and odd pages side by side.                                       *)
(***************************************************************************)
EXTENDS Decode68k, OperandText

VARIABLE page   \* the high byte of the words looked at

The68000 == INSTANCE Formats68k

PageWords == 256 * page..256 * page + 255

Init == page \in {0, 1}
TurnPage == page + 2 < 256 /\ page' = page + 2
Next == TurnPage
Spec == Init /\ [][Next]_page

---------------------------------------------------------------------------
\* Families the decoder leaves out, and MOVEP, most of which it takes for a bit
\* operation on an address register.
LeftOut == {"bset Dn", "chk", "movep", "nbcd", "trapv"}

\* Every opword of the 68000 is decoded as the manual says: the same family and
\* the same number of words (disassemble_one and the handler of each line).
DecodesThe68000 ==
  \A op \in PageWords : \A format \in The68000!Instructions(op) :
    format[1] \notin LeftOut => format = <<Decoded(op).name, Words(Decoded(op))>>

\* The register list of a MOVEM assembles to the mask it was read from
\* (decode_movem_regs): bit b is register b, or 15 - b before a predecrement.
ListIsMask ==
  \A mask \in PageWords, predecrement \in BOOLEAN :
    LET list == RegisterList(mask, predecrement)
    IN \A b \in 0..15 :
         (Bits(mask, b, 1) = 1) =
           \E n \in DOMAIN list :
             (IF predecrement THEN 15 - b ELSE b) \in list[n][1]..list[n][2]

\* The operands that the translators write anew are assembled to the words they
\* were read from, at the edges of the signed fields too, but for two: a negative
\* displacement of an indexed operand, and sp in a register list (capstone_to_vasm,
\* convert_single_operand, format_reglist, _fix_single_operand, _format_immediate,
\* fix_moveq).
OperandsKept ==
  \A v \in PageWords : WordKept(v) /\ ShortKept(v) /\ IndexedKept(v) /\ ListKept(v)
=============================================================================
