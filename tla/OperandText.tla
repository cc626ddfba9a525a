----------------------------- MODULE OperandText -----------------------------
(***************************************************************************)
(* The operands that tools/translate_block.py, tools/translate.py and      *)
(* tools/fix_moveq.py write anew, and what the assembler reads them as: the*)
(* signed numbers, the short addresses, the displacement of an indexed     *)
(* operand and the register list of a MOVEM.  What they pass on as the     *)
(* disassembler shows it (immediates, PC-relative operands) is not here.   *)
(* A number is written as a sign and eight hexadecimal digits at most, in  *)
(* two halves of 16 bits.                                                  *)
(***************************************************************************)
EXTENDS Integers, Sequences, SequencesExt

Text(v) == [minus |-> FALSE, hi |-> 0, lo |-> v]
Negative(v) == [minus |-> TRUE, hi |-> 0, lo |-> v]   \* printed with abs()

---------------------------------------------------------------------------
(* The assembler: a signed field takes what fits it, written as it is or   *)
(* as 32 bits with the sign extended.                                      *)

Rejected == -1

\* What a field of `range` values, half of them negative, is assembled to.
SignedField(text, range) ==
  CASE text.minus /\ text.lo <= range \div 2                  -> (range - text.lo) % range
    [] ~text.minus /\ text.hi = 0 /\ text.lo < range \div 2   -> text.lo
    [] ~text.minus /\ text.hi = \hFFFF /\ text.lo >= 65536 - range \div 2 -> text.lo % range
    [] OTHER -> Rejected

Word == 65536
Byte == 256

---------------------------------------------------------------------------
(* translate_block.py                                                      *)

\* Mutation: the least negative number is left unsigned.
SignedTextLate(v, range) == IF v > range \div 2 THEN Negative(range - v) ELSE Text(v)

\* The signed form of pea (xxx).w, of link, of moveq and of a displacement.
SignedText(v, range) == IF v >= range \div 2 THEN Negative(range - v) ELSE Text(v)

BlockPea(v)          == SignedText(v, Word)
BlockLink(v)         == SignedText(v, Word)
BlockMoveq(v)        == SignedText(v, Byte)
BlockDisplacement(v) == SignedText(v, Word)

\* needs_abs_l, of a short address as the disassembler shows it, in 16 bits.
NeedsAbsL(v) == v > \h7FFF

\* convert_single_operand: (xxx).w stays short unless it needs a long.
BlockAbsW(v) == [long |-> NeedsAbsL(v), text |-> Text(v)]

\* A byte as the disassembler may show it: bare, or with its sign.
ByteShown(d) == {Text(d)} \cup IF d >= Byte \div 2 THEN {Negative(Byte - d)} ELSE {}

\* convert_single_operand, d8(An,Xn): only a positive displacement is written, any
\* other as none.
BlockIndexed(shown) == IF shown.minus THEN Text(0) ELSE shown

\* Mutation: a single register behind a range is not written.
RangesCut(nums) ==
  FoldLeft(LAMBDA ranges, n :
             IF ranges = <<>> THEN <<<<n, n>>>>
             ELSE IF n = Last(ranges)[2] + 1 THEN Front(ranges) \o <<<<Last(ranges)[1], n>>>>
             ELSE IF Last(ranges)[1] = Last(ranges)[2] THEN Append(ranges, <<n, n>>) ELSE ranges,
           <<>>, nums)

\* format_reg_range: ascending numbers as ranges, each ended where one is missing.
Ranges(nums) ==
  FoldLeft(LAMBDA ranges, n :
             IF ranges # <<>> /\ n = Last(ranges)[2] + 1
             THEN Front(ranges) \o <<<<Last(ranges)[1], n>>>>
             ELSE Append(ranges, <<n, n>>),
           <<>>, nums)

\* The registers of a mask, 0 to 7 for d0 to d7 and 8 to 15 for a0 to sp.
Registers(mask) == {r \in 0..15 : (mask \div 2 ^ r) % 2 = 1}

\* format_reglist: the data registers, then the address registers; a name that
\* begins with neither letter, which is sp, is in neither list.
BlockList(mask, showsSp) ==
  LET Numbers(file) == SelectSeq([k \in 1..8 |-> k - 1], LAMBDA n :
                         file + n \in Registers(mask) /\ ~(showsSp /\ file + n = 15))
  IN <<Ranges(Numbers(0)), Ranges(Numbers(8))>>

---------------------------------------------------------------------------
(* translate.py                                                            *)

\* _fix_single_operand: a short address in the top 32K is written in full.
RangeAbsW(v) == IF v > \h7FFF THEN [minus |-> FALSE, hi |-> \hFFFF, lo |-> v] ELSE Text(v)

\* _format_immediate, for link.
RangeLink(v) == IF v > \h7FFF THEN Negative(Word - v) ELSE Text(v)

---------------------------------------------------------------------------
\* fix_moveq.py: moveq #$80 to #$FF become negative.
FixMoveq(v) == IF v >= \h80 THEN Negative(Byte - v) ELSE Text(v)

---------------------------------------------------------------------------
\* Whatever 16 bits an operand holds, the number written for it is one that the
\* field takes, and assembles to them.
WordKept(v) ==
  /\ \A text \in {BlockPea(v), BlockLink(v), BlockDisplacement(v), RangeAbsW(v), RangeLink(v)} :
       SignedField(text, Word) = v
  /\ v < Byte => \A text \in {BlockMoveq(v), FixMoveq(v)} : SignedField(text, Byte) = v

\* The same of the short addresses translate_block.py writes, as far as it leaves
\* them short.
ShortKept(v) == ~BlockAbsW(v).long => SignedField(BlockAbsW(v).text, Word) = v

\* The displacement of an indexed operand is kept when and only when it is not
\* negative, however the disassembler shows it.
IndexedKept(v) ==
  v < Byte => \A shown \in ByteShown(v) :
                (SignedField(BlockIndexed(shown), Byte) = v) <=> v < Byte \div 2

\* The list written for a MOVEM names the registers of its mask and no others, but
\* for the stack pointer when the disassembler shows it as sp.
ListKept(mask) ==
  \A showsSp \in BOOLEAN :
    LET list == BlockList(mask, showsSp)
    IN {n \in 0..15 : \E range \in {list[n \div 8 + 1][k] : k \in DOMAIN list[n \div 8 + 1]} :
                       n % 8 \in range[1]..range[2]}
         = Registers(mask) \ (IF showsSp THEN {15} ELSE {})
=============================================================================
