------------------------------ MODULE Decode68k ------------------------------
(***************************************************************************)
(* The instruction decoder of tools/disasm_regions.py, as far as it decides*)
(* what is read: for every opword the family of the mnemonic, the extension*)
(* words read before the operands, and the effective addresses whose own   *)
(* extension words follow.  What is printed of an operand is left out, but *)
(* for the register list of a MOVEM and the target of a PC-relative one.   *)
(***************************************************************************)
EXTENDS Integers, Sequences, SequencesExt

\* `bits` bits of v from bit `low` up.
Bits(v, low, bits) == (v \div 2 ^ low) % 2 ^ bits

\* The effective address in the low six bits of an opword, at a given size.
Ea(op, size) == [mode |-> Bits(op, 3, 3), reg |-> Bits(op, 0, 3), size |-> size]

\* Mutation: a long immediate is read as one word.
EaWordsShort(ea) ==
  CASE ea.mode \in {5, 6}                  -> 1
    [] ea.mode = 7 /\ ea.reg = 1           -> 2
    [] ea.mode = 7 /\ ea.reg \in {0, 2, 3, 4} -> 1
    [] OTHER                               -> 0

\* Extension words that decode_ea reads.
EaWords(ea) ==
  CASE ea.mode \in {5, 6}                       -> 1
    [] ea.mode = 7 /\ ea.reg \in {0, 2, 3}      -> 1
    [] ea.mode = 7 /\ ea.reg = 1                -> 2
    [] ea.mode = 7 /\ ea.reg = 4 /\ ea.size < 2 -> 1
    [] ea.mode = 7 /\ ea.reg = 4 /\ ea.size = 2 -> 2
    [] OTHER                                    -> 0

\* A decoded instruction: family, words read first, effective addresses.
Instr(name, first, eas) == [name |-> name, first |-> first, eas |-> eas]
Plain(name) == Instr(name, 0, <<>>)
On(name, op, size) == Instr(name, 0, <<Ea(op, size)>>)

\* What is not decoded is shown as dc.w and counts as one word.
DcW == Plain("dc.w")

Size(op) == Bits(op, 6, 2)
Opmode(op) == Bits(op, 6, 3)
Mode(op) == Bits(op, 3, 3)

ImmWords(size) == IF size = 2 THEN 2 ELSE 1

ToSr == {\h003C, \h007C, \h023C, \h027C, \h0A3C, \h0A7C}

Line0(op) ==
  LET id == Bits(op, 8, 4) IN
  CASE op \in ToSr -> Instr("to sr", 1, <<>>)
    [] op \notin ToSr /\ id \in {0, 2, 4, 6, 10, 12} /\ Size(op) # 3 ->
         Instr("immediate", ImmWords(Size(op)), <<Ea(op, Size(op))>>)
    [] id = 8 -> Instr("bit", 1, <<Ea(op, 0)>>)
    [] Bits(op, 8, 1) = 1 /\ Size(op) # 3 -> On("bit", op, 0)
    [] Bits(op, 8, 1) = 1 /\ Size(op) = 3 /\ Mode(op) = 1 -> Instr("movep", 1, <<>>)
    [] OTHER -> DcW

\* MOVE: source first; the destination's mode and register stand the other way.
MoveSize(op) == CASE Bits(op, 12, 2) = 1 -> 0 [] Bits(op, 12, 2) = 3 -> 1 [] OTHER -> 2
Move(op) ==
  LET size == MoveSize(op)
      dst  == [mode |-> Bits(op, 6, 3), reg |-> Bits(op, 9, 3), size |-> size]
  IN IF dst.mode = 1 THEN On("movea", op, size) ELSE Instr("move", 0, <<Ea(op, size), dst>>)

\* Opwords that differ in their effective address only.
Same(op, base) == op \div 64 = base \div 64

\* Line 4: the opwords that leave no room for an address.
Line4Fixed(op) ==
  CASE op = \h4E71 -> Plain("nop")     [] op = \h4E75 -> Plain("rts")
    [] op = \h4E73 -> Plain("rte")     [] op = \h4E77 -> Plain("rtr")
    [] op = \h4E70 -> Plain("reset")   [] op = \h4AFC -> Plain("illegal")
    [] op = \h4E72 -> Instr("stop", 1, <<>>)
    [] op \in \h4E40..\h4E4F -> Plain("trap")
    [] op \in \h4E50..\h4E57 -> Instr("link", 1, <<>>)
    [] op \in \h4E58..\h4E5F -> Plain("unlk")
    [] op \in \h4E60..\h4E6F -> Plain("move usp")
    [] OTHER -> DcW

Line4(op) ==
  CASE Line4Fixed(op) # DcW -> Line4Fixed(op)
    [] (Same(op, \h46C0) \/ Same(op, \h40C0) \/ Same(op, \h44C0)) -> On("move sr", op, 1)
    [] Same(op, \h4EC0) -> On("jmp", op, 2)
    [] Same(op, \h4E80) -> On("jsr", op, 2)
    [] Opmode(op) = 7 -> On("lea", op, 2)
    [] Same(op, \h4840) -> IF Mode(op) = 0 THEN Plain("swap") ELSE On("pea", op, 2)
    [] Bits(op, 8, 4) \in {0, 2, 4, 6} /\ Size(op) # 3 -> On("unary", op, Size(op))
    [] Bits(op, 8, 4) = 10 /\ op # \h4AFC -> On("test", op, Size(op) % 3)
    [] (Same(op, \h4880) \/ Same(op, \h48C0)) /\ Mode(op) = 0 -> Plain("ext")
    [] (Same(op, \h4880) \/ Same(op, \h48C0)) /\ Mode(op) # 0 -> Instr("movem", 1, <<Ea(op, 2)>>)
    [] (Same(op, \h4C80) \/ Same(op, \h4CC0)) -> Instr("movem", 1, <<Ea(op, 2)>>)
    [] OTHER -> DcW

Line5(op) ==
  CASE Size(op) = 3 /\ Mode(op) = 1 -> Instr("dbcc", 1, <<>>)
    [] Size(op) = 3 /\ Mode(op) # 1 -> On("scc", op, 0)
    [] OTHER -> On("addq", op, Size(op))

\* A displacement of $FF is taken for the long branch of a 68020.
Line6(op) ==
  LET disp == Bits(op, 0, 8)
  IN Instr("bcc", CASE disp = 0 -> 1 [] disp = 255 -> 2 [] OTHER -> 0, <<>>)

Moveq(op) == IF Bits(op, 8, 1) = 1 THEN DcW ELSE Plain("moveq")

\* Lines 8, 9, B, C and D: opmodes 0-2 are <ea>,Dn; 4-6 Dn,<ea>; `at3` and `at7`
\* name opmodes 3 and 7 and give their sizes.
Arithmetic(op, name, at3, at7) ==
  CASE Opmode(op) = 3     -> On(at3[1], op, at3[2])
    [] Opmode(op) = 7     -> On(at7[1], op, at7[2])
    [] Opmode(op) \in 0..2 -> On(name, op, Opmode(op))
    [] OTHER              -> On(name, op, Opmode(op) - 4)

Line8(op) ==
  IF Opmode(op) = 4 /\ Mode(op) \in {0, 1} THEN Plain("bcd")
  ELSE Arithmetic(op, "or", <<"div", 1>>, <<"div", 1>>)

AddSub(op) ==
  IF Opmode(op) \in 4..6 /\ Mode(op) \in {0, 1} THEN Plain("addx")
  ELSE Arithmetic(op, "add", <<"adda", 1>>, <<"adda", 2>>)

LineB(op) ==
  IF Opmode(op) \in 4..6 /\ Mode(op) = 1 THEN Plain("cmpm")
  ELSE Arithmetic(op, IF Opmode(op) < 3 THEN "cmp" ELSE "eor", <<"cmpa", 1>>, <<"cmpa", 2>>)

LineC(op) ==
  CASE Bits(op, 3, 6) \in {40, 41, 49} -> Plain("exg")
    [] Bits(op, 3, 6) \in {32, 33}     -> Plain("bcd")
    [] OTHER -> Arithmetic(op, "and", <<"mul", 1>>, <<"mul", 1>>)

Shift(op) == IF Size(op) = 3 THEN On("shift", op, 1) ELSE Plain("shift")

\* disassemble_one: dispatch on the top nibble.
Decoded(op) ==
  CASE op \div 4096 = 0  -> Line0(op)
    [] op \div 4096 \in 1..3 -> Move(op)
    [] op \div 4096 = 4  -> Line4(op)
    [] op \div 4096 = 5  -> Line5(op)
    [] op \div 4096 = 6  -> Line6(op)
    [] op \div 4096 = 7  -> Moveq(op)
    [] op \div 4096 = 8  -> Line8(op)
    [] op \div 4096 \in {9, 13} -> AddSub(op)
    [] op \div 4096 = 11 -> LineB(op)
    [] op \div 4096 = 12 -> LineC(op)
    [] op \div 4096 = 14 -> Shift(op)
    [] OTHER             -> DcW

\* Words that an instruction takes, the opword among them.
Words(instr) ==
  1 + instr.first + FoldLeft(LAMBDA n, ea : n + EaWords(ea), 0, instr.eas)

\* An instruction that the ROM ends in the middle of is shown as dc.w too.
Shown(op, left) == IF Words(Decoded(op)) > left THEN DcW ELSE Decoded(op)

\* decode_movem_regs: registers 0-7 are d0-d7, 8-15 a0-a7.
MovemRegs(mask, predecrement) ==
  {IF predecrement THEN 15 - b ELSE b : b \in {k \in 0..15 : Bits(mask, k, 1) = 1}}

\* _compress_range: registers in ascending order as a sequence of ranges.
CompressRange(nums) ==
  LET Join(parts, n) ==
        IF parts # <<>> /\ parts[Len(parts)][2] + 1 = n
        THEN [parts EXCEPT ![Len(parts)][2] = n]
        ELSE Append(parts, <<n, n>>)
  IN FoldLeft(Join, <<>>, SelectSeq([k \in 1..16 |-> k - 1], LAMBDA n : n \in nums))

\* Data registers first; a range never runs from d7 on to a0.
RegisterList(mask, predecrement) ==
  LET regs == MovemRegs(mask, predecrement)
  IN CompressRange(regs \cap 0..7) \o CompressRange(regs \cap 8..15)
=============================================================================
