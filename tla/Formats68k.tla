------------------------------ MODULE Formats68k ------------------------------
(***************************************************************************)
(* The instruction formats of the 68000, as its reference manual gives     *)
(* them: what the decoder of tools/disasm_regions.py is measured by.       *)
(*                                                                         *)
(* An opword is a line (bits 15-12), a register field r (11-9), a mode     *)
(* field m (8-6) and six low bits, which mostly hold an addressing mode.   *)
(***************************************************************************)
EXTENDS Integers

\* Addressing modes: 0-6 as in the mode field, 7 abs.w, 8 abs.l, 9 d16(PC),
\* 10 d8(PC,Xn), 11 immediate; more than 11 is none.
AddressMode(mode, reg) == IF mode < 7 THEN mode ELSE 7 + reg
LowMode(low) == AddressMode(low \div 8, low % 8)

AnyMode == 0..11
DataMode == AnyMode \ {1}
Alterable == 0..8
DataAlterable == Alterable \ {1}
MemoryAlterable == DataAlterable \ {0}
Control == {2, 5, 6, 7, 8, 9, 10}

\* Extension words of an address, at size 0 (byte), 1 (word), 2 (long).
ModeWords(mode, size) ==
  CASE mode \in {5, 6, 7, 9, 10} -> 1
    [] mode = 8                  -> 2
    [] mode = 11                 -> IF size = 2 THEN 2 ELSE 1
    [] OTHER                     -> 0

\* Formats with an address in the low bits: name, line, r, m, the modes they
\* take, words before the address, and size; 3 stands for the size in m.
InM == 3
S == {0, 1, 2}
T == {4, 5, 6}
All == 0..7
Addressed == {
  <<"bit",     0, All, {4}, DataMode, 0, 0>>,      <<"bit",  0, All, {5, 6}, DataAlterable, 0, 0>>,
  <<"bset Dn", 0, All, {7}, DataAlterable, 0, 0>>, <<"bit",  0, {4}, {0}, DataMode \ {11}, 1, 0>>,
  <<"bit",     0, {4}, {1, 2, 3}, DataAlterable, 1, 0>>,
  <<"immediate", 0, {0, 1, 2, 3, 5, 6}, {0, 1}, DataAlterable, 1, InM>>,
  <<"immediate", 0, {0, 1, 2, 3, 5, 6}, {2}, DataAlterable, 2, InM>>,
  <<"unary",   4, 0..3, S, DataAlterable, 0, InM>>, <<"move sr", 4, {0}, {3}, DataAlterable, 0, 1>>,
  <<"move sr", 4, {2, 3}, {3}, DataMode, 0, 1>>,   <<"nbcd", 4, {4}, {0}, DataAlterable, 0, 0>>,
  <<"pea",     4, {4}, {1}, Control, 0, 2>>,       <<"test", 4, {5}, S, DataAlterable, 0, InM>>,
  <<"test",    4, {5}, {3}, DataAlterable, 0, 0>>, <<"jsr",  4, {7}, {2}, Control, 0, 2>>,
  <<"jmp",     4, {7}, {3}, Control, 0, 2>>,       <<"lea",  4, All, {7}, Control, 0, 2>>,
  <<"chk",     4, All, {6}, DataMode, 0, 1>>,
  <<"movem",   4, {4}, {2, 3}, (Control \cup {4}) \ {9, 10}, 1, 2>>,
  <<"movem",   4, {6}, {2, 3}, Control \cup {3}, 1, 2>>,
  <<"addq",    5, All, S \cup T, Alterable, 0, InM>>, <<"scc", 5, All, {3, 7}, DataAlterable, 0, 0>>,
  <<"or",      8, All, S, DataMode, 0, InM>>,      <<"or",   8, All, T, MemoryAlterable, 0, InM>>,
  <<"div",     8, All, {3, 7}, DataMode, 0, 1>>,   <<"mul", 12, All, {3, 7}, DataMode, 0, 1>>,
  <<"cmp",    11, All, S, AnyMode, 0, InM>>,       <<"eor", 11, All, T, DataAlterable, 0, InM>>,
  <<"cmpa",   11, All, {3}, AnyMode, 0, 1>>,       <<"cmpa", 11, All, {7}, AnyMode, 0, 2>>,
  <<"and",    12, All, S, DataMode, 0, InM>>,      <<"and", 12, All, T, MemoryAlterable, 0, InM>>,
  <<"shift",  14, 0..3, {3, 7}, MemoryAlterable, 0, 1>> }
  \cup UNION {{ <<"add", line, All, S, AnyMode, 0, InM>>, <<"add", line, All, T, MemoryAlterable, 0, InM>>,
                <<"adda", line, All, {3}, AnyMode, 0, 1>>, <<"adda", line, All, {7}, AnyMode, 0, 2>> }
              : line \in {9, 13}}

\* Formats without: name, line, r, m, the low bits, extension words.
Fixed == {
  <<"to sr", 0, {0, 1, 5}, {0, 1}, {60}, 1>>, <<"movep", 0, All, 4..7, 8..15, 1>>,
  <<"swap",  4, {4}, {1}, 0..7, 0>>,          <<"ext",   4, {4}, {2, 3}, 0..7, 0>>,
  <<"illegal", 4, {5}, {3}, {60}, 0>>,        <<"trap",  4, {7}, {1}, 0..15, 0>>,
  <<"link",  4, {7}, {1}, 16..23, 1>>,        <<"unlk",  4, {7}, {1}, 24..31, 0>>,
  <<"move usp", 4, {7}, {1}, 32..47, 0>>,     <<"reset", 4, {7}, {1}, {48}, 0>>,
  <<"nop",   4, {7}, {1}, {49}, 0>>,          <<"stop",  4, {7}, {1}, {50}, 1>>,
  <<"rte",   4, {7}, {1}, {51}, 0>>,          <<"rts",   4, {7}, {1}, {53}, 0>>,
  <<"trapv", 4, {7}, {1}, {54}, 0>>,          <<"rtr",   4, {7}, {1}, {55}, 0>>,
  <<"dbcc",  5, All, {3, 7}, 8..15, 1>>,      <<"moveq", 7, All, 0..3, 0..63, 0>>,
  <<"bcd",   8, All, {4}, 0..15, 0>>,         <<"bcd",  12, All, {4}, 0..15, 0>>,
  <<"exg",  12, All, {5}, 0..15, 0>>,         <<"exg",  12, All, {6}, 8..15, 0>>,
  <<"addx",  9, All, T, 0..15, 0>>,           <<"addx", 13, All, T, 0..15, 0>>,
  <<"cmpm", 11, All, T, 8..15, 0>>,           <<"shift", 14, All, S \cup T, 0..63, 0>> }

\* What an opword can be: pairs of a name and the words it takes.  A branch with
\* a displacement of $FF would go to an odd address and is none.
Instructions(op) ==
  LET line == op \div 4096
      r    == (op \div 512) % 8
      m    == (op \div 64) % 8
      low  == op % 64
      mode == LowMode(low)
      Takes(f) ==
        LET size == IF f[7] = InM THEN m % 4 ELSE f[7]
        IN IF size = 0 /\ mode = 1 THEN {} ELSE {<<f[1], 1 + f[6] + ModeWords(mode, size)>>}
      moveSize == CASE line = 1 -> 0 [] line = 3 -> 1 [] OTHER -> 2
      to == AddressMode(m, r)
      from == IF line \in 1..3 THEN mode ELSE 12
      Moves ==
        CASE to \in DataAlterable ->
               {<<"move", 1 + ModeWords(from, moveSize) + ModeWords(to, moveSize)>>}
          [] to = 1 /\ line # 1   -> {<<"movea", 1 + ModeWords(from, moveSize)>>}
          [] OTHER                 -> {}
  IN UNION {Takes(f) : f \in {g \in Addressed : line = g[2] /\ r \in g[3] /\ m \in g[4] /\ mode \in g[5]}}
     \cup {<<f[1], 1 + f[6]>> : f \in {g \in Fixed : line = g[2] /\ r \in g[3] /\ m \in g[4] /\ low \in g[5]}}
     \cup (IF from \in DataMode \/ (from = 1 /\ line # 1) THEN Moves ELSE {})
     \cup (IF line = 6 /\ op % 256 # 255 THEN {<<"bcc", IF op % 256 = 0 THEN 2 ELSE 1>>} ELSE {})
=============================================================================
