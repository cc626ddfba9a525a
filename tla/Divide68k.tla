------------------------------ MODULE Divide68k ------------------------------
(***************************************************************************)
(* The game's 32-bit division routines, disasm/modules/68k/math: SignedDiv,*)
(* SignedMod, UnsignedDivide and UnsignedMod, which answer small operands  *)
(* with one DIVU or DIVS and go to a two-step division or to a shift-and-  *)
(* subtract loop for the others.  On the 32X the loop is what the SH2 is   *)
(* asked for (Sh2Rpc), and what its thunk falls back to.                   *)
(*                                                                         *)
(* A register is a number below R, its halves numbers below B.             *)
(***************************************************************************)
EXTENDS Binary

CONSTANT K   \* bits of a half register: 16

ASSUME DivideAssumption == K \in Nat \ {0}

B == Weight[K]
R == B * B

VARIABLES
  entry, a, b,   \* routine called, dividend, divisor
  divpc,
  D0, D1,        \* registers
  D2, D3,        \* in the loop: iterations after this one, divisor
  sign           \* the sign tracker of SignedDiv and SignedMod

divide == <<entry, a, b, divpc, D0, D1, D2, D3, sign>>

High(x) == x \div B
Low(x) == x % B
Signed(x) == IF x < R \div 2 THEN x ELSE x - R
Neg(x) == (-x) % R
Abs(x) == IF Signed(x) < 0 THEN Neg(x) ELSE x

\* DIVU.W: remainder and quotient, or the operand as it was on overflow.
Overflows(x, y) == x \div y >= B
Divu(x, y) == IF Overflows(x, y) THEN x ELSE (x % y) * B + x \div y

\* DIVS.W rounds towards zero.
Size(x) == IF x < 0 THEN -x ELSE x
Quot(x, y) == LET q == Size(x) \div Size(y) IN IF (x < 0) = (y < 0) THEN q ELSE -q
Rem(x, y) == x - y * Quot(x, y)

DivideInit ==
  /\ entry \in {"SignedDiv", "SignedMod", "UnsignedDivide", "UnsignedMod"}
  /\ a \in 0..R - 1 /\ b \in 1..R - 1
  /\ divpc = entry /\ D0 = a /\ D1 = b
  /\ D2 = 0 /\ D3 = 0 /\ sign = FALSE

---------------------------------------------------------------------------
\* A divisor of half a register, and a quotient too.
Half == -(B \div 2)..(B \div 2) - 1
SignedFits == Signed(D1) \in Half /\ Quot(Signed(D0), Signed(D1)) \in Half

SignedDivFast ==
  /\ divpc = "SignedDiv" /\ SignedFits
  /\ D0' = Quot(Signed(D0), Signed(D1)) % R
  /\ divpc' = "done"
  /\ UNCHANGED <<entry, a, b, D1, D2, D3, sign>>

SignedModFast ==
  /\ divpc = "SignedMod" /\ SignedFits
  /\ D0' = Rem(Signed(D0), Signed(D1)) % R
  /\ divpc' = "done"
  /\ UNCHANGED <<entry, a, b, D1, D2, D3, sign>>

\* The quotient is negated if the signs differ, the remainder if the dividend
\* was negative.
SignedSlow ==
  /\ divpc \in {"SignedDiv", "SignedMod"} /\ ~SignedFits
  /\ D0' = Abs(D0) /\ D1' = Abs(D1)
  /\ sign' = IF divpc = "SignedDiv" THEN (Signed(D0) < 0) # (Signed(D1) < 0) ELSE Signed(D0) < 0
  /\ divpc' = "UnsignedDivide"
  /\ UNCHANGED <<entry, a, b, D2, D3>>

UModFast ==
  /\ divpc = "UnsignedMod" /\ D1 < B /\ ~Overflows(D0, D1)
  /\ D0' = High(Divu(D0, D1))
  /\ divpc' = "done"
  /\ UNCHANGED <<entry, a, b, D1, D2, D3, sign>>

UModSlow ==
  /\ divpc = "UnsignedMod" /\ (D1 >= B \/ Overflows(D0, D1))
  /\ divpc' = "UnsignedDivide"
  /\ UNCHANGED <<entry, a, b, D0, D1, D2, D3, sign>>

UDivFast ==
  /\ divpc = "UnsignedDivide" /\ D1 < B /\ ~Overflows(D0, D1)
  /\ D0' = Low(Divu(D0, D1)) /\ D1' = High(Divu(D0, D1))
  /\ divpc' = "return"
  /\ UNCHANGED <<entry, a, b, D2, D3, sign>>

\* UDiv_Overflow: the high half first, its remainder with the low half next.
UDivOverflow ==
  /\ divpc = "UnsignedDivide" /\ D1 < B /\ Overflows(D0, D1)
  /\ LET first == Divu(High(D0), D1)
         next  == Divu(High(first) * B + Low(D0), D1)
     IN D0' = Low(first) * B + Low(next) /\ D1' = High(next)
  /\ divpc' = "return"
  /\ UNCHANGED <<entry, a, b, D2, D3, sign>>

\* UDiv_Full32: the low half waits on top of D0 for the quotient's bits.
UDivFull32 ==
  /\ divpc = "UnsignedDivide" /\ D1 >= B
  /\ D3' = D1 /\ D1' = High(D0) /\ D0' = Low(D0) * B /\ D2' = K - 1
  /\ divpc' = "loop"
  /\ UNCHANGED <<entry, a, b, sign>>

\* Mutation: add for addx.
CarryLost == (2 * D1) % R

\* D1:D0 shifted left, addx carrying D0's top bit into D1.
Doubled0 == (2 * D0) % R
Doubled1 == (2 * D1 + High(2 * High(D0))) % R

Loops ==
  /\ divpc = "loop"
  /\ D2' = IF D2 = 0 THEN 0 ELSE D2 - 1
  /\ divpc' = IF D2 = 0 THEN "return" ELSE "loop"
  /\ UNCHANGED <<entry, a, b, D3, sign>>

NoSub ==
  /\ Loops /\ Doubled1 < D3
  /\ D0' = Doubled0 /\ D1' = Doubled1

Sub ==
  /\ Loops /\ Doubled1 >= D3
  /\ D0' = Doubled0 + 1 /\ D1' = Doubled1 - D3

Return ==
  /\ divpc = "return" /\ divpc' = "done"
  /\ D0' = LET d == IF entry \in {"SignedMod", "UnsignedMod"} THEN D1 ELSE D0
           IN IF sign THEN Neg(d) ELSE d
  /\ UNCHANGED <<entry, a, b, D1, D2, D3, sign>>

DivideNext ==
  \/ SignedDivFast \/ SignedModFast \/ SignedSlow \/ UModFast \/ UModSlow
  \/ UDivFast \/ UDivOverflow \/ UDivFull32 \/ NoSub \/ Sub \/ Return

DivideSpec == DivideInit /\ [][DivideNext]_divide

---------------------------------------------------------------------------
\* Whichever way it is reached, a result is the arithmetic one, modulo R: the
\* signed routines round towards zero and wrap only for the most negative
\* dividend over -1.
ResultRight ==
  divpc = "done" =>
    CASE entry = "UnsignedDivide" -> D0 = a \div b /\ D1 = a % b
      [] entry = "UnsignedMod"    -> D0 = a % b
      [] entry = "SignedDiv"      -> D0 = Quot(Signed(a), Signed(b)) % R
      [] entry = "SignedMod"      -> D0 = Rem(Signed(a), Signed(b)) % R

\* The shift-and-subtract loop: with j iterations to go, the quotient bits so
\* far times the divisor, with the remainder in D1, are the dividend but for its
\* j last bits, which stand on top of D0; and no bit has been shifted out of D1.
LoopInvariant ==
  divpc = "loop" =>
    LET j == D2 + 1
        top == Weight[2 * K - j]
        q == D0 % top
        dividend == IF entry \in {"SignedDiv", "SignedMod"} THEN Abs(a) ELSE a
    IN /\ dividend = (q * D3 + D1) * Weight[j] + (D0 \div top)
       /\ D1 < D3 /\ q < Weight[K - j] /\ 2 * D1 + 1 < R

\* Whichever path a division takes, its result is the arithmetic one, and its
\* shift-and-subtract loop loses no bit on the way.
DivisionRight == ResultRight /\ LoopInvariant
=============================================================================
