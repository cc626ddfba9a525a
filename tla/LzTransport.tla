----------------------------- MODULE LzTransport -----------------------------
(***************************************************************************)
(* The way of a decompressed block from the SH2 to the caller's buffer:    *)
(* sh2_lz_job of disasm/sh2/master/lz.c, which writes SDRAM and copies it  *)
(* to the frame buffer in words, and MarsSh2Lz of disasm/32x/sh2_lz.asm,   *)
(* which copies it on to work RAM.                                         *)
(*                                                                         *)
(* A byte is the job that wrote it: 0 for none yet, Callers for one of the *)
(* caller's own.  Its address needs no name, since every copy keeps it.    *)
(***************************************************************************)
EXTENDS Integers

CONSTANTS
  Lengths,    \* sizes the game's blocks expand to
  OutMax,     \* LZ_OUT_MAX
  Headroom,   \* room that lz_decompress wants left before a token
  Jobs        \* blocks that are loaded

ASSUME TransportAssumption ==
  /\ OutMax \in Nat \ {0} /\ Headroom \in Nat /\ Jobs \in Nat
  /\ Lengths \subseteq 0..OutMax

VARIABLES
  pc,               \* who acts: "idle", "decompress", "copy", "answered", "move"
  job, size,        \* job number, bytes its block expands to
  lz_out, fb,       \* SDRAM and frame buffer bytes
  buffer,              \* the caller's buffer
  i,                \* words copied by the loop that runs
  arg0, d0          \* result register; what the last call returned

transport == <<pc, job, size, lz_out, fb, buffer, i, arg0, d0>>

Places == 0..OutMax - 1
Blank == [a \in Places |-> 0]
Callers == -1

TransportInit ==
  /\ pc = "idle" /\ job = 0 /\ size = 0
  /\ lz_out = Blank /\ fb = Blank /\ buffer = Blank
  /\ i = 0 /\ arg0 = 0 /\ d0 = 0

\* The game asks for a block, into a buffer it has for it.
Ask ==
  /\ pc = "idle" /\ pc' = "decompress"
  /\ job < Jobs /\ job' = job + 1
  /\ size' \in Lengths
  /\ buffer' = [a \in Places |-> Callers]
  /\ UNCHANGED <<lz_out, fb, i, arg0, d0>>

\* Bytes written before a token is refused: as many as leave no room for one.
Refused == size + Headroom > OutMax
Written == IF Refused THEN OutMax - Headroom + 1 ELSE size

Decompress ==
  /\ pc = "decompress" /\ pc' = IF Refused THEN "answered" ELSE "copy"
  /\ lz_out' = [a \in Places |-> IF a < Written THEN job ELSE lz_out[a]]
  /\ arg0' = IF Refused THEN 0 ELSE size
  /\ i' = 0
  /\ UNCHANGED <<job, size, fb, buffer, d0>>

\* Mutation: an odd length is rounded down.
WordsDown(n) == n \div 2

Words(n) == (n + 1) \div 2

\* Word i of from goes to the same place of to.
WithWord(to, from) == [to EXCEPT ![2 * i] = from[2 * i], ![2 * i + 1] = from[2 * i + 1]]

CopyWord ==
  /\ pc = "copy" /\ i < Words(arg0)
  /\ fb' = WithWord(fb, lz_out)
  /\ i' = i + 1
  /\ UNCHANGED <<pc, job, size, lz_out, buffer, arg0, d0>>

Answer ==
  /\ pc = "copy" /\ i = Words(arg0)
  /\ pc' = "answered"
  /\ UNCHANGED <<job, size, lz_out, fb, buffer, i, arg0, d0>>

\* The thunk reads the result; nothing is copied for zero.
ReadResult ==
  /\ pc = "answered"
  /\ d0' = arg0 /\ i' = 0
  /\ pc' = IF arg0 = 0 THEN "idle" ELSE "move"
  /\ UNCHANGED <<job, size, lz_out, fb, buffer, arg0>>

\* The dbra loop: the last word is moved when the count has run down to zero.
MoveWord ==
  /\ pc = "move"
  /\ buffer' = WithWord(buffer, fb)
  /\ i' = i + 1
  /\ pc' = IF i + 1 = Words(d0) THEN "idle" ELSE "move"
  /\ UNCHANGED <<job, size, lz_out, fb, arg0, d0>>

TransportNext == Ask \/ Decompress \/ CopyWord \/ Answer \/ ReadResult \/ MoveWord

TransportSpec == TransportInit /\ [][TransportNext]_transport

---------------------------------------------------------------------------
\* A call that returns has delivered what it says: the caller's buffer holds
\* the job's own bytes as far as d0 goes, none left over from an earlier block
\* in SDRAM or in the frame buffer; and of what lies behind them it has lost no
\* more than the byte that rounds an odd length up to a word.
Delivers ==
  pc = "idle" => \A a \in Places :
    /\ a < d0 => buffer[a] = job
    /\ job > 0 /\ a >= 2 * Words(d0) => buffer[a] = Callers
=============================================================================
