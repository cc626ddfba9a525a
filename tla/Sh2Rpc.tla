------------------------------ MODULE Sh2Rpc ------------------------------
(***************************************************************************)
(* The 68000 -> SH2 call over the 32X comm registers: the thunks           *)
(* MarsSh2UDiv (disasm/32x/sh2_math.asm) and MarsSh2Lz                     *)
(* (disasm/32x/sh2_lz.asm) on one side, sh2_service                        *)
(* (disasm/sh2/master/rpc.c) on the other.                                 *)
(*                                                                         *)
(* The operand registers and the result registers are the same two         *)
(* registers, and the command word is both the start signal and the        *)
(* completion flag, so every access to one of them is a step of its own.   *)
(* The 68000 makes one call at a time: both thunks mask interrupts from    *)
(* the first register write to the last register read.                     *)
(*                                                                         *)
(* A longword access is one step (the two word cycles it makes on the bus  *)
(* are not told apart).  What the SH2 does between two looks at the        *)
(* command word is time passing here; MapLayer models it.                  *)
(***************************************************************************)
EXTENDS Naturals

CONSTANTS
  Word,          \* values of an operand register
  Dividends,     \* operands the game divides ...
  Divisors,      \* ... and by what (the thunk is entered with >= $10000)
  Sources,       \* compressed streams the game decompresses
  FbOffset,      \* MARS_LZ_FB_OFFSET
  DivQ(_, _),    \* quotient and remainder
  DivR(_, _),
  LzLength(_),   \* bytes the stream at this address decompresses to
  Cleared,       \* what the boot release leaves in the registers
  Blank,         \* frame buffer contents before the first LZ job
  NoRequest,
  NoAnswer,
  PollBudget,    \* polls before a thunk gives up (bounds the wait)
  MaxCalls,      \* bounds the number of calls of a run
  CountModulus,  \* width of the call counter register (2^16 in the code)
  SlowSH2        \* TRUE: the budget may run out on an SH2 that is only slow

Idle  == "idle"
UDIV  == "UDIV32"
LZ    == "LZ_JOB"

Request == [op : {UDIV, LZ}, a : Word, b : Word]

\* Requests the game makes: a division the fast path refused, or a screen's
\* compressed block.
Requests ==
  [op : {UDIV}, a : Dividends, b : Divisors]
    \cup [op : {LZ}, a : Sources, b : {FbOffset}]

\* What the stock 68000 routines return: quotient and remainder, or the
\* length and, in the caller's buffer, the bytes of that stream.
Answer(r) == IF r.op = UDIV THEN <<DivQ(r.a, r.b), DivR(r.a, r.b)>>
                            ELSE <<LzLength(r.a), r.a>>

ASSUME ConstantsAssumption ==
  /\ Dividends \subseteq Word
  /\ Divisors \subseteq Word
  /\ Sources \subseteq Word
  /\ FbOffset \in Word /\ Cleared \in Word
  /\ \A x, y \in Word : DivQ(x, y) \in Word /\ DivR(x, y) \in Word
  /\ \A x \in Word : LzLength(x) \in Word
  /\ Blank \notin Word
  /\ NoRequest \notin Request
  /\ PollBudget \in Nat \ {0}
  /\ MaxCalls \in Nat
  /\ CountModulus \in Nat \ {0}
  /\ SlowSH2 \in BOOLEAN

NoReturn == [how |-> "none", val |-> NoAnswer]

VARIABLES
  cmd, arg0, arg1, count,   \* comm registers
  frame,                    \* what the LZ area of the frame buffer holds
  alive,                    \* FALSE once the SH2 is stuck for good
  mpc, req, polls, d0,      \* 68000: step, request, polls left, first result
  ret,                      \* 68000: what the thunk returned, and how
  spc, scmd, sa, sb,        \* SH2: step, command and operands it fetched
  calls,                    \* calls made so far (for the bound)
  tainted                   \* history: this call met an abandoned one, or was
                            \* itself abandoned while the SH2 could still act

comm == <<cmd, arg0, arg1, count>>
m68k == <<mpc, req, polls, d0, ret, calls, tainted>>
sh2  == <<spc, scmd, sa, sb>>
vars == <<comm, frame, alive, m68k, sh2>>

Init ==
  /\ cmd = Idle /\ arg0 = Cleared /\ arg1 = Cleared /\ count = 0
  /\ frame = Blank /\ alive = TRUE
  /\ mpc = Idle /\ req = NoRequest /\ polls = 0 /\ d0 = Cleared
  /\ ret = NoReturn
  /\ spc = "poll" /\ scmd = Idle /\ sa = Cleared /\ sb = Cleared
  /\ calls = 0 /\ tainted = FALSE

---------------------------------------------------------------------------
\* The 68000's thunks.

\* An earlier call gave up and the SH2 may still get to it.
AbandonedPending == alive /\ (cmd # Idle \/ spc # "poll")

Call(r) ==
  /\ mpc = Idle /\ calls < MaxCalls
  /\ mpc' = "arg0" /\ req' = r /\ calls' = calls + 1
  /\ ret' = NoReturn
  /\ tainted' = AbandonedPending
  /\ UNCHANGED <<comm, frame, alive, polls, d0, sh2>>

\* Mutation: the command goes out before the second operand.
SignalsEarly ==
  /\ mpc = "arg0" /\ mpc' = "arg1"
  /\ arg0' = req.a /\ cmd' = req.op
  /\ UNCHANGED <<arg1, count, frame, alive, req, polls, d0, ret, calls, tainted, sh2>>

WriteArg0 ==
  /\ mpc = "arg0" /\ mpc' = "arg1"
  /\ arg0' = req.a
  /\ UNCHANGED <<cmd, arg1, count, frame, alive, req, polls, d0, ret, calls, tainted, sh2>>

WriteArg1 ==
  /\ mpc = "arg1" /\ mpc' = "cmd"
  /\ arg1' = req.b
  /\ UNCHANGED <<cmd, arg0, count, frame, alive, req, polls, d0, ret, calls, tainted, sh2>>

WriteCmd ==
  /\ mpc = "cmd" /\ mpc' = "wait"
  /\ cmd' = req.op /\ polls' = PollBudget
  /\ UNCHANGED <<arg0, arg1, count, frame, alive, req, d0, ret, calls, tainted, sh2>>

\* Mutation: the wait never counts.
PollsUncounted ==
  /\ mpc = "wait" /\ cmd # Idle /\ polls > 1
  /\ UNCHANGED <<comm, frame, alive, m68k, sh2>>

PollBusy ==
  /\ mpc = "wait" /\ cmd # Idle /\ polls > 1
  /\ polls' = polls - 1
  /\ UNCHANGED <<comm, frame, alive, mpc, req, d0, ret, calls, tainted, sh2>>

PollAnswered ==
  /\ mpc = "wait" /\ cmd = Idle
  /\ mpc' = "read0"
  /\ UNCHANGED <<comm, frame, alive, req, polls, d0, ret, calls, tainted, sh2>>

ReadResult0 ==
  /\ mpc = "read0"
  /\ d0' = arg0
  /\ mpc' = IF req.op = UDIV THEN "read1" ELSE "copy"
  /\ UNCHANGED <<comm, frame, alive, req, polls, ret, calls, tainted, sh2>>

ReadResult1 ==
  /\ mpc = "read1" /\ mpc' = Idle
  /\ ret' = [how |-> "answered", val |-> <<d0, arg1>>]
  /\ UNCHANGED <<comm, frame, alive, req, polls, d0, calls, tainted, sh2>>

\* The LZ thunk copies the frame buffer into the caller's buffer.
CopyOut ==
  /\ mpc = "copy" /\ mpc' = Idle
  /\ ret' = [how |-> "answered", val |-> <<d0, frame>>]
  /\ UNCHANGED <<comm, frame, alive, req, polls, d0, calls, tainted, sh2>>

\* The last poll still saw the command.  It stays in the register.
TimeOut ==
  /\ mpc = "wait" /\ cmd # Idle /\ polls = 1
  /\ SlowSH2 \/ ~alive
  /\ polls' = 0
  /\ mpc' = IF req.op = UDIV THEN "recover0" ELSE "stock"
  /\ tainted' = (tainted \/ (alive /\ req.op = UDIV))
  /\ UNCHANGED <<comm, frame, alive, req, d0, ret, calls, sh2>>

\* The LZ thunk's fallback takes its operand from its own stack frame ...
StockLz ==
  /\ mpc = "stock" /\ mpc' = Idle
  /\ ret' = [how |-> "fallback", val |-> <<LzLength(req.a), req.a>>]
  /\ UNCHANGED <<comm, frame, alive, req, polls, d0, calls, tainted, sh2>>

\* ... and the division thunk reads its operands back from the registers.
Recover0 ==
  /\ mpc = "recover0" /\ mpc' = "recover1"
  /\ d0' = arg0
  /\ UNCHANGED <<comm, frame, alive, req, polls, ret, calls, tainted, sh2>>

Recover1 ==
  /\ mpc = "recover1" /\ mpc' = Idle
  /\ ret' = [how |-> "fallback", val |-> <<DivQ(d0, arg1), DivR(d0, arg1)>>]
  /\ UNCHANGED <<comm, frame, alive, req, polls, d0, calls, tainted, sh2>>

M68kStep ==
  \/ WriteArg0 \/ WriteArg1 \/ WriteCmd
  \/ PollBusy \/ PollAnswered \/ ReadResult0 \/ ReadResult1 \/ CopyOut
  \/ TimeOut \/ StockLz \/ Recover0 \/ Recover1

---------------------------------------------------------------------------
\* sh2_service.

FetchCmd ==
  /\ alive /\ spc = "poll" /\ cmd # Idle
  /\ scmd' = cmd /\ spc' = "arg0"
  /\ UNCHANGED <<comm, frame, alive, m68k, sa, sb>>

FetchArg0 ==
  /\ spc = "arg0" /\ spc' = "arg1"
  /\ sa' = arg0
  /\ UNCHANGED <<comm, frame, alive, m68k, scmd, sb>>

FetchArg1 ==
  /\ spc = "arg1" /\ spc' = "work"
  /\ sb' = arg1
  /\ UNCHANGED <<comm, frame, alive, m68k, scmd, sa>>

\* Mutation: the command word is released before the results are written.
ReleasesEarly ==
  /\ spc = "work" /\ spc' = "res0"
  /\ frame' = IF scmd = LZ /\ sb = FbOffset THEN sa ELSE frame
  /\ cmd' = Idle
  /\ UNCHANGED <<arg0, arg1, count, alive, m68k, scmd, sa, sb>>

\* The division, or the decompression into the frame buffer.
Work ==
  /\ spc = "work" /\ spc' = "res0"
  /\ frame' = IF scmd = LZ /\ sb = FbOffset THEN sa ELSE frame
  /\ UNCHANGED <<comm, alive, m68k, scmd, sa, sb>>

WriteResult0 ==
  /\ spc = "res0"
  /\ arg0' = IF scmd = UDIV THEN DivQ(sa, sb) ELSE LzLength(sa)
  /\ spc' = IF scmd = UDIV THEN "res1" ELSE "count"
  /\ UNCHANGED <<cmd, arg1, count, frame, alive, m68k, scmd, sa, sb>>

\* Mutation: the remainder is taken of the register, after the quotient is in it.
RereadsDividend ==
  /\ spc = "res1" /\ spc' = "count"
  /\ arg1' = DivR(arg0, sb)
  /\ UNCHANGED <<cmd, arg0, count, frame, alive, m68k, scmd, sa, sb>>

WriteResult1 ==
  /\ spc = "res1" /\ spc' = "count"
  /\ arg1' = DivR(sa, sb)
  /\ UNCHANGED <<cmd, arg0, count, frame, alive, m68k, scmd, sa, sb>>

BumpCount ==
  /\ spc = "count" /\ spc' = "release"
  /\ count' = (count + 1) % CountModulus
  /\ UNCHANGED <<cmd, arg0, arg1, frame, alive, m68k, scmd, sa, sb>>

\* Mutation: the command word is released only to a call that still waits.
ReleasesToWaiting ==
  /\ spc = "release" /\ mpc = "wait" /\ spc' = "poll"
  /\ cmd' = Idle
  /\ UNCHANGED <<arg0, arg1, count, frame, alive, m68k, scmd, sa, sb>>

ReleaseCmd ==
  /\ spc = "release" /\ spc' = "poll"
  /\ cmd' = Idle
  /\ UNCHANGED <<arg0, arg1, count, frame, alive, m68k, scmd, sa, sb>>

Sh2Step ==
  \/ FetchCmd \/ FetchArg0 \/ FetchArg1 \/ Work
  \/ WriteResult0 \/ WriteResult1 \/ BumpCount \/ ReleaseCmd

\* The SH2 hangs, outside sh2_service: the loops that can hold it for ever
\* are in the drawing code and in the test commands.
Hang ==
  /\ alive /\ spc = "poll"
  /\ alive' = FALSE
  /\ UNCHANGED <<comm, frame, m68k, sh2>>

Next == M68kStep \/ Sh2Step \/ Hang \/ \E r \in Requests : Call(r)

Safe == Init /\ [][Next]_vars

\* The 68000 runs: its poll loop never stops by itself.  The SH2 runs as long
\* as it is alive.  Nothing says that the game calls again, or that the SH2
\* hangs.
Spec == Safe /\ WF_vars(M68kStep) /\ WF_vars(Sh2Step)

\* The same without a promise about the SH2.
SpecM68kOnly == Safe /\ WF_vars(M68kStep)

---------------------------------------------------------------------------
\* Properties.

M68kSteps == {Idle, "arg0", "arg1", "cmd", "wait", "read0", "read1", "copy",
              "stock", "recover0", "recover1"}
Sh2Steps  == {"poll", "arg0", "arg1", "work", "res0", "res1", "count", "release"}
Commands  == {Idle, UDIV, LZ}
Returned  == [how : {"answered", "fallback"}, val : Word \X (Word \cup {Blank})]

TypeOK ==
  /\ cmd \in Commands /\ arg0 \in Word /\ arg1 \in Word
  /\ count \in 0..(CountModulus - 1)
  /\ frame \in Word \cup {Blank}
  /\ alive \in BOOLEAN
  /\ mpc \in M68kSteps /\ req \in Requests \cup {NoRequest}
  /\ req = NoRequest => mpc = Idle
  /\ polls \in 0..PollBudget /\ d0 \in Word
  /\ ret \in Returned \cup {NoReturn}
  /\ spc \in Sh2Steps /\ scmd \in Commands /\ sa \in Word /\ sb \in Word
  /\ calls \in 0..MaxCalls /\ tainted \in BOOLEAN

\* A call that met no abandoned predecessor, and whose own operands were not
\* given up on while the SH2 could still overwrite them, returns exactly what
\* the stock 68000 routine would have returned: the SH2 read both operands of
\* that call and not one of an older one, wrote both results before it released
\* the command word, and neither side read a register the other was using
\* (rpc.c sh2_service; sh2_math.asm and sh2_lz.asm from .wait on).
UntaintedCallIsRight ==
  ret.how # "none" /\ ~tainted => ret.val = Answer(req)

\* While an untainted call is being served, the registers hold the operands
\* until the SH2 has both of them: nothing overwrites an operand in flight.
OperandsHeld ==
  ~tainted /\ mpc = "wait" /\ spc \in {"arg0", "arg1"} =>
    /\ arg0 = req.a /\ arg1 = req.b

\* The 68000 starts a call only when the SH2 is between commands, unless an
\* abandoned call is pending; so the two are never both writing a register.
NoRegisterFight ==
  ~tainted =>
    ~(mpc \in {"arg0", "arg1", "cmd", "read0", "read1", "copy"} /\ spc # "poll")

\* sh2_math.asm:49, "recover the operands we sent": what the division thunk's
\* fallback reads back is what it wrote.
RecoversOperandsItSent ==
  /\ mpc = "recover1" => d0 = req.a
  /\ ret.how = "fallback" /\ req.op = UDIV => ret.val = Answer(req)

\* KNOWN_ISSUES.md:305, "The SH2 reads the operands when it gets to the command,
\* so a late answer is still the right one": a call that sees the command word
\* cleared has the answer to its own request.
LateAnswerIsRight ==
  ret.how = "answered" => ret.val = Answer(req)

\* A thunk returns to the game whatever the SH2 does: it serves the call, is
\* slow, or hangs (the poll budget of both thunks).
CallReturns == mpc = "wait" ~> mpc = Idle

\* If the SH2 runs, a queued command is taken off the register sooner or later,
\* abandoned or not, unless the SH2 hangs (rpc.c sh2_rpc_loop).
Sh2Runs == WF_vars(Sh2Step)
CommandServed == Sh2Runs => (cmd # Idle ~> (cmd = Idle \/ ~alive))

\* Seen by the game, the thunks are the service of RpcService.
Service == INSTANCE RpcService WITH
             stage  <- IF mpc = Idle THEN "idle" ELSE "busy",
             asked  <- req,
             answer <- ret.val
ServiceSpec == Service!Spec
===========================================================================
