-------------------------- MODULE Sh2RpcProofs --------------------------
(***************************************************************************)
(* Proofs about Sh2Rpc, for every width of the registers, every poll       *)
(* budget and any number of calls.                                         *)
(***************************************************************************)
EXTENDS Sh2Rpc, TLAPS

\* The registers hold the answer to the current request.
ResultsIn ==
  IF req.op = UDIV THEN arg0 = DivQ(req.a, req.b) /\ arg1 = DivR(req.a, req.b)
                   ELSE arg0 = LzLength(req.a) /\ frame = req.a

OperandsIn == arg0 = req.a /\ arg1 = req.b

\* How far the SH2 has got with an untainted request it has not released.
InService ==
  /\ cmd = req.op
  /\ spc \in {"poll", "arg0", "arg1"} => OperandsIn
  /\ spc # "poll" => scmd = req.op
  /\ spc \in {"arg1", "work", "res0", "res1"} => sa = req.a
  /\ spc \in {"work", "res0", "res1"} => sb = req.b
  /\ spc = "res0" /\ req.op = LZ => frame = req.a
  /\ spc = "res1" => req.op = UDIV /\ arg0 = DivQ(req.a, req.b)
  /\ spc \in {"count", "release"} => ResultsIn

\* What is true at each step of the thunk when the call is untainted.
Writing  == mpc \in {"arg0", "arg1", "cmd"} =>
              /\ spc = "poll"
              /\ alive => cmd = Idle
              /\ mpc \in {"arg1", "cmd"} => arg0 = req.a
              /\ mpc = "cmd" => arg1 = req.b
Waiting  == mpc = "wait" =>
              IF cmd = Idle THEN spc = "poll" /\ ResultsIn ELSE InService
Reading  == mpc \in {"read0", "read1", "copy"} =>
              /\ spc = "poll" /\ cmd = Idle /\ ResultsIn
              /\ mpc = "read1" => req.op = UDIV /\ d0 = arg0
              /\ mpc = "copy" => req.op = LZ /\ d0 = arg0
Recovering == mpc \in {"recover0", "recover1"} =>
              /\ spc = "poll" /\ ~alive /\ req.op = UDIV /\ OperandsIn
              /\ mpc = "recover1" => d0 = req.a
Finished == mpc = Idle /\ ret.how # "none" => ret.val = Answer(req)

Untainted == Writing /\ Waiting /\ Reading /\ Recovering /\ Finished

\* True of every call, tainted or not.
Always ==
  /\ spc # "poll" => alive /\ cmd # Idle
  /\ mpc # Idle => ret = NoReturn
  /\ mpc = "stock" => req.op = LZ

\* With an SH2 that is never merely slow nothing is ever abandoned live.
Prompt ==
  ~SlowSH2 =>
    /\ ~tainted
    /\ mpc \in {Idle, "stock"} /\ alive => cmd = Idle /\ spc = "poll"

IInv == Always /\ Prompt /\ (~tainted => Untainted)

---------------------------------------------------------------------------
\* Every step leaves the variables in their types: the comm registers stay
\* words whichever of the two processors writes them, and the thunk's poll
\* counter stays within its budget (sh2_math.asm, sh2_lz.asm, rpc.c).
THEOREM TypeCorrect == Safe => []TypeOK
<1> USE ConstantsAssumption DEF ConstantsAssumption, Idle, UDIV, LZ
<1>1. Requests \subseteq Request
  BY DEF Requests, Request
<1>2. Init => TypeOK
  <2> SUFFICES ASSUME Init PROVE TypeOK
    OBVIOUS
  <2>1. cmd \in Commands /\ arg0 \in Word /\ arg1 \in Word
    BY DEF Init, Commands
  <2>2. count \in 0..(CountModulus - 1) /\ polls \in 0..PollBudget /\ calls \in 0..MaxCalls
    BY DEF Init
  <2>3. frame \in Word \cup {Blank} /\ alive \in BOOLEAN /\ d0 \in Word /\ tainted \in BOOLEAN
    BY DEF Init
  <2>4. mpc \in M68kSteps /\ req \in Requests \cup {NoRequest} /\ (req = NoRequest => mpc = Idle)
    BY DEF Init, M68kSteps
  <2>5. ret \in Returned \cup {NoReturn}
    BY DEF Init
  <2>6. spc \in Sh2Steps /\ scmd \in Commands /\ sa \in Word /\ sb \in Word
    BY DEF Init, Sh2Steps, Commands
  <2>7. QED
    BY <2>1, <2>2, <2>3, <2>4, <2>5, <2>6 DEF TypeOK
<1>3. TypeOK /\ [Next]_vars => TypeOK'
  <2> SUFFICES ASSUME TypeOK, [Next]_vars PROVE TypeOK'
    OBVIOUS
  <2> USE DEF TypeOK, M68kSteps, Sh2Steps, Commands, comm, m68k, sh2
  <2>1. ASSUME NEW r \in Requests, Call(r) PROVE TypeOK'
    <3>1. calls' \in 0..MaxCalls
      BY <2>1 DEF Call
    <3>2. r # NoRequest
      BY <1>1
    <3>3. tainted' \in BOOLEAN
      BY <2>1 DEF Call, AbandonedPending
    <3>4. QED
      BY <2>1, <3>1, <3>2, <3>3 DEF Call
  <2>2. CASE WriteArg0 \/ WriteArg1 \/ WriteCmd
    BY <2>2, <1>1 DEF WriteArg0, WriteArg1, WriteCmd, Request
  <2>3. CASE PollBusy \/ PollAnswered \/ TimeOut
    BY <2>3 DEF PollBusy, PollAnswered, TimeOut
  <2>4. CASE ReadResult0 \/ ReadResult1 \/ CopyOut
    BY <2>4 DEF ReadResult0, ReadResult1, CopyOut, Returned
  <2>5. CASE StockLz \/ Recover0 \/ Recover1
    BY <2>5, <1>1 DEF StockLz, Recover0, Recover1, Returned, Request
  <2>6. CASE FetchCmd \/ FetchArg0 \/ FetchArg1
    BY <2>6 DEF FetchCmd, FetchArg0, FetchArg1
  <2>7. CASE Work \/ WriteResult0 \/ WriteResult1 \/ ReleaseCmd
    BY <2>7 DEF Work, WriteResult0, WriteResult1, ReleaseCmd
  <2>8. CASE BumpCount
    <3>1. (count + 1) % CountModulus \in 0..(CountModulus - 1)
      OBVIOUS
    <3>2. count' \in 0..(CountModulus - 1)
      BY <2>8, <3>1 DEF BumpCount
    <3>3. QED
      BY <2>8, <3>2 DEF BumpCount
  <2>9. CASE Hang
    BY <2>9 DEF Hang
  <2>10. CASE UNCHANGED vars
    BY <2>10 DEF vars
  <2>11. QED
    BY <2>1, <2>2, <2>3, <2>4, <2>5, <2>6, <2>7, <2>8, <2>9, <2>10
       DEF Next, M68kStep, Sh2Step
<1>4. QED
  BY <1>2, <1>3, PTL DEF Safe

---------------------------------------------------------------------------
\* The strengthened invariant, by the step of either processor.
LEMMA Inductive == TypeOK /\ TypeOK' /\ IInv /\ [Next]_vars => IInv'
<1> SUFFICES ASSUME TypeOK, TypeOK', IInv, [Next]_vars PROVE IInv'
  OBVIOUS
<1> USE ConstantsAssumption DEF ConstantsAssumption, Idle, UDIV, LZ
<1> USE DEF IInv, Always, Prompt, Untainted, Writing, Waiting, Reading, Recovering, Finished,
            InService, OperandsIn, ResultsIn, comm, m68k, sh2, NoReturn
<1>0. mpc # Idle => req \in Requests
  BY DEF TypeOK
<1>1. ASSUME NEW r \in Requests, Call(r) PROVE IInv'
  BY <1>1 DEF Call, AbandonedPending, TypeOK, Sh2Steps
<1>2. CASE WriteArg0
  BY <1>2 DEF WriteArg0
<1>3. CASE WriteArg1
  BY <1>3 DEF WriteArg1
<1>4. CASE WriteCmd
  BY <1>4, <1>0 DEF WriteCmd, Requests
<1>5. CASE PollBusy
  BY <1>5 DEF PollBusy
<1>6. CASE PollAnswered
  BY <1>6 DEF PollAnswered
<1>7. CASE ReadResult0
  BY <1>7, <1>0 DEF ReadResult0, Requests
<1>8. CASE ReadResult1
  BY <1>8 DEF ReadResult1, Answer
<1>9. CASE CopyOut
  BY <1>9 DEF CopyOut, Answer
<1>10. CASE TimeOut
  BY <1>10, <1>0 DEF TimeOut, Requests, TypeOK
<1>11. CASE StockLz
  BY <1>11 DEF StockLz, Answer
<1>12. CASE Recover0
  BY <1>12 DEF Recover0
<1>13. CASE Recover1
  BY <1>13 DEF Recover1, Answer
<1>14. CASE FetchCmd
  BY <1>14 DEF FetchCmd
<1>15. CASE FetchArg0
  BY <1>15 DEF FetchArg0
<1>16. CASE FetchArg1
  BY <1>16 DEF FetchArg1
<1>17. CASE Work
  BY <1>17, <1>0 DEF Work, Requests
<1>18. CASE WriteResult0
  BY <1>18, <1>0 DEF WriteResult0, Requests
<1>19. CASE WriteResult1
  BY <1>19 DEF WriteResult1
<1>20. CASE BumpCount
  BY <1>20 DEF BumpCount
<1>21. CASE ReleaseCmd
  BY <1>21 DEF ReleaseCmd
<1>22. CASE Hang
  BY <1>22 DEF Hang
<1>23. CASE UNCHANGED vars
  BY <1>23 DEF vars
<1>24. QED
  BY <1>1, <1>2, <1>3, <1>4, <1>5, <1>6, <1>7, <1>8, <1>9, <1>10, <1>11, <1>12, <1>13,
     <1>14, <1>15, <1>16, <1>17, <1>18, <1>19, <1>20, <1>21, <1>22, <1>23
     DEF Next, M68kStep, Sh2Step

LEMMA InvariantHolds == Safe => [](TypeOK /\ IInv)
<1>1. Init => IInv
  BY DEF Init, IInv, Always, Prompt, Untainted, Writing, Waiting, Reading,
         Recovering, Finished, NoReturn, Idle, UDIV, LZ
<1>2. TypeOK /\ TypeOK' /\ IInv /\ [Next]_vars => IInv'
  BY Inductive
<1>3. QED
  BY <1>1, <1>2, TypeCorrect, PTL DEF Safe

\* Whatever the poll budget, however slow the SH2 and wherever it hangs, a
\* division or decompression that was not abandoned, and did not follow an
\* abandoned one, returns the stock routine's answer.
THEOREM UntaintedCallCorrect == Safe => []UntaintedCallIsRight
<1>1. TypeOK /\ IInv => UntaintedCallIsRight
  BY DEF IInv, Always, Untainted, Finished, UntaintedCallIsRight, NoReturn, Idle
<1>2. QED
  BY <1>1, InvariantHolds, PTL

\* No operand register of an untainted call changes before the SH2 has read it.
THEOREM OperandsAreHeld == Safe => []OperandsHeld
<1>1. TypeOK /\ IInv => OperandsHeld
  <2> SUFFICES ASSUME TypeOK, IInv, ~tainted, mpc = "wait", spc \in {"arg0", "arg1"}
               PROVE  arg0 = req.a /\ arg1 = req.b
    BY DEF OperandsHeld
  <2>1. InService
    BY DEF IInv, Untainted, Waiting
  <2>2. QED
    BY <2>1 DEF InService, OperandsIn
<1>2. QED
  BY <1>1, InvariantHolds, PTL

\* The two processors are never inside the registers at the same time on
\* behalf of an untainted call.
THEOREM RegistersNotFoughtOver == Safe => []NoRegisterFight
<1>1. TypeOK /\ IInv => NoRegisterFight
  BY DEF IInv, Untainted, Writing, Reading, NoRegisterFight
<1>2. QED
  BY <1>1, InvariantHolds, PTL

\* With an SH2 that answers within the budget or has hung between commands, the
\* thunks implement the service the game relies on: one right answer per call.
THEOREM Implements == Safe /\ ~SlowSH2 => Service!Safe
<1> SUFFICES ASSUME ~SlowSH2 PROVE Safe => Service!Safe
  OBVIOUS
<1> USE DEF Idle, UDIV, LZ
<1>1. Init => Service!Init
  BY DEF Init, Service!Init, NoReturn
<1>2. TypeOK /\ IInv /\ IInv' /\ [Next]_vars => [Service!Next]_(Service!vars)
  <2> SUFFICES ASSUME TypeOK, IInv, IInv', [Next]_vars
               PROVE  [Service!Next]_(Service!vars)
    OBVIOUS
  <2> USE DEF Service!Next, Service!vars, comm, m68k, sh2, NoReturn, IInv, Always, Prompt,
              Untainted, Finished
  <2>1. ASSUME NEW r \in Requests, Call(r) PROVE Service!Ask(r)
    BY <2>1 DEF Call, Service!Ask
  <2>2. CASE ReadResult1 \/ CopyOut \/ StockLz \/ Recover1
    <3>1. Service!Reply
      BY <2>2 DEF ReadResult1, CopyOut, StockLz, Recover1, Service!Reply
    <3>2. QED
      BY <3>1
  <2>3. CASE WriteArg0 \/ WriteArg1 \/ WriteCmd \/ PollBusy \/ PollAnswered
    BY <2>3 DEF WriteArg0, WriteArg1, WriteCmd, PollBusy, PollAnswered
  <2>4. CASE ReadResult0 \/ TimeOut \/ Recover0
    BY <2>4 DEF ReadResult0, TimeOut, Recover0
  <2>5. CASE Sh2Step
    BY <2>5 DEF Sh2Step, FetchCmd, FetchArg0, FetchArg1, Work, WriteResult0, WriteResult1,
                BumpCount, ReleaseCmd
  <2>6. CASE Hang \/ UNCHANGED vars
    BY <2>6 DEF Hang, vars
  <2>7. QED
    BY <2>1, <2>2, <2>3, <2>4, <2>5, <2>6 DEF Next, M68kStep
<1>3. QED
  BY <1>1, <1>2, InvariantHolds, PTL DEF Safe, Service!Safe
===========================================================================
