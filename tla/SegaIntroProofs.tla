--------------------------- MODULE SegaIntroProofs ---------------------------
(***************************************************************************)
(* Proofs about SegaIntro, for every length of the animation and every     *)
(* overrun of its drawings: who owns the VDP through the intro and what it *)
(* leaves behind; and, in the second half, what is seen on the screen.     *)
(***************************************************************************)
EXTENDS SegaIntro, TLAPS

Between == {"cover", "between", "lz", "intro", "done"}
Sending == {"coverSend", "lzSend", "introSend"}
Waiting == {"coverWait", "lzWait", "hold", "introWait"}

CoverSteps == {"coverV", "clearing", "shownV", "coverD", "showV"}
SpinSteps  == {"top", "drawing", "spinV", "spinD", "endV"}

\* FM is the SH2's for the whole of a call, and a live SH2 is outside the calls
\* exactly as idle as the command word says.
Ownership ==
  /\ mpc \in Between \cup Sending \cup Waiting
  /\ mpc \in Between => fm = "MD"
  /\ mpc \notin Between => fm = "SH2"
  /\ alive /\ (spc # "idle" \/ cmd # "none") => mpc \in Waiting

\* The step the SH2 is at belongs to the command in the register.
Service ==
  alive =>
    /\ spc \in CoverSteps => cmd = "cover"
    /\ spc \in SpinSteps => cmd = "spin"
    /\ spc = "lz" => cmd = "lz"
    /\ spc \in {"idle", "lz", "release"} \cup CoverSteps \cup SpinSteps
    /\ spc = "release" => cmd # "none" /\ (cmd = "spin" => mode = "blank")

\* The last command is the spin; when it is off the register the layer is blank.
Ending ==
  /\ mpc \in {"hold", "introWait"} =>
       /\ cmd \in {"spin", "none"}
       /\ cmd = "none" => mode = "blank"
  /\ mpc = "done" => mode = "blank"

Inv == Ownership /\ Service /\ Ending

LEMMA InitInv == Init => Inv
  BY DEF Init, Inv, Ownership, Service, Ending,
         Between, Sending, Waiting, CoverSteps, SpinSteps

\* A step of the SH2 is one of a live SH2 in a call, or the fetch of a command.
LEMMA InCall ==
  ASSUME Inv, alive, spc # "idle" \/ cmd # "none"
  PROVE  mpc \in Waiting /\ fm = "SH2"
  BY DEF Inv, Ownership, Between, Waiting

LEMMA M68kInv == Inv /\ M68k => Inv'
<1> SUFFICES ASSUME Inv, M68k PROVE Inv'
  OBVIOUS
<1> USE DEF Inv, Ownership, Service, Ending, Between, Sending, Waiting,
            CoverSteps, SpinSteps, display, sh2, anim
<1>1. CASE CoverGive
  BY <1>1 DEF CoverGive, Give
<1>2. CASE CoverSend
  BY <1>2 DEF CoverSend, Send
<1>3. CASE CoverFinish
  BY <1>3 DEF CoverFinish, SegaFinish, Answered, TimesOut
<1>4. CASE DrawLogo
  BY <1>4 DEF DrawLogo
<1>5. CASE LzGive
  BY <1>5 DEF LzGive, Give
<1>6. CASE LzSend
  BY <1>6 DEF LzSend, Send
<1>7. CASE LzAnswered
  BY <1>7 DEF LzAnswered, Answered
<1>8. CASE LzTimesOut
  BY <1>8 DEF LzTimesOut
<1>9. CASE IntroGive
  BY <1>9 DEF IntroGive, Give
<1>10. CASE IntroSend
  BY <1>10 DEF IntroSend, Send
<1>11. CASE HoldEnds
  BY <1>11 DEF HoldEnds
<1>12. CASE IntroFinish
  BY <1>12 DEF IntroFinish, SegaFinish, Answered, TimesOut
<1> QED
  BY <1>1, <1>2, <1>3, <1>4, <1>5, <1>6, <1>7, <1>8, <1>9, <1>10, <1>11, <1>12
  DEF M68k

LEMMA Sh2Inv == Inv /\ Sh2 => Inv'
<1> SUFFICES ASSUME Inv, Sh2 PROVE Inv'
  OBVIOUS
<1>a. alive /\ (spc # "idle" \/ cmd # "none")
  BY DEF Sh2, Live, CoverBegins, CoverClears, CoverSwaps, CoverShown, CoverNext,
         CoverShows, SpinBegins, SpinDraws, SpinSwaps, SpinShown, SpinNext,
         SpinEnds, SpinBlanks, LzBegins, LzEnds, Release
<1>b. mpc \in Waiting /\ fm = "SH2"
  BY <1>a, InCall
<1> USE <1>a, <1>b DEF Inv, Ownership, Service, Ending, Between, Sending, Waiting,
            CoverSteps, SpinSteps, Live, SetMode, m68k, display, anim
<1>1. CASE CoverBegins
  BY <1>1 DEF CoverBegins
<1>2. CASE CoverClears
  BY <1>2 DEF CoverClears
<1>3. CASE CoverSwaps
  BY <1>3 DEF CoverSwaps
<1>4. CASE CoverShown
  BY <1>4 DEF CoverShown
<1>5. CASE CoverNext
  BY <1>5 DEF CoverNext
<1>6. CASE CoverShows
  BY <1>6 DEF CoverShows
<1>7. CASE SpinBegins
  BY <1>7 DEF SpinBegins
<1>8. CASE SpinDraws
  BY <1>8 DEF SpinDraws
<1>9. CASE SpinSwaps
  BY <1>9 DEF SpinSwaps
<1>10. CASE SpinShown
  BY <1>10 DEF SpinShown
<1>11. CASE SpinNext
  BY <1>11 DEF SpinNext
<1>12. CASE SpinEnds
  BY <1>12 DEF SpinEnds
<1>13. CASE SpinBlanks
  BY <1>13 DEF SpinBlanks
<1>14. CASE LzBegins
  BY <1>14 DEF LzBegins
<1>15. CASE LzEnds
  BY <1>15 DEF LzEnds
<1>16. CASE Release
  BY <1>16 DEF Release
<1> QED
  BY <1>1, <1>2, <1>3, <1>4, <1>5, <1>6, <1>7, <1>8, <1>9, <1>10, <1>11, <1>12,
     <1>13, <1>14, <1>15, <1>16 DEF Sh2

LEMMA NextInv == Inv /\ [Next]_vars => Inv'
<1> SUFFICES ASSUME Inv, [Next]_vars PROVE Inv'
  OBVIOUS
<1> USE DEF Inv, Ownership, Service, Ending, m68k, display, sh2, anim
<1>1. CASE VBlankStart
  BY <1>1 DEF VBlankStart
<1>2. CASE VBlankEnd
  BY <1>2 DEF VBlankEnd
<1>3. CASE Hang
  BY <1>3 DEF Hang
<1>4. CASE UNCHANGED vars
  BY <1>4 DEF vars
<1> QED
  BY <1>1, <1>2, <1>3, <1>4, M68kInv, Sh2Inv DEF Next

LEMMA SpecInv == Spec => []Inv
  BY InitInv, NextInv, PTL DEF Spec

\* No write of the cover, the spin or the decompression is lost: the SH2 owns the
\* VDP from the command to its release (sega_intro.asm SegaFinish, sh2_lz.asm,
\* rpc.c sh2_service).
THEOREM OwnsTheVdp == Spec => []OwnsWhileBusy
<1>1. Inv => OwnsWhileBusy
  BY InCall DEF OwnsWhileBusy
<1> QED
  BY SpecInv, <1>1, PTL

\* Answered or given up, the intro hands the game a blank layer and the VDP
\* (sega_intro.asm SegaFinish, fb.c sh2_sega_spin).
THEOREM NothingLeftUp == Spec => []LeavesNothingUp
<1>1. Inv => LeavesNothingUp
  BY DEF LeavesNothingUp, Inv, Ownership, Ending, Between
<1> QED
  BY SpecInv, <1>1, PTL
---------------------------------------------------------------------------
\* Types, the hard part of which is pixels: what a buffer holds is made of frames
\* of the animation.
LEMMA InitType == Init => TypeOK
<1> SUFFICES ASSUME Init PROVE TypeOK
  OBVIOUS
<1>1. 0 \in 0..ElMax /\ 0 \in 0..SegaFrames - 1 /\ 0 \in 0..DrawMax
  BY ConstantsAssumption DEF ConstantsAssumption, ElMax
<1>2. /\ buf \in [{0, 1} -> SUBSET (Pictures \cup {Stale, Torn})]
      /\ last \in [{0, 1} -> SUBSET Pictures]
  BY DEF Init
<1>3. vb \in BOOLEAN /\ logo \in BOOLEAN /\ alive \in BOOLEAN
  BY Zenon DEF Init
<1>4. fs \in {0, 1} /\ fsw \in {0, 1}
  BY DEF Init
<1>5. /\ fm = "MD" /\ mode = "blank" /\ cmd = "none" /\ mpc = "cover" /\ spc = "idle"
      /\ pass = 0 /\ el = 0 /\ f = 0 /\ side = 0 /\ identity = 0 /\ spent = 0 /\ target = 0
  BY DEF Init
<1> QED
  BY <1>1, <1>2, <1>3, <1>4, <1>5 DEF TypeOK

LEMMA PictureType ==
  ASSUME NEW n \in 0..SegaFrames - 1
  PROVE  Picture(n) \in Pictures
  BY ConstantsAssumption DEF ConstantsAssumption, Picture, Pictures

\* Whoever owns the VDP, and whichever buffer is shown, what is painted is a set
\* of pictures.
LEMMA PaintType ==
  ASSUME TypeOK, NEW pixels \in SUBSET (Pictures \cup {Stale, Torn}), Paint(pixels)
  PROVE  buf' \in [{0, 1} -> SUBSET (Pictures \cup {Stale, Torn})]
<1>1. CASE fm # "SH2"
  BY <1>1 DEF Paint, TypeOK
<1>2. CASE fm = "SH2" /\ target = 1 - fs
  BY <1>2 DEF Paint, TypeOK
<1>3. CASE fm = "SH2" /\ target # 1 - fs
  BY <1>3 DEF Paint, TypeOK
<1> QED
  BY <1>1, <1>2, <1>3

LEMMA M68kType == TypeOK /\ M68k => TypeOK'
<1> SUFFICES ASSUME TypeOK, M68k PROVE TypeOK'
  OBVIOUS
<1> USE DEF TypeOK, display, sh2, anim
<1>1. CASE CoverGive
  BY <1>1 DEF CoverGive, Give
<1>2. CASE CoverSend
  BY <1>2 DEF CoverSend, Send
<1>3. CASE CoverFinish
  BY <1>3 DEF CoverFinish, SegaFinish, Answered, TimesOut
<1>4. CASE DrawLogo
  BY <1>4 DEF DrawLogo
<1>5. CASE LzGive
  BY <1>5 DEF LzGive, Give
<1>6. CASE LzSend
  BY <1>6 DEF LzSend, Send
<1>7. CASE LzAnswered
  BY <1>7 DEF LzAnswered, Answered
<1>8. CASE LzTimesOut
  BY <1>8 DEF LzTimesOut
<1>9. CASE IntroGive
  BY <1>9 DEF IntroGive, Give
<1>10. CASE IntroSend
  BY <1>10 DEF IntroSend, Send
<1>11. CASE HoldEnds
  BY <1>11 DEF HoldEnds
<1>12. CASE IntroFinish
  BY <1>12 DEF IntroFinish, SegaFinish, Answered, TimesOut
<1> QED
  BY <1>1, <1>2, <1>3, <1>4, <1>5, <1>6, <1>7, <1>8, <1>9, <1>10, <1>11, <1>12
  DEF M68k

LEMMA Sh2Type == TypeOK /\ Sh2 => TypeOK'
<1> SUFFICES ASSUME TypeOK, Sh2 PROVE TypeOK'
  OBVIOUS
<1> USE DEF Live, SetMode, Begin, Swap, m68k, display, anim
<1>1. CASE CoverBegins
  BY <1>1 DEF CoverBegins, TypeOK
<1>2. CASE CoverClears
  BY <1>2, ConstantsAssumption DEF ConstantsAssumption, CoverClears, TypeOK
<1>3. CASE CoverSwaps
  <2>1. buf' \in [{0, 1} -> SUBSET (Pictures \cup {Stale, Torn})]
    BY <1>3, PaintType, {} \in SUBSET (Pictures \cup {Stale, Torn}) DEF CoverSwaps
  <2> QED
    BY <1>3, <2>1 DEF CoverSwaps, TypeOK
<1>4. CASE CoverShown
  BY <1>4 DEF CoverShown, TypeOK
<1>5. CASE CoverNext
  BY <1>5 DEF CoverNext, TypeOK
<1>6. CASE CoverShows
  BY <1>6 DEF CoverShows, TypeOK
<1>7. CASE SpinBegins
  BY <1>7, ConstantsAssumption DEF ConstantsAssumption, SpinBegins, TypeOK, ElMax
<1>8. CASE SpinDraws
  BY <1>8, ConstantsAssumption DEF ConstantsAssumption, SpinDraws, TypeOK, ElMax
<1>9. CASE SpinSwaps
  <2>1. Picture(f) \in Pictures
    BY PictureType DEF TypeOK
  <2>2. (buf[target] \ last[side]) \cup {Picture(f)} \in SUBSET (Pictures \cup {Stale, Torn})
    BY <2>1 DEF TypeOK
  <2>3. buf' \in [{0, 1} -> SUBSET (Pictures \cup {Stale, Torn})]
    BY <1>9, <2>2, PaintType DEF SpinSwaps
  <2>4. last' \in [{0, 1} -> SUBSET Pictures]
    BY <1>9, <2>1 DEF SpinSwaps, TypeOK
  <2> QED
    BY <1>9, <2>3, <2>4 DEF SpinSwaps, TypeOK
<1>10. CASE SpinShown
  BY <1>10 DEF SpinShown, TypeOK
<1>11. CASE SpinNext
  BY <1>11 DEF SpinNext, TypeOK
<1>12. CASE SpinEnds
  BY <1>12 DEF SpinEnds, TypeOK
<1>13. CASE SpinBlanks
  BY <1>13 DEF SpinBlanks, TypeOK
<1>14. CASE LzBegins
  BY <1>14 DEF LzBegins, TypeOK
<1>15. CASE LzEnds
  BY <1>15 DEF LzEnds, TypeOK
<1>16. CASE Release
  BY <1>16 DEF Release, TypeOK
<1> QED
  BY <1>1, <1>2, <1>3, <1>4, <1>5, <1>6, <1>7, <1>8, <1>9, <1>10, <1>11, <1>12,
     <1>13, <1>14, <1>15, <1>16 DEF Sh2

LEMMA NextType == TypeOK /\ [Next]_vars => TypeOK'
<1> SUFFICES ASSUME TypeOK, [Next]_vars PROVE TypeOK'
  OBVIOUS
<1> USE DEF m68k, display, sh2, anim
<1>1. CASE VBlankStart
  <2>1. vb' \in BOOLEAN
    BY <1>1, Zenon DEF VBlankStart
  <2>2. el' \in 0..ElMax /\ fs' \in {0, 1}
    BY <1>1, ConstantsAssumption DEF ConstantsAssumption, VBlankStart, ElMax, TypeOK
  <2>3. spent' \in 0..DrawMax
    <3>1. CASE Drawing /\ alive
      <4>1. spent < DrawMax /\ spent' = spent + 1
        BY <1>1, <3>1 DEF VBlankStart, Drawing, Waits
      <4> QED
        BY <4>1, ConstantsAssumption DEF ConstantsAssumption, TypeOK
    <3>2. CASE ~(Drawing /\ alive)
      BY <1>1, <3>2 DEF VBlankStart, TypeOK
    <3> QED
      BY <3>1, <3>2
  <2>4. UNCHANGED <<fsw, fm, mode, buf, cmd, m68k, alive, spc, pass, f, side, last, identity, target>>
    BY <1>1 DEF VBlankStart
  <2> QED
    BY <2>1, <2>2, <2>3, <2>4 DEF TypeOK
<1>2. CASE VBlankEnd
  <2>1. vb' \in BOOLEAN
    BY <1>2, Zenon DEF VBlankEnd
  <2>2. UNCHANGED <<fs, fsw, fm, mode, buf, cmd, m68k, sh2>>
    BY <1>2 DEF VBlankEnd
  <2> QED
    BY <2>1, <2>2 DEF TypeOK
<1>3. CASE Hang
  <2>1. alive' \in BOOLEAN
    BY <1>3, Zenon DEF Hang
  <2>2. UNCHANGED <<display, fm, mode, buf, cmd, m68k, spc, anim, spent, target>>
    BY <1>3 DEF Hang
  <2> QED
    BY <2>1, <2>2 DEF TypeOK
<1>4. CASE UNCHANGED vars
  BY <1>4 DEF vars, TypeOK
<1> QED
  BY <1>1, <1>2, <1>3, <1>4, M68kType, Sh2Type DEF Next

\* Every variable keeps to the values its register or C variable can hold, and the
\* tables of frames are never read past their end (fb.c sh2_sega_spin).
THEOREM TypeCorrect == Spec => []TypeOK
  BY InitType, NextType, PTL DEF Spec

-----------------------------------------------------------------------------
(***************************************************************************)
(* The screen.  The buffer shown holds black or one whole frame of the     *)
(* animation, the layer covers the logo until the logo's own picture has   *)
(* landed in both buffers, and the spin never shows an earlier frame after *)
(* a later one.                                                            *)
(***************************************************************************)

\* What a buffer may hold when it is shown: nothing, or one frame of the animation.
Whole == {{}} \cup {{p} : p \in Pictures}

\* Both buffers have been cleared.
Black == buf[0] = {} /\ buf[1] = {}

\* Each call has a command of its own.
Asked ==
  /\ alive /\ cmd = "cover" => mpc = "coverWait"
  /\ alive /\ cmd = "lz" => mpc = "lzWait"
  /\ alive /\ cmd = "spin" => mpc \in {"hold", "introWait"}
  /\ mpc \in {"cover", "coverSend", "coverWait", "between"} => ~logo

\* A swap lands before the SH2 goes on, so that a drawing ends in the buffer it began
\* in, which is not the one shown.
InStep ==
  /\ vb => fs = fsw
  /\ alive /\ spc \notin {"shownV", "spinV"} => fs = fsw
  /\ alive /\ Drawing => target = 1 - fs

\* The cover clears one buffer, then the other, behind a blank layer.
Covering ==
  alive =>
    /\ mpc \in {"cover", "coverSend"} \/ (cmd = "cover" /\ spc # "release") => mode = "blank"
    /\ pass = 1 /\ spc \in {"coverV", "clearing"} => buf[fs] = {}
    /\ pass = 0 /\ spc = "coverD" => buf[fs] = {}
    /\ spc = "shownV" => buf[fsw] = {} /\ (pass = 1 => Black)
    /\ pass = 1 /\ spc = "coverD" => Black
    /\ spc = "showV" => Black

\* From the cover to the spin the layer is in front, and black.
AfterCover ==
  \/ mpc = "coverWait" /\ (cmd = "none" \/ spc = "release")
  \/ mpc \in {"between", "lz", "lzSend", "lzWait", "intro", "introSend"}
  \/ cmd = "spin" /\ spc = "idle"

\* There nothing of what the SH2 may have drawn before is seen.
Covered == alive /\ AfterCover => mode = "pri" /\ Black

\* In the spin last[] says what is in the two buffers: the picture shown, and the one
\* to be cleared before the next is drawn, neither of a later frame than the one due.
Remembered ==
  alive /\ spc \in SpinSteps =>
    /\ IF spc \in {"spinV", "spinD"}
         THEN buf[fsw] = last[side] /\ buf[1 - fsw] = last[1 - side]
         ELSE buf[fs] = last[1 - side] /\ buf[1 - fs] = last[side]
    /\ last[0] \in Whole /\ last[1] \in Whole
    /\ spc \in {"spinV", "spinD"} => last[side] = {Picture(f)}
    /\ spc \in {"drawing", "spinV"} => \A p \in last[0] \cup last[1] : p <= f
    /\ spc # "drawing" => \A p \in last[0] \cup last[1] : p <= el
    /\ spc \in {"drawing", "spinV", "spinD"} => f <= el

\* Identity frames follow one another and both still fit in: the frame due is not far
\* past the first of them while one of the two is missing.
InTime ==
  alive /\ spc \in SpinSteps =>
    /\ spc = "drawing" => el = f + spent
    /\ spc = "spinV" => el <= f + DrawMax + (IF vb THEN 1 ELSE 0)
    /\ spc = "spinD" => el <= f + DrawMax + 1
    /\ identity = 0 =>
         CASE spc \in {"top", "endV"} -> el <= SegaIdentity + DrawMax
           [] spc = "drawing"         -> f <= SegaIdentity + DrawMax
           [] OTHER                   -> f < SegaIdentity
    /\ identity = 1 =>
         CASE spc \in {"top", "endV"} -> el <= SegaIdentity + 2 * DrawMax + 1
           [] spc = "drawing"         -> f <= SegaIdentity + 2 * DrawMax + 1
           [] OTHER                   -> f <= SegaIdentity + DrawMax
    /\ identity # 0 => IF spc \in {"top", "endV"} THEN el >= SegaIdentity ELSE f >= SegaIdentity

\* The picture that makes the layer go is the logo's own, in both buffers.
Landing ==
  alive /\ spc \in SpinSteps =>
    /\ identity = 1 => last[IF spc \in {"spinV", "spinD"} THEN side ELSE 1 - side] = Identity
    /\ identity = 2 => last[0] = Identity /\ last[1] = Identity
    /\ mode = IF identity = 2 /\ (spc # "spinV" \/ mode # "pri") THEN "packed" ELSE "pri"
    /\ spc = "endV" => identity = 2

\* From the end of the spin on the call is answered, or about to be.
AfterSpin ==
  \/ mpc \in {"hold", "introWait"} /\ (cmd = "none" \/ spc = "release")
  \/ mpc = "done"

\* There the layer is off, and the picture it went with was the logo's.
Landed == alive /\ AfterSpin => mode = "blank" /\ buf[fs] = Identity

\* What is shown is whole now, and will be when the swap asked for lands.
ShownWhole == mode # "blank" => buf[fs] \in Whole /\ buf[fsw] \in Whole

\* With TypeOK and Inv (SegaIntroProofs) these are inductive.
OnScreen ==
  /\ Asked /\ InStep /\ Covering /\ Covered /\ Remembered /\ InTime /\ Landing /\ Landed
  /\ ShownWhole

\* The 68000 touches neither the display nor the pixels nor the SH2.
LEMMA M68kApart == M68k => UNCHANGED <<display, buf, sh2>>
  BY DEF M68k, CoverGive, Give, CoverSend, Send, CoverFinish, SegaFinish, Answered, TimesOut,
         DrawLogo, LzGive, LzSend, LzAnswered, LzTimesOut, IntroGive, IntroSend, HoldEnds,
         IntroFinish

\* A frame drawn takes the place of what was in the buffer that is not shown.
LEMMA SwappedIn ==
  ASSUME TypeOK, Inv, OnScreen, SpinSwaps
  PROVE  buf' = [buf EXCEPT ![1 - fs] = {Picture(f)}] /\ fsw' = 1 - fs
<1>1. spc = "drawing" /\ alive
  BY DEF SpinSwaps, Live
<1>2. fm = "SH2"
  BY <1>1, InCall
<1>3. target = 1 - fs /\ buf[target] = last[side]
  BY <1>1 DEF OnScreen, InStep, Remembered, Drawing, SpinSteps
<1>4. (buf[target] \ last[side]) \cup {Picture(f)} = {Picture(f)}
  BY <1>3
<1>5. QED
  BY <1>2, <1>3, <1>4 DEF SpinSwaps, Paint, Swap

\* Commands are sent one after the other, and the logo comes after the first.
LEMMA AskedStep ==
  ASSUME TypeOK, Inv, OnScreen, [Next]_vars
  PROVE  Asked'
<1> USE DEF OnScreen, Asked, Inv, Ownership, Service, Between, Sending, Waiting, CoverSteps,
            SpinSteps, Drawing, display, m68k, anim, sh2
<1>1. CASE VBlankStart
  BY <1>1 DEF VBlankStart
<1>2. CASE VBlankEnd
  BY <1>2 DEF VBlankEnd
<1>3. CASE M68k
  BY <1>3 DEF M68k, CoverGive, Give, CoverSend, Send, CoverFinish, SegaFinish, Answered, TimesOut,
              DrawLogo, LzGive, LzSend, LzAnswered, LzTimesOut, IntroGive, IntroSend, HoldEnds,
              IntroFinish
<1>4. CASE Sh2
  BY <1>4 DEF Sh2, CoverBegins, Live, SetMode, CoverClears, Begin, CoverSwaps, Paint, Swap,
              CoverShown, CoverNext, CoverShows, SpinBegins, SpinDraws, SpinSwaps, SpinShown,
              SpinNext, SpinEnds, SpinBlanks, LzBegins, LzEnds, Release
<1>5. CASE Hang
  BY <1>5 DEF Hang
<1>6. CASE UNCHANGED vars
  BY <1>6 DEF vars
<1>7. QED
  BY <1>1, <1>2, <1>3, <1>4, <1>5, <1>6 DEF Next

\* While a swap is outstanding the SH2 waits for it.
LEMMA InStepStep ==
  ASSUME TypeOK, Inv, OnScreen, [Next]_vars
  PROVE  InStep'
<1> USE DEF OnScreen, InStep, TypeOK, Inv, Ownership, Service, Between, Sending, Waiting,
            CoverSteps, SpinSteps, Drawing, display, m68k, anim, sh2
<1>1. CASE VBlankStart
  BY <1>1 DEF VBlankStart
<1>2. CASE VBlankEnd
  BY <1>2 DEF VBlankEnd
<1>3. CASE M68k
  BY <1>3 DEF M68k, CoverGive, Give, CoverSend, Send, CoverFinish, SegaFinish, Answered, TimesOut,
              DrawLogo, LzGive, LzSend, LzAnswered, LzTimesOut, IntroGive, IntroSend, HoldEnds,
              IntroFinish
<1>4. CASE Sh2
  <2>1. CASE CoverClears
    BY <2>1 DEF CoverClears, Live, Begin
  <2>2. CASE CoverSwaps
    BY <2>2 DEF CoverSwaps, Live, Paint, Swap
  <2>3. CASE SpinDraws
    BY <2>3 DEF SpinDraws, Live, Begin
  <2>4. CASE SpinSwaps
    BY <2>4 DEF SpinSwaps, Live, Paint, Swap
  <2>5. QED
    BY <1>4, <2>1, <2>2, <2>3, <2>4 DEF Sh2, CoverBegins, Live, SetMode, CoverShown, CoverNext,
                                        CoverShows, SpinBegins, SpinShown, SpinNext, SpinEnds,
                                        SpinBlanks, LzBegins, LzEnds, Release
<1>5. CASE Hang
  BY <1>5 DEF Hang
<1>6. CASE UNCHANGED vars
  BY <1>6 DEF vars
<1>7. QED
  BY <1>1, <1>2, <1>3, <1>4, <1>5, <1>6 DEF Next

\* A buffer is cleared while the other is shown.
LEMMA CoveringStep ==
  ASSUME TypeOK, Inv, OnScreen, [Next]_vars
  PROVE  Covering'
<1> USE DEF OnScreen, Asked, InStep, Covering, Black, TypeOK, Inv, Ownership, Service, Between,
            Sending, Waiting, CoverSteps, SpinSteps, Drawing, display, m68k, anim, sh2
<1>1. CASE VBlankStart
  BY <1>1 DEF VBlankStart
<1>2. CASE VBlankEnd
  BY <1>2 DEF VBlankEnd
<1>3. CASE M68k
  BY <1>3 DEF M68k, CoverGive, Give, CoverSend, Send, CoverFinish, SegaFinish, Answered, TimesOut,
              DrawLogo, LzGive, LzSend, LzAnswered, LzTimesOut, IntroGive, IntroSend, HoldEnds,
              IntroFinish
<1>4. CASE Sh2
  <2>1. CASE CoverBegins
    BY <2>1 DEF CoverBegins, Live, SetMode
  <2>2. CASE CoverClears
    BY <2>2 DEF CoverClears, Live, Begin
  <2>3. CASE CoverSwaps
    BY <2>3 DEF CoverSwaps, Live, Paint, Swap
  <2>4. CASE CoverShown
    BY <2>4 DEF CoverShown, Live
  <2>5. CASE CoverNext
    BY <2>5 DEF CoverNext, Live
  <2>6. CASE CoverShows
    BY <2>6 DEF CoverShows, Live, SetMode
  <2>7. QED
    BY <1>4, <2>1, <2>2, <2>3, <2>4, <2>5, <2>6 DEF Sh2, SpinBegins, Live, SpinDraws, Begin,
                                                    SpinSwaps, Paint, Swap, SpinShown, SetMode,
                                                    SpinNext, SpinEnds, SpinBlanks, LzBegins,
                                                    LzEnds, Release
<1>5. CASE Hang
  BY <1>5 DEF Hang
<1>6. CASE UNCHANGED vars
  BY <1>6 DEF vars
<1>7. QED
  BY <1>1, <1>2, <1>3, <1>4, <1>5, <1>6 DEF Next

\* The cover stays up for the calls that follow.
LEMMA CoveredStep ==
  ASSUME TypeOK, Inv, OnScreen, [Next]_vars
  PROVE  Covered'
<1> USE DEF OnScreen, Asked, InStep, Covering, Covered, AfterCover, Black, TypeOK, Inv, Ownership,
            Service, Between, Sending, Waiting, CoverSteps, SpinSteps, Drawing, display, m68k,
            anim, sh2
<1>1. CASE VBlankStart
  BY <1>1 DEF VBlankStart
<1>2. CASE VBlankEnd
  BY <1>2 DEF VBlankEnd
<1>3. CASE M68k
  BY <1>3, ZenonT(60)
     DEF M68k, CoverGive, Give, CoverSend, Send, CoverFinish, SegaFinish, Answered, TimesOut,
         DrawLogo, LzGive, LzSend, LzAnswered, LzTimesOut, IntroGive, IntroSend, HoldEnds,
         IntroFinish
<1>4. CASE Sh2
  <2>1. CASE CoverSwaps
    BY <2>1 DEF CoverSwaps, Live, Paint, Swap
  <2>2. CASE CoverShows
    BY <2>2 DEF CoverShows, Live, SetMode
  <2>3. CASE SpinSwaps
    BY <2>3 DEF SpinSwaps, Live, Paint, Swap
  <2>4. CASE SpinShown
    BY <2>4 DEF SpinShown, Live, SetMode
  <2>5. CASE SpinBlanks
    BY <2>5 DEF SpinBlanks, Live, SetMode
  <2>6. CASE Release
    BY <2>6 DEF Release, Live
  <2>7. QED
    BY <1>4, <2>1, <2>2, <2>3, <2>4, <2>5, <2>6 DEF Sh2, CoverBegins, Live, SetMode, CoverClears,
                                                    Begin, CoverShown, CoverNext, SpinBegins,
                                                    SpinDraws, SpinNext, SpinEnds, LzBegins,
                                                    LzEnds
<1>5. CASE Hang
  BY <1>5 DEF Hang
<1>6. CASE UNCHANGED vars
  BY <1>6 DEF vars
<1>7. QED
  BY <1>1, <1>2, <1>3, <1>4, <1>5, <1>6 DEF Next

\* A frame takes the place of the one that was in its buffer.
LEMMA RememberedStep ==
  ASSUME TypeOK, Inv, OnScreen, [Next]_vars
  PROVE  Remembered'
<1> USE ConstantsAssumption DEF OnScreen, Asked, InStep, Covered, AfterCover, Black, Remembered,
                                InTime, TypeOK, Whole, Pictures, Picture, ElMax, Inv, Ownership,
                                Service, Between, Sending, Waiting, CoverSteps, SpinSteps,
                                Drawing, display, m68k, anim, sh2
<1>1. CASE VBlankStart
  BY <1>1 DEF VBlankStart
<1>2. CASE VBlankEnd
  BY <1>2 DEF VBlankEnd
<1>3. CASE M68k
  BY <1>3, M68kApart, ZenonT(60)
<1>4. CASE Sh2
  <2>1. CASE SpinBegins
    BY <2>1 DEF SpinBegins, Live
  <2>2. CASE SpinDraws
    BY <2>2 DEF SpinDraws, Live, Begin
  <2>3. CASE SpinSwaps
    <3>1. alive /\ spc = "drawing" /\ spc' = "spinV" /\ UNCHANGED <<alive, f, el, side>>
      BY <2>3 DEF SpinSwaps, Live
    <3>2. last' = [last EXCEPT ![side] = {Picture(f)}]
      BY <2>3 DEF SpinSwaps
    <3>3. buf' = [buf EXCEPT ![1 - fs] = {Picture(f)}] /\ fsw' = 1 - fs
      BY <2>3, SwappedIn
    <3>4. Picture(f) \in Pictures /\ Picture(f) <= f
      BY PictureType DEF Picture
    <3>5. /\ last'[side] = {Picture(f)} /\ last'[1 - side] = last[1 - side]
          /\ buf'[1 - fs] = {Picture(f)} /\ buf'[fs] = buf[fs]
      BY <3>2, <3>3
    <3>6. last'[side] \in Whole /\ last'[1 - side] \in Whole
      BY <3>1, <3>4, <3>5
    <3>7. \A p \in last'[0] \cup last'[1] : p <= f
      BY <3>1, <3>4, <3>5
    <3>8. QED
      BY <3>1, <3>3, <3>5, <3>6, <3>7
  <2>4. CASE SpinShown
    BY <2>4 DEF SpinShown, Live, SetMode
  <2>5. CASE SpinNext
    BY <2>5 DEF SpinNext, Live
  <2>6. CASE SpinEnds
    BY <2>6 DEF SpinEnds, Live
  <2>7. CASE SpinBlanks
    BY <2>7 DEF SpinBlanks, Live, SetMode
  <2>8. QED
    BY <1>4, <2>1, <2>2, <2>3, <2>4, <2>5, <2>6, <2>7 DEF Sh2, CoverBegins, Live, SetMode,
                                                          CoverClears, Begin, CoverSwaps, Paint,
                                                          Swap, CoverShown, CoverNext, CoverShows,
                                                          LzBegins, LzEnds, Release
<1>5. CASE Hang
  BY <1>5 DEF Hang
<1>6. CASE UNCHANGED vars
  BY <1>6 DEF vars
<1>7. QED
  BY <1>1, <1>2, <1>3, <1>4, <1>5, <1>6 DEF Next

\* One frame of the spin takes DrawMax + 1 V-Blanks at most.
LEMMA InTimeStep ==
  ASSUME TypeOK, Inv, OnScreen, [Next]_vars
  PROVE  InTime'
<1> USE ConstantsAssumption DEF OnScreen, Asked, InStep, Remembered, InTime, Landing, Waits,
                                TypeOK, ElMax, Inv, Ownership, Service, Between, Sending, Waiting,
                                CoverSteps, SpinSteps, Drawing, display, m68k, anim, sh2
<1>1. CASE VBlankStart
  <2> SUFFICES ASSUME alive, spc \in SpinSteps
               PROVE  InTime'
    BY <1>1 DEF VBlankStart
  <2>1. /\ UNCHANGED <<alive, spc, f, identity>> /\ ~vb /\ vb'
        /\ Waits \/ (Drawing /\ spent < DrawMax)
        /\ el' = IF el < ElMax THEN el + 1 ELSE el
        /\ spent' = IF Drawing THEN spent + 1 ELSE spent
    BY <1>1 DEF VBlankStart
  <2>2. CASE spc = "drawing"
    BY <2>1, <2>2
  <2>3. CASE spc = "spinV"
    BY <2>1, <2>3
  <2>4. CASE spc = "endV"
    BY <2>1, <2>4
  <2>5. CASE spc \in {"top", "spinD"}
    BY <2>1, <2>5
  <2>6. QED
    BY <2>2, <2>3, <2>4, <2>5
<1>2. CASE VBlankEnd
  BY <1>2 DEF VBlankEnd
<1>3. CASE M68k
  <2>1. UNCHANGED <<vb, alive, spc, el, f, spent, identity>>
    BY <1>3, M68kApart
  <2>2. QED
    BY <2>1
<1>4. CASE Sh2
  <2>1. CASE SpinBegins
    BY <2>1 DEF SpinBegins, Live
  <2>2. CASE SpinDraws
    BY <2>2 DEF SpinDraws, Live, Begin
  <2>3. CASE SpinSwaps
    BY <2>3 DEF SpinSwaps, Live, Paint, Swap
  <2>4. CASE SpinShown
    BY <2>4 DEF SpinShown, Live, SetMode
  <2>5. CASE SpinNext
    BY <2>5 DEF SpinNext, Live
  <2>6. CASE SpinEnds
    BY <2>6 DEF SpinEnds, Live
  <2>7. CASE SpinBlanks
    BY <2>7 DEF SpinBlanks, Live, SetMode
  <2>8. QED
    BY <1>4, <2>1, <2>2, <2>3, <2>4, <2>5, <2>6, <2>7 DEF Sh2, CoverBegins, Live, SetMode,
                                                          CoverClears, Begin, CoverSwaps, Paint,
                                                          Swap, CoverShown, CoverNext, CoverShows,
                                                          LzBegins, LzEnds, Release
<1>5. CASE Hang
  BY <1>5 DEF Hang
<1>6. CASE UNCHANGED vars
  BY <1>6 DEF vars
<1>7. QED
  BY <1>1, <1>2, <1>3, <1>4, <1>5, <1>6 DEF Next

\* The second identity frame, and no other, brings the hand-over.
LEMMA LandingStep ==
  ASSUME TypeOK, Inv, OnScreen, [Next]_vars
  PROVE  Landing'
<1> USE ConstantsAssumption DEF OnScreen, Asked, Covered, AfterCover, InTime, Landing, Picture,
                                Identity, TypeOK, Inv, Ownership, Service, Between, Sending,
                                Waiting, CoverSteps, SpinSteps, Drawing, display, m68k, anim, sh2
<1>1. CASE VBlankStart
  BY <1>1 DEF VBlankStart
<1>2. CASE VBlankEnd
  BY <1>2 DEF VBlankEnd
<1>3. CASE M68k
  BY <1>3, ZenonT(60)
     DEF M68k, CoverGive, Give, CoverSend, Send, CoverFinish, SegaFinish, Answered, TimesOut,
         DrawLogo, LzGive, LzSend, LzAnswered, LzTimesOut, IntroGive, IntroSend, HoldEnds,
         IntroFinish
<1>4. CASE Sh2
  <2>1. CASE SpinBegins
    BY <2>1 DEF SpinBegins, Live
  <2>2. CASE SpinDraws
    BY <2>2 DEF SpinDraws, Live, Begin
  <2>3. CASE SpinSwaps
    <3>1. /\ alive /\ spc = "drawing" /\ spc' = "spinV"
          /\ identity' = IF f >= SegaIdentity /\ identity < 2 THEN identity + 1 ELSE identity
          /\ UNCHANGED <<alive, side, mode>>
      BY <2>3 DEF SpinSwaps, Live
    <3>2. last'[side] = {Picture(f)} /\ last'[1 - side] = last[1 - side]
      BY <2>3 DEF SpinSwaps
    <3>3. f >= SegaIdentity => {Picture(f)} = {SegaIdentity}
      BY DEF Picture
    <3>4. identity # 0 => f >= SegaIdentity
      BY <3>1
    <3>5. QED
      BY <3>1, <3>2, <3>3, <3>4
  <2>4. CASE SpinShown
    BY <2>4 DEF SpinShown, Live, SetMode
  <2>5. CASE SpinNext
    BY <2>5 DEF SpinNext, Live
  <2>6. CASE SpinEnds
    BY <2>6 DEF SpinEnds, Live
  <2>7. CASE SpinBlanks
    BY <2>7 DEF SpinBlanks, Live, SetMode
  <2>8. QED
    BY <1>4, <2>1, <2>2, <2>3, <2>4, <2>5, <2>6, <2>7 DEF Sh2, CoverBegins, Live, SetMode,
                                                          CoverClears, Begin, CoverSwaps, Paint,
                                                          Swap, CoverShown, CoverNext, CoverShows,
                                                          LzBegins, LzEnds, Release
<1>5. CASE Hang
  BY <1>5 DEF Hang
<1>6. CASE UNCHANGED vars
  BY <1>6 DEF vars
<1>7. QED
  BY <1>1, <1>2, <1>3, <1>4, <1>5, <1>6 DEF Next

\* The layer goes over the logo's picture.
LEMMA LandedStep ==
  ASSUME TypeOK, Inv, OnScreen, [Next]_vars
  PROVE  Landed'
<1> USE DEF OnScreen, Asked, InStep, Covered, AfterCover, Remembered, Landing, Landed, AfterSpin,
            Identity, TypeOK, Inv, Ownership, Service, Between, Sending, Waiting, CoverSteps,
            SpinSteps, Drawing, display, m68k, anim, sh2
<1>1. CASE VBlankStart
  BY <1>1 DEF VBlankStart
<1>2. CASE VBlankEnd
  BY <1>2 DEF VBlankEnd
<1>3. CASE M68k
  BY <1>3 DEF M68k, CoverGive, Give, CoverSend, Send, CoverFinish, SegaFinish, Answered, TimesOut,
              DrawLogo, LzGive, LzSend, LzAnswered, LzTimesOut, IntroGive, IntroSend, HoldEnds,
              IntroFinish
<1>4. CASE Sh2
  <2>1. CASE SpinBlanks
    BY <2>1 DEF SpinBlanks, Live, SetMode
  <2>2. CASE Release
    BY <2>2 DEF Release, Live
  <2>3. QED
    BY <1>4, <2>1, <2>2 DEF Sh2, CoverBegins, Live, SetMode, CoverClears, Begin, CoverSwaps,
                            Paint, Swap, CoverShown, CoverNext, CoverShows, SpinBegins, SpinDraws,
                            SpinSwaps, SpinShown, SpinNext, SpinEnds, LzBegins, LzEnds
<1>5. CASE Hang
  BY <1>5 DEF Hang
<1>6. CASE UNCHANGED vars
  BY <1>6 DEF vars
<1>7. QED
  BY <1>1, <1>2, <1>3, <1>4, <1>5, <1>6 DEF Next

\* Nothing but a whole picture is swapped in behind a layer that is up.
LEMMA ShownWholeStep ==
  ASSUME TypeOK, Inv, OnScreen, [Next]_vars
  PROVE  ShownWhole'
<1> USE ConstantsAssumption DEF OnScreen, Asked, InStep, Covering, Covered, AfterCover, Black,
                                Remembered, ShownWhole, Whole, Pictures, Picture, TypeOK, Inv,
                                Ownership, Service, Between, Sending, Waiting, CoverSteps,
                                SpinSteps, Drawing, display, m68k, anim, sh2
<1>1. CASE VBlankStart
  BY <1>1 DEF VBlankStart
<1>2. CASE VBlankEnd
  BY <1>2 DEF VBlankEnd
<1>3. CASE M68k
  BY <1>3 DEF M68k, CoverGive, Give, CoverSend, Send, CoverFinish, SegaFinish, Answered, TimesOut,
              DrawLogo, LzGive, LzSend, LzAnswered, LzTimesOut, IntroGive, IntroSend, HoldEnds,
              IntroFinish
<1>4. CASE Sh2
  <2>1. CASE CoverSwaps
    BY <2>1 DEF CoverSwaps, Live, Paint, Swap
  <2>2. CASE CoverShows
    BY <2>2 DEF CoverShows, Live, SetMode
  <2>3. CASE SpinSwaps
    BY <2>3 DEF SpinSwaps, Live, Paint, Swap
  <2>4. CASE SpinShown
    BY <2>4 DEF SpinShown, Live, SetMode
  <2>5. QED
    BY <1>4, <2>1, <2>2, <2>3, <2>4 DEF Sh2, CoverBegins, Live, SetMode, CoverClears, Begin,
                                        CoverShown, CoverNext, SpinBegins, SpinDraws, SpinNext,
                                        SpinEnds, SpinBlanks, LzBegins, LzEnds, Release
<1>5. CASE Hang
  BY <1>5 DEF Hang
<1>6. CASE UNCHANGED vars
  BY <1>6 DEF vars
<1>7. QED
  BY <1>1, <1>2, <1>3, <1>4, <1>5, <1>6 DEF Next

----------------------------------------------------------------------------
\* At the start nothing is in front, and no buffer is of any use.
LEMMA InitOnScreen == Init => OnScreen
<1> SUFFICES ASSUME Init PROVE OnScreen
  OBVIOUS
<1>1. Asked /\ InStep /\ Covering /\ ShownWhole
  BY DEF Init, Asked, InStep, Drawing, Covering, ShownWhole
<1>2. Covered /\ Remembered /\ InTime /\ Landing /\ Landed
  BY DEF Init, Covered, AfterCover, Remembered, InTime, Landing, Landed, AfterSpin, SpinSteps
<1>3. QED
  BY <1>1, <1>2 DEF OnScreen

\* Every step keeps all of it.
LEMMA NextOnScreen == TypeOK /\ Inv /\ OnScreen /\ [Next]_vars => OnScreen'
  BY AskedStep, InStepStep, CoveringStep, CoveredStep, RememberedStep, InTimeStep, LandingStep,
     LandedStep, ShownWholeStep DEF OnScreen

----------------------------------------------------------------------------
\* sh2_sega_cover and sh2_sega_spin (fb.c) put the layer up only over a cleared or a
\* finished buffer: no frame left from before the intro, none half drawn and no two
\* in one buffer are ever on the screen, whenever the V-Blanks come.
THEOREM WholeFramesShown == Spec => []OneFrameShown
<1>1. OnScreen => OneFrameShown
  BY DEF OnScreen, ShownWhole, Whole, OneFrameShown
<1>2. QED
  BY InitType, NextType, InitInv, NextInv, InitOnScreen, NextOnScreen, <1>1, PTL DEF Spec

\* A live SH2 that has seen the logo is somewhere between the cover and its landing.
LEMMA LogoPhases ==
  ASSUME TypeOK, Inv, Asked, alive, logo
  PROVE  AfterCover \/ spc \in SpinSteps \/ AfterSpin
BY DEF TypeOK, Inv, Ownership, Service, Asked, AfterCover, AfterSpin, SpinSteps, CoverSteps,
       Between, Sending, Waiting

\* Between the 68000's DrawLogo and the end of the intro the layer hides the logo in
\* the VDP's plane, and goes behind it only over the same picture in both buffers:
\* the second identity frame of sh2_sega_spin is reached before the animation ends.
THEOREM LogoStaysCovered == Spec => []LogoCovered
<1>1. ASSUME TypeOK, Inv, OnScreen, alive, logo
      PROVE  \/ mode = "pri"
             \/ mode = "packed" /\ buf[0] = Identity /\ buf[1] = Identity
             \/ mode = "blank" /\ buf[fs] = Identity
  <2>1. CASE AfterCover
    BY <1>1, <2>1 DEF OnScreen, Covered
  <2>2. CASE spc \in SpinSteps
    BY <1>1, <2>2 DEF OnScreen, Landing, Remembered, SpinSteps, TypeOK
  <2>3. CASE AfterSpin
    BY <1>1, <2>3 DEF OnScreen, Landed
  <2>4. QED
    BY <1>1, <2>1, <2>2, <2>3, LogoPhases DEF OnScreen
<1>2. TypeOK /\ Inv /\ OnScreen => LogoCovered
  BY <1>1 DEF LogoCovered
<1>3. QED
  BY InitType, NextType, InitInv, NextInv, InitOnScreen, NextOnScreen, <1>2, PTL DEF Spec

\* A whole picture is of one frame.
LEMMA WholeOrdered == \A S \in Whole : \A p, q \in S : p <= q
BY ConstantsAssumption DEF ConstantsAssumption, Whole, Pictures

\* A frame drawn later is not an earlier one.
LEMMA DrawnInOrder ==
  ASSUME TypeOK, OnScreen, alive, spc \in {"drawing", "spinV"}
  PROVE  \A p \in last[1 - side] : p <= Picture(f)
<1>1. \A p \in last[1 - side] : p <= f
  BY DEF OnScreen, Remembered, SpinSteps, TypeOK
<1>2. \A p \in last[1 - side] : p <= SegaIdentity
  BY ConstantsAssumption DEF ConstantsAssumption, TypeOK, Pictures
<1>3. QED
  BY <1>1, <1>2 DEF Picture

\* What a step does to the buffer shown, if it does anything.
LEMMA ShownStep ==
  ASSUME TypeOK, Inv, OnScreen, [Next]_vars, mode # "blank", alive
  PROVE  \/ buf'[fs'] = buf[fs]
         \/ spc \in {"drawing", "spinV"} /\ buf[fs] = last[1 - side] /\ buf'[fs'] = {Picture(f)}
<1> USE DEF display, m68k, anim, sh2
<1>1. CASE VBlankStart
  <2>1. buf' = buf /\ fs' = fsw
    BY <1>1 DEF VBlankStart
  <2>2. CASE fs = fsw
    BY <2>1, <2>2
  <2>3. CASE fs # fsw
    <3>1. spc \in {"shownV", "spinV"}
      BY <2>3 DEF OnScreen, InStep
    <3>2. spc # "shownV"
      BY DEF OnScreen, Covering, Inv, Service, CoverSteps
    <3>3. fs = 1 - fsw
      BY <2>3 DEF TypeOK
    <3>4. QED
      BY <2>1, <3>1, <3>2, <3>3 DEF OnScreen, Remembered, SpinSteps
  <2>4. QED
    BY <2>2, <2>3
<1>2. CASE M68k
  BY <1>2, M68kApart
<1>3. CASE SpinSwaps
  <2>1. buf' = [buf EXCEPT ![1 - fs] = {Picture(f)}]
    BY <1>3, SwappedIn
  <2>2. spc = "drawing" /\ fs' \in {fs, 1 - fs}
    BY <1>3 DEF SpinSwaps, Live, Swap
  <2>3. buf'[1 - fs] = {Picture(f)} /\ buf'[fs] = buf[fs]
    BY <2>1 DEF TypeOK
  <2>4. buf[fs] = last[1 - side]
    BY <2>2 DEF OnScreen, Remembered, SpinSteps
  <2>5. QED
    BY <2>2, <2>3, <2>4
<1>4. CASE Sh2 /\ ~SpinSwaps
  <2>1. ~CoverSwaps
    BY DEF CoverSwaps, Live, OnScreen, Covering, Inv, Service, CoverSteps
  <2>2. QED
    BY <1>4, <2>1 DEF Sh2, CoverBegins, CoverClears, CoverShown, CoverNext, CoverShows,
                      SpinBegins, SpinDraws, SpinShown, SpinNext, SpinEnds, SpinBlanks,
                      LzBegins, LzEnds, Release
<1>5. CASE VBlankEnd \/ Hang \/ UNCHANGED vars
  BY <1>5 DEF VBlankEnd, Hang, vars
<1>6. QED
  BY <1>1, <1>2, <1>3, <1>4, <1>5 DEF Next

\* While the SH2 lives only the end of the spin takes the layer off.
LEMMA BlankedStep ==
  ASSUME TypeOK, Inv, OnScreen, [Next]_vars, mode # "blank", alive, mode' = "blank"
  PROVE  mode = "packed"
<1> USE DEF display, m68k, anim, sh2
<1>1. CASE SpinBlanks
  <2>1. spc = "endV"
    BY <1>1 DEF SpinBlanks, Live
  <2>2. QED
    BY <2>1 DEF OnScreen, Landing, SpinSteps
<1>2. CASE Sh2 /\ ~SpinBlanks
  <2>1. ~CoverBegins
    BY DEF CoverBegins, Live, OnScreen, Covering
  <2>2. QED
    BY <1>2, <2>1 DEF Sh2, SetMode, CoverClears, CoverSwaps, CoverShown, CoverNext, CoverShows,
                      SpinBegins, SpinDraws, SpinSwaps, SpinShown, SpinNext, SpinEnds,
                      LzBegins, LzEnds, Release
<1>3. CASE M68k
  BY <1>3 DEF M68k, CoverGive, Give, CoverSend, Send, CoverFinish, SegaFinish, Answered,
              TimesOut, DrawLogo, LzGive, LzSend, LzAnswered, LzTimesOut, IntroGive, IntroSend,
              HoldEnds,
         IntroFinish
<1>4. CASE VBlankStart \/ VBlankEnd \/ Hang \/ UNCHANGED vars
  BY <1>4 DEF VBlankStart, VBlankEnd, Hang, vars
<1>5. QED
  BY <1>1, <1>2, <1>3, <1>4 DEF Next

\* The frame counter of sh2_sega_spin is read from the V-Blanks elapsed and the drawn
\* buffer is swapped in a V-Blank later: a frame is never followed by an earlier one,
\* and the layer is taken off only after it has gone behind the logo.
THEOREM SpinNeverStepsBack == Spec => SpinGoesOn
<1>1. ASSUME TypeOK, Inv, OnScreen, [Next]_vars, mode # "blank", alive
      PROVE  \A p \in buf[fs], q \in buf'[fs'] : p <= q
  <2>1. CASE buf'[fs'] = buf[fs]
    BY <1>1, <2>1, WholeOrdered DEF OnScreen, ShownWhole
  <2>2. CASE /\ spc \in {"drawing", "spinV"} /\ buf[fs] = last[1 - side]
             /\ buf'[fs'] = {Picture(f)}
    BY <1>1, <2>2, DrawnInOrder
  <2>3. QED
    BY <1>1, <2>1, <2>2, ShownStep
<1>2. TypeOK /\ Inv /\ OnScreen /\ [Next]_vars =>
        [mode # "blank" /\ alive =>
           /\ \A p \in buf[fs], q \in buf'[fs'] : p <= q
           /\ mode' = "blank" => mode = "packed"]_vars
  BY <1>1, BlankedStep
<1>3. QED
  BY InitType, NextType, InitInv, NextInv, InitOnScreen, NextOnScreen, <1>2, PTL
     DEF Spec, SpinGoesOn
====
