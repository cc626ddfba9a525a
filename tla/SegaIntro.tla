----------------------------- MODULE SegaIntro -----------------------------
(***************************************************************************)
(* The SEGA logo on the 32X layer: the thunks MarsSegaCover and            *)
(* MarsSegaIntro (disasm/32x/sega_intro.asm) and the SH2's sh2_sega_cover  *)
(* and sh2_sega_spin (disasm/sh2/master/fb.c), with the display between    *)
(* them.                                                                   *)
(*                                                                         *)
(* A buffer is the set of animation frames that have left pixels in it;    *)
(* Stale stands for whatever it held at boot and Torn for a picture that   *)
(* was shown before it was finished.  The frames from SegaIdentity on *)
(* are one and the same picture, the Genesis logo's own.                   *)
(*                                                                         *)
(* The SH2's short steps take microseconds, so the display moves on only   *)
(* while it clears, draws, waits or has nothing to do.                     *)
(***************************************************************************)
EXTENDS Integers

CONSTANTS
  SegaFrames,     \* SEGA_FRAMES
  SegaIdentity,   \* SEGA_IDENTITY, the first identity frame
  DrawMax         \* V-Blanks that may start while a buffer is cleared or drawn

\* Two identity frames still fit into the animation when the picture before them
\* was begun one V-Blank earlier and every one of the three takes its longest.
ASSUME ConstantsAssumption ==
  /\ DrawMax \in Nat
  /\ SegaIdentity \in Nat /\ SegaFrames \in Nat
  /\ SegaIdentity > 0
  /\ SegaFrames >= SegaIdentity + 2 * (DrawMax + 1)

Pictures == 0..SegaIdentity
Stale == -1
Torn == -2
Picture(f) == IF f < SegaIdentity THEN f ELSE SegaIdentity
Identity == {SegaIdentity}
ElMax == SegaFrames + DrawMax + 1   \* more V-Blanks than this are not counted

VARIABLES
  vb, fs, fsw,            \* display: in V-Blank, shown buffer, latched swap
  fm, mode,               \* VDP owner; "blank", "pri" (in front) or "packed"
  buf,                    \* pictures left in each buffer
  cmd,                    \* comm register
  mpc, logo,              \* 68000: step; the Genesis logo is on its screen
  alive, spc, pass,       \* SH2: runs; step; pass of the cover loop
  el, f, side, last,      \* V-Blanks since t0, frame being drawn, buf, last[]
  identity,               \* identity frames drawn (counted up to two)
  spent, target           \* V-Blanks this drawing has taken, buffer it began in

display == <<vb, fs, fsw>>
m68k == <<mpc, logo>>
anim == <<pass, el, f, side, last, identity>>
sh2  == <<alive, spc, anim, spent, target>>
vars == <<display, fm, mode, buf, cmd, m68k, sh2>>

Init ==
  /\ vb \in BOOLEAN /\ fs \in {0, 1} /\ fsw = fs
  /\ fm = "MD" /\ mode = "blank" /\ cmd = "none"
  /\ buf = [b \in {0, 1} |-> {Stale}]
  /\ mpc = "cover" /\ logo = FALSE
  /\ alive = TRUE /\ spc = "idle" /\ pass = 0
  /\ el = 0 /\ f = 0 /\ side = 0 /\ last = [b \in {0, 1} |-> {}]
  /\ identity = 0 /\ spent = 0 /\ target = 0

---------------------------------------------------------------------------
\* The display.

Drawing == spc \in {"clearing", "drawing"}

Waits ==
  \/ spc = "idle" /\ cmd = "none"
  \/ spc = "lz"
  \/ spc \in {"coverV", "shownV", "showV", "spinV", "endV"} /\ ~vb
  \/ spc \in {"coverD", "spinD"} /\ vb

VBlankStart ==
  /\ ~vb /\ vb' = TRUE
  /\ ~alive \/ Waits \/ (Drawing /\ spent < DrawMax)
  /\ fs' = fsw
  /\ el' = IF el < ElMax THEN el + 1 ELSE el
  /\ spent' = IF Drawing /\ alive THEN spent + 1 ELSE spent
  /\ UNCHANGED <<fsw, fm, mode, buf, cmd, m68k, alive, spc, pass, f, side, last, identity, target>>

VBlankEnd ==
  /\ vb /\ vb' = FALSE
  /\ ~alive \/ Waits \/ Drawing
  /\ UNCHANGED <<fs, fsw, fm, mode, buf, cmd, m68k, sh2>>

---------------------------------------------------------------------------
\* The 68000.  Each call hands FM over before the command and takes it back
\* only when the SH2 has cleared it; the wait runs out only on an SH2 that never
\* answers.

Give(from, to) ==
  /\ mpc = from /\ mpc' = to
  /\ fm' = "SH2"
  /\ UNCHANGED <<display, mode, buf, cmd, logo, sh2>>

Send(from, to, command) ==
  /\ mpc = from /\ mpc' = to
  /\ cmd' = command
  /\ UNCHANGED <<display, fm, mode, buf, logo, sh2>>

Answered(from, to) ==
  /\ mpc = from /\ cmd = "none" /\ mpc' = to
  /\ fm' = "MD"
  /\ UNCHANGED <<display, mode, buf, cmd, logo, sh2>>

\* Mutation: a timeout does not blank the layer.
TimesOutOnly(from, to) ==
  /\ mpc = from /\ cmd # "none" /\ ~alive /\ mpc' = to
  /\ fm' = "MD"
  /\ UNCHANGED <<display, mode, buf, cmd, logo, sh2>>

TimesOut(from, to) ==
  /\ mpc = from /\ cmd # "none" /\ ~alive /\ mpc' = to
  /\ fm' = "MD" /\ mode' = "blank"
  /\ UNCHANGED <<display, buf, cmd, logo, sh2>>

\* Mutation: FM is taken back without waiting for the command to clear.
FinishesEarly(from, to) ==
  /\ mpc = from /\ mpc' = to
  /\ fm' = "MD"
  /\ UNCHANGED <<display, mode, buf, cmd, logo, sh2>>

SegaFinish(from, to) == Answered(from, to) \/ TimesOut(from, to)

\* MarsSegaCover.
CoverGive   == Give("cover", "coverSend")
CoverSend   == Send("coverSend", "coverWait", "cover")
CoverFinish == SegaFinish("coverWait", "between")

\* Between the calls the game draws its logo, with or without a decompression
\* through the LZ thunk, which leaves the layer alone if it times out.
DrawLogo ==
  /\ mpc = "between" /\ mpc' \in {"lz", "intro"}
  /\ logo' = TRUE
  /\ UNCHANGED <<display, fm, mode, buf, cmd, sh2>>

LzGive     == Give("lz", "lzSend")
LzSend     == Send("lzSend", "lzWait", "lz")
LzAnswered == Answered("lzWait", "intro")
LzTimesOut ==
  /\ mpc = "lzWait" /\ cmd # "none" /\ ~alive /\ mpc' = "intro"
  /\ fm' = "MD"
  /\ UNCHANGED <<display, mode, buf, cmd, logo, sh2>>

\* MarsSegaIntro: the hold is GameCommand #4.
IntroGive   == Give("intro", "introSend")
IntroSend   == Send("introSend", "hold", "spin")
HoldEnds ==
  /\ mpc = "hold" /\ mpc' = "introWait"
  /\ UNCHANGED <<display, fm, mode, buf, cmd, logo, sh2>>
IntroFinish == SegaFinish("introWait", "done")

M68k ==
  \/ CoverGive \/ CoverSend \/ CoverFinish \/ DrawLogo
  \/ LzGive \/ LzSend \/ LzAnswered \/ LzTimesOut
  \/ IntroGive \/ IntroSend \/ HoldEnds \/ IntroFinish

---------------------------------------------------------------------------
\* The SH2.

Live(from, to) == alive /\ spc = from /\ spc' = to

\* A write to the VDP is lost while the 68000 owns it.
SetMode(m) == mode' = IF fm = "SH2" THEN m ELSE mode

\* The FS bit is toggled: at once in V-Blank, at the next one otherwise.
Swap ==
  IF fm = "SH2" THEN fsw' = 1 - fs /\ fs' = IF vb THEN 1 - fs ELSE fs
                ELSE UNCHANGED <<fs, fsw>>

\* Pixels go to the buffer that is not shown; if it came into view since they
\* were begun, neither buffer holds a whole picture.
Paint(pixels) ==
  buf' = CASE fm # "SH2"     -> buf
           [] target = 1 - fs -> [buf EXCEPT ![target] = pixels]
           [] OTHER           -> [b \in {0, 1} |-> {Torn}]

Begin == spent' = 0 /\ target' = 1 - fs

\* sh2_sega_cover: blank, then for each buffer wait for V-Blank, clear it, swap,
\* and see the swap through; then the layer comes in front.
CoverBegins ==
  /\ Live("idle", "coverV") /\ cmd = "cover"
  /\ SetMode("blank") /\ pass' = 0
  /\ UNCHANGED <<display, fm, buf, cmd, m68k, alive, el, f, side, last, identity, spent, target>>

CoverClears ==
  /\ Live("coverV", "clearing") /\ vb
  /\ Begin
  /\ UNCHANGED <<display, fm, mode, buf, cmd, m68k, alive, anim>>

CoverSwaps ==
  /\ Live("clearing", "shownV")
  /\ Paint({}) /\ Swap
  /\ UNCHANGED <<vb, fm, mode, cmd, m68k, alive, anim, spent, target>>

CoverShown ==
  /\ Live("shownV", "coverD") /\ vb
  /\ UNCHANGED <<display, fm, mode, buf, cmd, m68k, alive, anim, spent, target>>

\* Mutation: only the buffer that is not shown is cleared.
ClearsOne ==
  /\ Live("coverD", "showV") /\ ~vb
  /\ UNCHANGED <<display, fm, mode, buf, cmd, m68k, alive, anim, spent, target>>

CoverNext ==
  /\ Live("coverD", IF pass = 0 THEN "coverV" ELSE "showV") /\ ~vb
  /\ pass' = 1
  /\ UNCHANGED <<display, fm, mode, buf, cmd, m68k, alive, el, f, side, last, identity, spent, target>>

CoverShows ==
  /\ Live("showV", "release") /\ vb
  /\ SetMode("pri")
  /\ UNCHANGED <<display, fm, buf, cmd, m68k, alive, anim, spent, target>>

\* sh2_sega_spin: draws the frame due now, swaps, and starts over when the
\* picture is being shown.
SpinBegins ==
  /\ Live("idle", "top") /\ cmd = "spin"
  /\ el' = 0 /\ side' = 0 /\ last' = [b \in {0, 1} |-> {}] /\ identity' = 0
  /\ UNCHANGED <<display, fm, mode, buf, cmd, m68k, alive, pass, f, spent, target>>

SpinDraws ==
  /\ Live("top", "drawing") /\ el < SegaFrames
  /\ f' = el /\ Begin
  /\ UNCHANGED <<display, fm, mode, buf, cmd, m68k, alive, pass, el, side, last, identity>>

\* Mutation: an identity frame is not drawn again, the swap goes on.
DrawsOnce ==
  /\ Live("drawing", "spinV")
  /\ Paint(IF identity > 0 THEN buf[target] ELSE (buf[target] \ last[side]) \cup {Picture(f)})
  /\ Swap
  /\ last' = [last EXCEPT ![side] = {Picture(f)}]
  /\ identity' = IF f >= SegaIdentity /\ identity < 2 THEN identity + 1 ELSE identity
  /\ UNCHANGED <<vb, fm, mode, cmd, m68k, alive, pass, el, f, side, spent, target>>

\* The box of the frame this buffer held is cleared before f is drawn.
SpinSwaps ==
  /\ Live("drawing", "spinV")
  /\ Paint((buf[target] \ last[side]) \cup {Picture(f)}) /\ Swap
  /\ last' = [last EXCEPT ![side] = {Picture(f)}]
  /\ identity' = IF f >= SegaIdentity /\ identity < 2 THEN identity + 1 ELSE identity
  /\ UNCHANGED <<vb, fm, mode, cmd, m68k, alive, pass, el, f, side, spent, target>>

\* Mutation: one identity frame is taken to be enough.
HandsOverEarly ==
  /\ Live("spinV", "spinD") /\ vb
  /\ SetMode(IF identity > 0 THEN "packed" ELSE mode)
  /\ UNCHANGED <<display, fm, buf, cmd, m68k, alive, anim, spent, target>>

\* The swap has happened; two identity frames mean both buffers hold the logo.
SpinShown ==
  /\ Live("spinV", "spinD") /\ vb
  /\ SetMode(IF identity = 2 THEN "packed" ELSE mode)
  /\ UNCHANGED <<display, fm, buf, cmd, m68k, alive, anim, spent, target>>

SpinNext ==
  /\ Live("spinD", "top") /\ ~vb
  /\ side' = 1 - side
  /\ UNCHANGED <<display, fm, mode, buf, cmd, m68k, alive, pass, el, f, last, identity, spent, target>>

SpinEnds ==
  /\ Live("top", "endV") /\ el >= SegaFrames
  /\ UNCHANGED <<display, fm, mode, buf, cmd, m68k, alive, anim, spent, target>>

\* Mutation: the command is not cleared after the spin.
EndsSilently ==
  /\ Live("endV", "idle") /\ vb
  /\ SetMode("blank")
  /\ UNCHANGED <<display, fm, buf, cmd, m68k, alive, anim, spent, target>>

SpinBlanks ==
  /\ Live("endV", "release") /\ vb
  /\ SetMode("blank")
  /\ UNCHANGED <<display, fm, buf, cmd, m68k, alive, anim, spent, target>>

\* A decompression works beside the pixels, in the frame buffer's upper half.
LzBegins ==
  /\ Live("idle", "lz") /\ cmd = "lz"
  /\ UNCHANGED <<display, fm, mode, buf, cmd, m68k, alive, anim, spent, target>>

LzEnds ==
  /\ Live("lz", "release")
  /\ UNCHANGED <<display, fm, mode, buf, cmd, m68k, alive, anim, spent, target>>

\* mars_rpc_loop clears the command last.
Release ==
  /\ Live("release", "idle") /\ cmd' = "none"
  /\ UNCHANGED <<display, fm, mode, buf, m68k, alive, anim, spent, target>>

Sh2 ==
  \/ CoverBegins \/ CoverClears \/ CoverSwaps \/ CoverShown \/ CoverNext \/ CoverShows
  \/ SpinBegins \/ SpinDraws \/ SpinSwaps \/ SpinShown \/ SpinNext \/ SpinEnds \/ SpinBlanks
  \/ LzBegins \/ LzEnds \/ Release

\* The SH2 stops answering.
Hang ==
  /\ alive /\ alive' = FALSE
  /\ UNCHANGED <<display, fm, mode, buf, cmd, m68k, spc, anim, spent, target>>

---------------------------------------------------------------------------
Next == VBlankStart \/ VBlankEnd \/ M68k \/ Sh2 \/ Hang

Fairness == WF_vars(VBlankStart) /\ WF_vars(VBlankEnd) /\ WF_vars(M68k) /\ WF_vars(Sh2)

Spec == Init /\ [][Next]_vars
FairSpec == Spec /\ Fairness

---------------------------------------------------------------------------
\* Every variable stays within the values its register or C variable can hold.
TypeOK ==
  /\ vb \in BOOLEAN /\ fs \in {0, 1} /\ fsw \in {0, 1}
  /\ fm \in {"MD", "SH2"} /\ mode \in {"blank", "pri", "packed"}
  /\ buf \in [{0, 1} -> SUBSET (Pictures \cup {Stale, Torn})]
  /\ cmd \in {"none", "cover", "lz", "spin"}
  /\ mpc \in {"cover", "coverSend", "coverWait", "between", "lz", "lzSend", "lzWait",
              "intro", "introSend", "hold", "introWait", "done"}
  /\ logo \in BOOLEAN /\ alive \in BOOLEAN
  /\ spc \in {"idle", "coverV", "clearing", "shownV", "coverD", "showV", "release",
              "top", "drawing", "spinV", "spinD", "endV", "lz"}
  /\ pass \in {0, 1} /\ el \in 0..ElMax /\ f \in 0..SegaFrames - 1 /\ side \in {0, 1}
  /\ last \in [{0, 1} -> SUBSET Pictures]
  /\ identity \in 0..2 /\ spent \in 0..DrawMax /\ target \in {0, 1}

\* While the layer is up, the buffer on the screen is black or holds one whole
\* frame of the animation: nothing left from boot, from the LZ scratch, from an
\* earlier frame or from a picture still being drawn.
OneFrameShown == mode # "blank" => buf[fs] \in {{}} \cup {{p} : p \in Pictures}

\* The comment over sega_intro.asm: the Genesis logo is never seen uncovered
\* before the spin has landed on it.  The layer is in front until both buffers
\* hold the logo itself, and it goes only when the shown one does.
LogoCovered ==
  alive /\ logo =>
    \/ mode = "pri"
    \/ mode = "packed" /\ buf[0] = Identity /\ buf[1] = Identity
    \/ mode = "blank" /\ buf[fs] = Identity

\* The SH2 owns the VDP from the time it takes a command until it has cleared
\* it: no write of the cover, the spin or the decompression is lost.
OwnsWhileBusy == alive /\ (spc # "idle" \/ cmd # "none") => fm = "SH2"

\* SegaFinish's promise: whatever became of the SH2, the game goes on with the
\* layer blank and the VDP its own.
LeavesNothingUp == mpc = "done" => mode = "blank" /\ fm = "MD"

\* The animation never steps back, and once the layer is up it goes only after
\* the hand-over to the Genesis logo has been seen.
SpinGoesOn ==
  [][mode # "blank" /\ alive =>
       /\ \A p \in buf[fs], q \in buf'[fs'] : p <= q
       /\ mode' = "blank" => mode = "packed"]_vars

\* The intro never hangs the game: the 68000 gets past both calls.
IntroReturns == <>(mpc = "done")

=============================================================================
