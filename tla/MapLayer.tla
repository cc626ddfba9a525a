----------------------------- MODULE MapLayer -----------------------------
(***************************************************************************)
(* The world map on the 32X layer and the LZ offload that shares the frame *)
(* buffer with it.  Three parties:                                         *)
(*                                                                         *)
(*   - the 68000's main line: the game, which changes the screen id and    *)
(*     the palette and loads compressed blocks through MarsSh2Lz           *)
(*     (disasm/32x/sh2_lz.asm);                                            *)
(*   - the 68000's V-Blank handler, MapScreenVBlank                        *)
(*     (disasm/32x/map_screen.asm);                                        *)
(*   - the SH2's dispatcher loop sh2_rpc_loop and sh2_map_game_draw        *)
(*     (disasm/sh2/master/rpc.c, fb.c).                                    *)
(*                                                                         *)
(* They share MAP_STATE and SH2_STATUS, the command word, the FM bit that  *)
(* says who may touch the 32X VDP, and a double frame buffer whose swap    *)
(* lands at V-Blank.  With FM = 0 an SH2 write to the VDP is ignored.  A   *)
(* V-Blank handler and the main line interleave as interrupts do: the      *)
(* handler runs to its end before the main line goes on.                   *)
(*                                                                         *)
(* The map picture lies below the LZ area of the buffer, so neither        *)
(* overwrites the other.                                                   *)
(***************************************************************************)
EXTENDS Naturals

CONSTANTS
  GenModulus,     \* values of MAP_STATE's generation field (16)
  LingerMax,      \* MAP_LINGER_MAX (48)
  MaxVisits,      \* bounds how often the game opens the map screen
  MaxJobs,        \* bounds how many blocks the game decompresses
  MaxSlack,       \* V-Blanks that may pass between the SH2's answer and the
                  \* dozen masked instructions that take FM back
  FirstFs         \* FS when the game starts; both programs treat the two buffers
                  \* alike, so that one value stands for the other

ASSUME ConstantsAssumption ==
  /\ GenModulus \in Nat \ {0} /\ LingerMax \in Nat
  /\ MaxVisits \in Nat /\ MaxJobs \in Nat /\ MaxSlack \in Nat
  /\ FirstFs \in {0, 1}

MapBuffers == 2           \* MAP_BUFFERS: one draw per frame buffer
AgeLimit   == 3           \* lz_answered_at + 1 counts to here
Gens       == 0..(GenModulus - 1)
NotDrawn   == GenModulus  \* SH2_STATUS = 0; a generation means DRAWN | it
NoJob      == 0
MapOff     == [on |-> FALSE, busy |-> FALSE, gen |-> 0, linger |-> 0]

Md  == "MD"               \* FM = 0
Sh2 == "SH2"              \* FM = 1

VARIABLES
  \* hardware
  fm, fs, fsw,            \* VDP owner, displayed buffer, swap latched
  vb, vint,               \* inside V-Blank; 68000 interrupt pending
  mode, h40,              \* 32X bitmap mode; Genesis VDP 320 wide
  buf, area,              \* per buffer: is it the whole map; job in LZ area
  \* shared words
  ms, status, cmd,
  \* game and LZ thunk
  screen, lit, pal,       \* screen id = 7; CRAM line 1 is the world palette and
                          \* not black; the layer's palette agrees with line 1
  lpc, job, visits, copyOk, slack,
  \* V-Blank handler
  vpc,
  \* SH2
  spc, sa, agree, sfm, mapOn, mapGen, draws,
  pending, seenLow, age, sfs, cut, sjob,
  slipped                 \* history: an answer went astray (see JobEnds)

hardware == <<fm, fs, fsw, vb, vint, mode, h40, buf, area>>
shared   == <<ms, status, cmd>>
game     == <<screen, lit, pal, visits>>
thunk    == <<lpc, job, copyOk, slack>>
loop     == <<mapOn, mapGen, draws, pending, seenLow, age, slipped>>
sh2      == <<spc, sa, agree, sfm, loop, sfs, cut, sjob>>
vars     == <<hardware, shared, game, thunk, vpc, sh2>>

Init ==
  /\ fm = Md /\ fs = FirstFs /\ fsw = fs /\ vb = FALSE /\ vint = FALSE
  /\ mode = "blank" /\ h40 = FALSE
  /\ buf = [b \in {0, 1} |-> FALSE] /\ area = [b \in {0, 1} |-> NoJob]
  /\ ms = MapOff
  /\ status = NotDrawn /\ cmd = NoJob
  /\ screen = FALSE /\ lit \in BOOLEAN /\ pal = FALSE /\ visits = 0
  /\ lpc = "game" /\ job = NoJob /\ copyOk = TRUE /\ slack = 0
  /\ vpc = "none"
  /\ spc = "readA" /\ sa = MapOff /\ agree = FALSE /\ sfm = Md
  /\ mapOn = FALSE /\ mapGen = 0 /\ draws = 0
  /\ pending = FALSE /\ slipped = FALSE /\ seenLow = FALSE /\ age = 0 /\ sfs = 0 /\ cut = FALSE
  /\ sjob = NoJob

\* MapSh2WantsFm: the map is on and this generation is not drawn yet.
Sh2WantsFm == ms.on /\ status # ms.gen

\* The LZ thunk masks interrupts from its first instruction until FM is taken.
Masked == lpc \in {"setFm", "cmd", "wait"}

\* The main line has the processor: no handler runs or is due.
MainRuns == vpc = "none" /\ (Masked \/ ~vint)

\* What a read of the frame buffer control register's FS bit can return to the
\* SH2: the bit when it owns the VDP, anything when it does not.
FsReads == IF fm = Sh2 THEN {fs} ELSE {0, 1}

---------------------------------------------------------------------------
\* Time.  An idle turn of the SH2's loop takes a few microseconds; a frame and
\* the game's own work take longer.  So before any of those ends the SH2 is
\* either in one of its long steps or has seen all there is to see.  A copy may
\* be shorter than a turn.

LongStep ==
  \/ spc \in {"begin", "blit1", "blit2", "job"}
  \/ spc = "vwait" /\ ~vb
  \/ spc = "spin" /\ fs = sfs

UpToDate ==            \* what this turn of the loop has read is still so
  /\ spc = "readB" => sa = ms
  /\ spc = "readFm" => sa = ms /\ agree
  /\ spc = "decide" => sfm = fm

NothingToDo ==
  /\ mapOn = ms.on /\ (mapOn => mapGen = ms.gen)
  /\ cmd = NoJob
  /\ pending => IF fm = Md THEN seenLow ELSE ~seenLow /\ age \in 1..AgeLimit
  /\ ~(mapOn /\ draws # 0 /\ fm = Sh2 /\ ~pending)

Settled ==
  \/ LongStep
  \/ spc \in {"readA", "readB", "readFm", "decide", "service"} /\ UpToDate /\ NothingToDo

VBlankStart ==
  /\ ~vb /\ MainRuns /\ Settled /\ lpc \notin {"setFm", "cmd"}
  /\ lpc = "wait" /\ cmd = NoJob => slack < MaxSlack
  /\ slack' = IF lpc = "wait" /\ cmd = NoJob THEN slack + 1 ELSE slack
  /\ vb' = TRUE /\ vint' = TRUE
  /\ fs' = fsw
  /\ age' = IF age \in 1..AgeLimit THEN age + 1 ELSE age
  /\ UNCHANGED <<fm, fsw, mode, h40, buf, area, shared, game, lpc, job, copyOk, vpc,
                 spc, sa, agree, sfm, mapOn, mapGen, draws, pending, seenLow, slipped, sfs, cut, sjob>>

\* An unmasked handler ends inside the blanking interval it was raised in.
VBlankEnd ==
  /\ vb /\ MainRuns /\ Settled
  /\ vb' = FALSE
  /\ UNCHANGED <<fm, fs, fsw, vint, mode, h40, buf, area, shared, game, thunk, vpc, sh2>>

---------------------------------------------------------------------------
\* MapScreenVBlank.

Enter == vint /\ vpc = "none" /\ ~Masked /\ vint' = FALSE

\* MapMirrorPalette.  Access is open all through V-Blank; outside it the copy
\* may be cut short, which leaves the palette as it was or half way.
MirrorPalette(old) == pal' \in (IF vb THEN {TRUE} ELSE {TRUE, old})

\* Mutation: the palette is copied only when the layer comes up.
FollowsOnce(state) ==
  /\ ms' = state /\ vpc' = "none"
  /\ IF Sh2WantsFm
     THEN UNCHANGED <<fm, mode, h40, pal>>
     ELSE /\ fm' = Md /\ mode' = "packed" /\ h40' = TRUE
          /\ IF mode = "packed" THEN pal' = pal ELSE MirrorPalette(pal)

\* .on, once the SH2 has drawn: the layer is the 68000's, palette and mode.  The
\* palette copy is cut short when the handler runs after access has closed.
Follow(state) ==
  /\ ms' = state /\ vpc' = "none"
  /\ IF Sh2WantsFm
     THEN UNCHANGED <<fm, mode, h40, pal>>
     ELSE fm' = Md /\ mode' = "packed" /\ h40' = TRUE /\ MirrorPalette(pal)

Stays == lit /\ ms.linger < LingerMax

\* Mutation: a held handler leaves register 12 alone.
HoldsOnly ==
  /\ Enter /\ ms.busy
  /\ UNCHANGED <<fm, fs, fsw, vb, mode, h40, buf, area, shared, game, thunk, vpc, sh2>>

VBlankHold ==          \* BUSY: the LZ thunk owns FM
  /\ Enter /\ ms.busy
  /\ h40' = (h40 \/ (ms.on /\ ~Sh2WantsFm))
  /\ UNCHANGED <<fm, fs, fsw, vb, mode, buf, area, shared, game, thunk, vpc, sh2>>

\* Mutation: the layer is switched on without a look at BUSY.
SwitchesOnBusy ==
  /\ Enter /\ screen /\ ~ms.on
  /\ fm' = Sh2 /\ vpc' = "announce"
  /\ UNCHANGED <<fs, fsw, vb, mode, h40, buf, area, shared, game, thunk, sh2>>

VBlankSwitchOn ==      \* FM first, the state word after
  /\ Enter /\ ~ms.busy /\ screen /\ ~ms.on
  /\ fm' = Sh2 /\ vpc' = "announce"
  /\ UNCHANGED <<fs, fsw, vb, mode, h40, buf, area, shared, game, thunk, sh2>>

VBlankAnnounce ==
  /\ vpc = "announce" /\ vpc' = "none"
  /\ ms' = [on |-> TRUE, busy |-> FALSE, gen |-> (ms.gen + 1) % GenModulus, linger |-> 0]
  /\ UNCHANGED <<hardware, status, cmd, game, thunk, sh2>>

VBlankOn ==
  /\ Enter /\ ~ms.busy /\ screen /\ ms.on
  /\ Follow([ms EXCEPT !.linger = 0])
  /\ UNCHANGED <<fs, fsw, vb, buf, area, status, cmd, screen, lit, visits, thunk, sh2>>

\* Mutation: the linger count is not moved on.
LingersUncounted ==
  /\ Enter /\ ~ms.busy /\ ~screen /\ ms.on /\ Stays
  /\ Follow(ms)
  /\ UNCHANGED <<fs, fsw, vb, buf, area, status, cmd, screen, lit, visits, thunk, sh2>>

VBlankLinger ==        \* the screen id has moved on, the picture still fades
  /\ Enter /\ ~ms.busy /\ ~screen /\ ms.on /\ Stays
  /\ Follow([ms EXCEPT !.linger = @ + 1])
  /\ UNCHANGED <<fs, fsw, vb, buf, area, status, cmd, screen, lit, visits, thunk, sh2>>

VBlankSwitchOff ==     \* the state word first, FM and the layer after
  /\ Enter /\ ~ms.busy /\ ~screen /\ ms.on /\ ~Stays
  /\ ms' = [ms EXCEPT !.on = FALSE, !.linger = 0]
  /\ vpc' = "retire"
  /\ UNCHANGED <<fm, fs, fsw, vb, mode, h40, buf, area, status, cmd, game, thunk, sh2>>

VBlankRetire ==
  /\ vpc = "retire" /\ vpc' = "none"
  /\ fm' = Md /\ mode' = "blank" /\ h40' = FALSE
  /\ UNCHANGED <<fs, fsw, vb, vint, buf, area, shared, game, thunk, sh2>>

VBlankNothing ==
  /\ Enter /\ ~ms.busy /\ ~screen /\ ~ms.on
  /\ UNCHANGED <<fm, fs, fsw, vb, mode, h40, buf, area, shared, game, thunk, vpc, sh2>>

Handler ==
  \/ VBlankHold \/ VBlankSwitchOn \/ VBlankAnnounce \/ VBlankOn
  \/ VBlankLinger \/ VBlankSwitchOff \/ VBlankRetire \/ VBlankNothing

---------------------------------------------------------------------------
\* The game's main line.

Playing == lpc = "game" /\ MainRuns /\ Settled

OpenMap ==             \* LoadScreenGfx writes 7
  /\ Playing /\ ~screen /\ visits < MaxVisits
  /\ screen' = TRUE /\ visits' = visits + 1
  /\ UNCHANGED <<hardware, shared, lit, pal, thunk, vpc, sh2>>

LeaveMap ==
  /\ Playing /\ screen
  /\ screen' = FALSE
  /\ UNCHANGED <<hardware, shared, lit, pal, visits, thunk, vpc, sh2>>

\* WriteCharUIDisplay with MarsPaletteWrite: the CRAM line and its shadow
\* change, and the layer with them if it is shown and the palette is open.  A
\* write while FM is the SH2's is lost.
WritePalette ==
  /\ Playing
  /\ lit' \in BOOLEAN
  /\ IF ms.on /\ ~Sh2WantsFm /\ fm = Md THEN MirrorPalette(FALSE) ELSE pal' = FALSE
  /\ UNCHANGED <<hardware, shared, screen, visits, thunk, vpc, sh2>>

\* CmdSetVDPReg: the game writes its own (256-wide) register 12.
WriteReg12 ==
  /\ Playing /\ h40' = FALSE
  /\ UNCHANGED <<fm, fs, fsw, vb, vint, mode, buf, area, shared, game, thunk, vpc, sh2>>

---------------------------------------------------------------------------
\* MarsSh2Lz.

StartLz ==             \* mask, BUSY
  /\ Playing /\ job < MaxJobs
  /\ job' = job + 1 /\ lpc' = "setFm" /\ copyOk' = TRUE
  /\ ms' = [ms EXCEPT !.busy = TRUE]
  /\ UNCHANGED <<hardware, status, cmd, game, slack, vpc, sh2>>

GrantFm ==
  /\ lpc = "setFm" /\ lpc' = "cmd"
  /\ fm' = Sh2
  /\ UNCHANGED <<fs, fsw, vb, vint, mode, h40, buf, area, shared, game, job, copyOk, slack,
                 vpc, sh2>>

SendJob ==
  /\ lpc = "cmd" /\ lpc' = "wait"
  /\ cmd' = job
  /\ UNCHANGED <<hardware, ms, status, game, job, copyOk, slack, vpc, sh2>>

TakeFm ==              \* answered: FM = 0, interrupts open
  /\ lpc = "wait" /\ cmd = NoJob /\ lpc' = "copy1"
  /\ fm' = Md /\ slack' = 0
  /\ UNCHANGED <<fs, fsw, vb, vint, mode, h40, buf, area, shared, game, job, copyOk, vpc, sh2>>

\* A read of the 68000's half of the buffer returns the decompressed block.
ReadsJob == fm = Md /\ area[1 - fs] = job

Copy(from, to) ==
  /\ MainRuns /\ lpc = from /\ lpc' = to
  /\ copyOk' = (copyOk /\ ReadsJob)
  /\ UNCHANGED <<hardware, shared, game, job, slack, vpc, sh2>>

CopyBegins == Copy("copy1", "copy2")
CopyEnds   == Copy("copy2", "release")

\* Mutation: FM is never given back to the SH2.
KeepsFm ==
  /\ MainRuns /\ lpc = "release" /\ lpc' = "dropBusy"
  /\ UNCHANGED <<hardware, shared, game, job, copyOk, slack, vpc, sh2>>

\* LzReleaseFm: test, hand over, and drop BUSY last.
TestRelease ==
  /\ MainRuns /\ lpc = "release"
  /\ lpc' = IF Sh2WantsFm THEN "giveFm" ELSE "dropBusy"
  /\ UNCHANGED <<hardware, shared, game, job, copyOk, slack, vpc, sh2>>

GiveFm ==
  /\ MainRuns /\ lpc = "giveFm" /\ lpc' = "dropBusy"
  /\ fm' = Sh2
  /\ UNCHANGED <<fs, fsw, vb, vint, mode, h40, buf, area, shared, game, job, copyOk, slack,
                 vpc, sh2>>

DropBusy ==
  /\ MainRuns /\ lpc = "dropBusy" /\ lpc' = "game"
  /\ ms' = [ms EXCEPT !.busy = FALSE]
  /\ UNCHANGED <<hardware, status, cmd, game, job, copyOk, slack, vpc, sh2>>

\* The swap the SH2 is waiting for was written while FM was the 68000's.
Stuck == spc = "spin" /\ fsw = sfs

\* Mutation: the wait has no end.
NeverGivesUp == FALSE

\* The timeout is some 130 frames, far more than any draw: it runs out only on
\* an SH2 that is stuck.  The stock routine then does the work.
GiveUp ==
  /\ lpc = "wait" /\ cmd # NoJob /\ Stuck
  /\ lpc' = "release" /\ fm' = Md
  /\ UNCHANGED <<fs, fsw, vb, vint, mode, h40, buf, area, shared, game, job, copyOk, slack,
                 vpc, sh2>>

Thunk ==
  \/ GrantFm \/ SendJob \/ TakeFm \/ CopyBegins \/ CopyEnds
  \/ TestRelease \/ GiveFm \/ DropBusy \/ GiveUp

---------------------------------------------------------------------------
\* sh2_rpc_loop.  Its locals (sa, agree, sfm, sfs, sjob) go back to their first value
\* where they go out of scope.

ReadStateA ==
  /\ spc = "readA" /\ spc' = "readB"
  /\ sa' = ms
  /\ UNCHANGED <<hardware, shared, game, thunk, vpc, agree, sfm, loop, sfs, cut, sjob>>

ReadStateB ==
  /\ spc = "readB" /\ spc' = "readFm"
  /\ agree' = (sa = ms)
  /\ UNCHANGED <<hardware, shared, game, thunk, vpc, sa, sfm, loop, sfs, cut, sjob>>

ReadFm ==
  LET new  == agree /\ sa.on /\ (~mapOn \/ sa.gen # mapGen)
      gone == agree /\ ~sa.on /\ mapOn
  IN /\ spc = "readFm"
     /\ sfm' = fm
     /\ status' = IF new \/ gone THEN NotDrawn ELSE status
     /\ mapOn' = IF gone THEN FALSE ELSE mapOn
     /\ draws' = IF gone THEN 0 ELSE draws
     /\ spc' = IF new THEN "begin" ELSE "decide"
     /\ agree' = FALSE /\ sa' = IF new THEN sa ELSE MapOff
     /\ UNCHANGED <<hardware, ms, cmd, game, thunk, vpc, mapGen,
                    pending, seenLow, age, slipped, sfs, cut, sjob>>

\* sh2_map_game_begin takes several frames; the FM bit read above is not read
\* again after it.
Begin ==
  /\ spc = "begin" /\ spc' = "decide"
  /\ mapOn' = TRUE /\ mapGen' = sa.gen /\ draws' = MapBuffers
  /\ sa' = MapOff
  /\ UNCHANGED <<hardware, shared, game, thunk, vpc, agree, sfm,
                 pending, seenLow, age, slipped, sfs, cut, sjob>>

\* Mutation: a draw starts without waiting out the thunk's copy.
DecidesTooSoon ==
  /\ spc = "decide"
  /\ spc' = IF mapOn /\ draws # 0 /\ sfm = Sh2 THEN "draw" ELSE "service"
  /\ pending' = FALSE
  /\ UNCHANGED <<hardware, shared, game, thunk, vpc, sa, agree, sfm, mapOn, mapGen, draws,
                 seenLow, age, slipped, sfs, cut, sjob>>

Decide ==
  LET since == IF pending /\ age = 0 THEN 1 ELSE age
      over  == pending /\ sfm = Sh2 /\ (seenLow \/ since > AgeLimit)
      still == pending /\ ~over
  IN /\ spc = "decide"
     /\ pending' = still
     /\ seenLow' = (~over /\ (seenLow \/ (pending /\ sfm = Md)))
     /\ age' = IF over THEN 0 ELSE since
     /\ spc' = IF mapOn /\ draws # 0 /\ sfm = Sh2 /\ ~still THEN "draw" ELSE "service"
     /\ sfm' = Md
     /\ UNCHANGED <<hardware, shared, game, thunk, vpc, sa, agree, mapOn, mapGen, draws,
                    slipped, sfs, cut, sjob>>

\* sh2_map_game_draw.
DrawReadsFs ==
  /\ spc = "draw" /\ spc' = "vwait"
  /\ sfs' \in FsReads
  /\ UNCHANGED <<hardware, shared, game, thunk, vpc, sa, agree, sfm, loop, cut, sjob>>

DrawWaitsVBlank ==
  /\ spc = "vwait" /\ spc' = "blit1"
  /\ vb \/ fm = Md
  /\ UNCHANGED <<hardware, shared, game, thunk, vpc, sa, agree, sfm, loop, sfs, cut, sjob>>

BlitBegins ==
  /\ spc = "blit1" /\ spc' = "blit2"
  /\ cut' = (fm = Md)
  /\ UNCHANGED <<hardware, shared, game, thunk, vpc, sa, agree, sfm, loop, sfs, sjob>>

BlitEnds ==
  /\ spc = "blit2" /\ spc' = "swap"
  /\ buf' = IF cut \/ fm = Md THEN buf ELSE [buf EXCEPT ![1 - fs] = TRUE]
  /\ cut' = FALSE
  /\ UNCHANGED <<fm, fs, fsw, vb, vint, mode, h40, area, shared, game, thunk, vpc,
                 sa, agree, sfm, loop, sfs, sjob>>

\* A swap written inside V-Blank takes effect at once.
Swap ==
  /\ spc = "swap" /\ spc' = "spin"
  /\ IF fm = Sh2 THEN fsw' = 1 - sfs /\ fs' = (IF vb THEN 1 - sfs ELSE fs)
                 ELSE UNCHANGED <<fsw, fs>>
  /\ UNCHANGED <<fm, vb, vint, mode, h40, buf, area, shared, game, thunk, vpc,
                 sa, agree, sfm, loop, sfs, cut, sjob>>

\* Mutations: the map counts as drawn after one buffer, or the buffers still to
\* draw are not counted down.
ReportsFirst ==
  /\ spc = "spin" /\ spc' = "service"
  /\ draws' = draws - 1 /\ status' = mapGen
  /\ UNCHANGED <<hardware, ms, cmd, game, thunk, vpc, sa, agree, sfm, mapOn, mapGen,
                 pending, seenLow, age, slipped, sfs, cut, sjob>>

DrawsOn ==
  /\ spc = "spin" /\ spc' = "service"
  /\ status' = mapGen
  /\ UNCHANGED <<hardware, ms, cmd, game, thunk, vpc, sa, agree, sfm, loop, sfs, cut, sjob>>

DrawDone ==
  /\ spc = "spin" /\ spc' = "service"
  /\ draws' = draws - 1
  /\ status' = IF draws = 1 THEN mapGen ELSE status
  /\ sfs' = 0
  /\ UNCHANGED <<hardware, ms, cmd, game, thunk, vpc, sa, agree, sfm, mapOn, mapGen,
                 pending, seenLow, age, slipped, cut, sjob>>

DrawEnds == fs # sfs /\ DrawDone

\* With FM = 0 the read is undefined, so it may come out changed; nothing says
\* that it ever will.
DrawMisreads == fs = sfs /\ fm = Md /\ DrawDone

\* sh2_service, for the one command that uses the frame buffer.
ServiceIdle ==
  /\ spc = "service" /\ cmd = NoJob /\ spc' = "readA"
  /\ UNCHANGED <<hardware, shared, game, thunk, vpc, sa, agree, sfm, loop, sfs, cut, sjob>>

JobBegins ==
  /\ spc = "service" /\ cmd # NoJob /\ spc' = "job"
  /\ cut' = (fm = Md) /\ sjob' = cmd
  /\ UNCHANGED <<hardware, shared, game, thunk, vpc, sa, agree, sfm, loop, sfs>>

\* The answer goes astray if the command it takes off is not the one it is for
\* (that was given up: Sh2Rpc's late answer), or if the SH2 still waits for the
\* copy of an earlier block: it has one flag and one time for both.
JobEnds ==
  /\ spc = "job" /\ spc' = "readA"
  /\ area' = IF cut \/ fm = Md THEN area ELSE [area EXCEPT ![1 - fs] = sjob]
  /\ pending' = TRUE /\ slipped' = (slipped \/ pending \/ cmd # sjob)
  /\ cmd' = NoJob
  /\ cut' = FALSE /\ sjob' = NoJob
  /\ UNCHANGED <<fm, fs, fsw, vb, vint, mode, h40, buf, ms, status, game, thunk, vpc,
                 sa, agree, sfm, mapOn, mapGen, draws, seenLow, age, sfs>>

Loop ==
  \/ ReadStateA \/ ReadStateB \/ ReadFm \/ Begin \/ Decide
  \/ DrawReadsFs \/ DrawWaitsVBlank \/ BlitBegins \/ BlitEnds \/ Swap \/ DrawEnds
  \/ ServiceIdle \/ JobBegins \/ JobEnds

---------------------------------------------------------------------------
Next ==
  \/ VBlankStart \/ VBlankEnd \/ Handler
  \/ OpenMap \/ LeaveMap \/ WritePalette \/ WriteReg12 \/ StartLz
  \/ Thunk \/ Loop \/ DrawMisreads

Safe == Init /\ [][Next]_vars

\* The display goes on, and both processors run; the interrupts leave the main
\* line time to run in every frame.  Nothing is asked of the game.
Spec == /\ Safe
        /\ WF_vars(VBlankStart) /\ WF_vars(VBlankEnd)
        /\ WF_vars(Handler) /\ SF_vars(Thunk) /\ WF_vars(Loop)
---------------------------------------------------------------------------
\* Properties.

MapState == [on : BOOLEAN, busy : BOOLEAN, gen : Gens, linger : 0..LingerMax]
Jobs     == NoJob..MaxJobs

TypeOK ==
  /\ fm \in {Md, Sh2} /\ fs \in {0, 1} /\ fsw \in {0, 1} /\ vb \in BOOLEAN /\ vint \in BOOLEAN
  /\ mode \in {"blank", "packed"} /\ h40 \in BOOLEAN
  /\ buf \in [{0, 1} -> BOOLEAN] /\ area \in [{0, 1} -> Jobs]
  /\ ms \in MapState /\ status \in Gens \cup {NotDrawn} /\ cmd \in Jobs
  /\ screen \in BOOLEAN /\ lit \in BOOLEAN /\ pal \in BOOLEAN
  /\ visits \in 0..MaxVisits
  /\ lpc \in {"game", "setFm", "cmd", "wait", "copy1", "copy2", "release", "giveFm", "dropBusy"}
  /\ job \in Jobs /\ copyOk \in BOOLEAN /\ slack \in 0..MaxSlack
  /\ vpc \in {"none", "announce", "retire"}
  /\ spc \in {"readA", "readB", "readFm", "begin", "decide", "draw", "vwait", "blit1", "blit2",
              "swap", "spin", "service", "job"}
  /\ sa \in MapState /\ agree \in BOOLEAN /\ sfm \in {Md, Sh2}
  /\ mapOn \in BOOLEAN /\ mapGen \in Gens /\ draws \in 0..MapBuffers
  /\ pending \in BOOLEAN /\ slipped \in BOOLEAN /\ seenLow \in BOOLEAN /\ age \in 0..(AgeLimit + 1)
  /\ sfs \in {0, 1} /\ cut \in BOOLEAN /\ sjob \in Jobs

Drawing == spc \in {"draw", "vwait", "blit1", "blit2", "swap", "spin"}

\* The bytes a decompression returns are those of the block asked for: for the
\* whole copy, with interrupts open, FM stays the 68000's and no swap puts the
\* other buffer in front of it (sh2_lz.asm .copy; map_screen.asm BUSY; rpc.c
\* lz_copy_pending).  An SH2 that comes back to a block given up waits for a copy
\* that is over, or never is made; from there on nothing is promised.
CopyIntact == copyOk \/ slipped

\* The layer is never shown on the strength of an earlier visit's drawing: the
\* SH2 has finished the generation that is on (map_screen.asm .on, rpc.c
\* SH2_DRAWN).
DrawnThisVisit == mode = "packed" /\ ms.on => mapOn /\ mapGen = ms.gen /\ draws = 0

\* And never with a buffer that does not hold the whole map, also when the game
\* leaves in the middle of a draw and comes back (map_screen.asm .want_off, fb.c
\* sh2_map_game_draw), unless a block has been given up.
ShownIsDrawn ==
  /\ mode = "packed" => (buf[0] /\ buf[1]) \/ slipped
  /\ DrawnThisVisit

\* The SH2 keeps FM for the whole of a draw of the map that is on, so no part of
\* that picture is dropped and no swap is lost (rpc.c, "Draw only while FM is
\* actually granted").
DrawKeepsFm == Drawing /\ ms.on /\ mapGen = ms.gen => fm = Sh2 \/ slipped

\* However the handler ends, a shown layer leaves it on a 320-wide screen, even
\* if the game has written its own register 12 (map_screen.asm .force_h40 and
\* .hold; an illegal mode pair otherwise).
HandlerEnds == vpc' = "none" /\ (vpc # "none" \/ (vint /\ ~vint'))
HandlerForcesH40 == [][HandlerEnds /\ mode' = "packed" => h40']_vars

\* The picture on screen is not swapped once the layer is shown: the SH2 has no
\* more draws to make (rpc.c map_draws, MAP_BUFFERS).
ShownIsStill == [][mode = "packed" /\ mode' = "packed" => fs' = fs]_vars

\* If the game stays on the map screen, and the SH2 is not stuck in an old draw,
\* the layer appears and stays.
MapAppears == <>[](screen /\ ~Stuck) => <>[](mode = "packed")

\* If the game stays off it the layer goes and stays away, whatever becomes of
\* the palette (map_screen.asm MAP_LINGER_MAX).
LayerGoes == <>[]~screen => <>[](mode = "blank")

\* Every decompression returns to the game, stuck SH2 or not.
LzReturns == lpc # "game" ~> lpc = "game"

\* A shown layer whose palette has fallen behind the game's catches up.
PaletteCatchesUp == mode = "packed" /\ ~pal ~> pal \/ mode = "blank"

\* fb.c:366, "Anything the game drives therefore draws a bounded amount and
\* hands control back to the dispatcher".
DrawReturns == Drawing ~> ~Drawing

\* rpc.c:242, "if FM was never seen low two V-Blanks after answering, the copy
\* is over and nothing is left to cut off".
NoDrawDuringCopy == Drawing => lpc \notin {"copy1", "copy2"}
===========================================================================
