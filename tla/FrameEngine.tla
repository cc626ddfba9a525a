----------------------------- MODULE FrameEngine -----------------------------
\* The game's frame engine: GameCommand, which the main line calls with
\* interrupts on, and VBlankInt, which may come between any two of its
\* instructions and serves what the commands leave in work RAM.  Both put DMA
\* parameters in one staging area and fire them through ConfigVDPDMA and, in the
\* 32X build, MarsDmaThunk.
EXTENDS Integers

CONSTANTS
  Slots,         \* sprites of the table are numbered 1..Slots (64 or 80)
  ObjectSlots,   \* those of the one blinking object
  Heights,       \* where a sprite may be put; 0 is off the screen
  Blink,         \* V-Blanks between two changes of it
  Animations,    \* palette animations: [frames, delay]
  BarPeriod,     \* V-Blanks between two uploads of the scroll bar
  RowsWanted,    \* heights of the blocks read back by command 28,
  MaxRows,       \*   and the greatest of them
  FramesWanted,  \* arguments of command 14
  Calls          \* bound: commands the game issues

ASSUME EngineAssumption ==
  /\ Slots \in Nat /\ ObjectSlots \subseteq 1..Slots /\ Heights \subseteq Nat
  /\ Blink \in Nat \ {0} /\ BarPeriod \in Nat \ {0} /\ Calls \in Nat
  /\ Animations \subseteq [frames: Nat \ {0}, delay: Nat \ {0}]
  /\ MaxRows \in Nat /\ RowsWanted \subseteq 1..MaxRows /\ FramesWanted \subseteq Nat

VARIABLES
  main,       \* where the main line is
  masked,     \* its interrupt mask
  resume,     \* where command 14 returns to
  owner,      \* whose transfer the main line stages
  calls,      \* commands issued, and the number of the current one
  left,       \* frames or rows of the current command still to do
  shadow,     \* bit 5 of $1(a5): the display and its interrupt are on
  reg1,       \* bit 5 of VDP register 1
  handler,    \* the part of VBlankInt that is next, "out" outside it
  dma,        \* ConfigVDPDMA: "idle", "asked" or "busy"
  rv,         \* RV: the cartridge is mapped for the VDP alone
  staged,     \* who wrote the two halves of $1D..$42, and whether from ROM
  ram, table, \* the sprite table in work RAM and in video RAM
  object,     \* $B26..$B2E
  animation,  \* $BD4..$BE2
  bar,        \* the scroll bar's flag and its tick
  waiting,    \* $36
  dispatch,   \* $2B
  copy,       \* $2A..$34: the calls that wrote its two halves
  rows,       \* $4C..$54: next row to read, next place for it, rows left
  mask,       \* $BE4
  pressed,    \* $BE8
  want, seen, copied, placed  \* history: what was asked for and what was done

program  == <<main, masked, resume, owner, calls, left>>
register == <<shadow, reg1>>
transfer == <<dma, rv, staged>>
sprites  == <<ram, table, object>>
effects  == <<animation, bar>>
requests == <<waiting, dispatch, copy, rows>>
timer    == <<mask, pressed>>
history  == <<want, seen, copied, placed>>
vars == <<program, register, handler, transfer, sprites, effects, requests, timer, history>>

Sprites == 1..Slots
Parties == {"command", "table", "animation", "bar"}
RowsPerBlank == 4
Buttons == {"start"}
NoShape == [n |-> 0, frames |-> 1, delay |-> 1]
NothingPlaced == [i \in 0..(MaxRows - 1) |-> -1]
NothingCopied == [what |-> 0, where |-> 0]

Init ==
  /\ main = "idle" /\ masked = FALSE /\ resume = "idle" /\ owner = "command"
  /\ calls = 0 /\ left = 0
  /\ shadow \in BOOLEAN /\ reg1 = shadow
  /\ handler = "out"
  /\ dma = "idle" /\ rv = FALSE /\ staged = [source |-> "table", target |-> "table", rom |-> FALSE]
  /\ ram = [s \in Sprites |-> [y |-> 0, linked |-> TRUE]] /\ table = ram
  /\ object = [on |-> FALSE, tick |-> 0, show |-> FALSE, y |-> 0]
  /\ animation = [on |-> FALSE, place |-> 0, shape |-> NoShape, frame |-> 0, delay |-> 0]
  /\ bar = [on |-> FALSE, tick |-> 0]
  /\ waiting = FALSE /\ dispatch = 0 /\ copy = NothingCopied /\ rows = [at |-> 0, to |-> 0, left |-> 0]
  /\ mask = {} /\ pressed = {}
  /\ want = 0 /\ seen = 0 /\ copied = NothingCopied /\ placed = NothingPlaced

-----------------------------------------------------------------------------
\* One transfer.  ConfigVDPDMA turns the display interrupt off in register 1
\* only, programs the VDP from the staging area and starts it; SetVDPDisplayBit
\* puts the register back from its shadow.  A source in the cartridge window is
\* read with RV set.
DmaStart ==
  /\ dma = "asked"
  /\ dma' = "busy"
  /\ reg1' = FALSE
  /\ rv' = staged.rom
  /\ UNCHANGED <<program, shadow, handler, staged, sprites, effects, requests, timer, history>>

\* Mutation: the window body returns without clearing RV.
DmaEndInWindow ==
  /\ dma = "busy"
  /\ dma' = "idle"
  /\ reg1' = shadow
  /\ table' = IF staged.target = "table" THEN ram ELSE table
  /\ UNCHANGED <<program, shadow, handler, rv, staged, ram, object, effects, requests, timer, history>>

DmaEnd ==
  /\ dma = "busy"
  /\ dma' = "idle"
  /\ reg1' = shadow
  /\ rv' = FALSE
  /\ table' = IF staged.target = "table" THEN ram ELSE table
  /\ UNCHANGED <<program, shadow, handler, staged, ram, object, effects, requests, timer, history>>

Dma == DmaStart \/ DmaEnd

-----------------------------------------------------------------------------
\* The V-Blank handler.

\* A request the handler and the commands stage in one go.
Stage(party, rom) ==
  /\ staged' = [source |-> party, target |-> party, rom |-> rom]
  /\ dma' = "asked"
  /\ UNCHANGED rv

NoTransfer == UNCHANGED transfer

\* InitSpriteLinks: every entry points at the next one, the last at none.
Linked(t) == [s \in Sprites |-> [t[s] EXCEPT !.linked = TRUE]]

VBlank ==
  /\ handler = "out" /\ ~masked /\ reg1
  /\ handler' = "display"
  /\ UNCHANGED <<program, register, transfer, sprites, effects, requests, timer, history>>

\* The object of command 11 shown or hidden.
Blinked == [s \in Sprites |->
  IF s \in ObjectSlots THEN [ram[s] EXCEPT !.y = IF object.show THEN object.y ELSE 0] ELSE ram[s]]

\* Mutation: the links are left to the commands.
RelinkedNever(t) == t

Relinked(t) == Linked(t)

DisplayUpdate ==
  /\ handler = "display"
  /\ handler' = "animate"
  /\ \/ /\ object.on /\ object.tick = 1
        /\ ram' = Relinked(Blinked)
        /\ object' = [object EXCEPT !.show = ~@, !.tick = Blink]
        /\ Stage("table", FALSE)
     \/ /\ object.on /\ object.tick # 1
        /\ object' = [object EXCEPT !.tick = @ - 1]
        /\ NoTransfer /\ UNCHANGED ram
     \/ ~object.on /\ NoTransfer /\ UNCHANGED <<ram, object>>
  /\ UNCHANGED <<program, register, table, effects, requests, timer, history>>

\* A counter of the animation, which goes back to 0 where it equals its limit.
Advanced(n, limit) == IF n + 1 = limit THEN 0 ELSE n + 1

\* Nothing is fired, and no counter moves, if the blanking period is over; the
\* parameters have been staged by then.
VIntSub1(blank) ==
  /\ handler = "animate" /\ dma = "idle"
  /\ handler' = "callback"
  /\ \/ ~animation.on /\ NoTransfer /\ UNCHANGED animation
     \/ /\ animation.on /\ animation.delay # 0
        /\ animation' = [animation EXCEPT !.delay = Advanced(@, animation.shape.delay)]
        /\ NoTransfer
     \/ /\ animation.on /\ animation.delay = 0 /\ blank
        /\ animation' = [animation EXCEPT
             !.frame = Advanced(@, animation.shape.frames),
             !.delay = Advanced(@, animation.shape.delay)]
        /\ Stage("animation", FALSE)
     \/ /\ animation.on /\ animation.delay = 0 /\ ~blank
        /\ staged' = [source |-> "animation", target |-> "animation", rom |-> FALSE]
        /\ UNCHANGED <<dma, rv, animation>>
  /\ UNCHANGED <<program, register, sprites, bar, requests, timer, history>>

\* The callback DispatchScrollUpdates: the scroll bar's next picture, which lies in
\* work RAM, goes out through GameCommand 5, called from inside the interrupt.
VIntSub2 ==
  /\ handler = "callback" /\ dma = "idle"
  /\ handler' = "dispatch"
  /\ \/ bar.on /\ bar.tick + 1 >= BarPeriod
        /\ bar' = [bar EXCEPT !.tick = 0] /\ Stage("bar", FALSE)
     \/ bar.on /\ bar.tick + 1 < BarPeriod
        /\ bar' = [bar EXCEPT !.tick = @ + 1] /\ NoTransfer
     \/ ~bar.on /\ NoTransfer /\ UNCHANGED bar
  /\ UNCHANGED <<program, register, sprites, animation, requests, timer, history>>

\* VInt_Handler3: up to four rows, and what is needed to go on with the rest.
Lesser(m, n) == IF m < n THEN m ELSE n

\* Mutation: the place reached in the buffer is not kept for the next V-Blank.
PlaceForgotten == rows.to

PlaceReached == rows.to + RowsPerBlank

ReadRows ==
  LET pass == Lesser(RowsPerBlank, rows.left) IN
  /\ placed' = [i \in DOMAIN placed |->
       IF i \in rows.to..(rows.to + pass - 1) THEN rows.at + i - rows.to ELSE placed[i]]
  /\ IF pass = rows.left
       THEN dispatch' = 0 /\ rows' = [rows EXCEPT !.at = @ + pass]
       ELSE /\ rows' = [at |-> rows.at + pass, to |-> PlaceReached, left |-> rows.left - pass]
            /\ UNCHANGED dispatch

Dispatch ==
  /\ handler = "dispatch" /\ dma = "idle"
  /\ handler' = "timer"
  /\ \/ dispatch = 1 /\ copied' = copy /\ dispatch' = 0 /\ UNCHANGED <<rows, placed>>
     \/ dispatch = 4 /\ ReadRows /\ UNCHANGED copied
     \/ dispatch = 0 /\ UNCHANGED <<dispatch, rows, copied, placed>>
  /\ UNCHANGED <<program, register, transfer, sprites, effects, waiting, copy, timer, want, seen>>

\* SubsysUpdate4 adds the buttons held to those pressed since command 36; then
\* the frame is over.
LastUpdates(held) ==
  /\ handler = "timer"
  /\ handler' = "out"
  /\ pressed' = pressed \cup (held \cap mask)
  /\ waiting' = FALSE
  /\ seen' = IF seen < want THEN seen + 1 ELSE seen
  /\ UNCHANGED <<program, register, transfer, sprites, effects, dispatch, copy, rows, mask,
                 want, copied, placed>>

Handler ==
  \/ DisplayUpdate
  \/ \E blank \in BOOLEAN : VIntSub1(blank)
  \/ VIntSub2
  \/ Dispatch
  \/ \E held \in SUBSET Buttons : LastUpdates(held)

-----------------------------------------------------------------------------
\* The main line: GameCommand and what it calls, a store at a time where the
\* interrupt can see the difference.

Goto(label) == main' = label /\ UNCHANGED <<masked, resume, owner, left, calls>>

\* The game issues a command.
Issue(label) ==
  /\ main = "idle" /\ calls < Calls
  /\ calls' = calls + 1
  /\ main' = label

At(label) == main = label /\ handler = "out"

\* Commands 5, 26 and 27: the parameters are staged and fired, once for
\* each row, with interrupts masked.
\* Mutation: interrupts are left on.
BeginTransferOpen(n) ==
  /\ At("idle") /\ Issue("source")
  /\ owner' = "command" /\ left' = n
  /\ UNCHANGED <<masked, resume, register, handler, transfer, sprites, effects, requests, timer, history>>

BeginTransfer(n) ==
  /\ At("idle") /\ Issue("source")
  /\ owner' = "command" /\ left' = n /\ masked' = TRUE
  /\ UNCHANGED <<resume, register, handler, transfer, sprites, effects, requests, timer, history>>

StageSource(rom) ==
  /\ At("source") /\ Goto("target")
  /\ staged' = [staged EXCEPT !.source = owner, !.rom = rom]
  /\ owner = "table" => ~rom
  /\ UNCHANGED <<register, handler, dma, rv, sprites, effects, requests, timer, history>>

StageTarget ==
  /\ At("target") /\ Goto("fire")
  /\ staged' = [staged EXCEPT !.target = owner]
  /\ UNCHANGED <<register, handler, dma, rv, sprites, effects, requests, timer, history>>

Fire ==
  /\ At("fire") /\ Goto("fired")
  /\ dma' = "asked"
  /\ UNCHANGED <<register, handler, rv, staged, sprites, effects, requests, timer, history>>

Fired ==
  /\ At("fired") /\ dma = "idle"
  /\ IF left > 1
       THEN main' = "target" /\ left' = left - 1 /\ UNCHANGED masked
       ELSE main' = "idle" /\ left' = 0 /\ masked' = FALSE
  /\ UNCHANGED <<resume, owner, calls, register, handler, transfer, sprites, effects, requests,
                 timer, history>>

\* Commands 15 and 16: entries are written and linked with interrupts on, and
\* only the upload is masked.  The links of 15 come from the game's data.
UpdateSprites(entries, y) ==
  /\ At("idle") /\ Issue("link")
  /\ ram' = [s \in Sprites |-> IF s \in entries THEN [y |-> y, linked |-> FALSE] ELSE ram[s]]
  /\ UNCHANGED <<masked, resume, owner, left, register, handler, transfer, table, object, effects,
                 requests, timer, history>>

Cleared(entries) == [s \in Sprites |-> IF s \in entries THEN [ram[s] EXCEPT !.y = 0] ELSE ram[s]]

ClearSprites(entries) ==
  /\ At("idle") /\ Issue("link")
  /\ ram' = Cleared(entries)
  /\ UNCHANGED <<masked, resume, owner, left, register, handler, transfer, table, object, effects,
                 requests, timer, history>>

InitSpriteLinks ==
  /\ At("link") /\ Goto("layout")
  /\ ram' = Linked(ram)
  /\ UNCHANGED <<register, handler, transfer, table, object, effects, requests, timer, history>>

InitDisplayLayout ==
  /\ At("layout")
  /\ main' = "source" /\ masked' = TRUE /\ owner' = "table" /\ left' = 1
  /\ UNCHANGED <<resume, calls, register, handler, transfer, sprites, effects, requests, timer, history>>

\* Command 11: the object is described, put into the table and armed; or
\* disarmed and cleared.  The one caller arms and disarms in turn, with the same
\* entries each time.
SetupObject ==
  /\ At("idle") /\ Issue("objectEntries") /\ ~object.on
  /\ object' = [object EXCEPT !.tick = 1]
  /\ UNCHANGED <<masked, resume, owner, left, register, handler, transfer, ram, table, effects,
                 requests, timer, history>>

\* Each entry is linked to the next one, also where there is none.
ObjectEntries(y) ==
  /\ At("objectEntries") /\ Goto("objectOn")
  /\ ram' = [s \in Sprites |-> IF s \in ObjectSlots THEN [y |-> y, linked |-> s # Slots] ELSE ram[s]]
  /\ object' = [object EXCEPT !.y = y]
  /\ UNCHANGED <<register, handler, transfer, table, effects, requests, timer, history>>

ObjectOn ==
  /\ At("objectOn") /\ Goto("objectShow")
  /\ object' = [object EXCEPT !.on = TRUE]
  /\ UNCHANGED <<register, handler, transfer, ram, table, effects, requests, timer, history>>

ObjectShow ==
  /\ At("objectShow") /\ Goto("idle")
  /\ object' = [object EXCEPT !.show = TRUE]
  /\ UNCHANGED <<register, handler, transfer, ram, table, effects, requests, timer, history>>

ObjectOff ==
  /\ At("idle") /\ Issue("objectClear") /\ object.on
  /\ object' = [object EXCEPT !.on = FALSE]
  /\ UNCHANGED <<masked, resume, owner, left, register, handler, transfer, ram, table, effects,
                 requests, timer, history>>

ObjectClear ==
  /\ At("objectClear") /\ Goto("link")
  /\ ram' = Cleared(ObjectSlots)
  /\ UNCHANGED <<register, handler, transfer, table, object, effects, requests, timer, history>>

\* Command 35: the animation is stopped, described, wound back and started; or
\* only stopped; or, with length 0, started again as it was described before.
BeginAnimation(how) ==
  /\ At("idle")
  /\ Issue(CASE how = "off" -> "idle" [] how = "new" -> "place" [] how = "again" -> "wind")
  /\ how = "again" => animation.place # 0
  /\ animation' = [animation EXCEPT !.on = FALSE]
  /\ UNCHANGED <<masked, resume, owner, left, register, handler, transfer, sprites, bar,
                 requests, timer, history>>

AnimationStep(from, to) ==
  /\ At(from) /\ Goto(to)
  /\ UNCHANGED <<register, handler, transfer, sprites, bar, requests, timer, history>>

AnimationPlace ==
  /\ AnimationStep("place", "shape")
  /\ animation' = [animation EXCEPT !.place = calls]

AnimationShape(a) ==
  /\ AnimationStep("shape", "wind")
  /\ animation' = [animation EXCEPT !.shape = [n |-> calls, frames |-> a.frames, delay |-> a.delay]]

AnimationWind ==
  /\ AnimationStep("wind", "start")
  /\ animation' = [animation EXCEPT !.frame = 0, !.delay = 0]

AnimationStart ==
  /\ AnimationStep("start", "idle")
  /\ animation' = [animation EXCEPT !.on = TRUE]

-----------------------------------------------------------------------------
\* Command 14 waits for frames, if there are any to wait for.
Await(n, next) ==
  /\ resume' = next
  /\ IF shadow
       THEN main' = "frames" /\ left' = n /\ want' = n /\ seen' = 0
       ELSE main' = next /\ UNCHANGED <<left, want, seen>>

WaitFrames(n) ==
  /\ At("idle") /\ calls < Calls /\ calls' = calls + 1
  /\ Await(n, "idle")
  /\ UNCHANGED <<masked, owner, register, handler, transfer, sprites, effects, requests, timer,
                 copied, placed>>

NextFrame ==
  /\ At("frames")
  /\ IF left = 0
       THEN main' = resume /\ want' = 0 /\ seen' = 0 /\ UNCHANGED <<left, waiting>>
       ELSE main' = "spin" /\ waiting' = TRUE /\ left' = left - 1 /\ UNCHANGED <<want, seen>>
  /\ UNCHANGED <<masked, resume, owner, calls, register, handler, transfer, sprites, effects,
                 dispatch, copy, rows, timer, copied, placed>>

Spin ==
  /\ At("spin") /\ ~waiting /\ Goto("frames")
  /\ UNCHANGED <<register, handler, transfer, sprites, effects, requests, timer, history>>

\* ConfigScrollBar takes the bar off, waits a frame, and may set it up anew.
ConfigScrollBar(next) ==
  /\ At("idle") /\ calls < Calls /\ calls' = calls + 1
  /\ bar' = [bar EXCEPT !.on = FALSE]
  /\ Await(1, next)
  /\ UNCHANGED <<masked, owner, register, handler, transfer, sprites, animation, requests, timer,
                 copied, placed>>

BarSet ==
  /\ At("barSet") /\ Goto("barOn")
  /\ bar' = [bar EXCEPT !.tick = 0]
  /\ UNCHANGED <<register, handler, transfer, sprites, animation, requests, timer, history>>

BarOn ==
  /\ At("barOn") /\ Goto("idle")
  /\ bar' = [bar EXCEPT !.on = TRUE]
  /\ UNCHANGED <<register, handler, transfer, sprites, animation, requests, timer, history>>

\* Command 8: a copy between work RAM and video RAM, described and then left to
\* the handler; without the interrupt it is made at once.
CopyWhat ==
  /\ At("idle") /\ Issue("copyWhere")
  /\ copy' = [copy EXCEPT !.what = calls + 1]
  /\ UNCHANGED <<masked, resume, owner, left, register, handler, transfer, sprites, effects,
                 waiting, dispatch, rows, timer, history>>

CopyWhere ==
  /\ At("copyWhere") /\ Goto("copyAsk")
  /\ copy' = [copy EXCEPT !.where = calls]
  /\ UNCHANGED <<register, handler, transfer, sprites, effects, waiting, dispatch, rows, timer, history>>

CopyAsk ==
  /\ At("copyAsk") /\ Goto("copyEnd")
  /\ IF shadow THEN dispatch' = 1 /\ UNCHANGED copied
               ELSE copied' = copy /\ UNCHANGED dispatch
  /\ UNCHANGED <<register, handler, transfer, sprites, effects, waiting, copy, rows, timer,
                 want, seen, placed>>

CopyEnd ==
  /\ At("copyEnd") /\ dispatch = 0 /\ Goto("idle")
  /\ copied' = NothingCopied
  /\ UNCHANGED <<register, handler, transfer, sprites, effects, requests, timer, want, seen, placed>>

\* Command 28: rows read back four to a V-Blank; without the interrupt the main
\* line calls the handler's routine itself until it is through.
RowsBegin(n) ==
  /\ At("idle") /\ Issue("rowsAsk")
  /\ rows' = [at |-> 0, to |-> 0, left |-> n]
  /\ want' = n
  /\ UNCHANGED <<masked, resume, owner, left, register, handler, transfer, sprites, effects,
                 waiting, dispatch, copy, timer, seen, copied, placed>>

RowsAsk ==
  /\ At("rowsAsk") /\ Goto("rowsEnd")
  /\ dispatch' = 4
  /\ UNCHANGED <<register, handler, transfer, sprites, effects, waiting, copy, rows, timer, history>>

RowsDirect ==
  /\ At("rowsEnd") /\ dispatch # 0 /\ ~shadow
  /\ ReadRows
  /\ UNCHANGED <<program, register, handler, transfer, sprites, effects, waiting, copy, timer,
                 want, seen, copied>>

RowsEnd ==
  /\ At("rowsEnd") /\ dispatch = 0 /\ Goto("idle")
  /\ want' = 0 /\ placed' = NothingPlaced /\ seen' = 0
  /\ UNCHANGED <<register, handler, transfer, sprites, effects, requests, timer, copied>>

\* Command 36: which buttons to look for, and none of them seen yet.
SetTimer(buttons) ==
  /\ At("idle") /\ Issue("timerClear")
  /\ mask' = buttons
  /\ UNCHANGED <<masked, resume, owner, left, register, handler, transfer, sprites, effects,
                 requests, pressed, history>>

TimerClear ==
  /\ At("timerClear") /\ Goto("idle")
  /\ pressed' = {}
  /\ UNCHANGED <<register, handler, transfer, sprites, effects, requests, mask, history>>

\* Commands 12 and 13: display and interrupt on or off, first in the shadow, then
\* in the register.
\* Mutation: the register first.
StoreRegisterFirst(which, on) ==
  IF which = 1 THEN reg1' = on /\ UNCHANGED shadow ELSE shadow' = on /\ UNCHANGED reg1

Store(which, on) ==
  IF which = 1 THEN shadow' = on /\ UNCHANGED reg1 ELSE reg1' = on /\ UNCHANGED shadow

SwitchDisplay(on) ==
  /\ At("idle") /\ Issue(IF on THEN "enable" ELSE "disable")
  /\ Store(1, on)
  /\ UNCHANGED <<masked, resume, owner, left, handler, transfer, sprites, effects, requests,
                 timer, history>>

DisplaySwitched(on) ==
  /\ At(IF on THEN "enable" ELSE "disable") /\ Goto("idle")
  /\ Store(2, on)
  /\ UNCHANGED <<handler, transfer, sprites, effects, requests, timer, history>>

Command ==
  \/ \E n \in 1..2 : BeginTransfer(n)
  \/ \E first \in Sprites, last \in Sprites, y \in Heights : UpdateSprites(first..last, y)
  \/ \E first \in Sprites, last \in Sprites : ClearSprites(first..last)
  \/ SetupObject \/ ObjectOff
  \/ \E how \in {"off", "new", "again"} : BeginAnimation(how)
  \/ \E n \in FramesWanted : WaitFrames(n)
  \/ \E next \in {"idle", "barSet"} : ConfigScrollBar(next)
  \/ CopyWhat
  \/ \E n \in RowsWanted : RowsBegin(n)
  \/ \E buttons \in SUBSET Buttons : SetTimer(buttons)
  \/ \E on \in BOOLEAN : SwitchDisplay(on)

Step ==
  \/ \E rom \in BOOLEAN : StageSource(rom)
  \/ StageTarget \/ Fire \/ Fired
  \/ InitSpriteLinks \/ InitDisplayLayout
  \/ \E y \in Heights : ObjectEntries(y)
  \/ ObjectOn \/ ObjectShow \/ ObjectClear
  \/ AnimationPlace \/ AnimationWind \/ AnimationStart
  \/ \E a \in Animations : AnimationShape(a)
  \/ NextFrame \/ Spin \/ BarSet \/ BarOn
  \/ CopyWhere \/ CopyAsk \/ CopyEnd
  \/ RowsAsk \/ RowsDirect \/ RowsEnd
  \/ TimerClear
  \/ \E on \in BOOLEAN : DisplaySwitched(on)

Next == Command \/ Step \/ Dma \/ VBlank \/ Handler

\* The display and the handler go on for ever; a frame leaves the main line time
\* for some of its own instructions.  The game need not issue anything.
Fairness == WF_vars(VBlank) /\ WF_vars(Handler) /\ WF_vars(Dma) /\ SF_vars(Step)

Spec == Init /\ [][Next]_vars /\ Fairness

-----------------------------------------------------------------------------
MainLabels ==
  {"idle", "source", "target", "fire", "fired", "link", "layout", "objectEntries", "objectOn",
   "objectShow", "objectClear", "place", "shape", "wind", "start", "frames", "spin", "barSet",
   "barOn", "copyWhere", "copyAsk", "copyEnd", "rowsAsk", "rowsEnd", "timerClear", "enable",
   "disable"}
Tables == [Sprites -> [y: {0} \cup Heights, linked: BOOLEAN]]

ProgramTyped ==
  /\ main \in MainLabels /\ masked \in BOOLEAN /\ resume \in {"idle", "barSet"}
  /\ owner \in {"command", "table"} /\ calls \in Nat /\ left \in Nat
InterruptTyped ==
  /\ shadow \in BOOLEAN /\ reg1 \in BOOLEAN
  /\ handler \in {"out", "display", "animate", "callback", "dispatch", "timer"}
TransferTyped ==
  /\ dma \in {"idle", "asked", "busy"} /\ rv \in BOOLEAN
  /\ staged \in [source: Parties, target: Parties, rom: BOOLEAN]
SpritesTyped ==
  /\ ram \in Tables /\ table \in Tables
  /\ object \in [on: BOOLEAN, tick: Nat, show: BOOLEAN, y: {0} \cup Heights]
EffectsTyped ==
  /\ animation \in [on: BOOLEAN, place: Nat, shape: [n: Nat, frames: Nat \ {0}, delay: Nat \ {0}],
                    frame: Nat, delay: Nat]
  /\ bar \in [on: BOOLEAN, tick: Nat]
RequestsTyped ==
  /\ waiting \in BOOLEAN /\ dispatch \in {0, 1, 4}
  /\ copy \in [what: Nat, where: Nat] /\ rows \in [at: Nat, to: Nat, left: Nat]
TimerTyped == mask \subseteq Buttons /\ pressed \subseteq Buttons
HistoryTyped ==
  /\ want \in Nat /\ seen \in Nat /\ copied \in [what: Nat, where: Nat]
  /\ placed \in [0..(MaxRows - 1) -> Nat \cup {-1}]

\* The types of all variables.
TypeOK ==
  /\ ProgramTyped /\ InterruptTyped /\ TransferTyped /\ SpritesTyped
  /\ EffectsTyped /\ RequestsTyped /\ TimerTyped /\ HistoryTyped

\* Whose transfer is under way.
Requester ==
  IF handler = "out" THEN owner
  ELSE CASE handler = "animate" -> "table"
         [] handler = "callback" -> "animation"
         [] OTHER -> "bar"

TransferWhole ==
  /\ dma # "idle" => /\ staged.source = Requester /\ staged.target = Requester
                     /\ masked \/ handler # "out"
  /\ rv => dma = "busy"

AnimationWhole ==
  animation.on => /\ animation.place = animation.shape.n
                  /\ animation.frame < animation.shape.frames
                  /\ animation.delay < animation.shape.delay

\* Every transfer is fired with the parameters of the one who asked for it, both
\* halves of them, whoever else uses the staging area; nothing interrupts one;
\* RV, under which no interrupt handler can be fetched from the cartridge, is set
\* only in one.  And a running animation has the parameters of one command 35
\* only, its counters, which turn back just where they equal their limits, below
\* them.  This is about ori.w #$700,sr in CmdSetupDMA, CmdDMABatchWrite,
\* CmdDMARowWrite and ConfigVDPDMA, and the order of the stores in
\* CmdInitAnimation.
ParametersWhole == TransferWhole /\ AnimationWhole

\* A sprite table is uploaded with all its links, also one that a command is in
\* the middle of writing; and when no command is at work, video RAM shows what
\* work RAM holds, unless the object is about to be put there.  This is about
\* DisplayUpdate, CmdUpdateSprites, CmdClearSprites and CmdSetupObject.
TableWhole ==
  /\ dma = "busy" /\ staged.target = "table" => \A s \in Sprites : ram[s].linked
  /\ \A s \in Sprites : table[s].linked
  /\ main = "idle" /\ handler = "out" => table = ram \/ (object.on /\ object.tick = 1)

\* Outside a transfer the register that decides whether V-Blanks interrupt is as
\* its shadow says, which the waiting commands test: if only the shadow were on,
\* they would wait for ever.  This is about CmdEnableDisplay, HardwareInit and
\* SetVDPDisplayBit.
RegisterIsShadow ==
  main \notin {"enable", "disable"} /\ dma # "busy" => reg1 = shadow

\* A command that waits for the handler returns when all it asked for has been
\* done, as it asked: the copy with both halves of its description, each row in
\* its own place, as many frames as it was told; and the buttons command 36
\* collects are among those it asked for.  This is about CmdSetupSprite,
\* CmdWaitDMA, VInt_Handler3, CmdWaitFrames and CmdSetTimer.
RequestsServed ==
  /\ main = "copyEnd" /\ dispatch = 0 => copied = [what |-> calls, where |-> calls]
  /\ main = "rowsEnd" /\ dispatch = 0 => \A i \in 0..(want - 1) : placed[i] = i
  /\ main = "frames" => seen + left >= want
  /\ main = "idle" => pressed \subseteq mask

\* Every command returns, and the SH2 gets the cartridge back again and again.
\* This is about the loops in CmdWaitFrames, CmdSetupSprite and CmdWaitDMA, and
\* about bclr #MARS_RV.
CommandsReturn ==
  /\ main # "idle" ~> main = "idle"
  /\ []<>~rv
=============================================================================
