---------------------------- MODULE KernelsProofs ----------------------------
(***************************************************************************)
(* The modules of MCKernels but for the decompressor: FrameEngine, for a   *)
(* sprite table, palette animations and numbers of commands of any size;   *)
(* LzTransport, for blocks and buffers of any size; Divide68k, for         *)
(* registers of any width.                                                 *)
(***************************************************************************)
EXTENDS FrameEngine, LzTransport, Divide68k, BinaryProofs

---------------------------------------------------------------------------
(* FrameEngine: what the V-Blank handler and the commands share is never   *)
(* torn.                                                                   *)

\* Interrupts are masked exactly while a command stages and fires a transfer; a
\* transfer under way is one of the handler's or one of the command's.
Locks ==
  /\ masked <=> main \in {"source", "target", "fire", "fired"}
  /\ handler # "out" => ~masked
  /\ dma # "idle" => \/ main = "fired" /\ handler = "out"
                     \/ handler \in {"animate", "callback", "dispatch"}

\* What has been staged so far is the requester's.
Staging ==
  /\ dma # "idle" => staged.source = Requester /\ staged.target = Requester
  /\ main \in {"target", "fire", "fired"} => staged.source = owner
  /\ main \in {"fire", "fired"} => staged.target = owner
  /\ rv => dma = "busy"

\* An animation being described does not run; one that is described has the place
\* and the shape of one command.
Described ==
  /\ main \in {"place", "shape", "wind", "start"} => ~animation.on
  /\ IF main = "shape" THEN animation.place = calls ELSE animation.place = animation.shape.n
  /\ main = "start" => animation.frame = 0 /\ animation.delay = 0
  /\ AnimationWhole

\* Between its two stores a switch of the display has set the shadow.
Shadowed ==
  /\ main = "enable" => shadow
  /\ main = "disable" => ~shadow
  /\ RegisterIsShadow

\* The object's counter does not pass 0; an object being described is not on.
Ticking ==
  /\ object.on => object.tick > 0
  /\ main \in {"objectEntries", "objectOn"} => ~object.on /\ object.tick = 1

\* A table on its way to video RAM is linked, and is on its way, or about to be,
\* whenever video RAM holds another.
AllLinked(t) == \A s \in Sprites : t[s].linked
Due ==
  \/ main \in {"link", "layout", "objectOn", "objectClear"}
  \/ main \in {"source", "target", "fire"} /\ owner = "table"
  \/ dma # "idle" /\ staged.target = "table"
  \/ object.on /\ object.tick = 1
Uploaded ==
  /\ dma # "idle" /\ staged.target = "table" => AllLinked(ram)
  /\ main = "layout" => AllLinked(ram)
  /\ main \in {"source", "target", "fire", "fired"} /\ owner = "table" => AllLinked(ram)
  /\ AllLinked(table)
  /\ table = ram \/ Due

\* The inductive invariant.
IInv == TypeOK /\ Locks /\ Staging /\ Described /\ Shadowed /\ Ticking /\ Uploaded

-----------------------------------------------------------------------------
\* What DisplayUpdate and the commands make of a sprite table is one.
LEMMA TablesTyped ==
  ASSUME ram \in Tables, object.y \in {0} \cup Heights
  PROVE /\ Linked(ram) \in Tables /\ Relinked(Blinked) \in Tables
        /\ \A entries : Cleared(entries) \in Tables
<1>1. \A t \in Tables : Linked(t) \in Tables /\ Relinked(t) \in Tables
  BY DEF Tables, Linked, Relinked
<1>2. Blinked \in Tables
  BY DEF Tables, Blinked
<1>3. \A entries : Cleared(entries) \in Tables
  BY DEF Tables, Cleared
<1>4. QED
  BY <1>1, <1>2, <1>3

\* InitSpriteLinks links every sprite, whatever the table.
LEMMA TablesLinked ==
  ASSUME ram \in Tables, object.y \in {0} \cup Heights
  PROVE  AllLinked(Linked(ram)) /\ AllLinked(Relinked(Blinked))
<1>1. \A t \in Tables : AllLinked(Linked(t)) /\ AllLinked(Relinked(t))
  BY DEF Tables, AllLinked, Linked, Relinked
<1>2. Blinked \in Tables
  BY DEF Tables, Blinked
<1>3. QED
  BY <1>1, <1>2

\* DisplayUpdate counts the object's counter down, or sets it anew.
LEMMA ObjectTyped ==
  ASSUME SpritesTyped, Ticking, DisplayUpdate
  PROVE  object' \in [on: BOOLEAN, tick: Nat, show: BOOLEAN, y: {0} \cup Heights]
<1> DEFINE Objects == [on: BOOLEAN, tick: Nat, show: BOOLEAN, y: {0} \cup Heights]
<1>1. object \in Objects
  BY DEF SpritesTyped
<1>2. CASE object.on /\ object.tick = 1
  <2>1. object' = [object EXCEPT !.show = ~@, !.tick = Blink]
    BY <1>2 DEF DisplayUpdate
  <2>2. QED
    BY <1>1, <2>1, EngineAssumption
<1>3. CASE object.on /\ object.tick # 1
  <2>1. object' = [object EXCEPT !.tick = object.tick - 1]
    BY <1>3 DEF DisplayUpdate
  <2>2. object.tick - 1 \in Nat
    BY <1>1, <1>3 DEF Ticking
  <2>3. QED
    BY <1>1, <2>1, <2>2
<1>4. CASE ~object.on
  BY <1>1, <1>4 DEF DisplayUpdate
<1>5. QED
  BY <1>2, <1>3, <1>4

\* Whoever stages in one go stages parameters.
LEMMA StageTyped ==
  ASSUME TransferTyped, NEW party \in Parties, Stage(party, FALSE) PROVE TransferTyped'
BY DEF TransferTyped, Stage

\* A counter that turns back where it equals its limit stays a number below it.
LEMMA AdvancedBelow ==
  ASSUME NEW n \in Nat, NEW limit \in Nat
  PROVE Advanced(n, limit) \in Nat /\ (n < limit => Advanced(n, limit) < limit)
BY DEF Advanced

\* VInt_Handler3 puts rows, numbered, into places there are, and counts them down.
LEMMA ReadRowsTyped ==
  ASSUME RequestsTyped, HistoryTyped, ReadRows
  PROVE /\ dispatch' \in {0, 1, 4} /\ rows' \in [at: Nat, to: Nat, left: Nat]
        /\ placed' \in [0..(MaxRows - 1) -> Nat \cup {-1}]
<1> DEFINE pass == Lesser(RowsPerBlank, rows.left)
<1> USE EngineAssumption
<1>1. rows \in [at: Nat, to: Nat, left: Nat] /\ dispatch \in {0, 1, 4}
  BY DEF RequestsTyped
<1>2. pass \in Nat /\ rows.left - pass \in Nat
  BY <1>1 DEF Lesser, RowsPerBlank
<1>3. rows' \in [at: Nat, to: Nat, left: Nat] /\ dispatch' \in {0, 1, 4}
  BY <1>1, <1>2 DEF ReadRows, PlaceReached, RowsPerBlank
<1>4. ASSUME NEW row \in rows.to..(rows.to + pass - 1) PROVE rows.at + row - rows.to \in Nat
  BY <1>1, <1>2
<1>5. placed' \in [0..(MaxRows - 1) -> Nat \cup {-1}]
  <2>1. placed \in [0..(MaxRows - 1) -> Nat \cup {-1}]
    BY DEF HistoryTyped
  <2>2. placed' = [row \in 0..(MaxRows - 1) |->
                    IF row \in rows.to..(rows.to + pass - 1)
                      THEN rows.at + row - rows.to ELSE placed[row]]
    BY <2>1 DEF ReadRows
  <2>3. QED
    BY <2>1, <2>2, <1>4
<1>6. QED
  BY <1>3, <1>5

\* The main line goes from label to label.
LEMMA ProgramStep == ASSUME IInv, [Next]_vars PROVE ProgramTyped'
<1> USE EngineAssumption DEF IInv, TypeOK, ProgramTyped, MainLabels, At, Goto, Issue, program,
                             register, transfer, sprites, effects, requests, timer, history
<1>1. CASE Command
  <2>1. CASE \E n \in 1..2 : BeginTransfer(n)
    BY <2>1 DEF BeginTransfer
  <2>2. CASE \E how \in {"off", "new", "again"} : BeginAnimation(how)
    BY <2>2 DEF BeginAnimation
  <2>3. CASE \E n \in FramesWanted : WaitFrames(n)
    BY <2>3 DEF WaitFrames, Await
  <2>4. CASE \E next \in {"idle", "barSet"} : ConfigScrollBar(next)
    BY <2>4 DEF ConfigScrollBar, Await
  <2>5. CASE \E on \in BOOLEAN : SwitchDisplay(on)
    BY <2>5 DEF SwitchDisplay, Store
  <2>6. QED
    BY <1>1, <2>1, <2>2, <2>3, <2>4, <2>5 DEF Command, UpdateSprites, ClearSprites,
                                              SetupObject, ObjectOff, CopyWhat, RowsBegin,
                                              SetTimer
<1>2. CASE Step
  <2>1. CASE Fired
    <3>1. CASE left > 1
      BY <2>1, <3>1 DEF Fired
    <3>2. CASE ~(left > 1)
      <4>1. main' = "idle" /\ left' = 0 /\ masked' = FALSE /\ UNCHANGED <<resume, owner, calls>>
        BY <2>1, <3>2 DEF Fired
      <4>2. QED
        BY <4>1
    <3>3. QED
      BY <3>1, <3>2
  <2>2. CASE InitDisplayLayout
    BY <2>2 DEF InitDisplayLayout
  <2>3. CASE NextFrame
    BY <2>3 DEF NextFrame
  <2>4. CASE \E on \in BOOLEAN : DisplaySwitched(on)
    BY <2>4 DEF DisplaySwitched, Store
  <2>5. QED
    BY <1>2, <2>1, <2>2, <2>3, <2>4, ZenonT(60)
       DEF Step, StageSource, StageTarget, Fire, InitSpriteLinks, ObjectEntries, ObjectOn,
           ObjectShow, ObjectClear, AnimationPlace, AnimationStep, AnimationWind, AnimationStart,
           AnimationShape, Spin, BarSet, BarOn, CopyWhere, CopyAsk, CopyEnd, NothingCopied, RowsAsk,
           RowsDirect, RowsEnd, TimerClear
<1>3. CASE Handler
  BY <1>3 DEF Handler, DisplayUpdate, Stage, NoTransfer, VIntSub1, VIntSub2, Dispatch,
              LastUpdates
<1>4. CASE Dma \/ VBlank \/ UNCHANGED vars
  BY <1>4 DEF Dma, DmaStart, DmaEnd, VBlank, vars
<1>5. QED
  BY <1>1, <1>2, <1>3, <1>4 DEF Next

\* So does the handler.
LEMMA InterruptStep == ASSUME IInv, [Next]_vars PROVE InterruptTyped'
<1> USE EngineAssumption DEF IInv, TypeOK, InterruptTyped, At, Goto, Issue, program, register,
                             transfer, sprites, effects, requests, timer, history
<1>1. CASE Command
  <2>1. CASE \E on \in BOOLEAN : SwitchDisplay(on)
    BY <2>1 DEF SwitchDisplay, Store
  <2>2. QED
    BY <1>1, <2>1 DEF Command, BeginTransfer, UpdateSprites, ClearSprites, SetupObject,
                      ObjectOff, BeginAnimation, WaitFrames, Await, ConfigScrollBar, CopyWhat,
                      RowsBegin, SetTimer
<1>2. CASE Step
  <2>1. CASE \E on \in BOOLEAN : DisplaySwitched(on)
    BY <2>1 DEF DisplaySwitched, Store
  <2>2. QED
    BY <1>2, <2>1 DEF Step, StageSource, StageTarget, Fire, Fired, InitSpriteLinks,
                      InitDisplayLayout, ObjectEntries, ObjectOn, ObjectShow, ObjectClear,
                      AnimationPlace, AnimationStep, AnimationWind, AnimationStart,
                      AnimationShape, NextFrame, Spin, BarSet, BarOn, CopyWhere, CopyAsk,
                      CopyEnd, NothingCopied, RowsAsk, RowsDirect, RowsEnd, TimerClear
<1>3. CASE Handler
  BY <1>3 DEF Handler, DisplayUpdate, Stage, NoTransfer, VIntSub1, VIntSub2, Dispatch,
              LastUpdates
<1>4. CASE Dma \/ VBlank \/ UNCHANGED vars
  BY <1>4 DEF Dma, DmaStart, DmaEnd, VBlank, vars
<1>5. QED
  BY <1>1, <1>2, <1>3, <1>4 DEF Next

\* The staging area holds what one of the four parties staged.
LEMMA TransferStep == ASSUME IInv, [Next]_vars PROVE TransferTyped'
<1> USE EngineAssumption DEF IInv, TypeOK, ProgramTyped, TransferTyped, At, Goto, Issue,
                             program, register, transfer, sprites, effects, requests, timer,
                             history
<1>1. CASE Command
  BY <1>1 DEF Command, BeginTransfer, UpdateSprites, ClearSprites, SetupObject, ObjectOff,
              BeginAnimation, WaitFrames, Await, ConfigScrollBar, CopyWhat, RowsBegin,
              SetTimer, SwitchDisplay
<1>2. CASE Step
  <2>1. CASE \E rom \in BOOLEAN : StageSource(rom)
    BY <2>1 DEF StageSource, Parties
  <2>2. CASE StageTarget
    BY <2>2 DEF StageTarget, Parties
  <2>3. QED
    BY <1>2, <2>1, <2>2 DEF Step, Fire, Fired, InitSpriteLinks, InitDisplayLayout,
                            ObjectEntries, ObjectOn, ObjectShow, ObjectClear, AnimationPlace,
                            AnimationStep, AnimationWind, AnimationStart, AnimationShape,
                            NextFrame, Spin, BarSet, BarOn, CopyWhere, CopyAsk, CopyEnd,
                            NothingCopied, RowsAsk, RowsDirect, RowsEnd, TimerClear,
                            DisplaySwitched
<1>3. CASE Handler
  <2>1. CASE DisplayUpdate
    <3>1. CASE Stage("table", FALSE)
      BY <3>1, StageTyped DEF Parties
    <3>2. CASE NoTransfer
      BY <3>2 DEF NoTransfer
    <3>3. QED
      BY <2>1, <3>1, <3>2 DEF DisplayUpdate
  <2>2. CASE \E blank \in BOOLEAN : VIntSub1(blank)
    <3>1. PICK blank \in BOOLEAN : VIntSub1(blank)
      BY <2>2
    <3>2. CASE Stage("animation", FALSE)
      BY <3>2, StageTyped DEF Parties
    <3>3. CASE NoTransfer
      BY <3>3 DEF NoTransfer
    <3>4. CASE /\ staged' = [source |-> "animation", target |-> "animation", rom |-> FALSE]
               /\ UNCHANGED <<dma, rv>>
      BY <3>4 DEF Parties
    <3>5. QED
      BY <3>1, <3>2, <3>3, <3>4 DEF VIntSub1
  <2>3. CASE VIntSub2
    <3>1. CASE Stage("bar", FALSE)
      BY <3>1, StageTyped DEF Parties
    <3>2. CASE NoTransfer
      BY <3>2 DEF NoTransfer
    <3>3. QED
      BY <2>3, <3>1, <3>2 DEF VIntSub2
  <2>4. QED
    BY <1>3, <2>1, <2>2, <2>3 DEF Handler, Dispatch, LastUpdates
<1>4. CASE Dma \/ VBlank \/ UNCHANGED vars
  BY <1>4 DEF Dma, DmaStart, DmaEnd, VBlank, vars
<1>5. QED
  BY <1>1, <1>2, <1>3, <1>4 DEF Next

\* Both sprite tables keep their shape.
LEMMA SpritesStep == ASSUME IInv, [Next]_vars PROVE SpritesTyped'
<1> USE EngineAssumption DEF IInv, TypeOK, SpritesTyped, Ticking, At, Goto, Issue, program,
                             register, transfer, sprites, effects, requests, timer, history
<1>1. CASE Command
  <2>1. CASE \E first \in Sprites, last \in Sprites, y \in Heights : UpdateSprites(first..last, y)
    BY <2>1 DEF UpdateSprites, Tables
  <2>2. CASE \E first \in Sprites, last \in Sprites : ClearSprites(first..last)
    BY <2>2, TablesTyped DEF ClearSprites
  <2>3. CASE SetupObject
    BY <2>3 DEF SetupObject
  <2>4. CASE ObjectOff
    BY <2>4 DEF ObjectOff
  <2>5. QED
    BY <1>1, <2>1, <2>2, <2>3, <2>4 DEF Command, BeginTransfer, BeginAnimation, WaitFrames,
                                        Await, ConfigScrollBar, CopyWhat, RowsBegin, SetTimer,
                                        SwitchDisplay
<1>2. CASE Step
  <2>1. CASE InitSpriteLinks
    BY <2>1, TablesTyped DEF InitSpriteLinks
  <2>2. CASE \E y \in Heights : ObjectEntries(y)
    <3>1. PICK y \in Heights : ObjectEntries(y)
      BY <2>2
    <3>2. ram' \in Tables
      BY <3>1 DEF ObjectEntries, Tables
    <3>3. object' \in [on: BOOLEAN, tick: Nat, show: BOOLEAN, y: {0} \cup Heights] /\ table' = table
      BY <3>1 DEF ObjectEntries, Tables
    <3>4. QED
      BY <3>2, <3>3
  <2>3. CASE ObjectOn
    BY <2>3 DEF ObjectOn
  <2>4. CASE ObjectShow
    BY <2>4 DEF ObjectShow
  <2>5. CASE ObjectClear
    BY <2>5, TablesTyped DEF ObjectClear
  <2>6. QED
    BY <1>2, <2>1, <2>2, <2>3, <2>4, <2>5 DEF Step, StageSource, StageTarget, Fire, Fired,
                                              InitDisplayLayout, AnimationPlace, AnimationStep,
                                              AnimationWind, AnimationStart, AnimationShape,
                                              NextFrame, Spin, BarSet, BarOn, CopyWhere,
                                              CopyAsk, CopyEnd, NothingCopied, RowsAsk,
                                              RowsDirect, RowsEnd, TimerClear, DisplaySwitched
<1>3. CASE Handler
  <2>1. CASE DisplayUpdate
    <3>1. ram' \in Tables
      BY <2>1, TablesTyped DEF DisplayUpdate
    <3>2. object' \in [on: BOOLEAN, tick: Nat, show: BOOLEAN, y: {0} \cup Heights]
      BY <2>1, ObjectTyped
    <3>3. table' = table
      BY <2>1 DEF DisplayUpdate
    <3>4. QED
      BY <3>1, <3>2, <3>3
  <2>2. QED
    BY <1>3, <2>1 DEF Handler, VIntSub1, Stage, NoTransfer, VIntSub2, Dispatch, LastUpdates
<1>4. CASE Dma \/ VBlank \/ UNCHANGED vars
  BY <1>4 DEF Dma, DmaStart, DmaEnd, VBlank, vars
<1>5. QED
  BY <1>1, <1>2, <1>3, <1>4 DEF Next

\* The counters of the animation and of the bar are numbers.
LEMMA EffectsStep == ASSUME IInv, [Next]_vars PROVE EffectsTyped'
<1> USE EngineAssumption DEF IInv, TypeOK, ProgramTyped, EffectsTyped, At, Goto, Issue,
                             program, register, transfer, sprites, effects, requests, timer,
                             history
<1>1. CASE Command
  <2>1. CASE \E how \in {"off", "new", "again"} : BeginAnimation(how)
    BY <2>1 DEF BeginAnimation
  <2>2. CASE \E next \in {"idle", "barSet"} : ConfigScrollBar(next)
    BY <2>2 DEF ConfigScrollBar, Await
  <2>3. QED
    BY <1>1, <2>1, <2>2 DEF Command, BeginTransfer, UpdateSprites, ClearSprites, SetupObject,
                            ObjectOff, WaitFrames, Await, CopyWhat, RowsBegin, SetTimer,
                            SwitchDisplay
<1>2. CASE Step
  <2>1. CASE AnimationPlace
    BY <2>1 DEF AnimationPlace, AnimationStep
  <2>2. CASE AnimationWind
    BY <2>2 DEF AnimationWind, AnimationStep
  <2>3. CASE AnimationStart
    BY <2>3 DEF AnimationStart, AnimationStep
  <2>4. CASE \E x \in Animations : AnimationShape(x)
    BY <2>4 DEF AnimationShape, AnimationStep
  <2>5. CASE BarSet
    BY <2>5 DEF BarSet
  <2>6. CASE BarOn
    BY <2>6 DEF BarOn
  <2>7. QED
    BY <1>2, <2>1, <2>2, <2>3, <2>4, <2>5, <2>6 DEF Step, StageSource, StageTarget, Fire,
                                                    Fired, InitSpriteLinks, InitDisplayLayout,
                                                    ObjectEntries, ObjectOn, ObjectShow,
                                                    ObjectClear, NextFrame, Spin, CopyWhere,
                                                    CopyAsk, CopyEnd, NothingCopied, RowsAsk,
                                                    RowsDirect, RowsEnd, TimerClear,
                                                    DisplaySwitched
<1>3. CASE Handler
  <2>1. CASE \E blank \in BOOLEAN : VIntSub1(blank)
    <3>1. PICK blank \in BOOLEAN : VIntSub1(blank)
      BY <2>1
    <3>2. animation.shape.frames \in Nat /\ animation.shape.delay \in Nat
      OBVIOUS
    <3>3. Advanced(animation.frame, animation.shape.frames) \in Nat
      BY <3>2, AdvancedBelow
    <3>4. Advanced(animation.delay, animation.shape.delay) \in Nat
      BY <3>2, AdvancedBelow
    <3>5. QED
      BY <3>1, <3>3, <3>4 DEF VIntSub1
  <2>2. CASE VIntSub2
    BY <2>2 DEF VIntSub2, Stage, NoTransfer
  <2>3. QED
    BY <1>3, <2>1, <2>2 DEF Handler, DisplayUpdate, Stage, NoTransfer, Dispatch, LastUpdates
<1>4. CASE Dma \/ VBlank \/ UNCHANGED vars
  BY <1>4 DEF Dma, DmaStart, DmaEnd, VBlank, vars
<1>5. QED
  BY <1>1, <1>2, <1>3, <1>4 DEF Next

\* A request is one of those there are.
LEMMA RequestsStep == ASSUME IInv, [Next]_vars PROVE RequestsTyped'
<1> USE EngineAssumption DEF IInv, TypeOK, ProgramTyped, RequestsTyped, At, Goto, Issue,
                             program, register, transfer, sprites, effects, requests, timer,
                             history
<1>1. CASE Command
  <2>1. CASE CopyWhat
    BY <2>1 DEF CopyWhat
  <2>2. CASE \E n \in RowsWanted : RowsBegin(n)
    BY <2>2 DEF RowsBegin
  <2>3. QED
    BY <1>1, <2>1, <2>2 DEF Command, BeginTransfer, UpdateSprites, ClearSprites, SetupObject,
                            ObjectOff, BeginAnimation, WaitFrames, Await, ConfigScrollBar,
                            SetTimer, SwitchDisplay
<1>2. CASE Step
  <2>1. CASE NextFrame
    BY <2>1 DEF NextFrame
  <2>2. CASE CopyWhere
    BY <2>2 DEF CopyWhere
  <2>3. CASE CopyAsk
    BY <2>3 DEF CopyAsk
  <2>4. CASE RowsAsk
    BY <2>4 DEF RowsAsk
  <2>5. CASE RowsDirect
    BY <2>5, ReadRowsTyped DEF RowsDirect
  <2>6. QED
    BY <1>2, <2>1, <2>2, <2>3, <2>4, <2>5 DEF Step, StageSource, StageTarget, Fire, Fired,
                                              InitSpriteLinks, InitDisplayLayout,
                                              ObjectEntries, ObjectOn, ObjectShow, ObjectClear,
                                              AnimationPlace, AnimationStep, AnimationWind,
                                              AnimationStart, AnimationShape, Spin, BarSet,
                                              BarOn, CopyEnd, NothingCopied, RowsEnd,
                                              TimerClear, DisplaySwitched
<1>3. CASE Handler
  <2>1. CASE Dispatch
    BY <2>1, ReadRowsTyped DEF Dispatch
  <2>2. CASE \E held \in SUBSET Buttons : LastUpdates(held)
    BY <2>2 DEF LastUpdates
  <2>3. QED
    BY <1>3, <2>1, <2>2 DEF Handler, DisplayUpdate, Stage, NoTransfer, VIntSub1, VIntSub2
<1>4. CASE Dma \/ VBlank \/ UNCHANGED vars
  BY <1>4 DEF Dma, DmaStart, DmaEnd, VBlank, vars
<1>5. QED
  BY <1>1, <1>2, <1>3, <1>4 DEF Next

\* Only buttons are collected.
LEMMA TimerStep == ASSUME IInv, [Next]_vars PROVE TimerTyped'
<1> USE EngineAssumption DEF IInv, TypeOK, TimerTyped, At, Goto, Issue, program, register,
                             transfer, sprites, effects, requests, timer, history
<1>1. CASE Command
  <2>1. CASE \E buttons \in SUBSET Buttons : SetTimer(buttons)
    BY <2>1 DEF SetTimer
  <2>2. QED
    BY <1>1, <2>1 DEF Command, BeginTransfer, UpdateSprites, ClearSprites, SetupObject,
                      ObjectOff, BeginAnimation, WaitFrames, Await, ConfigScrollBar, CopyWhat,
                      RowsBegin, SwitchDisplay
<1>2. CASE Step
  BY <1>2 DEF Step, StageSource, StageTarget, Fire, Fired, InitSpriteLinks, InitDisplayLayout,
              ObjectEntries, ObjectOn, ObjectShow, ObjectClear, AnimationPlace, AnimationStep,
              AnimationWind, AnimationStart, AnimationShape, NextFrame, Spin, BarSet, BarOn,
              CopyWhere, CopyAsk, CopyEnd, NothingCopied, RowsAsk, RowsDirect, RowsEnd,
              TimerClear, DisplaySwitched
<1>3. CASE Handler
  <2>1. CASE \E held \in SUBSET Buttons : LastUpdates(held)
    BY <2>1 DEF LastUpdates
  <2>2. QED
    BY <1>3, <2>1 DEF Handler, DisplayUpdate, Stage, NoTransfer, VIntSub1, VIntSub2, Dispatch
<1>4. CASE Dma \/ VBlank \/ UNCHANGED vars
  BY <1>4 DEF Dma, DmaStart, DmaEnd, VBlank, vars
<1>5. QED
  BY <1>1, <1>2, <1>3, <1>4 DEF Next

\* The record of what was done is one.
LEMMA HistoryStep == ASSUME IInv, [Next]_vars PROVE HistoryTyped'
<1> USE EngineAssumption DEF IInv, TypeOK, RequestsTyped, ProgramTyped, HistoryTyped, At, Goto,
                             Issue, program, register, transfer, sprites, effects, requests,
                             timer, history
<1>1. CASE Command
  <2>1. CASE \E n \in FramesWanted : WaitFrames(n)
    BY <2>1 DEF WaitFrames, Await
  <2>2. CASE \E next \in {"idle", "barSet"} : ConfigScrollBar(next)
    <3>1. PICK next \in {"idle", "barSet"} : ConfigScrollBar(next)
      BY <2>2
    <3>2. want' \in Nat /\ seen' \in Nat
      <4>1. CASE shadow
        BY <3>1, <4>1 DEF ConfigScrollBar, Await
      <4>2. CASE ~shadow
        BY <3>1, <4>2 DEF ConfigScrollBar, Await
      <4>3. QED
        BY <4>1, <4>2
    <3>3. UNCHANGED <<copied, placed>>
      BY <3>1 DEF ConfigScrollBar
    <3>4. QED
      BY <3>2, <3>3
  <2>3. CASE \E n \in RowsWanted : RowsBegin(n)
    BY <2>3 DEF RowsBegin
  <2>4. QED
    BY <1>1, <2>1, <2>2, <2>3 DEF Command, BeginTransfer, UpdateSprites, ClearSprites,
                                  SetupObject, ObjectOff, BeginAnimation, CopyWhat, SetTimer,
                                  SwitchDisplay
<1>2. CASE Step
  <2>1. CASE NextFrame
    BY <2>1 DEF NextFrame
  <2>2. CASE CopyAsk
    BY <2>2 DEF CopyAsk
  <2>3. CASE CopyEnd
    BY <2>3 DEF CopyEnd, NothingCopied
  <2>4. CASE RowsDirect
    BY <2>4, ReadRowsTyped DEF RowsDirect
  <2>5. CASE RowsEnd
    BY <2>5 DEF RowsEnd, NothingPlaced
  <2>6. QED
    BY <1>2, <2>1, <2>2, <2>3, <2>4, <2>5 DEF Step, StageSource, StageTarget, Fire, Fired,
                                              InitSpriteLinks, InitDisplayLayout,
                                              ObjectEntries, ObjectOn, ObjectShow, ObjectClear,
                                              AnimationPlace, AnimationStep, AnimationWind,
                                              AnimationStart, AnimationShape, Spin, BarSet,
                                              BarOn, CopyWhere, RowsAsk, TimerClear,
                                              DisplaySwitched
<1>3. CASE Handler
  <2>1. CASE Dispatch
    BY <2>1, ReadRowsTyped DEF Dispatch
  <2>2. CASE \E held \in SUBSET Buttons : LastUpdates(held)
    BY <2>2 DEF LastUpdates
  <2>3. QED
    BY <1>3, <2>1, <2>2 DEF Handler, DisplayUpdate, Stage, NoTransfer, VIntSub1, VIntSub2
<1>4. CASE Dma \/ VBlank \/ UNCHANGED vars
  BY <1>4 DEF Dma, DmaStart, DmaEnd, VBlank, vars
<1>5. QED
  BY <1>1, <1>2, <1>3, <1>4 DEF Next

\* No V-Blank comes between the first store of a command's transfer and its end, and
\* the handler waits for its own.
LEMMA LocksStep == ASSUME IInv, [Next]_vars PROVE Locks'
<1> USE EngineAssumption DEF IInv, TypeOK, ProgramTyped, Locks, At, Goto, Issue, program,
                             register, transfer, sprites, effects, requests, timer, history
<1>1. CASE Command
  <2>1. CASE \E n \in 1..2 : BeginTransfer(n)
    BY <2>1 DEF BeginTransfer
  <2>2. QED
    BY <1>1, <2>1 DEF Command, UpdateSprites, ClearSprites, SetupObject, ObjectOff,
                      BeginAnimation, WaitFrames, Await, ConfigScrollBar, CopyWhat, RowsBegin,
                      SetTimer, SwitchDisplay
<1>2. CASE Step
  <2>1. CASE \E rom \in BOOLEAN : StageSource(rom)
    BY <2>1 DEF StageSource
  <2>2. CASE StageTarget
    BY <2>2 DEF StageTarget
  <2>3. CASE Fire
    BY <2>3 DEF Fire
  <2>4. CASE Fired
    BY <2>4 DEF Fired
  <2>5. CASE InitDisplayLayout
    BY <2>5 DEF InitDisplayLayout
  <2>6. CASE NextFrame
    BY <2>6 DEF NextFrame
  <2>7. QED
    BY <1>2, <2>1, <2>2, <2>3, <2>4, <2>5, <2>6 DEF Step, InitSpriteLinks, ObjectEntries,
                                                    ObjectOn, ObjectShow, ObjectClear,
                                                    AnimationPlace, AnimationStep,
                                                    AnimationWind, AnimationStart,
                                                    AnimationShape, Spin, BarSet, BarOn,
                                                    CopyWhere, CopyAsk, CopyEnd, NothingCopied,
                                                    RowsAsk, RowsDirect, RowsEnd, TimerClear,
                                                    DisplaySwitched
<1>3. CASE Handler
  <2>1. CASE DisplayUpdate
    BY <2>1 DEF DisplayUpdate, Blinked, Relinked, Linked, Stage, NoTransfer
  <2>2. CASE \E blank \in BOOLEAN : VIntSub1(blank)
    BY <2>2 DEF VIntSub1, Advanced, Stage, NoTransfer
  <2>3. CASE VIntSub2
    BY <2>3 DEF VIntSub2, Stage, NoTransfer
  <2>4. QED
    BY <1>3, <2>1, <2>2, <2>3 DEF Handler, Dispatch, LastUpdates
<1>4. CASE Dma \/ VBlank \/ UNCHANGED vars
  BY <1>4 DEF Dma, DmaStart, DmaEnd, VBlank, vars
<1>5. QED
  BY <1>1, <1>2, <1>3, <1>4 DEF Next

\* So a transfer under way is its requester's, source and target.
LEMMA StagingStep == ASSUME IInv, [Next]_vars PROVE Staging'
<1> USE EngineAssumption DEF IInv, TypeOK, ProgramTyped, TransferTyped, Locks, Staging,
                             Requester, At, Goto, Issue, program, register, transfer, sprites,
                             effects, requests, timer, history
<1>1. CASE Command
  BY <1>1 DEF Command, BeginTransfer, UpdateSprites, ClearSprites, SetupObject, ObjectOff,
              BeginAnimation, WaitFrames, Await, ConfigScrollBar, CopyWhat, RowsBegin,
              SetTimer, SwitchDisplay
<1>2. CASE Step
  <2>1. CASE \E rom \in BOOLEAN : StageSource(rom)
    BY <2>1 DEF StageSource
  <2>2. CASE StageTarget
    BY <2>2 DEF StageTarget
  <2>3. CASE Fire
    BY <2>3 DEF Fire
  <2>4. CASE Fired
    BY <2>4 DEF Fired
  <2>5. QED
    BY <1>2, <2>1, <2>2, <2>3, <2>4 DEF Step, InitSpriteLinks, InitDisplayLayout,
                                        ObjectEntries, ObjectOn, ObjectShow, ObjectClear,
                                        AnimationPlace, AnimationStep, AnimationWind,
                                        AnimationStart, AnimationShape, NextFrame, Spin,
                                        BarSet, BarOn, CopyWhere, CopyAsk, CopyEnd,
                                        NothingCopied, RowsAsk, RowsDirect, RowsEnd,
                                        TimerClear, DisplaySwitched
<1>3. CASE Handler
  <2>1. CASE DisplayUpdate
    BY <2>1 DEF DisplayUpdate, Blinked, Relinked, Linked, Stage, NoTransfer
  <2>2. CASE \E blank \in BOOLEAN : VIntSub1(blank)
    BY <2>2 DEF VIntSub1, Advanced, Stage, NoTransfer
  <2>3. CASE VIntSub2
    BY <2>3 DEF VIntSub2, Stage, NoTransfer
  <2>4. QED
    BY <1>3, <2>1, <2>2, <2>3 DEF Handler, Dispatch, LastUpdates
<1>4. CASE Dma \/ VBlank \/ UNCHANGED vars
  BY <1>4 DEF Dma, DmaStart, DmaEnd, VBlank, vars
<1>5. QED
  BY <1>1, <1>2, <1>3, <1>4 DEF Next

\* An animation is stopped before it is described anew, and wound back before it is
\* started; its counters turn back at their limits.
LEMMA DescribedStep == ASSUME IInv, [Next]_vars PROVE Described'
<1> USE EngineAssumption DEF IInv, TypeOK, ProgramTyped, EffectsTyped, Described,
                             AnimationWhole, At, Goto, Issue, program, register, transfer,
                             sprites, effects, requests, timer, history
<1>1. CASE Command
  <2>1. CASE \E how \in {"off", "new", "again"} : BeginAnimation(how)
    BY <2>1 DEF BeginAnimation
  <2>2. QED
    BY <1>1, <2>1 DEF Command, BeginTransfer, UpdateSprites, ClearSprites, SetupObject,
                      ObjectOff, WaitFrames, Await, ConfigScrollBar, CopyWhat, RowsBegin,
                      SetTimer, SwitchDisplay
<1>2. CASE Step
  <2>1. CASE AnimationPlace
    BY <2>1 DEF AnimationPlace, AnimationStep
  <2>2. CASE AnimationWind
    BY <2>2 DEF AnimationWind, AnimationStep
  <2>3. CASE AnimationStart
    BY <2>3 DEF AnimationStart, AnimationStep
  <2>4. CASE \E x \in Animations : AnimationShape(x)
    BY <2>4 DEF AnimationShape, AnimationStep
  <2>5. QED
    BY <1>2, <2>1, <2>2, <2>3, <2>4 DEF Step, StageSource, StageTarget, Fire, Fired,
                                        InitSpriteLinks, InitDisplayLayout, ObjectEntries,
                                        ObjectOn, ObjectShow, ObjectClear, NextFrame, Spin,
                                        BarSet, BarOn, CopyWhere, CopyAsk, CopyEnd,
                                        NothingCopied, RowsAsk, RowsDirect, RowsEnd,
                                        TimerClear, DisplaySwitched
<1>3. CASE Handler
  <2>1. CASE \E blank \in BOOLEAN : VIntSub1(blank)
    <3>1. PICK blank \in BOOLEAN : VIntSub1(blank)
      BY <2>1
    <3>2. CASE ~animation.on
      BY <3>1, <3>2 DEF VIntSub1
    <3>3. CASE animation.on
      <4>1. main \notin {"place", "shape", "wind", "start"}
        BY <3>3
      <4>2. animation.frame < animation.shape.frames /\ animation.delay < animation.shape.delay
        BY <3>3
      <4>3. Advanced(animation.frame, animation.shape.frames) < animation.shape.frames
        BY <4>2, AdvancedBelow
      <4>4. Advanced(animation.delay, animation.shape.delay) < animation.shape.delay
        BY <4>2, AdvancedBelow
      <4>5. QED
        BY <3>1, <4>1, <4>2, <4>3, <4>4 DEF VIntSub1
    <3>4. QED
      BY <3>2, <3>3
  <2>2. QED
    BY <1>3, <2>1 DEF Handler, DisplayUpdate, Stage, NoTransfer, VIntSub2, Dispatch,
                      LastUpdates
<1>4. CASE Dma \/ VBlank \/ UNCHANGED vars
  BY <1>4 DEF Dma, DmaStart, DmaEnd, VBlank, vars
<1>5. QED
  BY <1>1, <1>2, <1>3, <1>4 DEF Next

\* A transfer turns the interrupt off in the register and back on from the shadow; a
\* switch of the display sets both.
LEMMA ShadowedStep == ASSUME IInv, [Next]_vars PROVE Shadowed'
<1> USE EngineAssumption DEF IInv, TypeOK, ProgramTyped, InterruptTyped, Locks, Shadowed,
                             RegisterIsShadow, At, Goto, Issue, program, register, transfer,
                             sprites, effects, requests, timer, history
<1>1. CASE Command
  <2>1. CASE \E on \in BOOLEAN : SwitchDisplay(on)
    BY <2>1 DEF SwitchDisplay, Store
  <2>2. QED
    BY <1>1, <2>1 DEF Command, BeginTransfer, UpdateSprites, ClearSprites, SetupObject,
                      ObjectOff, BeginAnimation, WaitFrames, Await, ConfigScrollBar, CopyWhat,
                      RowsBegin, SetTimer
<1>2. CASE Step
  <2>1. CASE \E on \in BOOLEAN : DisplaySwitched(on)
    BY <2>1 DEF DisplaySwitched, Store
  <2>2. QED
    BY <1>2, <2>1, ZenonT(60)
       DEF Step, StageSource, StageTarget, Fire, Fired, InitSpriteLinks, InitDisplayLayout,
           ObjectEntries, ObjectOn, ObjectShow, ObjectClear, AnimationPlace, AnimationStep,
           AnimationWind, AnimationStart, AnimationShape, NextFrame, Spin, BarSet, BarOn, CopyWhere,
           CopyAsk, CopyEnd, NothingCopied, RowsAsk, RowsDirect, RowsEnd, TimerClear
<1>3. CASE Handler
  BY <1>3 DEF Handler, DisplayUpdate, Stage, NoTransfer, VIntSub1, VIntSub2, Dispatch,
              LastUpdates
<1>4. CASE Dma \/ VBlank \/ UNCHANGED vars
  BY <1>4 DEF Dma, DmaStart, DmaEnd, VBlank, vars
<1>5. QED
  BY <1>1, <1>2, <1>3, <1>4 DEF Next

\* The object's counter is set anew when it has come down to 1.
LEMMA TickingStep == ASSUME IInv, [Next]_vars PROVE Ticking'
<1> USE EngineAssumption DEF IInv, TypeOK, ProgramTyped, SpritesTyped, Ticking, At, Goto,
                             Issue, program, register, transfer, sprites, effects, requests,
                             timer, history
<1>1. CASE Command
  <2>1. CASE SetupObject
    BY <2>1 DEF SetupObject
  <2>2. QED
    BY <1>1, <2>1 DEF Command, BeginTransfer, UpdateSprites, ClearSprites, ObjectOff,
                      BeginAnimation, WaitFrames, Await, ConfigScrollBar, CopyWhat, RowsBegin,
                      SetTimer, SwitchDisplay
<1>2. CASE Step
  <2>1. CASE \E y \in Heights : ObjectEntries(y)
    BY <2>1 DEF ObjectEntries
  <2>2. CASE ObjectOn
    BY <2>2 DEF ObjectOn
  <2>3. QED
    BY <1>2, <2>1, <2>2 DEF Step, StageSource, StageTarget, Fire, Fired, InitSpriteLinks,
                            InitDisplayLayout, ObjectShow, ObjectClear, AnimationPlace,
                            AnimationStep, AnimationWind, AnimationStart, AnimationShape,
                            NextFrame, Spin, BarSet, BarOn, CopyWhere, CopyAsk, CopyEnd,
                            NothingCopied, RowsAsk, RowsDirect, RowsEnd, TimerClear,
                            DisplaySwitched
<1>3. CASE Handler
  <2>1. CASE DisplayUpdate
    <3>1. main' = main
      BY <2>1 DEF DisplayUpdate
    <3>2. CASE object.on /\ object.tick = 1
      <4>1. object' = [object EXCEPT !.show = ~object.show, !.tick = Blink]
        BY <2>1, <3>2 DEF DisplayUpdate
      <4>2. object'.tick = Blink
        BY <4>1
      <4>3. QED
        BY <3>1, <3>2, <4>2
    <3>3. CASE object.on /\ object.tick # 1
      <4>1. object' = [object EXCEPT !.tick = object.tick - 1]
        BY <2>1, <3>3 DEF DisplayUpdate
      <4>2. object.tick \in Nat /\ object.tick > 0
        BY <3>3
      <4>3. object'.tick = object.tick - 1
        BY <4>1
      <4>4. object'.tick > 0
        BY <3>3, <4>2, <4>3
      <4>5. QED
        BY <3>1, <3>3, <4>4
    <3>4. CASE ~object.on
      BY <2>1, <3>4 DEF DisplayUpdate
    <3>5. QED
      BY <3>2, <3>3, <3>4
  <2>2. QED
    BY <1>3, <2>1 DEF Handler, VIntSub1, Stage, NoTransfer, VIntSub2, Dispatch, LastUpdates
<1>4. CASE Dma \/ VBlank \/ UNCHANGED vars
  BY <1>4 DEF Dma, DmaStart, DmaEnd, VBlank, vars
<1>5. QED
  BY <1>1, <1>2, <1>3, <1>4 DEF Next

\* A command links its table and uploads it with interrupts masked; the handler links
\* the one it finds.
LEMMA UploadedStep == ASSUME IInv, [Next]_vars PROVE Uploaded'
<1> USE EngineAssumption DEF IInv, TypeOK, ProgramTyped, TransferTyped, Locks, Staging,
                             Requester, Ticking, Uploaded, Due, At, Goto, Issue, program,
                             register, transfer, sprites, effects, requests, timer, history
<1>1. CASE Command
  <2>1. CASE \E n \in 1..2 : BeginTransfer(n)
    BY <2>1 DEF BeginTransfer
  <2>2. CASE \E first \in Sprites, last \in Sprites, y \in Heights : UpdateSprites(first..last, y)
    BY <2>2 DEF UpdateSprites
  <2>3. CASE \E first \in Sprites, last \in Sprites : ClearSprites(first..last)
    BY <2>3 DEF ClearSprites, Cleared
  <2>4. CASE SetupObject
    BY <2>4 DEF SetupObject
  <2>5. CASE ObjectOff
    BY <2>5 DEF ObjectOff
  <2>6. QED
    BY <1>1, <2>1, <2>2, <2>3, <2>4, <2>5 DEF Command, BeginAnimation, WaitFrames, Await,
                                              ConfigScrollBar, CopyWhat, RowsBegin, SetTimer,
                                              SwitchDisplay
<1>2. CASE Step
  <2>1. CASE \E rom \in BOOLEAN : StageSource(rom)
    BY <2>1 DEF StageSource
  <2>2. CASE StageTarget
    BY <2>2 DEF StageTarget
  <2>3. CASE Fire
    BY <2>3 DEF Fire
  <2>4. CASE Fired
    BY <2>4 DEF Fired
  <2>5. CASE InitSpriteLinks
    BY <2>5, TablesLinked DEF InitSpriteLinks, SpritesTyped
  <2>6. CASE InitDisplayLayout
    BY <2>6 DEF InitDisplayLayout
  <2>7. CASE \E y \in Heights : ObjectEntries(y)
    BY <2>7 DEF ObjectEntries
  <2>8. CASE ObjectOn
    BY <2>8 DEF ObjectOn
  <2>9. CASE ObjectShow
    BY <2>9 DEF ObjectShow
  <2>10. CASE ObjectClear
    BY <2>10 DEF ObjectClear, Cleared
  <2>11. QED
    BY <1>2, <2>1, <2>2, <2>3, <2>4, <2>5, <2>6, <2>7, <2>8, <2>9, <2>10 DEF Step,
                                                                             AnimationPlace,
                                                                             AnimationStep,
                                                                             AnimationWind,
                                                                             AnimationStart,
                                                                             AnimationShape,
                                                                             NextFrame, Spin,
                                                                             BarSet, BarOn,
                                                                             CopyWhere,
                                                                             CopyAsk, CopyEnd,
                                                                             NothingCopied,
                                                                             RowsAsk,
                                                                             RowsDirect,
                                                                             RowsEnd,
                                                                             TimerClear,
                                                                             DisplaySwitched
<1>3. CASE Handler
  <2>1. CASE DisplayUpdate
    <3>1. UNCHANGED <<main, owner, table>>
      BY <2>1 DEF DisplayUpdate
    <3>2. CASE object.on /\ object.tick = 1
      <4>1. AllLinked(Relinked(Blinked))
        BY TablesLinked DEF SpritesTyped
      <4>2. ram' = Relinked(Blinked) /\ Stage("table", FALSE)
        BY <2>1, <3>2 DEF DisplayUpdate
      <4>3. AllLinked(ram') /\ AllLinked(table')
        BY <3>1, <4>1, <4>2
      <4>4. dma' # "idle" /\ staged'.target = "table"
        BY <4>2 DEF Stage
      <4>5. QED
        BY <3>1, <4>3, <4>4 DEF AllLinked
    <3>3. CASE object.on /\ object.tick # 1
      <4>1. UNCHANGED <<ram, dma, staged>>
        BY <2>1, <3>3 DEF DisplayUpdate, NoTransfer
      <4>2. QED
        BY <3>1, <3>3, <4>1 DEF AllLinked
    <3>4. CASE ~object.on
      BY <2>1, <3>4 DEF DisplayUpdate, NoTransfer
    <3>5. QED
      BY <3>2, <3>3, <3>4
  <2>2. CASE \E blank \in BOOLEAN : VIntSub1(blank)
    BY <2>2 DEF VIntSub1, Advanced, Stage, NoTransfer
  <2>3. CASE VIntSub2
    BY <2>3 DEF VIntSub2, Stage, NoTransfer
  <2>4. QED
    BY <1>3, <2>1, <2>2, <2>3 DEF Handler, Dispatch, LastUpdates
<1>4. CASE Dma \/ VBlank \/ UNCHANGED vars
  BY <1>4 DEF Dma, DmaStart, DmaEnd, VBlank, vars
<1>5. QED
  BY <1>1, <1>2, <1>3, <1>4 DEF Next

\* The start.
LEMMA InitIInv == Init => IInv
<1> SUFFICES ASSUME Init PROVE IInv
  OBVIOUS
<1> USE EngineAssumption DEF Init
<1>1. ProgramTyped /\ InterruptTyped /\ RequestsTyped /\ TimerTyped
  BY DEF ProgramTyped, MainLabels, InterruptTyped, RequestsTyped, TimerTyped, NothingCopied
<1>2. TransferTyped
  BY DEF TransferTyped, Parties
<1>3. SpritesTyped
  BY DEF SpritesTyped, Tables
<1>4. EffectsTyped
  BY DEF EffectsTyped, NoShape
<1>5. HistoryTyped
  BY DEF HistoryTyped, NothingCopied, NothingPlaced
<1>6. Locks /\ Staging /\ Shadowed /\ Ticking
  BY DEF Locks, Staging, Shadowed, RegisterIsShadow, Ticking
<1>7. Described
  BY DEF Described, AnimationWhole, NoShape
<1>8. Uploaded
  BY DEF Uploaded, AllLinked
<1>9. QED
  BY <1>1, <1>2, <1>3, <1>4, <1>5, <1>6, <1>7, <1>8 DEF IInv, TypeOK

LEMMA IInvHolds == Spec => []IInv
<1>1. IInv /\ [Next]_vars => IInv'
  BY ProgramStep, InterruptStep, TransferStep, SpritesStep, EffectsStep, RequestsStep, TimerStep,
     HistoryStep, LocksStep, StagingStep, DescribedStep, ShadowedStep, TickingStep, UploadedStep
  DEF IInv, TypeOK
<1>2. QED
  BY InitIInv, <1>1, PTL DEF Spec

-----------------------------------------------------------------------------
\* All variables of the frame engine keep their types, whatever the sizes.
THEOREM TypeCorrect == Spec => []TypeOK
BY IInvHolds, PTL DEF IInv

\* Every transfer goes out with the two halves of one party's parameters, with no
\* V-Blank in between, RV only around it; and a running palette animation has the parameters of
\* one command, its counters below their limits.
THEOREM TransfersAreWhole == Spec => []ParametersWhole
<1>1. IInv => ParametersWhole
  BY DEF IInv, Locks, Staging, Described, ParametersWhole, TransferWhole, Requester
<1>2. QED
  BY IInvHolds, <1>1, PTL

\* No sprite table is uploaded with a link missing, and when no command is at work
\* video RAM shows what work RAM holds, or the object is about to be put there.
THEOREM TablesAreWhole == Spec => []TableWhole
<1>1. IInv => TableWhole
  BY DEF IInv, Locks, Uploaded, Due, AllLinked, TableWhole
<1>2. QED
  BY IInvHolds, <1>1, PTL

\* Outside a transfer register 1 of the VDP is as its shadow says.
THEOREM ShadowIsTrue == Spec => []RegisterIsShadow
BY IInvHolds, PTL DEF IInv, Shadowed

-----------------------------------------------------------------------------
\* What the handler does for commands that wait for it.

\* A copy waits for the handler with both halves of its description written by the
\* command that waits.
CopyServed ==
  /\ dispatch = 1 => main = "copyEnd"
  /\ main = "copyWhere" => copy.what = calls
  /\ main \in {"copyAsk", "copyEnd"} => copy = [what |-> calls, where |-> calls]
  /\ main = "copyEnd" /\ dispatch = 0 => copied = copy

\* Rows to read start out as asked; the rows below the next place are read, each in
\* its place, and with the rows left they are as many as were asked for.
InPlace(n) == \A row \in 0..(n - 1) : placed[row] = row
RowsServed ==
  /\ main \in {"rowsAsk", "rowsEnd"} => want <= MaxRows
  /\ main = "rowsAsk" => rows = [at |-> 0, to |-> 0, left |-> want]
  /\ dispatch = 4 => /\ main = "rowsEnd"
                     /\ rows.at = rows.to /\ rows.to + rows.left = want
                     /\ InPlace(rows.to)
  /\ main = "rowsEnd" /\ dispatch = 0 => InPlace(want)

\* A frame asked for is counted once, when it has come or while it is waited for.
FramesServed ==
  /\ main = "frames" => seen + left >= want
  /\ main = "spin" => seen + left + (IF waiting THEN 1 ELSE 0) >= want

\* Buttons of an older mask are gone once command 36 is through.
ButtonsServed == main # "timerClear" => pressed \subseteq mask

\* With IInv, this is inductive.
Serving == CopyServed /\ RowsServed /\ FramesServed /\ ButtonsServed

\* A copy is asked for by the command that described it, and by no other until it is
\* made.
LEMMA CopyServedStep == ASSUME IInv, Serving, [Next]_vars PROVE CopyServed'
<1> USE DEF IInv, TypeOK, ProgramTyped, RequestsTyped, Serving, CopyServed, At, Goto, Issue,
            program, register, transfer, sprites, effects, requests, timer, history
<1>1. CASE Command
  BY <1>1 DEF Command, BeginTransfer, UpdateSprites, ClearSprites, SetupObject, ObjectOff,
              BeginAnimation, WaitFrames, Await, ConfigScrollBar, CopyWhat, RowsBegin,
              SetTimer, SwitchDisplay
<1>2. CASE Step
  <2>1. CASE RowsDirect
    BY <2>1 DEF RowsDirect, ReadRows
  <2>2. CASE CopyWhere \/ CopyAsk \/ CopyEnd
    BY <2>2 DEF CopyWhere, CopyAsk, CopyEnd
  <2>3. CASE NextFrame
    BY <2>3 DEF NextFrame
  <2>4. CASE Fired
    BY <2>4 DEF Fired
  <2>5. CASE RowsAsk \/ RowsEnd
    BY <2>5 DEF RowsAsk, RowsEnd
  <2>6. CASE \E rom \in BOOLEAN : StageSource(rom)
    BY <2>6 DEF StageSource
  <2>7. CASE StageTarget \/ Fire \/ InitSpriteLinks \/ InitDisplayLayout
    BY <2>7 DEF StageTarget, Fire, InitSpriteLinks, InitDisplayLayout
  <2>8. CASE (\E y \in Heights : ObjectEntries(y)) \/ ObjectOn \/ ObjectShow \/ ObjectClear
    BY <2>8 DEF ObjectEntries, ObjectOn, ObjectShow, ObjectClear
  <2>9. CASE \/ AnimationPlace \/ AnimationWind \/ AnimationStart
             \/ \E x \in Animations : AnimationShape(x)
    BY <2>9 DEF AnimationPlace, AnimationStep, AnimationWind, AnimationStart, AnimationShape
  <2>10. CASE Spin \/ BarSet \/ BarOn \/ TimerClear
    BY <2>10 DEF Spin, BarSet, BarOn, TimerClear
  <2>11. CASE \E on \in BOOLEAN : DisplaySwitched(on)
    BY <2>11 DEF DisplaySwitched
  <2>12. QED
    BY <1>2, <2>1, <2>2, <2>3, <2>4, <2>5, <2>6, <2>7, <2>8, <2>9, <2>10, <2>11 DEF Step
<1>3. CASE Handler
  <2>1. CASE Dispatch
    BY <2>1 DEF Dispatch, ReadRows, RowsServed
  <2>2. QED
    BY <1>3, <2>1 DEF Handler, DisplayUpdate, VIntSub1, VIntSub2, LastUpdates
<1>4. CASE Dma \/ VBlank \/ UNCHANGED vars
  BY <1>4 DEF Dma, DmaStart, DmaEnd, VBlank, vars
<1>5. QED
  BY <1>1, <1>2, <1>3, <1>4 DEF Next

\* One pass of VInt_Handler3 puts up to four more rows in their places.
LEMMA RowsRead ==
  ASSUME RequestsTyped, HistoryTyped, RowsServed, dispatch = 4, ReadRows,
         UNCHANGED <<main, want>>
  PROVE  RowsServed'
<1> DEFINE pass == Lesser(RowsPerBlank, rows.left)
<1> USE EngineAssumption
<1>1. /\ rows \in [at: Nat, to: Nat, left: Nat] /\ want \in Nat
      /\ placed \in [0..(MaxRows - 1) -> Nat \cup {-1}]
  BY DEF RequestsTyped, HistoryTyped
<1>2. /\ main = "rowsEnd" /\ want <= MaxRows
      /\ rows.at = rows.to /\ rows.to + rows.left = want /\ InPlace(rows.to)
  BY DEF RowsServed
<1>3. pass \in Nat /\ pass <= rows.left /\ (pass # rows.left => pass = RowsPerBlank)
  BY <1>1 DEF Lesser, RowsPerBlank
<1>4. \A row \in 0..(rows.to + pass - 1) : placed'[row] = row
  <2>1. placed' = [row \in 0..(MaxRows - 1) |->
                    IF row \in rows.to..(rows.to + pass - 1)
                      THEN rows.at + row - rows.to ELSE placed[row]]
    BY <1>1 DEF ReadRows
  <2>2. ASSUME NEW row \in 0..(rows.to + pass - 1) PROVE placed'[row] = row
    <3>1. row \in 0..(MaxRows - 1)
      BY <1>1, <1>2, <1>3
    <3>2. CASE row >= rows.to
      BY <1>1, <1>2, <1>3, <2>1, <3>1, <3>2
    <3>3. CASE row < rows.to
      BY <1>1, <1>2, <1>3, <2>1, <3>1, <3>3 DEF InPlace
    <3>4. QED
      BY <1>1, <3>2, <3>3
  <2>3. QED
    BY <2>2
<1>5. CASE pass = rows.left
  BY <1>1, <1>2, <1>3, <1>4, <1>5 DEF ReadRows, RowsServed, InPlace
<1>6. CASE pass # rows.left
  <2>1. rows' = [at |-> rows.at + pass, to |-> rows.to + pass, left |-> rows.left - pass]
    BY <1>1, <1>3, <1>6 DEF ReadRows, PlaceReached
  <2>2. dispatch' = 4 /\ main' = "rowsEnd" /\ want' = want
    BY <1>2, <1>6 DEF ReadRows
  <2>3. /\ rows'.at = rows'.to /\ rows'.to + rows'.left = want
        /\ \A row \in 0..rows'.to - 1 : placed'[row] = row
    BY <1>1, <1>2, <1>3, <1>4, <2>1
  <2>4. QED
    BY <1>2, <2>2, <2>3 DEF RowsServed, InPlace
<1>7. QED
  BY <1>5, <1>6

\* Passes of the handler, or of the main line itself, go on where the last one ended.
LEMMA RowsServedStep == ASSUME IInv, Serving, [Next]_vars PROVE RowsServed'
<1> USE EngineAssumption DEF IInv, TypeOK, ProgramTyped, RequestsTyped, Serving, CopyServed,
                             RowsServed, InPlace, At, Goto, Issue, program, register,
                             transfer, sprites, effects, requests, timer, history
<1>1. CASE Command
  BY <1>1, SMTT(30)
     DEF Command, BeginTransfer, UpdateSprites, ClearSprites, SetupObject, ObjectOff,
         BeginAnimation, WaitFrames, Await, ConfigScrollBar, CopyWhat, RowsBegin, SetTimer,
         SwitchDisplay
<1>2. CASE Step
  <2>1. CASE RowsDirect
    BY <2>1, RowsRead DEF RowsDirect
  <2>2. CASE RowsAsk
    BY <2>2 DEF RowsAsk, HistoryTyped
  <2>3. CASE NextFrame
    BY <2>3 DEF NextFrame
  <2>4. CASE Fired
    BY <2>4 DEF Fired
  <2>5. CASE CopyWhere \/ CopyAsk \/ CopyEnd \/ RowsEnd
    BY <2>5 DEF CopyWhere, CopyAsk, CopyEnd, RowsEnd
  <2>6. CASE \E rom \in BOOLEAN : StageSource(rom)
    BY <2>6 DEF StageSource
  <2>7. CASE StageTarget \/ Fire \/ InitSpriteLinks \/ InitDisplayLayout
    BY <2>7 DEF StageTarget, Fire, InitSpriteLinks, InitDisplayLayout
  <2>8. CASE (\E y \in Heights : ObjectEntries(y)) \/ ObjectOn \/ ObjectShow \/ ObjectClear
    BY <2>8 DEF ObjectEntries, ObjectOn, ObjectShow, ObjectClear
  <2>9. CASE \/ AnimationPlace \/ AnimationWind \/ AnimationStart
             \/ \E x \in Animations : AnimationShape(x)
    BY <2>9 DEF AnimationPlace, AnimationStep, AnimationWind, AnimationStart, AnimationShape
  <2>10. CASE Spin \/ BarSet \/ BarOn \/ TimerClear
    BY <2>10 DEF Spin, BarSet, BarOn, TimerClear
  <2>11. CASE \E on \in BOOLEAN : DisplaySwitched(on)
    BY <2>11 DEF DisplaySwitched
  <2>12. QED
    BY <1>2, <2>1, <2>2, <2>3, <2>4, <2>5, <2>6, <2>7, <2>8, <2>9, <2>10, <2>11 DEF Step
<1>3. CASE Handler
  <2>1. CASE Dispatch
    <3>1. CASE dispatch = 4
      BY <2>1, <3>1, RowsRead DEF Dispatch
    <3>2. CASE dispatch # 4
      BY <2>1, <3>2 DEF Dispatch
    <3>3. QED
      BY <3>1, <3>2
  <2>2. QED
    BY <1>3, <2>1 DEF Handler, DisplayUpdate, VIntSub1, VIntSub2, LastUpdates
<1>4. CASE Dma \/ VBlank \/ UNCHANGED vars
  BY <1>4 DEF Dma, DmaStart, DmaEnd, VBlank, vars
<1>5. QED
  BY <1>1, <1>2, <1>3, <1>4 DEF Next

\* A frame that is waited for cannot pass uncounted.
LEMMA FramesServedStep == ASSUME IInv, Serving, [Next]_vars PROVE FramesServed'
<1> USE EngineAssumption DEF IInv, TypeOK, ProgramTyped, HistoryTyped, RequestsTyped, Serving,
                             FramesServed, At, Goto, Issue, program, register, transfer,
                             sprites, effects, requests, timer, history
<1>1. CASE Command
  <2>1. CASE \E n \in FramesWanted : WaitFrames(n)
    BY <2>1 DEF WaitFrames, Await
  <2>2. CASE \E next \in {"idle", "barSet"} : ConfigScrollBar(next)
    BY <2>2, SMTT(30) DEF ConfigScrollBar, Await
  <2>3. CASE \E n \in RowsWanted : RowsBegin(n)
    BY <2>3 DEF RowsBegin
  <2>4. QED
    BY <1>1, <2>1, <2>2, <2>3
       DEF Command, BeginTransfer, UpdateSprites, ClearSprites, SetupObject, ObjectOff,
           BeginAnimation, CopyWhat, SetTimer, SwitchDisplay
<1>2. CASE Step
  <2>1. CASE NextFrame
    BY <2>1 DEF NextFrame
  <2>2. CASE Spin
    BY <2>2 DEF Spin
  <2>3. QED
    BY <1>2, <2>1, <2>2 DEF Step, StageSource, StageTarget, Fire, Fired, InitSpriteLinks,
                      InitDisplayLayout, ObjectEntries, ObjectOn, ObjectShow, ObjectClear,
                      AnimationPlace, AnimationStep, AnimationWind, AnimationStart,
                      AnimationShape, BarSet, BarOn, CopyWhere, CopyAsk, CopyEnd,
                      RowsAsk, RowsDirect, RowsEnd, TimerClear, DisplaySwitched
<1>3. CASE Handler
  <2>1. CASE \E held \in SUBSET Buttons : LastUpdates(held)
    BY <2>1 DEF LastUpdates
  <2>2. CASE Dispatch
    BY <2>2 DEF Dispatch
  <2>3. CASE DisplayUpdate
    BY <2>3 DEF DisplayUpdate
  <2>4. CASE \E blank \in BOOLEAN : VIntSub1(blank)
    BY <2>4 DEF VIntSub1
  <2>5. CASE VIntSub2
    BY <2>5 DEF VIntSub2
  <2>6. QED
    BY <1>3, <2>1, <2>2, <2>3, <2>4, <2>5 DEF Handler
<1>4. CASE Dma \/ VBlank \/ UNCHANGED vars
  BY <1>4, SMTT(30) DEF Dma, DmaStart, DmaEnd, VBlank, vars
<1>5. QED
  BY <1>1, <1>2, <1>3, <1>4 DEF Next

\* The handler adds buttons of the present mask only.
LEMMA ButtonsServedStep == ASSUME IInv, Serving, [Next]_vars PROVE ButtonsServed'
<1> USE DEF Serving, ButtonsServed, At, Goto, Issue, program,
            register, transfer, sprites, effects, requests, timer, history
<1>1. CASE Command
  BY <1>1 DEF Command, BeginTransfer, UpdateSprites, ClearSprites, SetupObject, ObjectOff,
              BeginAnimation, WaitFrames, Await, ConfigScrollBar, CopyWhat, RowsBegin,
              SetTimer, SwitchDisplay
<1>2. CASE Step
  BY <1>2 DEF Step, StageSource, StageTarget, Fire, Fired, InitSpriteLinks,
              InitDisplayLayout, ObjectEntries, ObjectOn, ObjectShow, ObjectClear,
              AnimationPlace, AnimationStep, AnimationWind, AnimationStart,
              AnimationShape, NextFrame, Spin, BarSet, BarOn, CopyWhere, CopyAsk, CopyEnd,
              RowsAsk, RowsDirect, RowsEnd, TimerClear, DisplaySwitched
<1>3. CASE Handler
  BY <1>3 DEF Handler, DisplayUpdate, VIntSub1, VIntSub2, Dispatch, LastUpdates
<1>4. CASE Dma \/ VBlank \/ UNCHANGED vars
  BY <1>4 DEF Dma, DmaStart, DmaEnd, VBlank, vars
<1>5. QED
  BY <1>1, <1>2, <1>3, <1>4 DEF Next

\* A command that waits for the handler returns when all it asked for has been done:
\* the copy with both halves of its description, each row in its place, at least as
\* many frames as it was told, and no button of an older mask (CmdSetupSprite,
\* CmdWaitDMA, VInt_Handler3, CmdWaitFrames, CmdSetTimer).
THEOREM RequestsAreServed == Spec => []RequestsServed
<1>1. Init => Serving
  BY DEF Init, Serving, CopyServed, RowsServed, FramesServed, ButtonsServed
<1>2. IInv /\ Serving /\ [Next]_vars => Serving'
  BY CopyServedStep, RowsServedStep, FramesServedStep, ButtonsServedStep DEF Serving
<1>3. Serving => RequestsServed
  BY DEF Serving, CopyServed, RowsServed, FramesServed, ButtonsServed, InPlace, RequestsServed
<1>4. QED
  BY <1>1, <1>2, <1>3, IInvHolds, PTL DEF Spec

---------------------------------------------------------------------------
(* LzTransport: a block reaches its caller whole.                          *)

\* The bytes of the present job fill mem up to n.
Holds(mem, n) == \A x \in Places : x < n => mem[x] = job
\* The same for the words that have been copied.
HoldsSoFar(mem, n) == \A x \in Places : x < 2 * i /\ x < n => mem[x] = job

\* The caller's own bytes are untouched from n on.
Spares(n) == \A x \in Places : x >= n => buffer[x] = Callers

TypeInv ==
  /\ job \in Nat /\ size \in 0..OutMax /\ i \in Nat
  /\ arg0 \in 0..OutMax /\ d0 \in 0..OutMax
  /\ lz_out \in [Places -> Int] /\ fb \in [Places -> Int] /\ buffer \in [Places -> Int]

\* How far the block has come at each place of the code: each copying loop has
\* moved whole words, and what it copies from is complete.
Progress ==
  /\ pc \in {"idle", "decompress", "copy", "answered", "move"}
  /\ pc = "copy" => /\ Holds(lz_out, arg0)
                    /\ HoldsSoFar(fb, arg0)
  /\ pc = "answered" => Holds(fb, arg0)
  /\ pc = "move" => /\ Holds(fb, d0)
                    /\ HoldsSoFar(buffer, d0)
  /\ pc = "idle" => Holds(buffer, d0)

\* What is left of the caller's own bytes: all of them until the 68000 moves the
\* block, and from then on those behind the words it has moved.
Sparing ==
  /\ pc \in {"decompress", "copy", "answered"} => Spares(0)
  /\ pc = "move" => Spares(2 * i) /\ i < Words(d0)
  /\ pc = "idle" /\ job > 0 => Spares(2 * Words(d0))

Inv == TypeInv /\ Progress

LEMMA InitInv == TransportInit => Inv
  BY TransportAssumption DEF TransportInit, Inv, TypeInv, Progress, Holds, HoldsSoFar, Places, Blank

\* One more word of a complete block makes the copy two bytes longer.
LEMMA WordCopied ==
  ASSUME i \in Nat, NEW n \in 0..OutMax,
         NEW from \in [Places -> Int], NEW to \in [Places -> Int],
         Holds(from, n), HoldsSoFar(to, n)
  PROVE  /\ WithWord(to, from) \in [Places -> Int]
         /\ \A x \in Places : x < 2 * (i + 1) /\ x < n => WithWord(to, from)[x] = job
<1>1. ASSUME NEW x \in Places
      PROVE  /\ WithWord(to, from)[x] = IF x = 2 * i + 1 \/ x = 2 * i THEN from[x] ELSE to[x]
             /\ WithWord(to, from)[x] \in Int
  BY DEF WithWord
<1>2. WithWord(to, from) \in [Places -> Int]
  BY <1>1 DEF WithWord
<1>3. ASSUME NEW x \in Places, x < 2 * (i + 1), x < n
      PROVE  WithWord(to, from)[x] = job
  <2>1. x \in Nat /\ (x < 2 * i \/ x = 2 * i \/ x = 2 * i + 1)
    BY <1>3, TransportAssumption DEF Places
  <2> QED
    BY <2>1, <1>1, <1>3 DEF Holds, HoldsSoFar
<1> QED
  BY <1>2, <1>3

LEMMA NextInv == Inv /\ [TransportNext]_transport => Inv'
<1> SUFFICES ASSUME Inv, [TransportNext]_transport PROVE Inv'
  OBVIOUS
<1> USE TransportAssumption
<1>1. CASE Ask
  BY <1>1 DEF Ask, Inv, TypeInv, Progress, Callers, Places
<1>2. CASE Decompress
  <2>1. TypeInv'
    BY <1>2 DEF Decompress, Inv, TypeInv, Refused, Places
  <2>2. Progress'
    <3>1. CASE Refused
      BY <3>1, <1>2 DEF Decompress, Inv, TypeInv, Progress, Holds, HoldsSoFar, Places
    <3>2. CASE ~Refused
      <4>1. Written = size /\ arg0' = size /\ i' = 0 /\ job' = job /\ pc' = "copy"
        BY <3>2, <1>2 DEF Decompress, Written
      <4>2. \A x \in Places : x < size => lz_out'[x] = job
        BY <4>1, <1>2 DEF Decompress
      <4> QED
        BY <4>1, <4>2 DEF Inv, TypeInv, Progress, Holds, HoldsSoFar, Places
    <3> QED
      BY <3>1, <3>2
  <2> QED
    BY <2>1, <2>2 DEF Inv
<1>3. CASE CopyWord
  <2>1. WithWord(fb, lz_out) \in [Places -> Int] /\ HoldsSoFar(fb, arg0)'
    <3>1. \A x \in Places : x < 2 * (i + 1) /\ x < arg0 => WithWord(fb, lz_out)[x] = job
      BY <1>3, WordCopied DEF CopyWord, Inv, TypeInv, Progress
    <3>2. WithWord(fb, lz_out) \in [Places -> Int]
      BY <1>3, WordCopied DEF CopyWord, Inv, TypeInv, Progress
    <3> QED
      BY <3>1, <3>2, <1>3 DEF CopyWord, HoldsSoFar
  <2>2. TypeInv'
    BY <2>1, <1>3 DEF CopyWord, Inv, TypeInv
  <2> QED
    BY <2>1, <2>2, <1>3 DEF CopyWord, Inv, Progress, Holds
<1>4. CASE Answer
  <2>1. 2 * i >= arg0
    BY <1>4 DEF Answer, Words, Inv, TypeInv
  <2> QED
    BY <2>1, <1>4, SMTT(30) DEF Answer, Inv, TypeInv, Progress, Holds, HoldsSoFar, Places
<1>5. CASE ReadResult
  BY <1>5 DEF ReadResult, Inv, TypeInv, Progress, Holds, HoldsSoFar, Places
<1>6. CASE MoveWord
  <2>1. WithWord(buffer, fb) \in [Places -> Int]
    BY <1>6, WordCopied DEF MoveWord, Inv, TypeInv, Progress
  <2>2. \A x \in Places : x < 2 * (i + 1) /\ x < d0 => WithWord(buffer, fb)[x] = job
    BY <1>6, WordCopied DEF MoveWord, Inv, TypeInv, Progress
  <2>3. TypeInv'
    BY <2>1, <1>6 DEF MoveWord, Inv, TypeInv
  <2>4. CASE i + 1 = Words(d0)
    <3>1. i \in Nat /\ d0 \in Nat
      BY DEF Inv, TypeInv
    <3>2. d0 <= 2 * (i + 1)
      BY <2>4, <3>1 DEF Words
    <3>3. \A x \in Places : x < d0 => WithWord(buffer, fb)[x] = job
      BY <2>2, <3>1, <3>2 DEF Places
    <3> QED
      BY <2>3, <2>4, <3>3, <1>6 DEF MoveWord, Inv, Progress, Holds
  <2>5. CASE i + 1 # Words(d0)
    BY <2>2, <2>3, <2>5, <1>6 DEF MoveWord, Inv, Progress, Holds, HoldsSoFar
  <2> QED
    BY <2>4, <2>5
<1>7. CASE UNCHANGED transport
  BY <1>7 DEF transport, Inv, TypeInv, Progress, Holds, HoldsSoFar
<1> QED
  BY <1>1, <1>2, <1>3, <1>4, <1>5, <1>6, <1>7 DEF TransportNext

LEMMA InitSparing == TransportInit => Sparing
  BY DEF TransportInit, Sparing

LEMMA NextSparing == Inv /\ Sparing /\ [TransportNext]_transport => Sparing'
<1> SUFFICES ASSUME Inv, Sparing, [TransportNext]_transport PROVE Sparing'
  OBVIOUS
<1> USE TransportAssumption
<1>1. CASE Ask
  BY <1>1 DEF Ask, Sparing, Spares, Places
<1>2. CASE Decompress
  BY <1>2 DEF Decompress, Sparing, Spares
<1>3. CASE CopyWord
  BY <1>3 DEF CopyWord, Sparing, Spares
<1>4. CASE Answer
  BY <1>4 DEF Answer, Sparing, Spares
<1>5. CASE ReadResult
  <2>1. Spares(0) /\ arg0 \in 0..OutMax /\ buffer' = buffer /\ d0' = arg0 /\ i' = 0
    BY <1>5 DEF ReadResult, Sparing, Inv, TypeInv
  <2>2. CASE arg0 = 0
    BY <2>1, <2>2, <1>5 DEF ReadResult, Sparing, Spares, Words, Places
  <2>3. CASE arg0 # 0
    <3>1. 0 < Words(arg0)
      BY <2>1, <2>3 DEF Words
    <3> QED
      BY <2>1, <2>3, <3>1, <1>5 DEF ReadResult, Sparing, Spares, Words
  <2> QED
    BY <2>2, <2>3
<1>6. CASE MoveWord
  <2>1. /\ Spares(2 * i) /\ i < Words(d0) /\ i \in Nat /\ d0 \in 0..OutMax
        /\ buffer \in [Places -> Int]
    BY <1>6 DEF MoveWord, Sparing, Inv, TypeInv
  <2>2. Words(d0) \in Int
    BY <2>1 DEF Words
  <2>3. ASSUME NEW x \in Places, x >= 2 * (i + 1)
        PROVE  buffer'[x] = Callers
    <3>1. x \in Int /\ x # 2 * i /\ x # 2 * i + 1 /\ x >= 2 * i
      BY <2>1, <2>3 DEF Places
    <3>2. buffer'[x] = buffer[x]
      BY <2>1, <3>1, <1>6 DEF MoveWord, WithWord
    <3> QED
      BY <2>1, <3>1, <3>2 DEF Spares
  <2>4. CASE i + 1 = Words(d0)
    BY <2>3, <2>4, <1>6 DEF MoveWord, Sparing, Spares, Words
  <2>5. CASE i + 1 # Words(d0)
    <3>1. i + 1 < Words(d0)
      BY <2>1, <2>2, <2>5
    <3> QED
      BY <2>3, <2>5, <3>1, <1>6 DEF MoveWord, Sparing, Spares, Words
  <2> QED
    BY <2>4, <2>5
<1>7. CASE UNCHANGED transport
  BY <1>7 DEF transport, Sparing, Spares, Words
<1> QED
  BY <1>1, <1>2, <1>3, <1>4, <1>5, <1>6, <1>7 DEF TransportNext

\* For every size of block and of output buffer, and any number of calls, a call
\* that returns d0 has put the block's own d0 bytes into the caller's buffer, and
\* has spared what lies behind them but for the byte that fills the last word.
THEOREM BlockDelivered == TransportSpec => []Delivers
<1>1. Inv /\ Sparing => Delivers
  BY DEF Inv, Progress, Sparing, Delivers, Holds, Spares
<1> QED
  BY InitInv, NextInv, InitSparing, NextSparing, <1>1, PTL DEF TransportSpec

---------------------------------------------------------------------------
(* Divide68k: the routines are right for registers of any width, of which  *)
(* TLC runs through all operands of three-bit halves; the 68000 has halves *)
(* of sixteen.  First quotients, remainders and the halves of registers,   *)
(* for which BinaryProofs has the weights of the bits, then the invariant. *)

\* A register has two halves, and a sign bit at the top.
LEMMA Registers ==
  /\ B \in Nat /\ B >= 2 /\ R \in Nat /\ R = B * B /\ R >= 2 * B
  /\ Weight[K - 1] \in Nat /\ B = 2 * Weight[K - 1]
  /\ R \div 2 = Weight[K - 1] * B /\ R = 2 * (R \div 2)
<1>1. K - 1 \in Nat /\ K \in Nat /\ (K - 1) + 1 = K
  BY DivideAssumption DEF DivideAssumption
<1>2. Weight[K - 1] \in Nat \ {0} /\ Weight[(K - 1) + 1] = 2 * Weight[K - 1]
  BY <1>1, WeightDoubles
<1>3. Weight[K - 1] \in Nat \ {0} /\ B = 2 * Weight[K - 1]
  BY <1>1, <1>2 DEF B
<1> DEFINE W == Weight[K - 1]
<1>4. W \in Nat \ {0} /\ B = 2 * W /\ R = B * B
  BY <1>3 DEF R
<1> HIDE DEF W
<1>5. B \in Nat /\ B >= 2 /\ R = 2 * (W * B) + 0
  BY <1>4
<1>6. W * B \in Nat /\ R \in Nat
  BY <1>4, <1>5
<1>7. R \div 2 = W * B
  <2>1. R = (W * B) * 2 + 0
    BY <1>5, <1>6
  <2>2. QED
    BY <1>6, <2>1, Divided
<1>8. (B - 2) * B >= 0
  BY <1>5
<1>9. R >= 2 * B
  BY <1>4, <1>5, <1>8
<1>10. QED
  BY <1>4, <1>5, <1>6, <1>7, <1>9 DEF W

\* The halves of a register.
LEMMA Halves ==
  ASSUME NEW x \in 0..R - 1
  PROVE  High(x) \in 0..B - 1 /\ Low(x) \in 0..B - 1 /\ x = High(x) * B + Low(x)
<1>1. B \in Nat \ {0} /\ R = B * B /\ x \in Int
  BY Registers
<1>2. High(x) \in Int /\ Low(x) \in 0..B - 1 /\ x = High(x) * B + Low(x)
  BY <1>1, DivMod DEF High, Low
<1>3. ~(High(x) < 0)
  <2>1. High(x) < 0 => High(x) * B + Low(x) < 0 * B
    BY <1>1, <1>2, PlaceValue
  <2>2. QED
    BY <1>1, <1>2, <2>1
<1>4. ~(High(x) >= B)
  BY <1>1, <1>2, PlaceValue
<1>5. QED
  BY <1>1, <1>2, <1>3, <1>4

\* A register put together from two halves.
LEMMA Joined ==
  ASSUME NEW h \in 0..B - 1, NEW l \in 0..B - 1
  PROVE  h * B + l \in 0..R - 1 /\ High(h * B + l) = h /\ Low(h * B + l) = l
<1>1. B \in Nat \ {0} /\ R = B * B
  BY Registers
<1>2. h * B \in Nat
  BY <1>1
<1>3. h * B + l < B * B
  BY <1>1, PlaceValue
<1>4. High(h * B + l) = h /\ Low(h * B + l) = l
  <2>1. h * B + l \in Int /\ B \in Nat /\ h \in Int
    BY <1>1, <1>2
  <2>2. QED
    BY <2>1, Divided DEF High, Low
<1>5. QED
  BY <1>1, <1>2, <1>3, <1>4

\* Negating twice: the size of a number is what NEG makes of a negative one.
LEMMA Signs ==
  ASSUME NEW x \in 0..R - 1
  PROVE  /\ Signed(x) \in Int /\ Abs(x) \in 0..R - 1 /\ Size(Signed(x)) = Abs(x)
         /\ Signed(x) = IF Signed(x) < 0 THEN -Abs(x) ELSE Abs(x)
         /\ x # 0 => Abs(x) # 0
<1>1. R \in Nat /\ R = 2 * (R \div 2) /\ R \div 2 \in Nat /\ R >= 4
  BY Registers
<1>2. CASE x < R \div 2
  BY <1>1, <1>2 DEF Signed, Abs, Size
<1>3. CASE ~(x < R \div 2)
  <2>1. -x = -1 * R + (R - x) /\ R - x \in 0..R - 1
    BY <1>1, <1>3
  <2>2. Neg(x) = R - x
    <3>1. -x \in Int /\ -1 \in Int
      BY <1>1
    <3>2. QED
      BY <1>1, <2>1, <3>1, Divided DEF Neg
  <2>3. Signed(x) = x - R /\ x - R < 0
    BY <1>1, <1>3 DEF Signed
  <2>4. QED
    BY <1>1, <1>3, <2>1, <2>2, <2>3 DEF Abs, Size
<1>4. QED
  BY <1>2, <1>3

\* A quotient is below n if the dividend is below n times the divisor.
LEMMA Fits ==
  ASSUME NEW x \in Nat, NEW y \in Nat \ {0}, NEW n \in Nat, x < n * y \/ x < y * n \/ x < n
  PROVE  x \div y \in 0..n - 1
<1>1. x \div y \in Int /\ x % y \in 0..y - 1 /\ x = (x \div y) * y + (x % y)
  BY DivMod
<1>2. y * n = n * y /\ n * y \in Nat /\ n <= n * y
  <2>1. n * (y - 1) >= 0
    OBVIOUS
  <2>2. QED
    BY <2>1
<1>3. x < n * y
  BY <1>2
<1>4. ~(x \div y < 0)
  <2>1. x \div y < 0 => (x \div y) * y + (x % y) < 0 * y
    BY <1>1, PlaceValue
  <2>2. QED
    BY <1>1, <2>1
<1>5. ~(x \div y >= n)
  <2>1. x \div y >= n => (x \div y) * y + (x % y) >= n * y
    BY <1>1, PlaceValue
  <2>2. QED
    BY <1>1, <1>3, <2>1
<1>6. QED
  BY <1>1, <1>4, <1>5

----------------------------------------------------------------------------
\* The top bit is the one that ADD.L shifts out and ADDX takes in.
LEMMA ShiftedOut ==
  ASSUME NEW x \in 0..R - 1
  PROVE  /\ High(2 * High(x)) = IF x >= R \div 2 THEN 1 ELSE 0
         /\ (2 * x) % R = IF x >= R \div 2 THEN 2 * x - R ELSE 2 * x
<1> DEFINE W == Weight[K - 1]
           h == High(x)
<1>1. /\ B \in Nat \ {0} /\ B >= 2 /\ R \in Nat /\ R \div 2 \in Nat /\ W \in Nat
      /\ B = 2 * W /\ R \div 2 = W * B /\ R = 2 * (R \div 2) /\ x \in Nat
  BY Registers
<1>2. h \in 0..B - 1 /\ Low(x) \in 0..B - 1 /\ x = h * B + Low(x)
  BY Halves
<1>3. (h < W => x < R \div 2) /\ (h >= W => x >= R \div 2)
  <2> HIDE DEF W, h
  <2>1. (h < W => h * B + Low(x) < W * B) /\ (h >= W => h * B + Low(x) >= W * B)
    BY <1>1, <1>2, PlaceValue
  <2>2. QED
    BY <1>1, <1>2, <2>1
<1> HIDE DEF W, h
<1>4. CASE x >= R \div 2
  <2>1. h >= W
    BY <1>1, <1>2, <1>3, <1>4
  <2>2. 2 * h = 1 * B + (2 * h - B) /\ 2 * h - B \in 0..B - 1
    BY <1>1, <1>2, <2>1
  <2>3. (2 * h) \div B = 1
    <3>1. 2 * h \in Int /\ B \in Nat /\ 1 \in Int
      BY <1>1, <1>2
    <3>2. QED
      BY <2>2, <3>1, Divided
  <2>4. 2 * x = 1 * R + (2 * x - R) /\ 2 * x - R \in 0..R - 1
    BY <1>1, <1>4
  <2>5. (2 * x) % R = 2 * x - R
    <3>1. 2 * x \in Int /\ R \in Nat /\ 1 \in Int
      BY <1>1
    <3>2. QED
      BY <2>4, <3>1, Divided
  <2>6. QED
    BY <1>4, <2>3, <2>5 DEF High, h
<1>5. CASE ~(x >= R \div 2)
  <2>1. h < W
    BY <1>1, <1>2, <1>3, <1>5
  <2>2. 2 * h = 0 * B + 2 * h /\ 2 * h \in 0..B - 1
    BY <1>1, <1>2, <2>1
  <2>3. (2 * h) \div B = 0
    <3>1. 2 * h \in Int /\ B \in Nat /\ 0 \in Int
      BY <1>1, <1>2
    <3>2. QED
      BY <2>2, <3>1, Divided
  <2>4. 2 * x = 0 * R + 2 * x /\ 2 * x \in 0..R - 1
    BY <1>1, <1>5
  <2>5. (2 * x) % R = 2 * x
    <3>1. 2 * x \in Int /\ R \in Nat /\ 0 \in Int
      BY <1>1
    <3>2. QED
      BY <2>4, <3>1, Divided
  <2>6. QED
    BY <1>5, <2>3, <2>5 DEF High, h
<1>6. QED
  BY <1>4, <1>5

\* D0 in the loop holds the quotient's bits below t and the dividend's last bits
\* above: shifted left, it gives up the first of these.
LEMMA ShiftedLeft ==
  ASSUME NEW t \in Nat \ {0}, NEW v \in Nat \ {0}, R = (2 * v) * t,
         NEW q \in 0..t - 1, NEW p \in 0..2 * v - 1
  PROVE  LET x == p * t + q
             bit == High(2 * High(x))
         IN /\ x \in 0..R - 1 /\ bit \in {0, 1}
            /\ p - bit * v \in 0..v - 1
            /\ (2 * x) % R = (p - bit * v) * (2 * t) + 2 * q
<1> DEFINE x == p * t + q
<1>1. R \in Nat /\ R = 2 * (R \div 2) /\ R \div 2 \in Nat
  BY Registers
<1>2. v * t \in Nat /\ p * t \in Nat /\ R = 2 * (v * t)
  OBVIOUS
<1>3. R \div 2 = v * t
  BY <1>1, <1>2
<1>4. x \in 0..R - 1
  <2>1. p * t + q < (2 * v) * t
    BY PlaceValue
  <2>2. QED
    BY <1>1, <1>2, <2>1
<1>5. (p < v => x < R \div 2) /\ (p >= v => x >= R \div 2)
  <2>1. (p < v => p * t + q < v * t) /\ (p >= v => p * t + q >= v * t)
    BY PlaceValue
  <2>2. QED
    BY <1>3, <2>1
<1>6. 2 * x = p * (2 * t) + 2 * q /\ v * (2 * t) = R
  BY <1>2
<1> HIDE DEF x
<1>7. CASE p >= v
  <2>1. High(2 * High(x)) = 1 /\ (2 * x) % R = 2 * x - R
    BY <1>4, <1>5, <1>7, ShiftedOut
  <2>2. (p - v) * (2 * t) = p * (2 * t) - v * (2 * t) /\ v * (2 * t) \in Int
    OBVIOUS
  <2>3. p - 1 * v = p - v /\ p - v \in 0..v - 1
    BY <1>7
  <2>4. (2 * x) % R = (p - v) * (2 * t) + 2 * q
    BY <1>6, <2>1, <2>2
  <2>5. QED
    BY <1>4, <2>1, <2>3, <2>4 DEF x
<1>8. CASE p < v
  <2>1. High(2 * High(x)) = 0 /\ (2 * x) % R = 2 * x
    BY <1>1, <1>4, <1>5, <1>8, ShiftedOut
  <2>2. p - 0 * v = p /\ p \in 0..v - 1
    BY <1>8
  <2>3. (2 * x) % R = p * (2 * t) + 2 * q
    BY <1>6, <2>1
  <2>4. QED
    BY <1>4, <2>1, <2>2, <2>3 DEF x
<1>9. QED
  BY <1>7, <1>8

----------------------------------------------------------------------------
\* One turn of the loop: x is D0, r is D1, y the dividend and d the divisor, the bit
\* that ADDX takes in belongs to the remainder, and the divisor fits in once or not.
LEMMA OneBit ==
  ASSUME NEW t \in Nat \ {0}, NEW v \in Nat \ {0}, NEW q \in Nat, NEW p \in Nat,
         NEW r \in Nat, NEW d \in Nat, NEW y \in Nat, NEW bit \in {0, 1},
         q < t, p - bit * v \in 0..v - 1, r < d,
         y = (q * d + r) * (2 * v) + p,
         NEW once \in {0, 1}, IF once = 0 THEN 2 * r + bit < d ELSE 2 * r + bit >= d
  PROVE  /\ 2 * q + once \in 0..2 * t - 1
         /\ 2 * r + bit - once * d \in 0..d - 1
         /\ y = ((2 * q + once) * d + (2 * r + bit - once * d)) * v + (p - bit * v)
<1>1. q * d \in Nat /\ (q * d + r) * (2 * v) = (2 * (q * d) + 2 * r) * v
  OBVIOUS
<1>2. (2 * q + once) * d + (2 * r + bit - once * d) = 2 * (q * d) + 2 * r + bit
  <2>1. (2 * q) * d = 2 * (q * d)
    OBVIOUS
  <2>2. QED
    BY <2>1
<1>3. (2 * (q * d) + 2 * r + bit) * v = (2 * (q * d) + 2 * r) * v + bit * v
  BY <1>1
<1>4. bit * v \in Int /\ (2 * (q * d) + 2 * r) * v \in Int
  BY <1>1
<1>5. y = ((2 * q + once) * d + (2 * r + bit - once * d)) * v + (p - bit * v)
  BY <1>1, <1>2, <1>3, <1>4
<1>6. 2 * r + bit - once * d \in 0..d - 1
  BY <1>4
<1>7. QED
  BY <1>5, <1>6

\* A remainder and the bits still to come are no more than the dividend.
LEMMA Room ==
  ASSUME NEW t \in Nat \ {0}, NEW v \in Nat \ {0}, NEW q \in Nat, NEW p \in Nat,
         NEW r \in Nat, NEW d \in Nat, NEW y \in Nat,
         y = (q * d + r) * v + p, y < v * t
  PROVE  r < t
<1>1. q * d \in Nat /\ (q * d) * v \in Nat /\ r * v \in Nat /\ t * v = v * t
  OBVIOUS
<1>2. y = (q * d) * v + r * v + p
  BY <1>1
<1>3. r * v < t * v
  BY <1>1, <1>2
<1>4. ~(r >= t)
  <2>1. r >= t => r * v + 0 >= t * v
    BY PlaceValue
  <2>2. QED
    BY <1>1, <1>3, <2>1
<1>5. QED
  BY <1>4

\* UDiv_Overflow: neither of the two DIVUs overflows, and what they leave, put
\* together, is quotient and remainder of the whole.
LEMMA TwoSteps ==
  ASSUME NEW x \in 0..R - 1, NEW y \in 1..B - 1
  PROVE  LET first == Divu(High(x), y)
             next  == Divu(High(first) * B + Low(x), y)
         IN /\ Low(first) * B + Low(next) = x \div y /\ High(next) = x % y
            /\ Low(first) * B + Low(next) \in 0..R - 1 /\ High(next) \in 0..R - 1
<1>1. B \in Nat \ {0} /\ R = B * B /\ y \in Nat \ {0} /\ R >= B /\ R \in Nat
  BY Registers
<1> DEFINE h == High(x)
           l == Low(x)
           first == Divu(h, y)
           n == (h % y) * B + l
           next == Divu(n, y)
<1>2. h \in 0..B - 1 /\ l \in 0..B - 1 /\ x = h * B + l
  BY Halves
<1> HIDE DEF h, l
<1>3. h \div y \in Int /\ h % y \in 0..y - 1 /\ h = (h \div y) * y + (h % y)
  <2>1. h \in Int
    BY <1>2
  <2>2. QED
    BY <1>1, <2>1, DivMod
<1>4. h \div y \in 0..B - 1
  <2>1. h \in Nat /\ h < B /\ B \in Nat
    BY <1>1, <1>2
  <2>2. QED
    BY <1>1, <2>1, Fits
<1>5. High(first) = h % y /\ Low(first) = h \div y
  <2>1. first = (h % y) * B + h \div y
    <3>1. ~Overflows(h, y)
      BY <1>1, <1>4 DEF Overflows
    <3>2. QED
      BY <3>1 DEF Divu
  <2>2. h % y \in 0..B - 1
    BY <1>1, <1>3
  <2>3. QED
    BY <1>4, <2>1, <2>2, Joined
<1>6. n \in Nat /\ n < y * B
  <2>1. (h % y) * B + l < y * B
    <3>1. h % y < y /\ h % y \in Int /\ y \in Nat
      BY <1>1, <1>3
    <3>2. QED
      BY <1>1, <1>2, <3>1, PlaceValue
  <2>2. (h % y) * B \in Nat
    BY <1>1, <1>3
  <2>3. QED
    BY <1>2, <2>1, <2>2
<1> HIDE DEF n, first, next
<1>7. n \div y \in Int /\ n % y \in 0..y - 1 /\ n = (n \div y) * y + (n % y)
  BY <1>1, <1>6, DivMod
<1>8. n \div y \in 0..B - 1
  <2>1. y \in Nat \ {0} /\ B \in Nat
    BY <1>1
  <2>2. QED
    BY <1>6, <2>1, Fits
<1>9. High(next) = n % y /\ Low(next) = n \div y
  <2>1. next = (n % y) * B + n \div y
    <3>1. ~Overflows(n, y)
      BY <1>1, <1>8 DEF Overflows
    <3>2. QED
      BY <3>1 DEF Divu, next
  <2>2. n % y \in 0..B - 1
    BY <1>1, <1>7
  <2>3. QED
    BY <1>8, <2>1, <2>2, Joined
<1>10. x = ((h \div y) * B + n \div y) * y + (n % y)
  <2>1. (h \div y) \in Int /\ (n \div y) \in Int /\ (n % y) \in Int /\ (h % y) \in Int /\ l \in Int
    BY <1>2, <1>3, <1>7
  <2>2. x = ((h \div y) * y + (h % y)) * B + l
    BY <1>2, <1>3
  <2>3. ((h \div y) * y + (h % y)) * B = ((h \div y) * B) * y + (h % y) * B
    BY <1>1, <2>1
  <2>4. x = ((h \div y) * B) * y + ((n \div y) * y + (n % y))
    BY <1>1, <1>7, <2>1, <2>2, <2>3 DEF n
  <2>5. QED
    BY <1>1, <2>1, <2>4
<1>11. (h \div y) * B + n \div y \in 0..R - 1
  BY <1>4, <1>8, Joined
<1>12. x \div y = (h \div y) * B + n \div y /\ x % y = n % y
  <2> DEFINE k == (h \div y) * B + n \div y
  <2>1. x \in Int /\ y \in Nat /\ k \in Int
    BY <1>1, <1>11
  <2>2. x = k * y + (n % y) /\ n % y \in 0..y - 1
    BY <1>7, <1>10
  <2> HIDE DEF k
  <2>3. x \div y = k /\ x % y = n % y
    BY <2>1, <2>2, Divided
  <2>4. QED
    BY <2>3 DEF k
<1>13. Divu(High(first) * B + Low(x), y) = next /\ first = Divu(High(x), y)
  BY <1>5 DEF first, next, h, l, n
<1>14. n % y \in 0..R - 1
  <2>1. n % y < y /\ n % y \in Nat
    BY <1>1, <1>7
  <2>2. QED
    BY <1>1, <2>1
<1>15. QED
  BY <1>5, <1>9, <1>11, <1>12, <1>13, <1>14

\* One DIVU that does not overflow.
LEMMA OneStep ==
  ASSUME NEW x \in 0..R - 1, NEW y \in 1..B - 1, ~Overflows(x, y)
  PROVE  /\ Low(Divu(x, y)) = x \div y /\ High(Divu(x, y)) = x % y
         /\ x \div y \in 0..R - 1 /\ x % y \in 0..R - 1
<1>1. B \in Nat /\ R \in Nat /\ R >= 2 * B /\ y \in Nat \ {0} /\ x \in Nat
  BY Registers
<1>2. x \div y \in Int /\ x % y \in 0..y - 1
  BY <1>1, DivMod
<1>3. x \div y \in 0..R - 1
  <2>1. x < R
    BY <1>1
  <2>2. QED
    BY <1>1, <2>1, Fits
<1>4. x \div y \in 0..B - 1 /\ x % y \in 0..B - 1
  <2>1. ~(x \div y >= B)
    BY DEF Overflows
  <2>2. QED
    BY <1>1, <1>2, <1>3, <2>1
<1>5. Divu(x, y) = (x % y) * B + x \div y
  BY DEF Divu
<1>6. High(Divu(x, y)) = x % y /\ Low(Divu(x, y)) = x \div y
  BY <1>4, <1>5, Joined
<1>7. QED
  BY <1>1, <1>3, <1>4, <1>6

\* What the signed routines make of the quotient and the remainder of the sizes.
LEMMA SignedResults ==
  ASSUME NEW x \in 0..R - 1, NEW y \in 1..R - 1
  PROVE  LET q == Abs(x) \div Abs(y)
             r == Abs(x) % Abs(y)
         IN /\ q \in 0..R - 1 /\ r \in 0..R - 1
            /\ Quot(Signed(x), Signed(y)) % R =
                 IF (Signed(x) < 0) # (Signed(y) < 0) THEN Neg(q) ELSE q
            /\ Rem(Signed(x), Signed(y)) % R = IF Signed(x) < 0 THEN Neg(r) ELSE r
<1> DEFINE q == Abs(x) \div Abs(y)
           r == Abs(x) % Abs(y)
           s == Signed(x)
           d == Signed(y)
<1>1. R \in Nat \ {0} /\ y \in 0..R - 1 /\ y # 0
  BY Registers
<1>2. /\ s \in Int /\ Abs(x) \in 0..R - 1 /\ Size(s) = Abs(x)
      /\ s = IF s < 0 THEN -Abs(x) ELSE Abs(x)
  BY Signs
<1>3. /\ d \in Int /\ Abs(y) \in 1..R - 1 /\ Size(d) = Abs(y)
      /\ d = IF d < 0 THEN -Abs(y) ELSE Abs(y)
  BY <1>1, Signs
<1>4. q \in Int /\ r \in 0..Abs(y) - 1 /\ Abs(x) = q * Abs(y) + r
  <2>1. Abs(x) \in Int /\ Abs(y) \in Nat \ {0}
    BY <1>1, <1>2, <1>3
  <2>2. QED
    BY <2>1, DivMod
<1>5. q \in 0..R - 1 /\ r \in 0..R - 1
  <2>1. Abs(x) \in Nat /\ Abs(x) < R /\ Abs(y) \in Nat \ {0} /\ R \in Nat
    BY <1>1, <1>2, <1>3
  <2>2. q \in 0..R - 1
    BY <2>1, Fits
  <2>3. QED
    BY <1>1, <1>3, <1>4, <2>2
<1>6. Quot(s, d) = IF (s < 0) # (d < 0) THEN -q ELSE q
  BY <1>2, <1>3 DEF Quot
<1> HIDE DEF q, r, s, d
<1>7. \A z \in 0..R - 1 : z % R = z
  <2>1. ASSUME NEW z \in 0..R - 1
        PROVE  z % R = z
    <3>1. z \in Int /\ R \in Nat /\ 0 \in Int /\ z = 0 * R + z
      BY <1>1
    <3>2. QED
      BY <3>1, Divided
  <2>2. QED
    BY <2>1
<1>8. Quot(s, d) % R = IF (s < 0) # (d < 0) THEN Neg(q) ELSE q
  BY <1>5, <1>6, <1>7 DEF Neg
<1>9. Rem(s, d) = IF s < 0 THEN -r ELSE r
  <2>1. q * Abs(y) \in Int
    BY <1>3, <1>4
  <2>2. d * Quot(s, d) = IF s < 0 THEN -(q * Abs(y)) ELSE q * Abs(y)
    <3>1. CASE s < 0 /\ d < 0
      BY <1>3, <1>4, <1>6, <3>1
    <3>2. CASE s < 0 /\ ~(d < 0)
      BY <1>3, <1>4, <1>6, <3>2
    <3>3. CASE ~(s < 0) /\ d < 0
      BY <1>3, <1>4, <1>6, <3>3
    <3>4. CASE ~(s < 0) /\ ~(d < 0)
      BY <1>3, <1>4, <1>6, <3>4
    <3>5. QED
      BY <3>1, <3>2, <3>3, <3>4
  <2>3. QED
    BY <1>2, <1>3, <1>4, <2>1, <2>2 DEF Rem
<1>10. Rem(s, d) % R = IF s < 0 THEN Neg(r) ELSE r
  BY <1>5, <1>7, <1>9 DEF Neg
<1>11. QED
  BY <1>5, <1>8, <1>10 DEF q, r, s, d

\* A negated register is a register.
LEMMA NegType == \A x \in 0..R - 1 : Neg(x) \in 0..R - 1
<1> SUFFICES ASSUME NEW x \in 0..R - 1
             PROVE  Neg(x) \in 0..R - 1
  OBVIOUS
<1>1. R \in Nat \ {0} /\ -x \in Int
  BY Registers
<1>2. QED
  BY <1>1, DivMod DEF Neg

----------------------------------------------------------------------------
\* Where a division may be entered.
Routines == {"SignedDiv", "SignedMod", "UnsignedDivide", "UnsignedMod"}

\* Registers hold register values, and the iterations are counted down from K - 1.
DivideTypeOK ==
  /\ entry \in Routines /\ divpc \in Routines \cup {"loop", "return", "done"}
  /\ a \in 0..R - 1 /\ b \in 1..R - 1
  /\ D0 \in 0..R - 1 /\ D1 \in 0..R - 1 /\ D3 \in 0..R - 1
  /\ D2 \in 0..K - 1 /\ sign \in BOOLEAN

\* What the unsigned routines are given to divide,
Dividend == IF entry \in {"SignedDiv", "SignedMod"} THEN Abs(a) ELSE a

\* and by what.
Divisor == IF entry \in {"SignedDiv", "SignedMod"} THEN Abs(b) ELSE b

\* Whether their result is to be negated.
Negated ==
  \/ entry = "SignedDiv" /\ (Signed(a) < 0) # (Signed(b) < 0)
  \/ entry = "SignedMod" /\ Signed(a) < 0

\* The operands on their way down to the unsigned division.
Called ==
  /\ divpc \in {"SignedDiv", "SignedMod", "UnsignedMod"} => divpc = entry /\ D0 = a /\ D1 = b
  /\ divpc = "UnsignedDivide" => D0 = Dividend /\ D1 = Divisor
  /\ divpc \in {"SignedDiv", "SignedMod", "UnsignedMod"} => ~sign
  /\ divpc \in {"UnsignedDivide", "loop", "return"} => (sign <=> Negated)

\* In the loop the bits that D0 has given up and those still in it are the two
\* halves of one register.
Looping ==
  divpc = "loop" =>
    /\ D3 = Divisor
    /\ Weight[2 * K - (D2 + 1)] * Weight[D2 + 1] = R

\* Quotient and remainder of what was given to divide.
Answered == divpc = "return" => D0 = Dividend \div Divisor /\ D1 = Dividend % Divisor

\* With DivideTypeOK these are inductive.
DivideInv == Called /\ Looping /\ Answered /\ DivisionRight

\* A routine is entered with its operands in the registers.
LEMMA InitDivide == DivideInit => DivideTypeOK /\ DivideInv
<1> SUFFICES ASSUME DivideInit
             PROVE  DivideTypeOK /\ DivideInv
  OBVIOUS
<1>1. R \in Nat /\ R >= 2 /\ K \in Nat \ {0}
  BY Registers, DivideAssumption DEF DivideAssumption
<1>2. DivideTypeOK
  <2>1. entry \in Routines /\ divpc \in Routines /\ sign \in BOOLEAN
    BY DEF DivideInit, Routines
  <2>2. a \in 0..R - 1 /\ b \in 1..R - 1 /\ D0 = a /\ D1 = b /\ D2 = 0 /\ D3 = 0
    BY DEF DivideInit
  <2>3. QED
    BY <1>1, <2>1, <2>2 DEF DivideTypeOK
<1>3. Called /\ Looping /\ Answered
  BY DEF DivideInit, Called, Looping, Answered, Dividend, Divisor, Negated
<1>4. DivisionRight
  BY DEF DivideInit, DivisionRight, ResultRight, LoopInvariant
<1>5. QED
  BY <1>2, <1>3, <1>4 DEF DivideInv

\* The sizes of the operands, signed or not, are registers.
LEMMA Operands ==
  ASSUME DivideTypeOK
  PROVE  Dividend \in 0..R - 1 /\ Divisor \in 1..R - 1
<1>1. b \in 0..R - 1 /\ b # 0 /\ R \in Nat
  BY Registers DEF DivideTypeOK
<1>2. Abs(a) \in 0..R - 1 /\ Abs(b) \in 1..R - 1
  BY <1>1, Signs DEF DivideTypeOK
<1>3. QED
  BY <1>2 DEF Dividend, Divisor, DivideTypeOK

\* A small signed division is one DIVS, and so is its remainder.
LEMMA SignedFastStep ==
  ASSUME DivideTypeOK, DivideInv, SignedDivFast \/ SignedModFast
  PROVE  DivideTypeOK' /\ DivideInv'
<1>1. /\ divpc = entry /\ D0 = a /\ D1 = b /\ divpc' = "done"
      /\ UNCHANGED <<entry, a, b, D1, D2, D3, sign>>
  BY DEF SignedDivFast, SignedModFast, DivideInv, Called
<1>2. \/ entry = "SignedDiv" /\ D0' = Quot(Signed(a), Signed(b)) % R
      \/ entry = "SignedMod" /\ D0' = Rem(Signed(a), Signed(b)) % R
  BY <1>1 DEF SignedDivFast, SignedModFast
<1>3. D0' \in 0..R - 1
  <2>1. a \in 0..R - 1 /\ b \in 1..R - 1
    BY DEF DivideTypeOK
  <2>2. /\ Abs(a) \div Abs(b) \in 0..R - 1 /\ Abs(a) % Abs(b) \in 0..R - 1
        /\ Quot(Signed(a), Signed(b)) % R \in {Neg(Abs(a) \div Abs(b)), Abs(a) \div Abs(b)}
        /\ Rem(Signed(a), Signed(b)) % R \in {Neg(Abs(a) % Abs(b)), Abs(a) % Abs(b)}
    BY <2>1, SignedResults
  <2>3. QED
    BY <1>2, <2>2, NegType
<1>4. DivideTypeOK'
  BY <1>1, <1>3 DEF DivideTypeOK
<1>5. Called' /\ Looping' /\ Answered' /\ LoopInvariant'
  BY <1>1 DEF Called, Looping, Answered, LoopInvariant
<1>6. ResultRight'
  BY <1>1, <1>2 DEF ResultRight
<1>7. QED
  BY <1>4, <1>5, <1>6 DEF DivideInv, DivisionRight

\* The others go on with sizes.
LEMMA SignedSlowStep ==
  ASSUME DivideTypeOK, DivideInv, SignedSlow
  PROVE  DivideTypeOK' /\ DivideInv'
<1>1. /\ divpc = entry /\ D0 = a /\ D1 = b /\ divpc' = "UnsignedDivide"
      /\ entry \in {"SignedDiv", "SignedMod"}
      /\ D0' = Abs(a) /\ D1' = Abs(b)
      /\ UNCHANGED <<entry, a, b, D2, D3>>
  BY DEF SignedSlow, DivideInv, Called
<1>2. sign' = IF entry = "SignedDiv" THEN (Signed(a) < 0) # (Signed(b) < 0) ELSE Signed(a) < 0
  BY <1>1 DEF SignedSlow
<1>3. sign' \in BOOLEAN /\ (sign' <=> Negated)
  <2>1. CASE entry = "SignedDiv"
    BY <1>2, <2>1, Zenon DEF Negated
  <2>2. CASE entry = "SignedMod"
    <3>1. entry # "SignedDiv"
      BY <2>2
    <3>2. Signed(a) \in Int
      BY Signs DEF DivideTypeOK
    <3>3. sign' <=> Signed(a) < 0
      BY <1>2, <3>1, <3>2
    <3>4. sign' \in BOOLEAN
      BY <1>2, <3>1, <3>2
    <3>5. Negated <=> Signed(a) < 0
      BY <2>2, <3>1 DEF Negated
    <3>6. QED
      BY <3>3, <3>4, <3>5
  <2>3. QED
    BY <1>1, <2>1, <2>2
<1>4. Dividend = Abs(a) /\ Divisor = Abs(b)
  BY <1>1 DEF Dividend, Divisor
<1>5. Dividend' = Dividend /\ Divisor' = Divisor /\ (Negated' <=> Negated)
  BY <1>1 DEF Dividend, Divisor, Negated
<1>6. D0' \in 0..R - 1 /\ D1' \in 0..R - 1
  BY <1>1, <1>4, Operands, Registers
<1>7. DivideTypeOK'
  BY <1>1, <1>3, <1>6 DEF DivideTypeOK, Routines
<1>8. Called' /\ Looping' /\ Answered' /\ DivisionRight'
  BY <1>1, <1>3, <1>4, <1>5
     DEF Called, Looping, Answered, DivisionRight, ResultRight, LoopInvariant
<1>9. QED
  BY <1>7, <1>8 DEF DivideInv

\* UnsignedMod is UnsignedDivide with the other result.
LEMMA UModStep ==
  ASSUME DivideTypeOK, DivideInv, UModFast \/ UModSlow
  PROVE  DivideTypeOK' /\ DivideInv'
<1>1. divpc = "UnsignedMod" /\ entry = "UnsignedMod" /\ D0 = a /\ D1 = b /\ ~sign
  BY DEF UModFast, UModSlow, DivideInv, Called
<1>2. CASE UModFast
  <2>1. /\ divpc' = "done" /\ D0' = High(Divu(a, b)) /\ UNCHANGED <<entry, a, b, D1, D2, D3, sign>>
        /\ b < B /\ ~Overflows(a, b)
    BY <1>1, <1>2 DEF UModFast
  <2>2. a \in 0..R - 1 /\ b \in 1..B - 1
    BY <2>1, Registers DEF DivideTypeOK
  <2>3. D0' = a % b /\ D0' \in 0..R - 1
    BY <2>1, <2>2, OneStep
  <2>4. DivideTypeOK'
    BY <2>1, <2>3 DEF DivideTypeOK
  <2>5. Called' /\ Looping' /\ Answered' /\ DivisionRight'
    BY <1>1, <2>1, <2>3 DEF Called, Looping, Answered, DivisionRight, ResultRight, LoopInvariant
  <2>6. QED
    BY <2>4, <2>5 DEF DivideInv
<1>3. CASE UModSlow
  <2>1. divpc' = "UnsignedDivide" /\ UNCHANGED <<entry, a, b, D0, D1, D2, D3, sign>>
    BY <1>3 DEF UModSlow
  <2>2. DivideTypeOK'
    BY <2>1 DEF DivideTypeOK, Routines
  <2>3. Called' /\ Looping' /\ Answered' /\ DivisionRight'
    BY <1>1, <2>1 DEF Called, Dividend, Divisor, Negated, Looping, Answered, DivisionRight,
                      ResultRight, LoopInvariant
  <2>4. QED
    BY <2>2, <2>3 DEF DivideInv
<1>4. QED
  BY <1>2, <1>3

\* A divisor of one half.
LEMMA UDivShortStep ==
  ASSUME DivideTypeOK, DivideInv, UDivFast \/ UDivOverflow
  PROVE  DivideTypeOK' /\ DivideInv'
<1>1. /\ divpc = "UnsignedDivide" /\ D0 = Dividend /\ D1 = Divisor /\ D1 < B
      /\ divpc' = "return" /\ UNCHANGED <<entry, a, b, D2, D3, sign>>
      /\ (sign <=> Negated)
  BY DEF UDivFast, UDivOverflow, DivideInv, Called
<1>2. D0 \in 0..R - 1 /\ D1 \in 1..B - 1
  BY <1>1, Operands, Registers
<1>3. /\ D0' = Dividend \div Divisor /\ D1' = Dividend % Divisor
      /\ D0' \in 0..R - 1 /\ D1' \in 0..R - 1
  <2>1. CASE UDivFast
    BY <1>1, <1>2, <2>1, OneStep DEF UDivFast
  <2>2. CASE UDivOverflow
    BY <1>1, <1>2, <2>2, TwoSteps DEF UDivOverflow
  <2>3. QED
    BY <2>1, <2>2
<1>4. Dividend' = Dividend /\ Divisor' = Divisor /\ (Negated' <=> Negated)
  BY <1>1 DEF Dividend, Divisor, Negated
<1>5. DivideTypeOK'
  BY <1>1, <1>3 DEF DivideTypeOK
<1>6. Called' /\ Looping' /\ Answered' /\ DivisionRight'
  BY <1>1, <1>3, <1>4 DEF Called, Looping, Answered, DivisionRight, ResultRight, LoopInvariant
<1>7. QED
  BY <1>5, <1>6 DEF DivideInv

\* The loop starts with the high half as the remainder of a quotient without bits.
LEMMA UDivFull32Step ==
  ASSUME DivideTypeOK, DivideInv, UDivFull32
  PROVE  DivideTypeOK' /\ DivideInv'
<1>1. /\ divpc = "UnsignedDivide" /\ D0 = Dividend /\ D1 = Divisor /\ D1 >= B
      /\ divpc' = "loop" /\ UNCHANGED <<entry, a, b, sign>>
      /\ D3' = D1 /\ D1' = High(D0) /\ D0' = Low(D0) * B /\ D2' = K - 1
      /\ (sign <=> Negated)
  BY DEF UDivFull32, DivideInv, Called
<1>2. Dividend' = Dividend /\ Divisor' = Divisor /\ (Negated' <=> Negated)
  BY <1>1 DEF Dividend, Divisor, Negated
<1>3. /\ B \in Nat /\ B >= 2 /\ R \in Nat /\ R >= 2 * B /\ R = B * B /\ K \in Nat \ {0}
      /\ D0 \in 0..R - 1 /\ D1 \in 0..R - 1
  BY Registers, DivideAssumption DEF DivideAssumption, DivideTypeOK
<1>4. High(D0) \in 0..B - 1 /\ Low(D0) \in 0..B - 1 /\ D0 = High(D0) * B + Low(D0)
  BY <1>3, Halves
<1>5. D0' \in 0..R - 1 /\ D0' \div B = Low(D0) /\ D0' % B = 0
  <2>1. 0 \in 0..B - 1 /\ D0' = Low(D0) * B + 0
    BY <1>1, <1>3, <1>4
  <2>2. Low(D0) * B + 0 \in 0..R - 1 /\ High(Low(D0) * B + 0) = Low(D0) /\ Low(Low(D0) * B + 0) = 0
    BY <1>4, <2>1, Joined
  <2>3. QED
    BY <2>1, <2>2 DEF High, Low
<1>6. 2 * K - (D2' + 1) = K /\ D2' + 1 = K /\ K - (D2' + 1) = 0
  BY <1>1, <1>3
<1>7. Weight[2 * K - (D2' + 1)] = B /\ Weight[D2' + 1] = B /\ Weight[K - (D2' + 1)] = 1
  BY <1>6, WeightDoubles DEF B
<1>8. DivideTypeOK'
  BY <1>1, <1>3, <1>4, <1>5 DEF DivideTypeOK
<1>9. LoopInvariant'
  <2>1. Dividend' = (0 * D3' + D1') * B + D0' \div B
    <3>1. 0 * D3' = 0
      BY <1>1, <1>3
    <3>2. QED
      BY <1>1, <1>2, <1>3, <1>4, <1>5, <3>1
  <2>2. D1' < D3' /\ 0 < 1 /\ 2 * D1' + 1 < R
    BY <1>1, <1>3, <1>4
  <2>3. QED
    BY <1>5, <1>7, <2>1, <2>2 DEF LoopInvariant, Dividend
<1>10. Called' /\ Looping' /\ Answered' /\ ResultRight'
  BY <1>1, <1>2, <1>3, <1>7 DEF Called, Looping, Answered, ResultRight
<1>11. QED
  BY <1>8, <1>9, <1>10 DEF DivideInv, DivisionRight

\* The unsigned result is the routine's own, or is given the sign it should have.
LEMMA ReturnStep ==
  ASSUME DivideTypeOK, DivideInv, Return
  PROVE  DivideTypeOK' /\ DivideInv'
<1> DEFINE d == IF entry \in {"SignedMod", "UnsignedMod"} THEN D1 ELSE D0
<1>1. /\ divpc = "return" /\ divpc' = "done" /\ UNCHANGED <<entry, a, b, D1, D2, D3, sign>>
      /\ D0 = Dividend \div Divisor /\ D1 = Dividend % Divisor /\ (sign <=> Negated)
  BY DEF Return, DivideInv, Called, Answered
<1>2. D0' = IF Negated THEN Neg(d) ELSE d
  BY <1>1 DEF Return
<1>3. a \in 0..R - 1 /\ b \in 1..R - 1 /\ D0 \in 0..R - 1 /\ D1 \in 0..R - 1 /\ entry \in Routines
  BY DEF DivideTypeOK
<1>4. D0' \in 0..R - 1
  BY <1>2, <1>3, NegType
<1>5. DivideTypeOK'
  BY <1>1, <1>4 DEF DivideTypeOK
<1>6. ResultRight'
  <2>1. CASE entry = "UnsignedDivide"
    BY <1>1, <1>2, <2>1 DEF ResultRight, Negated, Dividend, Divisor
  <2>2. CASE entry = "UnsignedMod"
    BY <1>1, <1>2, <2>2 DEF ResultRight, Negated, Dividend, Divisor
  <2>3. CASE entry = "SignedDiv"
    <3>1. D0' = IF (Signed(a) < 0) # (Signed(b) < 0) THEN Neg(Abs(a) \div Abs(b))
                                                     ELSE Abs(a) \div Abs(b)
      BY <1>1, <1>2, <2>3 DEF Negated, Dividend, Divisor
    <3>2. D0' = Quot(Signed(a), Signed(b)) % R
      BY <1>3, <3>1, SignedResults
    <3>3. QED
      BY <1>1, <2>3, <3>2 DEF ResultRight
  <2>4. CASE entry = "SignedMod"
    <3>1. D0' = IF Signed(a) < 0 THEN Neg(Abs(a) % Abs(b)) ELSE Abs(a) % Abs(b)
      BY <1>1, <1>2, <2>4 DEF Negated, Dividend, Divisor
    <3>2. D0' = Rem(Signed(a), Signed(b)) % R
      BY <1>3, <3>1, SignedResults
    <3>3. QED
      BY <1>1, <2>4, <3>2 DEF ResultRight
  <2>5. QED
    BY <1>3, <2>1, <2>2, <2>3, <2>4 DEF Routines
<1>7. Called' /\ Looping' /\ Answered' /\ LoopInvariant'
  BY <1>1 DEF Called, Looping, Answered, LoopInvariant
<1>8. QED
  BY <1>5, <1>6, <1>7 DEF DivideInv, DivisionRight

\* A turn of the loop moves one bit from the dividend to the remainder and adds one to
\* the quotient.  The bits moved are the dividend's own, so the remainder cannot
\* outgrow the register while some are left; when none is, D0 is the quotient.
LEMMA LoopStep ==
  ASSUME DivideTypeOK, DivideInv, NoSub \/ Sub
  PROVE  DivideTypeOK' /\ DivideInv'
<1> DEFINE t == Weight[2 * K - (D2 + 1)]
           v == Weight[D2]
           u == Weight[K - (D2 + 1)]
           q == D0 % t
           p == D0 \div t
           bit == High(2 * High(D0))
           once == IF Sub THEN 1 ELSE 0
           q2 == 2 * q + once
           p2 == p - bit * v
           r2 == 2 * D1 + bit - once * D3
<1>1. /\ divpc = "loop" /\ D3 = Divisor /\ UNCHANGED <<entry, a, b, D3, sign>> /\ (sign <=> Negated)
      /\ D2' = (IF D2 = 0 THEN 0 ELSE D2 - 1)
      /\ divpc' = (IF D2 = 0 THEN "return" ELSE "loop")
  BY DEF NoSub, Sub, Loops, DivideInv, Called, Looping
<1>2. Dividend' = Dividend /\ Divisor' = Divisor /\ (Negated' <=> Negated)
  BY <1>1 DEF Dividend, Divisor, Negated
<1>3. /\ K \in Nat \ {0} /\ D2 \in 0..K - 1 /\ R \in Nat \ {0} /\ R >= 4
      /\ D0 \in 0..R - 1 /\ D1 \in 0..R - 1 /\ D3 \in 1..R - 1 /\ Dividend \in 0..R - 1
  BY <1>1, Registers, Operands, DivideAssumption DEF DivideAssumption, DivideTypeOK
\* The weights of this turn and of the next.
<1>4. /\ t \in Nat \ {0} /\ v \in Nat \ {0} /\ u \in Nat
      /\ Weight[D2 + 1] = 2 * v /\ Weight[2 * K - D2] = 2 * t /\ Weight[K - D2] = 2 * u
  <2>1. /\ 2 * K - (D2 + 1) \in Nat /\ D2 \in Nat /\ K - (D2 + 1) \in Nat
        /\ 2 * K - (D2 + 1) + 1 = 2 * K - D2 /\ K - (D2 + 1) + 1 = K - D2
    BY <1>3
  <2>2. \A n \in Nat : Weight[n] \in Nat \ {0} /\ Weight[n + 1] = 2 * Weight[n]
    BY WeightDoubles
  <2>3. /\ Weight[2 * K - (D2 + 1) + 1] = 2 * t /\ Weight[D2 + 1] = 2 * v
        /\ Weight[K - (D2 + 1) + 1] = 2 * u
    BY <2>1, <2>2
  <2>4. QED
    BY <2>1, <2>2, <2>3
\* What the invariant says of them.
<1>5. /\ t * (2 * v) = R
      /\ Dividend = (q * D3 + D1) * (2 * v) + p /\ D1 < D3 /\ q < u /\ 2 * D1 + 1 < R
  BY <1>1, <1>4 DEF DivideInv, DivisionRight, Looping, LoopInvariant, Dividend
<1> HIDE DEF t, v, u
<1>6. p \in Nat /\ q \in 0..t - 1 /\ D0 = p * t + q /\ p \in 0..2 * v - 1
  <2>1. D0 \in Nat /\ R = (2 * v) * t /\ 2 * v \in Nat /\ D0 < (2 * v) * t
    BY <1>3, <1>4, <1>5
  <2>2. q \in 0..t - 1 /\ D0 = p * t + q
    <3>1. D0 \in Int /\ t \in Nat \ {0}
      BY <1>4, <2>1
    <3>2. QED
      BY <3>1, DivMod
  <2>3. p \in 0..2 * v - 1
    BY <1>4, <2>1, Fits
  <2>4. QED
    BY <1>4, <2>2, <2>3
<1> HIDE DEF p, q
<1>7. bit \in {0, 1} /\ p2 \in 0..v - 1 /\ Doubled0 = p2 * (2 * t) + 2 * q
  <2>1. R = (2 * v) * t
    BY <1>4, <1>5
  <2>2. QED
    BY <1>4, <1>6, <2>1, ShiftedLeft DEF Doubled0
<1>8. Doubled1 = 2 * D1 + bit
  <2>1. 2 * D1 + bit = 0 * R + (2 * D1 + bit) /\ 2 * D1 + bit \in 0..R - 1
    BY <1>3, <1>5, <1>7
  <2>2. 2 * D1 + bit \in Int /\ R \in Nat /\ 0 \in Int
    BY <1>3, <1>7
  <2>3. QED
    BY <2>1, <2>2, Divided DEF Doubled1
<1> HIDE DEF bit
<1>9. /\ once \in {0, 1} /\ (IF once = 0 THEN 2 * D1 + bit < D3 ELSE 2 * D1 + bit >= D3)
      /\ D0' = p2 * (2 * t) + q2 /\ D1' = r2
  <2>1. CASE Sub
    <3>1. once = 1 /\ D0' = Doubled0 + 1 /\ D1' = Doubled1 - D3 /\ Doubled1 >= D3
      BY <2>1 DEF Sub
    <3>2. QED
      BY <1>3, <1>4, <1>6, <1>7, <1>8, <3>1
  <2>2. CASE ~Sub
    <3>1. once = 0 /\ D0' = Doubled0 /\ D1' = Doubled1 /\ Doubled1 < D3
      BY <2>2 DEF NoSub
    <3>2. QED
      BY <1>3, <1>4, <1>6, <1>7, <1>8, <3>1
  <2>3. QED
    BY <2>1, <2>2
<1> HIDE DEF once
<1>10. q2 \in 0..2 * t - 1 /\ r2 \in 0..D3 - 1 /\ Dividend = (q2 * D3 + r2) * v + p2
  <2>1. q \in Nat /\ D1 \in Nat /\ D3 \in Nat /\ Dividend \in Nat /\ q < t
    BY <1>3, <1>4, <1>6
  <2>2. QED
    BY <1>4, <1>5, <1>6, <1>7, <1>9, <2>1, OneBit
<1> HIDE DEF q2, p2, r2
<1>11. D0' \in 0..R - 1 /\ D0' \div (2 * t) = p2 /\ D0' % (2 * t) = q2
  <2>1. 2 * t \in Nat \ {0} /\ p2 \in Nat /\ q2 \in Nat /\ p2 * (2 * t) \in Nat
    BY <1>4, <1>7, <1>10
  <2>2. p2 * (2 * t) + q2 < v * (2 * t)
    BY <1>4, <1>7, <1>10, <2>1, PlaceValue
  <2>3. v * (2 * t) = R
    BY <1>4, <1>5
  <2>4. D0' \div (2 * t) = p2 /\ D0' % (2 * t) = q2
    BY <1>9, <1>10, <2>1, Divided
  <2>5. QED
    BY <1>3, <1>9, <2>1, <2>2, <2>3, <2>4
<1>12. DivideTypeOK'
  BY <1>1, <1>3, <1>9, <1>10, <1>11 DEF DivideTypeOK
<1>13. CASE D2 = 0
  <2>1. v = 1
    BY <1>13, WeightDoubles DEF v
  <2>2. p2 = 0
    BY <1>7, <2>1
  <2>3. D0' = q2
    <3>1. p2 * (2 * t) = 0
      BY <1>4, <2>2
    <3>2. QED
      BY <1>9, <1>10, <3>1
  <2>4. Dividend = q2 * D3 + r2
    <3>1. q2 * D3 \in Int
      BY <1>3, <1>10
    <3>2. QED
      BY <1>3, <1>10, <2>1, <2>2, <3>1
  <2>5. Dividend \div D3 = D0' /\ Dividend % D3 = D1'
    <3>1. Dividend \in Int /\ D3 \in Nat /\ q2 \in Int
      BY <1>3, <1>10
    <3>2. QED
      BY <1>9, <1>10, <2>3, <2>4, <3>1, Divided
  <2>6. Called' /\ Looping' /\ Answered' /\ DivisionRight'
    BY <1>1, <1>2, <1>13, <2>5
       DEF Called, Looping, Answered, DivisionRight, ResultRight, LoopInvariant
  <2>7. QED
    BY <1>12, <2>6 DEF DivideInv
<1>14. CASE D2 # 0
  <2>1. /\ D2' = D2 - 1 /\ divpc' = "loop" /\ D2' + 1 = D2 /\ 2 * K - (D2' + 1) = 2 * K - D2
        /\ K - (D2' + 1) = K - D2
    BY <1>1, <1>3, <1>14
  <2>2. /\ Weight[2 * K - (D2' + 1)] = 2 * t /\ Weight[D2' + 1] = v /\ Weight[K - (D2' + 1)] = 2 * u
    BY <1>4, <2>1 DEF v
  <2>3. (2 * t) * v = R
    BY <1>4, <1>5
  <2>4. v >= 2
    <3>1. D2 - 1 \in Nat /\ D2 - 1 + 1 = D2
      BY <1>3, <1>14
    <3>2. Weight[D2 - 1] \in Nat \ {0} /\ Weight[D2 - 1 + 1] = 2 * Weight[D2 - 1]
      BY <3>1, WeightDoubles
    <3>3. QED
      BY <3>1, <3>2 DEF v
  <2>5. 2 * r2 + 1 < R
    <3>1. /\ 2 * t \in Nat \ {0} /\ q2 \in Nat /\ p2 \in Nat /\ r2 \in Nat /\ D3 \in Nat
          /\ Dividend \in Nat /\ Dividend < v * (2 * t)
      BY <1>3, <1>4, <1>7, <1>10, <2>3
    <3>2. r2 < 2 * t
      BY <1>4, <1>10, <3>1, Room
    <3>3. (v - 2) * (2 * t) >= 0
      BY <1>4, <2>4
    <3>4. R >= 4 * t
      BY <1>4, <2>3, <3>3
    <3>5. QED
      BY <1>3, <1>4, <3>1, <3>2, <3>4
  <2>6. q2 < 2 * u
    BY <1>4, <1>5, <1>6, <1>9 DEF q2
  <2>7. LoopInvariant'
    <3>1. Dividend' = ((D0' % (2 * t)) * D3' + D1') * v + (D0' \div (2 * t))
      BY <1>1, <1>2, <1>9, <1>10, <1>11
    <3>2. D1' < D3' /\ D0' % (2 * t) < 2 * u /\ 2 * D1' + 1 < R
      BY <1>1, <1>3, <1>9, <1>10, <1>11, <2>5, <2>6
    <3>3. QED
      BY <2>2, <3>1, <3>2 DEF LoopInvariant, Dividend
  <2>8. Called' /\ Looping' /\ Answered' /\ ResultRight'
    BY <1>1, <1>2, <2>1, <2>2, <2>3 DEF Called, Looping, Answered, ResultRight
  <2>9. QED
    BY <1>12, <2>7, <2>8 DEF DivideInv, DivisionRight
<1>15. QED
  BY <1>13, <1>14

\* Every step keeps all of it.
LEMMA NextDivide == DivideTypeOK /\ DivideInv /\ [DivideNext]_divide => DivideTypeOK' /\ DivideInv'
<1> SUFFICES ASSUME DivideTypeOK, DivideInv, [DivideNext]_divide
             PROVE  DivideTypeOK' /\ DivideInv'
  OBVIOUS
<1>1. CASE DivideNext
  BY <1>1, SignedFastStep, SignedSlowStep, UModStep, UDivShortStep, UDivFull32Step, LoopStep,
     ReturnStep DEF DivideNext
<1>2. CASE UNCHANGED divide
  BY <1>2 DEF divide, DivideTypeOK, DivideInv, Called, Dividend, Divisor, Negated, Looping, Answered,
              DivisionRight, ResultRight, LoopInvariant
<1>3. QED
  BY <1>1, <1>2

----------------------------------------------------------------------------
\* SignedDiv, SignedMod, UnsignedDivide and UnsignedMod return the arithmetic quotient
\* and remainder on every path (one DIVU or DIVS, UDiv_Overflow, UDiv_Full32), and the
\* loop of UDiv_Full32 shifts no bit out of D1, for every pair of operands.
THEOREM DivisionIsRight == DivideSpec => []DivisionRight
<1>1. DivideInv => DivisionRight
  BY DEF DivideInv
<1>2. QED
  BY InitDivide, NextDivide, <1>1, PTL DEF DivideSpec

\* No register of the routines outgrows its width.
THEOREM DivideTypes == DivideSpec => []DivideTypeOK
  BY InitDivide, NextDivide, PTL DEF DivideSpec
==============================================================================
