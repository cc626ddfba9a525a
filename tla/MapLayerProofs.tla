--------------------------- MODULE MapLayerProofs ---------------------------
(***************************************************************************)
(* Proofs about MapLayer, whatever the timing of the two processors and of *)
(* the game and for any number of jobs: its types; that the layer is shown *)
(* only for the visit it was drawn for and on a 320-wide screen; and, in   *)
(* the second half, what the processors do to the frame buffer they share. *)
(***************************************************************************)
EXTENDS MapLayer, TLAPS

\* A draw is under way only while there is one left to make.
TypeInv == TypeOK /\ (Drawing => mapOn /\ draws # 0)

\* Each switch-on starts a new generation and belongs to a visit of its own.
Numbered ==
  /\ ms.gen <= visits
  /\ screen /\ ~ms.on => ms.gen < visits
  /\ vpc = "announce" => screen /\ ~ms.on /\ mode = "blank"
  /\ vpc = "retire" => ~ms.on /\ ~screen

\* What the SH2 has read of the state word is of this generation or an older
\* one; off stays off until the next; and what it has agreed on is no older than
\* what it draws.
ReadInOrder ==
  /\ sa.gen <= ms.gen /\ mapGen <= ms.gen
  /\ spc = "readFm" /\ agree /\ sa.gen = ms.gen /\ ~sa.on => ~ms.on
  /\ spc = "readB" /\ sa.gen = ms.gen /\ ~sa.on => ~ms.on
  /\ spc = "readFm" /\ agree => mapGen <= sa.gen

\* The status echoes a generation the SH2 has on and has finished.
EchoIsDone == status # NotDrawn => mapOn /\ mapGen = status /\ draws = 0 /\ spc # "begin"

\* The layer is shown on such an echo of the present generation.
ShownOnEcho == mode = "packed" => vpc = "retire" \/ (ms.on /\ status = ms.gen)

VisitInv == Numbered /\ ReadInOrder /\ EchoIsDone /\ ShownOnEcho

---------------------------------------------------------------------------
\* Types.

\* The state word before the first visit is one.
LEMMA MapOffTyped == MapOff \in MapState
  BY ConstantsAssumption DEF ConstantsAssumption, MapOff, MapState, Gens

LEMMA TypeInit == Init => TypeInv
<1> SUFFICES ASSUME Init PROVE TypeInv
  OBVIOUS
<1> USE ConstantsAssumption DEF ConstantsAssumption, Init, MapState, Jobs, Gens, NotDrawn, NoJob
<1>1. vb \in BOOLEAN /\ vint \in BOOLEAN /\ h40 \in BOOLEAN /\ screen \in BOOLEAN /\ lit \in BOOLEAN
      /\ pal \in BOOLEAN /\ copyOk \in BOOLEAN
  OBVIOUS
<1>2. agree \in BOOLEAN /\ mapOn \in BOOLEAN /\ pending \in BOOLEAN /\ seenLow \in BOOLEAN /\ cut \in BOOLEAN
      /\ slipped \in BOOLEAN
  OBVIOUS
<1>3. ms \in MapState /\ sa \in MapState
  BY MapOffTyped
<1>4. buf \in [{0, 1} -> BOOLEAN] /\ area \in [{0, 1} -> Jobs]
  OBVIOUS
<1> QED
  BY <1>1, <1>2, <1>3, <1>4 DEF TypeInv, TypeOK, Drawing, MapBuffers, AgeLimit

\* The state word of a map just switched off is still one.
LEMMA SwitchedOff ==
  ASSUME NEW m \in MapState PROVE [m EXCEPT !.on = FALSE, !.linger = 0] \in MapState
<1>1. [m EXCEPT !.on = FALSE] \in MapState
  BY DEF MapState
<1>2. ASSUME NEW k \in MapState PROVE [k EXCEPT !.linger = 0] \in MapState
  BY ConstantsAssumption DEF MapState, ConstantsAssumption
<1> QED
  BY <1>1, <1>2

LEMMA TypeTime == TypeInv /\ (VBlankStart \/ VBlankEnd) => TypeInv'
<1> SUFFICES ASSUME TypeInv, VBlankStart \/ VBlankEnd PROVE TypeInv'
  OBVIOUS
<1> USE DEF TypeInv, TypeOK, Drawing, hardware, shared, game, thunk, loop, sh2
<1>1. CASE VBlankStart
  <2>1. vb' \in BOOLEAN /\ vint' \in BOOLEAN
    BY <1>1, ConstantsAssumption DEF VBlankStart, AgeLimit, ConstantsAssumption
  <2> QED
    BY <2>1, <1>1, ConstantsAssumption DEF VBlankStart, AgeLimit, ConstantsAssumption
<1>2. CASE VBlankEnd
  <2>1. vb' \in BOOLEAN
    BY <1>2 DEF VBlankEnd
  <2> QED
    BY <2>1, <1>2 DEF VBlankEnd
<1> QED
  BY <1>1, <1>2

LEMMA TypeHandler == TypeInv /\ Handler => TypeInv'
<1> SUFFICES ASSUME TypeInv, Handler PROVE TypeInv'
  OBVIOUS
<1> USE DEF TypeInv, TypeOK, Drawing, hardware, shared, game, thunk, loop, sh2
<1>1. CASE VBlankHold
  <2>1. vint' \in BOOLEAN
    BY <1>1 DEF VBlankHold, Enter
  <2>2. h40' \in BOOLEAN
    BY <1>1 DEF VBlankHold, Enter
  <2> QED
    BY <2>1, <2>2, <1>1 DEF VBlankHold, Enter
<1>2. CASE VBlankSwitchOn
  <2>1. vint' \in BOOLEAN
    BY <1>2 DEF VBlankSwitchOn, Enter
  <2> QED
    BY <2>1, <1>2 DEF VBlankSwitchOn, Enter
<1>3. CASE VBlankAnnounce
  BY <1>3, ConstantsAssumption DEF VBlankAnnounce, MapState, Gens, ConstantsAssumption
<1>4. CASE VBlankOn
  <2>1. vint' \in BOOLEAN
    BY <1>4, ConstantsAssumption DEF VBlankOn, Enter, Follow, MirrorPalette, Sh2WantsFm, MapState, ConstantsAssumption
  <2>2. h40' \in BOOLEAN
    BY <1>4, ConstantsAssumption DEF VBlankOn, Enter, Follow, MirrorPalette, Sh2WantsFm, MapState, ConstantsAssumption
  <2>3. pal' \in BOOLEAN
    BY <1>4, ConstantsAssumption DEF VBlankOn, Enter, Follow, MirrorPalette, Sh2WantsFm, MapState, ConstantsAssumption
  <2>4. ms' \in MapState
    BY <1>4, ConstantsAssumption DEF VBlankOn, Enter, Follow, MirrorPalette, Sh2WantsFm, MapState, ConstantsAssumption
  <2> QED
    BY <2>1, <2>2, <2>3, <2>4, <1>4 DEF VBlankOn, Follow
<1>5. CASE VBlankLinger
  <2>1. vint' \in BOOLEAN
    BY <1>5, ConstantsAssumption DEF VBlankLinger, Enter, Follow, MirrorPalette, Sh2WantsFm, Stays, MapState, ConstantsAssumption
  <2>2. h40' \in BOOLEAN
    BY <1>5, ConstantsAssumption DEF VBlankLinger, Enter, Follow, MirrorPalette, Sh2WantsFm, Stays, MapState, ConstantsAssumption
  <2>3. pal' \in BOOLEAN
    BY <1>5, ConstantsAssumption DEF VBlankLinger, Enter, Follow, MirrorPalette, Sh2WantsFm, Stays, MapState, ConstantsAssumption
  <2>4. ms' \in MapState
    BY <1>5, ConstantsAssumption DEF VBlankLinger, Enter, Follow, MirrorPalette, Sh2WantsFm, Stays, MapState, ConstantsAssumption
  <2> QED
    BY <2>1, <2>2, <2>3, <2>4, <1>5 DEF VBlankLinger, Follow
<1>6. CASE VBlankSwitchOff
  <2>1. vint' \in BOOLEAN
    BY <1>6, ConstantsAssumption DEF VBlankSwitchOff, Enter, MapState, ConstantsAssumption
  <2>2. ms' \in MapState
    BY <1>6, SwitchedOff DEF VBlankSwitchOff
  <2> QED
    BY <2>1, <2>2, <1>6 DEF VBlankSwitchOff
<1>7. CASE VBlankRetire
  <2>1. h40' \in BOOLEAN
    BY <1>7 DEF VBlankRetire
  <2> QED
    BY <2>1, <1>7 DEF VBlankRetire
<1>8. CASE VBlankNothing
  <2>1. vint' \in BOOLEAN
    BY <1>8 DEF VBlankNothing, Enter
  <2> QED
    BY <2>1, <1>8 DEF VBlankNothing, Enter
<1> QED
  BY <1>1, <1>2, <1>3, <1>4, <1>5, <1>6, <1>7, <1>8 DEF Handler

LEMMA TypeGame == TypeInv /\ (OpenMap \/ LeaveMap \/ WritePalette \/ WriteReg12 \/ StartLz) => TypeInv'
<1> SUFFICES ASSUME TypeInv, OpenMap \/ LeaveMap \/ WritePalette \/ WriteReg12 \/ StartLz PROVE TypeInv'
  OBVIOUS
<1> USE DEF TypeInv, TypeOK, Drawing, hardware, shared, game, thunk, loop, sh2
<1>1. CASE OpenMap
  BY <1>1, ConstantsAssumption DEF OpenMap, Playing, MainRuns, ConstantsAssumption
<1>2. CASE LeaveMap
  <2>1. screen' \in BOOLEAN
    BY <1>2 DEF LeaveMap, Playing, MainRuns
  <2> QED
    BY <2>1, <1>2 DEF LeaveMap, Playing, MainRuns
<1>3. CASE WritePalette
  <2>1. lit' \in BOOLEAN
    BY <1>3 DEF WritePalette, MirrorPalette
  <2>2. pal' \in BOOLEAN
    BY <1>3 DEF WritePalette, MirrorPalette
  <2> QED
    BY <2>1, <2>2, <1>3 DEF WritePalette, MirrorPalette
<1>4. CASE WriteReg12
  <2>1. h40' \in BOOLEAN
    BY <1>4 DEF WriteReg12
  <2> QED
    BY <2>1, <1>4 DEF WriteReg12
<1>5. CASE StartLz
  <2>1. ms' \in MapState
    BY <1>5, ConstantsAssumption DEF StartLz, Playing, MapState, Jobs, NoJob, ConstantsAssumption
  <2>2. copyOk' \in BOOLEAN
    BY <1>5, ConstantsAssumption DEF StartLz, Playing, MapState, Jobs, NoJob, ConstantsAssumption
  <2>3. job' \in Jobs
    BY <1>5, ConstantsAssumption DEF StartLz, Playing, MapState, Jobs, NoJob, ConstantsAssumption
  <2> QED
    BY <2>1, <2>2, <2>3, <1>5, ConstantsAssumption DEF StartLz, Playing, MapState, Jobs, NoJob, ConstantsAssumption
<1> QED
  BY <1>1, <1>2, <1>3, <1>4, <1>5

LEMMA TypeThunk == TypeInv /\ Thunk => TypeInv'
<1> SUFFICES ASSUME TypeInv, Thunk PROVE TypeInv'
  OBVIOUS
<1> USE DEF TypeInv, TypeOK, Drawing, hardware, shared, game, thunk, loop, sh2
<1>1. CASE GrantFm
  BY <1>1 DEF GrantFm
<1>2. CASE SendJob
  BY <1>2 DEF SendJob
<1>3. CASE TakeFm
  BY <1>3, ConstantsAssumption DEF TakeFm, ConstantsAssumption
<1>4. CASE CopyBegins
  BY <1>4 DEF CopyBegins, Copy
<1>5. CASE CopyEnds
  BY <1>5 DEF CopyEnds, Copy
<1>6. CASE TestRelease
  BY <1>6 DEF TestRelease
<1>7. CASE GiveFm
  BY <1>7 DEF GiveFm
<1>8. CASE DropBusy
  <2>1. ms' \in MapState
    BY <1>8 DEF DropBusy, MapState
  <2> QED
    BY <2>1, <1>8 DEF DropBusy, MapState
<1>9. CASE GiveUp
  BY <1>9 DEF GiveUp
<1> QED
  BY <1>1, <1>2, <1>3, <1>4, <1>5, <1>6, <1>7, <1>8, <1>9 DEF Thunk

LEMMA TypeLoop == TypeInv /\ (Loop \/ DrawMisreads) => TypeInv'
<1> SUFFICES ASSUME TypeInv, Loop \/ DrawMisreads PROVE TypeInv'
  OBVIOUS
<1> USE DEF TypeInv, TypeOK, Drawing, hardware, shared, game, thunk, loop, sh2
<1>1. CASE ReadStateA
  BY <1>1 DEF ReadStateA
<1>2. CASE ReadStateB
  BY <1>2 DEF ReadStateB
<1>3. CASE ReadFm
  <2>1. mapOn' \in BOOLEAN
    BY <1>3 DEF ReadFm
  <2>2. status' \in Gens \cup {NotDrawn} /\ draws' \in 0..MapBuffers
    BY <1>3 DEF ReadFm, MapBuffers
  <2>3. spc' \in {"begin", "decide"}
    BY <1>3 DEF ReadFm
  <2>4. sfm' \in {Md, Sh2} /\ agree' \in BOOLEAN
    BY <1>3 DEF ReadFm
  <2>5. sa' \in MapState
    BY <1>3, MapOffTyped DEF ReadFm
  <2>6. UNCHANGED <<hardware, ms, cmd, game, thunk, vpc, mapGen, pending, seenLow, age, slipped,
                  sfs, cut, sjob>>
    BY <1>3 DEF ReadFm
  <2> QED
    BY <2>1, <2>2, <2>3, <2>4, <2>5, <2>6
<1>4. CASE Begin
  <2>1. sa' \in MapState /\ mapGen' \in Gens
    BY <1>4, MapOffTyped DEF Begin, MapState
  <2>2. mapOn' \in BOOLEAN
    BY <1>4 DEF Begin
  <2> QED
    BY <2>1, <2>2, <1>4 DEF Begin, MapBuffers
<1>5. CASE Decide
  BY <1>5 DEF Decide, AgeLimit
<1>6. CASE DrawReadsFs
  BY <1>6 DEF DrawReadsFs, FsReads
<1>7. CASE DrawWaitsVBlank
  BY <1>7 DEF DrawWaitsVBlank
<1>8. CASE BlitBegins
  BY <1>8 DEF BlitBegins
<1>9. CASE BlitEnds
  <2>1. cut' \in BOOLEAN
    BY <1>9 DEF BlitEnds
  <2> QED
    BY <2>1, <1>9 DEF BlitEnds
<1>10. CASE Swap
  BY <1>10 DEF Swap
<1>11. CASE DrawEnds
  BY <1>11 DEF DrawEnds, DrawDone, MapBuffers
<1>12. CASE ServiceIdle
  BY <1>12 DEF ServiceIdle
<1>13. CASE JobBegins
  BY <1>13 DEF JobBegins
<1>14. CASE JobEnds
  <2>1. cut' \in BOOLEAN
    BY <1>14 DEF JobEnds
  <2>2. pending' \in BOOLEAN /\ slipped' \in BOOLEAN
    BY <1>14 DEF JobEnds
  <2> QED
    BY <2>1, <2>2, <1>14, ConstantsAssumption DEF JobEnds, NoJob, Jobs, ConstantsAssumption
<1>15. CASE DrawMisreads
  BY <1>15 DEF DrawMisreads, DrawDone, MapBuffers
<1> QED
  BY <1>1, <1>2, <1>3, <1>4, <1>5, <1>6, <1>7, <1>8, <1>9, <1>10, <1>11, <1>12, <1>13, <1>14, <1>15 DEF Loop

LEMMA TypeNext == TypeInv /\ [Next]_vars => TypeInv'
<1> SUFFICES ASSUME TypeInv, [Next]_vars PROVE TypeInv'
  OBVIOUS
<1>1. CASE UNCHANGED vars
  BY <1>1 DEF vars, TypeInv, TypeOK, Drawing, hardware, shared, game, thunk, loop, sh2
<1> QED
  BY <1>1, TypeTime, TypeHandler, TypeGame, TypeThunk, TypeLoop DEF Next

\* Every variable keeps its type, whatever the order of steps: the counters of
\* draws, of V-Blanks since an answer and of frames of lingering stay in range
\* (rpc.c map_draws and lz_answered_at, map_screen.asm MAP_LINGER_MAX).
THEOREM TypeCorrect == Safe => []TypeOK
<1>1. TypeInv => TypeOK
  BY DEF TypeInv
<1> QED
  BY TypeInit, TypeNext, <1>1, PTL DEF Safe

---------------------------------------------------------------------------
\* Visits.

LEMMA VisitInit == Init => VisitInv
  BY ConstantsAssumption DEF ConstantsAssumption, Init, VisitInv, Numbered, ReadInOrder, EchoIsDone, ShownOnEcho,
     Gens, NotDrawn, MapOff

LEMMA VisitTime == TypeInv /\ VisitInv /\ (VBlankStart \/ VBlankEnd) => VisitInv'
<1> SUFFICES ASSUME TypeInv /\ VisitInv, VBlankStart \/ VBlankEnd PROVE VisitInv'
  OBVIOUS
<1> USE ConstantsAssumption DEF ConstantsAssumption, TypeInv, TypeOK, MapState, Gens, NotDrawn, MapOff, Md, Sh2, Drawing,
      MapBuffers, hardware, shared, game, thunk, loop, sh2,
      VisitInv, Numbered, ReadInOrder, EchoIsDone, ShownOnEcho
<1>1. CASE VBlankStart
  BY <1>1 DEF VBlankStart
<1>2. CASE VBlankEnd
  BY <1>2 DEF VBlankEnd
<1> QED
  BY <1>1, <1>2

LEMMA VisitHandler == MaxVisits < GenModulus /\ TypeInv /\ VisitInv /\ Handler => VisitInv'
<1> SUFFICES ASSUME MaxVisits < GenModulus /\ TypeInv /\ VisitInv, Handler PROVE VisitInv'
  OBVIOUS
<1> USE ConstantsAssumption DEF ConstantsAssumption, TypeInv, TypeOK, MapState, Gens, NotDrawn, MapOff, Md, Sh2, Drawing,
      MapBuffers, hardware, shared, game, thunk, loop, sh2,
      VisitInv, Numbered, ReadInOrder, EchoIsDone, ShownOnEcho
<1>1. CASE VBlankHold
  BY <1>1 DEF VBlankHold, Enter
<1>2. CASE VBlankSwitchOn
  BY <1>2 DEF VBlankSwitchOn, Enter
<1>3. CASE VBlankAnnounce
  BY <1>3 DEF VBlankAnnounce
<1>4. CASE VBlankOn
  BY <1>4 DEF VBlankOn, Enter, Follow, MirrorPalette, Sh2WantsFm
<1>5. CASE VBlankLinger
  BY <1>5 DEF VBlankLinger, Enter, Follow, MirrorPalette, Sh2WantsFm, Stays
<1>6. CASE VBlankSwitchOff
  BY <1>6 DEF VBlankSwitchOff, Enter
<1>7. CASE VBlankRetire
  BY <1>7 DEF VBlankRetire
<1>8. CASE VBlankNothing
  BY <1>8 DEF VBlankNothing, Enter
<1> QED
  BY <1>1, <1>2, <1>3, <1>4, <1>5, <1>6, <1>7, <1>8 DEF Handler

LEMMA VisitGame == TypeInv /\ VisitInv /\ (OpenMap \/ LeaveMap \/ WritePalette \/ WriteReg12 \/ StartLz) => VisitInv'
<1> SUFFICES ASSUME TypeInv /\ VisitInv, OpenMap \/ LeaveMap \/ WritePalette \/ WriteReg12 \/ StartLz PROVE VisitInv'
  OBVIOUS
<1> USE ConstantsAssumption DEF ConstantsAssumption, TypeInv, TypeOK, MapState, Gens, NotDrawn, MapOff, Md, Sh2, Drawing,
      MapBuffers, hardware, shared, game, thunk, loop, sh2,
      VisitInv, Numbered, ReadInOrder, EchoIsDone, ShownOnEcho
<1>1. CASE OpenMap
  BY <1>1 DEF OpenMap, Playing, MainRuns
<1>2. CASE LeaveMap
  BY <1>2 DEF LeaveMap, Playing, MainRuns
<1>3. CASE WritePalette
  BY <1>3 DEF WritePalette, MirrorPalette
<1>4. CASE WriteReg12
  BY <1>4 DEF WriteReg12
<1>5. CASE StartLz
  BY <1>5 DEF StartLz, Playing
<1> QED
  BY <1>1, <1>2, <1>3, <1>4, <1>5

LEMMA VisitThunk == TypeInv /\ VisitInv /\ Thunk => VisitInv'
<1> SUFFICES ASSUME TypeInv /\ VisitInv, Thunk PROVE VisitInv'
  OBVIOUS
<1> USE ConstantsAssumption DEF ConstantsAssumption, TypeInv, TypeOK, MapState, Gens, NotDrawn, MapOff, Md, Sh2, Drawing,
      MapBuffers, hardware, shared, game, thunk, loop, sh2,
      VisitInv, Numbered, ReadInOrder, EchoIsDone, ShownOnEcho
<1>1. CASE GrantFm
  BY <1>1 DEF GrantFm
<1>2. CASE SendJob
  BY <1>2 DEF SendJob
<1>3. CASE TakeFm
  BY <1>3 DEF TakeFm
<1>4. CASE CopyBegins
  BY <1>4 DEF CopyBegins, Copy
<1>5. CASE CopyEnds
  BY <1>5 DEF CopyEnds, Copy
<1>6. CASE TestRelease
  BY <1>6 DEF TestRelease
<1>7. CASE GiveFm
  BY <1>7 DEF GiveFm
<1>8. CASE DropBusy
  BY <1>8 DEF DropBusy
<1>9. CASE GiveUp
  BY <1>9 DEF GiveUp
<1> QED
  BY <1>1, <1>2, <1>3, <1>4, <1>5, <1>6, <1>7, <1>8, <1>9 DEF Thunk

LEMMA VisitLoop == TypeInv /\ VisitInv /\ (Loop \/ DrawMisreads) => VisitInv'
<1> SUFFICES ASSUME TypeInv /\ VisitInv, Loop \/ DrawMisreads PROVE VisitInv'
  OBVIOUS
<1> USE ConstantsAssumption DEF ConstantsAssumption, TypeInv, TypeOK, MapState, Gens, NotDrawn, MapOff, Md, Sh2, Drawing,
      MapBuffers, hardware, shared, game, thunk, loop, sh2,
      VisitInv, Numbered, ReadInOrder, EchoIsDone, ShownOnEcho
<1>1. CASE ReadStateA
  BY <1>1 DEF ReadStateA
<1>2. CASE ReadStateB
  BY <1>2 DEF ReadStateB
<1>3. CASE ReadFm
  BY <1>3 DEF ReadFm
<1>4. CASE Begin
  BY <1>4 DEF Begin
<1>5. CASE Decide
  BY <1>5 DEF Decide
<1>6. CASE DrawReadsFs
  BY <1>6 DEF DrawReadsFs, FsReads
<1>7. CASE DrawWaitsVBlank
  BY <1>7 DEF DrawWaitsVBlank
<1>8. CASE BlitBegins
  BY <1>8 DEF BlitBegins
<1>9. CASE BlitEnds
  BY <1>9 DEF BlitEnds
<1>10. CASE Swap
  BY <1>10 DEF Swap
<1>11. CASE DrawEnds
  BY <1>11 DEF DrawEnds, DrawDone
<1>12. CASE ServiceIdle
  BY <1>12 DEF ServiceIdle
<1>13. CASE JobBegins
  BY <1>13 DEF JobBegins
<1>14. CASE JobEnds
  BY <1>14 DEF JobEnds
<1>15. CASE DrawMisreads
  BY <1>15 DEF DrawMisreads, DrawDone
<1> QED
  BY <1>1, <1>2, <1>3, <1>4, <1>5, <1>6, <1>7, <1>8, <1>9, <1>10, <1>11, <1>12, <1>13, <1>14, <1>15 DEF Loop

LEMMA VisitNext == MaxVisits < GenModulus /\ TypeInv /\ VisitInv /\ [Next]_vars => VisitInv'
<1> SUFFICES ASSUME MaxVisits < GenModulus, TypeInv, VisitInv, [Next]_vars PROVE VisitInv'
  OBVIOUS
<1>1. CASE UNCHANGED vars
  BY <1>1 DEF vars, VisitInv, Numbered, ReadInOrder, EchoIsDone, ShownOnEcho, hardware, shared, game, thunk, loop, sh2
<1> QED
  BY <1>1, VisitTime, VisitHandler, VisitGame, VisitThunk, VisitLoop DEF Next

\* As long as the generation field does not wrap, a layer that is on is shown only
\* when the SH2 has finished the draws of this very visit: an echo of an older
\* one is never taken for it (map_screen.asm MapSh2WantsFm, rpc.c SH2_STATUS).
THEOREM ShownForThisVisit ==
  ASSUME MaxVisits < GenModulus PROVE Safe => []DrawnThisVisit
<1>1. TypeInv /\ VisitInv => DrawnThisVisit
  BY DEF TypeInv, TypeOK, VisitInv, Numbered, ShownOnEcho, EchoIsDone, DrawnThisVisit, MapState, Gens, NotDrawn
<1> QED
  BY TypeInit, TypeNext, VisitInit, VisitNext, <1>1, PTL DEF Safe

\* And the handler never leaves a shown layer on a narrow screen, whatever the
\* game writes to register 12 (map_screen.asm .force_h40 and .hold).
THEOREM WideWhenShown ==
  ASSUME MaxVisits < GenModulus PROVE Safe => HandlerForcesH40
<1>1. ASSUME TypeInv, VisitInv, [Next]_vars PROVE [HandlerEnds /\ mode' = "packed" => h40']_vars
  <2> SUFFICES ASSUME Next, HandlerEnds, mode' = "packed" PROVE h40'
    BY <1>1
  <2> USE <1>1 DEF HandlerEnds
  <2>1. CASE VBlankHold
    BY <2>1 DEF VBlankHold, Enter, Sh2WantsFm, VisitInv, Numbered, ShownOnEcho
  <2>2. CASE VBlankSwitchOn
    BY <2>2 DEF VBlankSwitchOn
  <2>3. CASE VBlankAnnounce
    BY <2>3 DEF VBlankAnnounce, hardware, VisitInv, Numbered
  <2>4. CASE VBlankOn
    BY <2>4 DEF VBlankOn, Enter, Follow, Sh2WantsFm, VisitInv, ShownOnEcho
  <2>5. CASE VBlankLinger
    BY <2>5 DEF VBlankLinger, Enter, Follow, Sh2WantsFm, VisitInv, ShownOnEcho
  <2>6. CASE VBlankSwitchOff
    BY <2>6 DEF VBlankSwitchOff
  <2>7. CASE VBlankRetire
    BY <2>7 DEF VBlankRetire
  <2>8. CASE VBlankNothing
    BY <2>8 DEF VBlankNothing, Enter, VisitInv, ShownOnEcho
  <2>9. CASE VBlankStart \/ VBlankEnd
    BY <2>9 DEF VBlankStart, VBlankEnd
  <2>10. CASE OpenMap \/ LeaveMap \/ WritePalette \/ WriteReg12 \/ StartLz
    BY <2>10 DEF OpenMap, LeaveMap, WritePalette, WriteReg12, StartLz, Playing, MainRuns, hardware
  <2>11. CASE Thunk
    BY <2>11 DEF Thunk, GrantFm, SendJob, TakeFm, CopyBegins, CopyEnds, Copy, TestRelease, GiveFm, DropBusy, GiveUp,
                hardware
  <2>12. CASE Loop \/ DrawMisreads
    BY <2>12 DEF Loop, ReadStateA, ReadStateB, ReadFm, Begin, Decide, DrawReadsFs, DrawWaitsVBlank, BlitBegins,
                BlitEnds, Swap, DrawEnds, ServiceIdle, JobBegins, JobEnds, DrawMisreads, DrawDone, hardware
  <2> QED
    BY <2>1, <2>2, <2>3, <2>4, <2>5, <2>6, <2>7, <2>8, <2>9, <2>10, <2>11, <2>12 DEF Next, Handler
<1> QED
  BY TypeInit, TypeNext, VisitInit, VisitNext, <1>1, PTL DEF Safe, HandlerForcesH40

-----------------------------------------------------------------------------
(***************************************************************************)
(* The frame buffer.  The picture shown is whole and stands still, a draw  *)
(* keeps FM to its end, and a copy of a decompressed block is never cut    *)
(* off, until an answer goes astray (the history variable slipped).        *)
(***************************************************************************)

\* What the SH2 has on is the state word's generation.
Seen == mapOn = ms.on /\ (mapOn => mapGen = ms.gen)

\* The map that is on is the one the SH2 draws or has drawn.
Current == ms.on /\ mapOn /\ mapGen = ms.gen

\* BUSY is up all through a job, and the handler acts only while it is down, inside
\* the blanking interval, where no swap is outstanding.
Turns ==
  /\ ms.busy <=> lpc # "game"
  /\ vpc # "none" => lpc = "game" /\ vb
  /\ vint /\ lpc = "game" => vb
  /\ vb => fs = fsw

\* FM is the SH2's while it has a job or a map to draw, the 68000's while the thunk
\* copies.
Owned ==
  /\ lpc \in {"cmd", "wait"} \/ vpc = "announce" => fm = Sh2
  /\ lpc \in {"copy1", "copy2", "release", "giveFm"} => fm = Md
  /\ Sh2WantsFm /\ lpc \in {"game", "setFm", "dropBusy"} => fm = Sh2

\* The flag and the time of a wait start afresh for each.
Waits == ~pending => age = 0 /\ ~seenLow

\* The SH2 has nothing to draw, nor to begin, while the layer is shown, and no swap
\* is outstanding.
Shown ==
  mode = "packed" =>
    /\ fs = fsw /\ draws = 0 /\ spc # "begin"
    /\ IF mapOn THEN mapGen = ms.gen
                ELSE ~ms.on /\ (spc \in {"readB", "readFm"} => ~sa.on)

\* Jobs are numbered as they are started.  A command waited for is the present job's;
\* an SH2 that works for it has had FM from the start.
Asked ==
  /\ cmd <= job /\ sjob <= job
  /\ lpc \in {"setFm", "cmd"} => cmd < job /\ sjob < job
  /\ lpc = "wait" => cmd \in {NoJob, job} /\ job # NoJob
  /\ lpc \in {"copy1", "copy2"} => cmd = NoJob
  /\ spc = "job" => cmd # NoJob /\ (lpc = "wait" /\ sjob = cmd => ~cut)
  /\ ~(lpc = "wait" /\ cmd = NoJob) => slack = 0

\* These hold whatever has happened before.
Protocol == Turns /\ Owned /\ Waits /\ Shown /\ Asked

\* From the answer to the end of the copy the block is in the 68000's half of the
\* buffer and the SH2 waits.  Its first turn after the answer finds out about a map
\* just switched on, and begins it; no later one does.  Until FM is taken the SH2
\* has not seen it low, nor have more V-Blanks passed than the slack allows.
Taken == (lpc = "wait" /\ cmd = NoJob) \/ lpc \in {"copy1", "copy2"}
Guarded ==
  Taken =>
    /\ pending /\ area[1 - fs] = job
    /\ ~Drawing /\ spc # "job"
    /\ spc \in {"readB", "readFm", "begin"} => sa = ms
    /\ spc = "readFm" => agree
    /\ age # 0 \/ spc \in {"decide", "service"} => Seen
    /\ age = 0 => ~seenLow /\ spc # "service"
    /\ spc = "begin" => age = 0 /\ sa.on
    /\ lpc = "wait" => /\ ~seenLow /\ age <= 1 + slack
                       /\ spc \in {"decide", "begin"} => sfm = Sh2

\* An SH2 that took FM for its own and finds it gone still waits, and by neither rule
\* takes the copy for over.
LowUnseen ==
  lpc \in {"copy1", "copy2", "release", "giveFm"} /\ spc \in {"decide", "begin"} /\ sfm = Sh2 =>
    pending /\ ~seenLow /\ age <= AgeLimit /\ (spc = "begin" => age = 0)

\* A swap still to land is waited for, with FM.
Swaps == fs # fsw => spc = "spin" /\ fs = sfs /\ fm = Sh2

\* A draw of the map that is on keeps FM, writes the buffer that is not shown and
\* swaps it in: with one draw left the buffer shown is whole, with none left both are.
DrawsWhole ==
  Current =>
    /\ Drawing => fm = Sh2
    /\ spc \in {"vwait", "blit1", "blit2", "swap"} => sfs = fs
    /\ spc = "spin" => fsw = 1 - sfs
    /\ spc = "blit2" => ~cut
    /\ spc = "swap" => buf[1 - fs]
    /\ spc = "spin" => buf[fsw]
    /\ draws = 1 => IF spc = "spin" THEN buf[1 - fsw] ELSE buf[fs]
    /\ draws = 0 => buf[0] /\ buf[1]

\* As is what is shown.
ShownWhole == mode = "packed" => buf[0] /\ buf[1]

\* With Protocol, these hold until an answer goes astray.
Intact == Guarded /\ LowUnseen /\ Swaps /\ DrawsWhole /\ ShownWhole /\ copyOk
---------------------------------------------------------------------------
\* A handler that does anything runs while V-Blank lasts and BUSY is off.
LEMMA TurnsStep ==
  ASSUME TypeInv, Turns, [Next]_vars
  PROVE  Turns'
<1> USE DEF Turns, MapState, TypeInv, TypeOK, Drawing, hardware, shared, game, thunk, loop, sh2
<1>1. CASE VBlankStart \/ VBlankEnd
  BY <1>1 DEF VBlankStart, MainRuns, Masked, VBlankEnd
<1>2. CASE Handler
  <2>1. CASE VBlankAnnounce
    BY <2>1 DEF VBlankAnnounce
  <2>2. CASE VBlankOn
    BY <2>2 DEF VBlankOn, Enter, Follow, MainRuns, Masked
  <2>3. CASE VBlankLinger
    BY <2>3 DEF VBlankLinger, Enter, Follow, MainRuns, Masked
  <2>4. CASE VBlankSwitchOff
    BY <2>4 DEF VBlankSwitchOff, Enter, MainRuns, Masked
  <2>5. QED
    BY <1>2, <2>1, <2>2, <2>3, <2>4 DEF Handler, VBlankHold, Enter, MainRuns, Masked,
                                        VBlankSwitchOn, VBlankRetire, VBlankNothing
<1>3. CASE OpenMap \/ LeaveMap \/ WritePalette \/ WriteReg12 \/ StartLz
  <2>1. CASE WritePalette
    BY <2>1 DEF WritePalette, Playing, MainRuns, Masked
  <2>2. CASE StartLz
    BY <2>2 DEF StartLz, Playing, MainRuns, Masked
  <2>3. QED
    BY <1>3, <2>1, <2>2 DEF OpenMap, Playing, MainRuns, Masked, LeaveMap, WriteReg12
<1>4. CASE Thunk
  BY <1>4 DEF Thunk, GrantFm, SendJob, TakeFm, CopyBegins, Copy, MainRuns, Masked, CopyEnds,
              TestRelease, GiveFm, DropBusy, GiveUp
<1>5. CASE Loop \/ DrawMisreads
  <2>1. CASE ReadFm
    BY <2>1 DEF ReadFm
  <2>2. CASE Decide
    BY <2>2 DEF Decide
  <2>3. CASE Swap
    BY <2>3 DEF Swap
  <2>4. CASE DrawEnds
    BY <2>4 DEF DrawEnds, DrawDone
  <2>5. CASE DrawMisreads
    BY <2>5 DEF DrawMisreads, DrawDone
  <2>6. QED
    BY <1>5, <2>1, <2>2, <2>3, <2>4, <2>5 DEF Loop, ReadStateA, ReadStateB, Begin, DrawReadsFs,
                                              FsReads, DrawWaitsVBlank, BlitBegins, BlitEnds,
                                              ServiceIdle, JobBegins, JobEnds
<1>6. CASE UNCHANGED vars
  BY <1>6 DEF vars
<1>7. QED
  BY <1>1, <1>2, <1>3, <1>4, <1>5, <1>6 DEF Next

\* FM changes hands with the state that says whose it is.
LEMMA OwnedStep ==
  ASSUME TypeInv, VisitInv, Turns, Owned, [Next]_vars
  PROVE  Owned'
<1> USE ConstantsAssumption DEF Owned, Turns, Sh2WantsFm, MapState, Md, Sh2, TypeInv, TypeOK,
                                MapOff, Gens, NotDrawn, Drawing, VisitInv, Numbered, ReadInOrder,
                                EchoIsDone, hardware, shared, game, thunk, loop, sh2
<1>1. CASE VBlankStart \/ VBlankEnd
  BY <1>1 DEF VBlankStart, VBlankEnd
<1>2. CASE Handler
  BY <1>2 DEF Handler, VBlankHold, Enter, VBlankSwitchOn, VBlankAnnounce, VBlankOn, Follow,
              VBlankLinger, VBlankSwitchOff, VBlankRetire, VBlankNothing
<1>3. CASE OpenMap \/ LeaveMap \/ WritePalette \/ WriteReg12 \/ StartLz
  BY <1>3 DEF OpenMap, Playing, LeaveMap, WritePalette, WriteReg12, StartLz
<1>4. CASE Thunk
  BY <1>4 DEF Thunk, GrantFm, SendJob, TakeFm, CopyBegins, Copy, CopyEnds, TestRelease, GiveFm,
              DropBusy, GiveUp
<1>5. CASE Loop \/ DrawMisreads
  <2>1. CASE ReadFm
    BY <2>1 DEF ReadFm
  <2>2. CASE DrawEnds
    BY <2>2 DEF DrawEnds, DrawDone
  <2>3. CASE DrawMisreads
    BY <2>3 DEF DrawMisreads, DrawDone
  <2>4. QED
    BY <1>5, <2>1, <2>2, <2>3 DEF Loop, ReadStateA, ReadStateB, Begin, Decide, DrawReadsFs,
                                  FsReads, DrawWaitsVBlank, BlitBegins, BlitEnds, Swap,
                                  ServiceIdle, JobBegins, JobEnds
<1>6. CASE UNCHANGED vars
  BY <1>6 DEF vars
<1>7. QED
  BY <1>1, <1>2, <1>3, <1>4, <1>5, <1>6 DEF Next

\* The wait for a copy is started anew for each.
LEMMA WaitsStep ==
  ASSUME TypeInv, Waits, [Next]_vars
  PROVE  Waits'
<1> USE DEF Waits, TypeInv, TypeOK, Drawing, Md, Sh2, AgeLimit, hardware, shared, game, thunk,
            loop, sh2
<1>1. CASE VBlankStart \/ VBlankEnd
  BY <1>1 DEF VBlankStart, VBlankEnd
<1>2. CASE Handler
  BY <1>2 DEF Handler, VBlankHold, Enter, VBlankSwitchOn, VBlankAnnounce, VBlankOn, Follow,
              VBlankLinger, VBlankSwitchOff, VBlankRetire, VBlankNothing
<1>3. CASE OpenMap \/ LeaveMap \/ WritePalette \/ WriteReg12 \/ StartLz
  BY <1>3 DEF OpenMap, Playing, LeaveMap, WritePalette, WriteReg12, StartLz
<1>4. CASE Thunk
  BY <1>4 DEF Thunk, GrantFm, SendJob, TakeFm, CopyBegins, Copy, CopyEnds, TestRelease, GiveFm,
              DropBusy, GiveUp
<1>5. CASE Loop \/ DrawMisreads
  BY <1>5 DEF Loop, ReadStateA, ReadStateB, ReadFm, Begin, Decide, DrawReadsFs, FsReads,
              DrawWaitsVBlank, BlitBegins, BlitEnds, Swap, DrawEnds, DrawDone, DrawMisreads,
              ServiceIdle, JobBegins, JobEnds
<1>6. CASE UNCHANGED vars
  BY <1>6 DEF vars
<1>7. QED
  BY <1>1, <1>2, <1>3, <1>4, <1>5, <1>6 DEF Next

\* Nothing is drawn once the layer is shown.
LEMMA ShownStep ==
  ASSUME TypeInv, VisitInv, Turns, Shown, [Next]_vars
  PROVE  Shown'
<1> USE ConstantsAssumption DEF Shown, Turns, Sh2WantsFm, MapState, TypeInv, TypeOK, Drawing,
                                MapOff, Gens, NotDrawn, ShownOnEcho, VisitInv, Numbered,
                                ReadInOrder, EchoIsDone, hardware, shared, game, thunk, loop, sh2
<1>1. CASE VBlankStart \/ VBlankEnd
  BY <1>1 DEF VBlankStart, VBlankEnd
<1>2. CASE Handler
  <2>1. CASE VBlankAnnounce
    BY <2>1 DEF VBlankAnnounce
  <2>2. CASE VBlankOn
    BY <2>2 DEF VBlankOn, Enter, Follow
  <2>3. CASE VBlankLinger
    BY <2>3 DEF VBlankLinger, Enter, Follow
  <2>4. CASE VBlankSwitchOff
    BY <2>4 DEF VBlankSwitchOff, Enter
  <2>5. QED
    BY <1>2, <2>1, <2>2, <2>3, <2>4 DEF Handler, VBlankHold, Enter, VBlankSwitchOn, VBlankRetire,
                                        VBlankNothing
<1>3. CASE OpenMap \/ LeaveMap \/ WritePalette \/ WriteReg12 \/ StartLz
  <2>1. CASE WritePalette
    BY <2>1 DEF WritePalette, Playing
  <2>2. CASE StartLz
    BY <2>2 DEF StartLz, Playing
  <2>3. QED
    BY <1>3, <2>1, <2>2 DEF OpenMap, Playing, LeaveMap, WriteReg12
<1>4. CASE Thunk
  BY <1>4 DEF Thunk, GrantFm, SendJob, TakeFm, CopyBegins, Copy, CopyEnds, TestRelease, GiveFm,
              DropBusy, GiveUp
<1>5. CASE Loop \/ DrawMisreads
  <2>1. CASE ReadStateA
    BY <2>1 DEF ReadStateA
  <2>2. CASE ReadStateB
    BY <2>2 DEF ReadStateB
  <2>3. CASE ReadFm
    BY <2>3 DEF ReadFm
  <2>4. CASE Swap
    BY <2>4 DEF Swap
  <2>5. QED
    BY <1>5, <2>1, <2>2, <2>3, <2>4 DEF Loop, Begin, Decide, DrawReadsFs, FsReads,
                                        DrawWaitsVBlank, BlitBegins, BlitEnds, DrawEnds, DrawDone,
                                        DrawMisreads, ServiceIdle, JobBegins, JobEnds
<1>6. CASE UNCHANGED vars
  BY <1>6 DEF vars
<1>7. QED
  BY <1>1, <1>2, <1>3, <1>4, <1>5, <1>6 DEF Next

\* A command is sent by the thunk and taken off by the SH2's answer.
LEMMA AskedStep ==
  ASSUME TypeInv, Turns, Owned, Asked, [Next]_vars
  PROVE  Asked'
<1> USE ConstantsAssumption DEF Asked, Turns, Owned, TypeInv, TypeOK, Drawing, Jobs, NoJob, Md,
                                Sh2, hardware, shared, game, thunk, loop, sh2
<1>1. CASE VBlankStart \/ VBlankEnd
  BY <1>1 DEF VBlankStart, VBlankEnd
<1>2. CASE Handler
  BY <1>2 DEF Handler, VBlankHold, Enter, VBlankSwitchOn, VBlankAnnounce, VBlankOn, Follow,
              VBlankLinger, VBlankSwitchOff, VBlankRetire, VBlankNothing
<1>3. CASE OpenMap \/ LeaveMap \/ WritePalette \/ WriteReg12 \/ StartLz
  <2>1. CASE StartLz
    BY <2>1 DEF StartLz, Playing
  <2>2. QED
    BY <1>3, <2>1 DEF OpenMap, Playing, LeaveMap, WritePalette, WriteReg12
<1>4. CASE Thunk
  BY <1>4 DEF Thunk, GrantFm, SendJob, TakeFm, CopyBegins, Copy, CopyEnds, TestRelease, GiveFm,
              DropBusy, GiveUp
<1>5. CASE Loop \/ DrawMisreads
  <2>1. CASE JobBegins
    BY <2>1 DEF JobBegins
  <2>2. CASE JobEnds
    BY <2>2 DEF JobEnds
  <2>3. QED
    BY <1>5, <2>1, <2>2, ZenonT(60)
       DEF Loop, ReadStateA, ReadStateB, ReadFm, Begin, Decide, DrawReadsFs, FsReads,
           DrawWaitsVBlank, BlitBegins, BlitEnds, Swap, DrawEnds, DrawDone, DrawMisreads,
           ServiceIdle
<1>6. CASE UNCHANGED vars
  BY <1>6 DEF vars
<1>7. QED
  BY <1>1, <1>2, <1>3, <1>4, <1>5, <1>6 DEF Next

\* From the answer to the end of the copy the SH2 neither draws nor decompresses.
LEMMA GuardedStep ==
  ASSUME TypeInv, VisitInv, Turns, Owned, Waits, Asked, Intact, ~slipped', MaxSlack < AgeLimit,
         MaxVisits < GenModulus, [Next]_vars
  PROVE  Guarded'
<1> USE ConstantsAssumption DEF TypeInv, TypeOK, MapState, Drawing, MapBuffers, Md, Sh2, NoJob,
                                Jobs, AgeLimit, NotDrawn, Gens, VisitInv, Numbered, ReadInOrder,
                                EchoIsDone, Seen, Taken, Turns, Owned, Waits, Asked, Intact,
                                Guarded, LowUnseen, Swaps, hardware, shared, game, thunk, loop,
                                sh2
<1>1. CASE VBlankStart \/ VBlankEnd
  <2>1. CASE VBlankStart
    BY <2>1 DEF VBlankStart
  <2>2. QED
    BY <1>1, <2>1 DEF VBlankEnd
<1>2. CASE Handler
  <2>1. CASE VBlankHold
    BY <2>1 DEF VBlankHold, Enter
  <2>2. CASE VBlankAnnounce
    BY <2>2 DEF VBlankAnnounce
  <2>3. CASE VBlankRetire
    BY <2>3 DEF VBlankRetire
  <2>4. QED
    BY <1>2, <2>1, <2>2, <2>3 DEF Handler, VBlankSwitchOn, Enter, VBlankOn, Follow, VBlankLinger,
                                  VBlankSwitchOff, VBlankNothing
<1>3. CASE OpenMap \/ LeaveMap \/ WritePalette \/ WriteReg12 \/ StartLz
  BY <1>3 DEF OpenMap, Playing, LeaveMap, WritePalette, WriteReg12, StartLz
<1>4. CASE Thunk
  <2>1. CASE SendJob
    BY <2>1 DEF SendJob
  <2>2. CASE TakeFm
    BY <2>2 DEF TakeFm
  <2>3. QED
    BY <1>4, <2>1, <2>2, ZenonT(60)
       DEF Thunk, GrantFm, CopyBegins, Copy, CopyEnds, TestRelease, GiveFm, DropBusy, GiveUp
<1>5. CASE Loop \/ DrawMisreads
  <2>1. CASE ReadStateA
    BY <2>1 DEF ReadStateA
  <2>2. CASE ReadStateB
    BY <2>2 DEF ReadStateB
  <2>3. CASE ReadFm
    BY <2>3 DEF ReadFm
  <2>4. CASE Begin
    BY <2>4 DEF Begin
  <2>5. CASE Decide
    BY <2>5 DEF Decide
  <2>6. CASE JobEnds
    BY <2>6 DEF JobEnds
  <2>7. QED
    BY <1>5, <2>1, <2>2, <2>3, <2>4, <2>5, <2>6, ZenonT(60)
       DEF Loop, DrawReadsFs, FsReads, DrawWaitsVBlank, BlitBegins, BlitEnds, Swap, DrawEnds,
           DrawDone, DrawMisreads, ServiceIdle, JobBegins
<1>6. CASE UNCHANGED vars
  BY <1>6 DEF vars
<1>7. QED
  BY <1>1, <1>2, <1>3, <1>4, <1>5, <1>6 DEF Next

\* An SH2 that has read FM as its own before the copy does not take the copy for over.
LEMMA LowUnseenStep ==
  ASSUME TypeInv, VisitInv, Turns, Owned, Waits, Asked, Intact, ~slipped', MaxSlack < AgeLimit,
         MaxVisits < GenModulus, [Next]_vars
  PROVE  LowUnseen'
<1> USE ConstantsAssumption DEF TypeInv, TypeOK, MapState, Drawing, MapBuffers, Md, Sh2, NoJob,
                                Jobs, AgeLimit, NotDrawn, Gens, Taken, Seen, Turns, Owned, Waits,
                                Asked, Intact, Guarded, LowUnseen, Settled, LongStep, UpToDate,
                                Stuck, hardware, shared, game, thunk, loop, sh2
<1>1. CASE VBlankStart \/ VBlankEnd
  <2>1. CASE VBlankStart
    BY <2>1 DEF VBlankStart
  <2>2. QED
    BY <1>1, <2>1 DEF VBlankEnd
<1>2. CASE Handler
  BY <1>2 DEF Handler, VBlankHold, Enter, VBlankSwitchOn, VBlankAnnounce, VBlankOn, Follow,
              VBlankLinger, VBlankSwitchOff, VBlankRetire, VBlankNothing
<1>3. CASE OpenMap \/ LeaveMap \/ WritePalette \/ WriteReg12 \/ StartLz
  BY <1>3 DEF OpenMap, Playing, LeaveMap, WritePalette, WriteReg12, StartLz
<1>4. CASE Thunk
  <2>1. CASE TakeFm
    BY <2>1 DEF TakeFm
  <2>2. CASE GiveUp
    BY <2>2 DEF GiveUp
  <2>3. QED
    BY <1>4, <2>1, <2>2, ZenonT(60)
       DEF Thunk, GrantFm, SendJob, CopyBegins, Copy, CopyEnds, TestRelease, GiveFm, DropBusy
<1>5. CASE Loop \/ DrawMisreads
  BY <1>5, ZenonT(60)
     DEF Loop, ReadStateA, ReadStateB, ReadFm, Begin, Decide, DrawReadsFs, FsReads,
         DrawWaitsVBlank, BlitBegins, BlitEnds, Swap, DrawEnds, DrawDone, DrawMisreads,
         ServiceIdle, JobBegins, JobEnds
<1>6. CASE UNCHANGED vars
  BY <1>6 DEF vars
<1>7. QED
  BY <1>1, <1>2, <1>3, <1>4, <1>5, <1>6 DEF Next

\* A swap that is latched lands before FM is taken away.
LEMMA SwapsStep ==
  ASSUME TypeInv, VisitInv, Turns, Owned, Waits, Asked, Intact, ~slipped', MaxSlack < AgeLimit,
         MaxVisits < GenModulus, [Next]_vars
  PROVE  Swaps'
<1> USE ConstantsAssumption DEF TypeInv, TypeOK, MapState, Drawing, MapBuffers, Md, Sh2, NoJob,
                                Jobs, AgeLimit, NotDrawn, Gens, Taken, Turns, Owned, Waits,
                                Intact, Guarded, Swaps, Stuck, hardware, shared, game, thunk,
                                loop, sh2
<1>1. CASE VBlankStart \/ VBlankEnd
  BY <1>1 DEF VBlankStart, VBlankEnd
<1>2. CASE Handler
  BY <1>2 DEF Handler, VBlankHold, Enter, VBlankSwitchOn, VBlankAnnounce, VBlankOn, Follow,
              VBlankLinger, VBlankSwitchOff, VBlankRetire, VBlankNothing
<1>3. CASE OpenMap \/ LeaveMap \/ WritePalette \/ WriteReg12 \/ StartLz
  BY <1>3 DEF OpenMap, Playing, LeaveMap, WritePalette, WriteReg12, StartLz
<1>4. CASE Thunk
  <2>1. CASE TakeFm
    BY <2>1 DEF TakeFm
  <2>2. CASE GiveUp
    BY <2>2 DEF GiveUp
  <2>3. QED
    BY <1>4, <2>1, <2>2 DEF Thunk, GrantFm, SendJob, CopyBegins, Copy, CopyEnds, TestRelease,
                            GiveFm, DropBusy
<1>5. CASE Loop \/ DrawMisreads
  <2>1. CASE Swap
    BY <2>1 DEF Swap
  <2>2. CASE DrawEnds
    BY <2>2 DEF DrawEnds, DrawDone
  <2>3. CASE DrawMisreads
    BY <2>3 DEF DrawMisreads, DrawDone
  <2>4. QED
    BY <1>5, <2>1, <2>2, <2>3 DEF Loop, ReadStateA, ReadStateB, ReadFm, Begin, Decide,
                                  DrawReadsFs, FsReads, DrawWaitsVBlank, BlitBegins, BlitEnds,
                                  ServiceIdle, JobBegins, JobEnds
<1>6. CASE UNCHANGED vars
  BY <1>6 DEF vars
<1>7. QED
  BY <1>1, <1>2, <1>3, <1>4, <1>5, <1>6 DEF Next

\* A draw of the map that is on has FM to its end, and goes to the buffer not shown.
LEMMA DrawsWholeStep ==
  ASSUME TypeInv, VisitInv, Turns, Owned, Waits, Asked, Intact, ~slipped', MaxSlack < AgeLimit,
         MaxVisits < GenModulus, [Next]_vars
  PROVE  DrawsWhole'
<1> USE ConstantsAssumption DEF TypeInv, TypeOK, MapState, Drawing, MapBuffers, Md, Sh2, NoJob,
                                Jobs, AgeLimit, NotDrawn, Gens, VisitInv, Numbered, ReadInOrder,
                                EchoIsDone, Taken, Current, Turns, Owned, Sh2WantsFm, Intact,
                                Guarded, LowUnseen, Swaps, DrawsWhole, Stuck, hardware, shared,
                                game, thunk, loop, sh2
<1>1. CASE VBlankStart \/ VBlankEnd
  BY <1>1, ZenonT(60) DEF VBlankStart, VBlankEnd
<1>2. CASE Handler
  <2>1. CASE VBlankAnnounce
    BY <2>1 DEF VBlankAnnounce
  <2>2. CASE VBlankOn
    BY <2>2 DEF VBlankOn, Enter, Follow
  <2>3. CASE VBlankLinger
    BY <2>3 DEF VBlankLinger, Enter, Follow
  <2>4. CASE VBlankSwitchOff
    BY <2>4 DEF VBlankSwitchOff, Enter
  <2>5. QED
    BY <1>2, <2>1, <2>2, <2>3, <2>4 DEF Handler, VBlankHold, Enter, VBlankSwitchOn, VBlankRetire,
                                        VBlankNothing
<1>3. CASE OpenMap \/ LeaveMap \/ WritePalette \/ WriteReg12 \/ StartLz
  BY <1>3, ZenonT(60) DEF OpenMap, Playing, LeaveMap, WritePalette, WriteReg12, StartLz
<1>4. CASE Thunk
  <2>1. CASE TakeFm
    BY <2>1 DEF TakeFm
  <2>2. CASE GiveUp
    BY <2>2 DEF GiveUp
  <2>3. QED
    BY <1>4, <2>1, <2>2, ZenonT(60)
       DEF Thunk, GrantFm, SendJob, CopyBegins, Copy, CopyEnds, TestRelease, GiveFm, DropBusy
<1>5. CASE Loop \/ DrawMisreads
  <2>1. CASE ReadFm
    BY <2>1 DEF ReadFm
  <2>2. CASE Begin
    BY <2>2 DEF Begin
  <2>3. CASE Decide
    BY <2>3 DEF Decide
  <2>4. CASE DrawReadsFs
    BY <2>4 DEF DrawReadsFs, FsReads
  <2>5. CASE BlitBegins
    BY <2>5 DEF BlitBegins
  <2>6. CASE BlitEnds
    BY <2>6 DEF BlitEnds
  <2>7. CASE Swap
    BY <2>7 DEF Swap
  <2>8. CASE DrawEnds
    BY <2>8 DEF DrawEnds, DrawDone
  <2>9. CASE DrawMisreads
    BY <2>9 DEF DrawMisreads, DrawDone
  <2>10. QED
    BY <1>5, <2>1, <2>2, <2>3, <2>4, <2>5, <2>6, <2>7, <2>8, <2>9, ZenonT(60)
       DEF Loop, ReadStateA, ReadStateB, DrawWaitsVBlank, ServiceIdle, JobBegins, JobEnds
<1>6. CASE UNCHANGED vars
  BY <1>6 DEF vars
<1>7. QED
  BY <1>1, <1>2, <1>3, <1>4, <1>5, <1>6 DEF Next

\* The layer comes up when both buffers are drawn.
LEMMA ShownWholeStep ==
  ASSUME TypeInv, VisitInv, Turns, Owned, Waits, Asked, Intact, ~slipped', MaxSlack < AgeLimit,
         MaxVisits < GenModulus, [Next]_vars
  PROVE  ShownWhole'
<1> USE ConstantsAssumption DEF TypeInv, TypeOK, MapState, Drawing, MapBuffers, Md, Sh2, NoJob,
                                Jobs, AgeLimit, NotDrawn, Gens, VisitInv, Numbered, ReadInOrder,
                                EchoIsDone, ShownOnEcho, Sh2WantsFm, Intact, DrawsWhole,
                                ShownWhole, Current, hardware, shared, game, thunk, loop, sh2
<1>1. CASE VBlankStart \/ VBlankEnd
  BY <1>1 DEF VBlankStart, VBlankEnd
<1>2. CASE Handler
  <2>1. CASE VBlankOn
    BY <2>1 DEF VBlankOn, Enter, Follow
  <2>2. CASE VBlankLinger
    BY <2>2 DEF VBlankLinger, Enter, Follow
  <2>3. QED
    BY <1>2, <2>1, <2>2 DEF Handler, VBlankHold, Enter, VBlankSwitchOn, VBlankAnnounce,
                            VBlankSwitchOff, VBlankRetire, VBlankNothing
<1>3. CASE OpenMap \/ LeaveMap \/ WritePalette \/ WriteReg12 \/ StartLz
  BY <1>3 DEF OpenMap, Playing, LeaveMap, WritePalette, WriteReg12, StartLz
<1>4. CASE Thunk
  BY <1>4 DEF Thunk, GrantFm, SendJob, TakeFm, CopyBegins, Copy, CopyEnds, TestRelease, GiveFm,
              DropBusy, GiveUp
<1>5. CASE Loop \/ DrawMisreads
  BY <1>5 DEF Loop, ReadStateA, ReadStateB, ReadFm, Begin, Decide, DrawReadsFs, FsReads,
              DrawWaitsVBlank, BlitBegins, BlitEnds, Swap, DrawEnds, DrawDone, DrawMisreads,
              ServiceIdle, JobBegins, JobEnds
<1>6. CASE UNCHANGED vars
  BY <1>6 DEF vars
<1>7. QED
  BY <1>1, <1>2, <1>3, <1>4, <1>5, <1>6 DEF Next

\* Each half of the copy reads the block.
LEMMA CopyOkStep ==
  ASSUME TypeInv, VisitInv, Turns, Owned, Waits, Asked, Intact, ~slipped', MaxSlack < AgeLimit,
         MaxVisits < GenModulus, [Next]_vars
  PROVE  copyOk'
<1> USE DEF TypeInv, TypeOK, MapState, Drawing, MapBuffers, Md, Sh2, NoJob, Jobs, AgeLimit,
            NotDrawn, Gens, Intact, Guarded, Taken, Owned, ReadsJob, hardware, shared, game,
            thunk, loop, sh2
<1>1. CASE VBlankStart \/ VBlankEnd
  BY <1>1 DEF VBlankStart, VBlankEnd
<1>2. CASE Handler
  BY <1>2 DEF Handler, VBlankHold, Enter, VBlankSwitchOn, VBlankAnnounce, VBlankOn, Follow,
              VBlankLinger, VBlankSwitchOff, VBlankRetire, VBlankNothing
<1>3. CASE OpenMap \/ LeaveMap \/ WritePalette \/ WriteReg12 \/ StartLz
  BY <1>3 DEF OpenMap, Playing, LeaveMap, WritePalette, WriteReg12, StartLz
<1>4. CASE Thunk
  BY <1>4 DEF Thunk, GrantFm, SendJob, TakeFm, CopyBegins, Copy, CopyEnds, TestRelease, GiveFm,
              DropBusy, GiveUp
<1>5. CASE Loop \/ DrawMisreads
  BY <1>5 DEF Loop, ReadStateA, ReadStateB, ReadFm, Begin, Decide, DrawReadsFs, FsReads,
              DrawWaitsVBlank, BlitBegins, BlitEnds, Swap, DrawEnds, DrawDone, DrawMisreads,
              ServiceIdle, JobBegins, JobEnds
<1>6. CASE UNCHANGED vars
  BY <1>6 DEF vars
<1>7. QED
  BY <1>1, <1>2, <1>3, <1>4, <1>5, <1>6 DEF Next
---------------------------------------------------------------------------
\* At the start nothing is shown, asked for or drawn.
LEMMA ProtocolInit == Init => Protocol /\ Intact
<1> SUFFICES ASSUME Init PROVE Protocol /\ Intact
  OBVIOUS
<1> USE ConstantsAssumption DEF ConstantsAssumption, Init, MapOff, NoJob, Md, Sh2
<1>1. Turns /\ Owned /\ Waits /\ Shown
  BY DEF Turns, Owned, Sh2WantsFm, Waits, Shown
<1>2. Asked /\ Guarded /\ LowUnseen
  BY DEF Asked, Guarded, Taken, LowUnseen
<1>3. Swaps /\ DrawsWhole /\ ShownWhole /\ copyOk
  BY DEF Swaps, DrawsWhole, Current, ShownWhole
<1>4. QED
  BY <1>1, <1>2, <1>3 DEF Protocol, Intact

\* Every step keeps what holds whatever has happened before.
LEMMA ProtocolNext ==
  MaxVisits < GenModulus /\ TypeInv /\ VisitInv /\ Protocol /\ [Next]_vars => Protocol'
BY TurnsStep, OwnedStep, WaitsStep, ShownStep, AskedStep DEF Protocol

\* Once an answer has gone astray that stays so.
LEMMA SlippedStays == slipped /\ TypeInv /\ [Next]_vars => slipped'
<1> SUFFICES ASSUME slipped, TypeInv, [Next]_vars PROVE slipped'
  OBVIOUS
<1> USE DEF hardware, shared, game, thunk, loop, sh2
<1>1. CASE VBlankStart \/ VBlankEnd
  BY <1>1 DEF VBlankStart, VBlankEnd
<1>2. CASE Handler
  BY <1>2 DEF Handler, VBlankHold, Enter, VBlankSwitchOn, VBlankAnnounce, VBlankOn, Follow,
              VBlankLinger, VBlankSwitchOff, VBlankRetire, VBlankNothing
<1>3. CASE OpenMap \/ LeaveMap \/ WritePalette \/ WriteReg12 \/ StartLz
  BY <1>3 DEF OpenMap, Playing, LeaveMap, WritePalette, WriteReg12, StartLz
<1>4. CASE Thunk
  BY <1>4 DEF Thunk, GrantFm, SendJob, TakeFm, CopyBegins, Copy, CopyEnds, TestRelease, GiveFm,
              DropBusy, GiveUp
<1>5. CASE Loop \/ DrawMisreads
  BY <1>5 DEF Loop, ReadStateA, ReadStateB, ReadFm, Begin, Decide, DrawReadsFs, FsReads,
              DrawWaitsVBlank, BlitBegins, BlitEnds, Swap, DrawEnds, DrawDone, DrawMisreads,
              ServiceIdle, JobBegins, JobEnds
<1>6. CASE UNCHANGED vars
  BY <1>6 DEF vars
<1>7. QED
  BY <1>1, <1>2, <1>3, <1>4, <1>5, <1>6 DEF Next

\* Every step keeps the rest, or makes an answer go astray.
LEMMA IntactNext ==
  ASSUME MaxVisits < GenModulus, MaxSlack < AgeLimit, TypeInv, VisitInv, Protocol,
         slipped \/ Intact, [Next]_vars
  PROVE  slipped' \/ Intact'
<1>1. CASE slipped
  BY <1>1, SlippedStays
<1>2. CASE Intact /\ ~slipped'
  BY <1>2, GuardedStep, LowUnseenStep, SwapsStep, DrawsWholeStep, ShownWholeStep, CopyOkStep
     DEF Protocol, Intact, VisitInv
<1>3. QED
  BY <1>1, <1>2

\* The inductive invariant. The generation field must not wrap; and the thunk must
\* take FM back before the third V-Blank after the answer, the time the SH2 allows
\* it (rpc.c, lz_answered_at + 1).
THEOREM IntactHolds ==
  ASSUME MaxVisits < GenModulus, MaxSlack < AgeLimit
  PROVE  Safe => [](slipped \/ Intact)
<1>1. TypeInv /\ VisitInv /\ Protocol /\ (slipped \/ Intact) /\ [Next]_vars => (slipped \/ Intact)'
  BY IntactNext
<1>2. QED
  BY TypeInit, TypeNext, VisitInit, VisitNext, ProtocolInit, ProtocolNext, <1>1, PTL DEF Safe

\* So the bytes a decompression returns are those of the block asked for, however
\* many jobs there are and however the handler, the map's draws and a block given up
\* fall between them (sh2_lz.asm .copy, map_screen.asm BUSY, rpc.c lz_copy_pending).
THEOREM CopiesIntact ==
  ASSUME MaxVisits < GenModulus, MaxSlack < AgeLimit
  PROVE  Safe => []CopyIntact
<1>1. slipped \/ Intact => CopyIntact
  BY DEF Intact, CopyIntact
<1>2. QED
  BY IntactHolds, <1>1, PTL

\* The layer is never shown with a buffer that does not hold the whole map, nor on
\* the strength of an earlier visit's drawing (map_screen.asm .want_off, fb.c
\* sh2_map_game_draw).
THEOREM WholeMapShown ==
  ASSUME MaxVisits < GenModulus, MaxSlack < AgeLimit
  PROVE  Safe => []ShownIsDrawn
<1>1. (slipped \/ Intact) /\ DrawnThisVisit => ShownIsDrawn
  BY DEF Intact, ShownWhole, ShownIsDrawn
<1>2. QED
  BY IntactHolds, ShownForThisVisit, <1>1, PTL

\* A draw of the map that is on has FM from its first read to its swap: none is
\* begun on an FM bit that is out of date, none is cut off by the thunk (rpc.c,
\* "Draw only while FM is actually granted").
THEOREM DrawsKeepFm ==
  ASSUME MaxVisits < GenModulus, MaxSlack < AgeLimit
  PROVE  Safe => []DrawKeepsFm
<1>1. TypeInv /\ (slipped \/ Intact) => DrawKeepsFm
  BY DEF TypeInv, Intact, DrawsWhole, Current, DrawKeepsFm
<1>2. QED
  BY TypeInit, TypeNext, IntactHolds, <1>1, PTL DEF Safe

\* The picture on screen is not swapped once the layer is shown, answers astray or
\* not: no draw is left, and no swap of an earlier one lands late (rpc.c map_draws,
\* MAP_BUFFERS).
THEOREM PictureStandsStill ==
  ASSUME MaxVisits < GenModulus PROVE Safe => ShownIsStill
<1>1. ASSUME TypeInv, Shown, [Next]_vars
      PROVE [mode = "packed" /\ mode' = "packed" => fs' = fs]_vars
  <2> SUFFICES ASSUME mode = "packed", Next PROVE fs' = fs
    BY <1>1
  <2>1. fs = fsw /\ ~Drawing
    BY <1>1 DEF Shown, TypeInv
  <2> USE <1>1 DEF Drawing, hardware, shared, game, thunk, loop, sh2
  <2>2. CASE VBlankStart \/ VBlankEnd
    BY <2>1, <2>2 DEF VBlankStart, VBlankEnd
  <2>3. CASE Handler
    BY <2>1, <2>3 DEF Handler, VBlankHold, Enter, VBlankSwitchOn, VBlankAnnounce, VBlankOn,
                      Follow, VBlankLinger, VBlankSwitchOff, VBlankRetire, VBlankNothing
  <2>4. CASE OpenMap \/ LeaveMap \/ WritePalette \/ WriteReg12 \/ StartLz
    BY <2>1, <2>4 DEF OpenMap, Playing, LeaveMap, WritePalette, WriteReg12, StartLz
  <2>5. CASE Thunk
    BY <2>1, <2>5 DEF Thunk, GrantFm, SendJob, TakeFm, CopyBegins, Copy, CopyEnds, TestRelease,
                      GiveFm, DropBusy, GiveUp
  <2>6. CASE Loop \/ DrawMisreads
    BY <2>1, <2>6 DEF Loop, ReadStateA, ReadStateB, ReadFm, Begin, Decide, DrawReadsFs, FsReads,
                      DrawWaitsVBlank, BlitBegins, BlitEnds, Swap, DrawEnds, DrawDone,
                      DrawMisreads, ServiceIdle, JobBegins, JobEnds
  <2>7. QED
    BY <2>2, <2>3, <2>4, <2>5, <2>6 DEF Next
<1>2. QED
  BY TypeInit, TypeNext, VisitInit, VisitNext, ProtocolInit, ProtocolNext, <1>1, PTL
     DEF Safe, Protocol, ShownIsStill
=============================================================================
