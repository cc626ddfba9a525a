------------------------------- MODULE MapOracle -------------------------------
(***************************************************************************)
(* tools/mapscreen_oracle.py: the stock picture rebuilt from savestates of *)
(* the 32X build, and the frames of that build compared with it.           *)
(* A picture has one pixel for each cell of the map block.                 *)
(***************************************************************************)
EXTENDS Integers, Sequences, FiniteSets, SequencesExt, FiniteSetsExt

CONSTANTS
  Cells,        \* the cells of the map block, 1..n
  Drawings,     \* what the game draws into a cell: [tile, colour, high], tile # 0
  PlaneA,       \* contents of plane A: functions from Cells to [tile, colour, high]
  SpriteTables, \* functions from 0..k to [cell, colour, high, link]
  LastFrame,    \* bound: frames 0..LastFrame
  Captures      \* [asked, shots]: the frames to be compared, each of which is saved
                \* with the next one, and the frames dumped

Tiles == [tile : Nat, colour : Nat, high : BOOLEAN]

\* A sprite lies on a cell and leads to one of its table; the frames to be compared
\* are among those dumped.
ASSUME OracleAssumption ==
  /\ Cells \subseteq Nat \ {0}
  /\ Drawings \subseteq Tiles
  /\ PlaneA \subseteq [Cells -> Tiles]
  /\ \A table \in SpriteTables :
       LET count == Cardinality(DOMAIN table)
       IN /\ count \in Nat \ {0}
          /\ table \in [0..count - 1 ->
                        [cell : Cells, colour : Nat, high : BOOLEAN, link : 0..count - 1]]
  /\ LastFrame \in Nat
  /\ \A capture \in Captures : capture.asked \subseteq capture.shots \cap 0..LastFrame

ScreenWorld == 7
OtherScreen == 0

VARIABLES
  moments,   \* what the game had in video memory at each frame so far
  asked, shots,
  todo,      \* frames whose state is still to be looked at
  compared,  \* frames compared, or found not comparable
  result     \* of the last frame

oracle == <<moments, asked, shots, todo, compared, result>>

\* Tile 0, which has no opaque pixel, in whatever line and priority it is put.
Blank  == [tile |-> 0, colour |-> 0, high |-> FALSE]
Map(c) == [tile |-> c, colour |-> c, high |-> FALSE]
Black == 0
Backdrop == 8

---------------------------------------------------------------------------
\* The stock game, and the display.  Of each pixel the display shows the topmost
\* opaque layer: the sprites, plane A, plane B, those of high priority first.
\* Of the sprites the first in the list that is opaque there counts, whatever
\* the priorities are.
Linked(table, list) ==
  LET link == table[Last(list)].link IN IF link = 0 THEN list ELSE Append(list, link)
ChainOf(table) ==
  LET count == Cardinality(DOMAIN table)
      chain[k \in 0..count] == IF k = 0 THEN <<0>> ELSE Linked(table, chain[k - 1])
  IN chain[count]
SpriteAt(table, c) ==
  LET list == ChainOf(table)
      there == {k \in DOMAIN list : table[list[k]].cell = c /\ table[list[k]].colour # 0}
  IN IF there = {} THEN Blank
     ELSE LET top == table[list[Min(there)]]
          IN [tile |-> 0, colour |-> top.colour, high |-> top.high]

Shine(m, colour) == IF m.dark THEN Black ELSE colour
Display(m, planeB) ==
  [c \in Cells |->
    LET layer == <<planeB[c], m.planeA[c], SpriteAt(m.sprites, c)>>
        Height(k) == k + (IF layer[k].high THEN 3 ELSE 0)
        opaque == {k \in 1..3 : layer[k].colour # 0}
    IN IF opaque = {} THEN Shine(m, Backdrop)
       ELSE Shine(m, layer[CHOOSE k \in opaque : \A j \in opaque : Height(j) <= Height(k)].colour)]
Stock(m) == Display(m, m.stock)

\* LoadScreenGfx with the map on the 32X layer: tile 0 where stock has the map, and
\* all else alike.
Ours(m) == [c \in Cells |-> IF m.stock[c] = Map(c) THEN Blank ELSE m.stock[c]]

\* LoadScreenGfx, when it is done: the screen id, then the block from the map's layout.
MapLoaded(m) == [m EXCEPT !.stock = [c \in Cells |-> Map(c)], !.screen = ScreenWorld]

\* The rectangle fill of command $1A over the block, with tile 0 too: ClearBothPlanes
\* does that, and RenderEndingCredits before it lights the screen.
Filled(m, e) == [m EXCEPT !.stock = [c \in Cells |-> e]]

\* What the game may have done by the next frame, lit or dark, whatever the screen id:
\* LoadScreenGfx stores it frames before the map is there.
Changes(m) ==
  {m, MapLoaded(m), [m EXCEPT !.dark = ~@]}
    \cup {[m EXCEPT !.screen = s] : s \in {ScreenWorld, OtherScreen}}
    \cup {Filled(m, e) : e \in Drawings \cup {Blank}}
    \cup {[m EXCEPT !.stock[c] = e] : c \in Cells, e \in Drawings \cup {Blank}}
    \cup {[m EXCEPT !.sprites = s] : s \in SpriteTables}

---------------------------------------------------------------------------
\* Mutation: the map is put back by the screen id alone.
RestoredById(m) ==
  {c \in Cells : Ours(m)[c].tile = 0 /\ m.screen = ScreenWorld}

\* Mutation: one blank cell is enough on another screen.
RestoredWhenAny(m) ==
  LET zero == {c \in Cells : Ours(m)[c].tile = 0}
  IN IF m.screen = ScreenWorld \/ zero # {} THEN zero ELSE {}

\* planes: the cells of plane B that get their map tile back.
Restored(m) ==
  LET zero == {c \in Cells : Ours(m)[c].tile = 0}
  IN IF m.screen = ScreenWorld \/ zero = Cells THEN zero ELSE {}
Planes(m) == [c \in Cells |-> IF c \in Restored(m) THEN Map(c) ELSE Ours(m)[c]]

\* sprites: a pixel once taken is kept, and the walk along the list ends at link 0.
Put(table, w) ==
  LET e == table[w.index]
      free == ~w.ended /\ w.buf[e.cell].colour = 0 /\ e.colour # 0
  IN [index |-> e.link,
      buf |-> IF free THEN [w.buf EXCEPT ![e.cell] =
                              [tile |-> 0, colour |-> e.colour, high |-> e.high]]
              ELSE w.buf,
      ended |-> w.ended \/ e.link = 0]
Sprites(table) ==
  LET count == Cardinality(DOMAIN table)
      walk[n \in 0..count] ==
        IF n = 0 THEN [index |-> 0, buf |-> [c \in Cells |-> Blank], ended |-> FALSE]
        ELSE Put(table, walk[n - 1])
  IN walk[count].buf

\* expected: six layers, the first opaque one is seen.
Expected(m) ==
  LET spr == Sprites(m.sprites)
      b == Planes(m)
      Layer(e, high) == [opaque |-> e.colour # 0 /\ e.high = high, colour |-> e.colour]
      Six(c) == <<Layer(spr[c], TRUE), Layer(m.planeA[c], TRUE), Layer(b[c], TRUE),
                  Layer(spr[c], FALSE), Layer(m.planeA[c], FALSE), Layer(b[c], FALSE),
                  [opaque |-> TRUE, colour |-> Backdrop]>>
  IN [c \in Cells |-> Shine(m, Six(c)[SelectInSeq(Six(c), LAMBDA l : l.opaque)].colour)]

---------------------------------------------------------------------------
Frame(f) == moments[f + 1]
\* The states there are: a script that ends before a frame saves none of it.
have == (asked \cup {f + 1 : f \in asked}) \cap 0..LastFrame

\* One frame of the run.
Tick ==
  /\ Len(moments) <= LastFrame
  /\ \E m \in Changes(Last(moments)) : moments' = Append(moments, m)
  /\ UNCHANGED <<asked, shots, todo, compared, result>>

RunIsOver == Len(moments) = LastFrame + 1

\* A state saved only for the frame before it.
Companion(f) == f - 1 \in have /\ f - 2 \notin have

\* PicoDrive stretches the picture of a narrow mode to the width of a wide one.
Comparable(h40, width) == h40 \/ width # 320

Skip ==
  /\ RunIsOver /\ todo # {}
  /\ LET f == Min(todo)
     IN /\ f \notin shots \/ Companion(f)
        /\ todo' = todo \ {f}
  /\ UNCHANGED <<moments, asked, shots, compared, result>>

\* The frame whose state the picture is held against: the next one when it fits
\* and this one does not.
Basis(f, shown) ==
  IF shown # Expected(Frame(f)) /\ f + 1 \in have /\ shown = Expected(Frame(f + 1))
  THEN f + 1 ELSE f
Exact(f, shown) == shown = Expected(Frame(Basis(f, shown)))

NotComparable == <<>>

\* What the build under test may have shown: the picture of this frame or of one
\* beside it, or one with a wrong pixel.
Showable(f) ==
  {Stock(Frame(g)) : g \in {f - 1, f, f + 1} \cap 0..LastFrame}
    \cup {[Stock(Frame(f)) EXCEPT ![1] = -1]}

Compare ==
  /\ RunIsOver /\ todo # {}
  /\ LET f == Min(todo)
     IN /\ f \in shots /\ ~Companion(f)
        /\ \E shown \in Showable(f), h40 \in BOOLEAN, width \in {256, 320} :
             /\ h40 => width = 320
             /\ result' = IF Comparable(h40, width)
                          THEN [frame |-> f, shown |-> shown, exact |-> Exact(f, shown),
                                restored |-> Cardinality(Restored(Frame(Basis(f, shown))))]
                          ELSE NotComparable
        /\ todo' = todo \ {f}
        /\ compared' = compared \cup {f}
  /\ UNCHANGED <<moments, asked, shots>>

OracleInit ==
  /\ \E stock \in [Cells -> {Map(c) : c \in Cells} \cup Drawings \cup {Blank}],
        a \in PlaneA, sprites \in SpriteTables, screen \in {ScreenWorld, OtherScreen},
        dark \in BOOLEAN :
       LET m == [stock |-> stock, planeA |-> a, sprites |-> sprites, screen |-> screen, dark |-> dark]
       IN (\A c, d \in Cells : stock[c] = Map(d) => c = d) /\ moments = <<m>>
  /\ \E capture \in Captures : asked = capture.asked /\ shots = capture.shots
  /\ todo = have /\ compared = {} /\ result = NotComparable

OracleNext == Tick \/ Skip \/ Compare

OracleSpec == OracleInit /\ [][OracleNext]_oracle

---------------------------------------------------------------------------
\* The state of the 32X build tells which cells are the map's in stock: the picture
\* is dark; or the id is the map's and stock has tile 0 nowhere in the block; or the
\* id is another, and the block is the map whole, or holds none of the map and not
\* tile 0 alone.
Told(m) ==
  \/ m.dark
  \/ m.screen = ScreenWorld /\ \A c \in Cells : m.stock[c].tile # 0
  \/ m.screen # ScreenWorld /\ \A c \in Cells : m.stock[c] = Map(c)
  \/ /\ m.screen # ScreenWorld /\ \A c \in Cells : m.stock[c] # Map(c)
     /\ \E c \in Cells : m.stock[c].tile # 0

\* As far as the states tell, a frame passes when and only when it shows what the
\* stock game would have in that frame or the next, with all that is drawn over the
\* map, on screens partly blank and through every fade; never for a picture of the
\* past.  The map's cells are counted right (planes, expected, compare).
VerdictRight ==
  result # NotComparable =>
    LET f == result.frame
        now == result.shown = Stock(Frame(f))
        early == f + 1 \in have /\ result.shown = Stock(Frame(f + 1))
        shows == IF early /\ ~now THEN Frame(f + 1) ELSE Frame(f)
    IN Told(Frame(f)) /\ (f + 1 \in have => Told(Frame(f + 1))) =>
         /\ result.exact <=> now \/ early
         /\ ~shows.dark =>
              result.restored = Cardinality({c \in Cells : shows.stock[c] = Map(c)})

\* Every frame asked for is compared, in dense captures too, unless its state is the
\* second of a stretch of states; and one that was not asked for is compared only
\* where its state is the third or a later one (compare's test for companions).
SamplesCompared ==
  RunIsOver /\ todo = {} =>
    /\ \A f \in asked : f \in compared <=> ~(f - 1 \in asked /\ f - 2 \notin have)
    /\ \A f \in compared \ asked : f - 1 \in asked /\ f - 2 \in have

\* The oracle passes a frame for showing what stock would, where the states tell, and
\* looks at every one but those.
OracleRight == VerdictRight /\ SamplesCompared
=============================================================================
