----------------------------- MODULE CaptureProofs -----------------------------
(***************************************************************************)
(* Of the oracle: that it passes what the stock game would show and        *)
(* nothing else, of moments whose state tells which cells are the map's,   *)
(* whatever else is drawn on the planes, whatever the sprites are and      *)
(* however they are linked, and that it looks at every frame it was asked  *)
(* for but the second in a stretch of states.  Of the harness: that the    *)
(* scripts it makes play the game they are made from and save their states *)
(* where they were asked to.                                               *)
(***************************************************************************)
EXTENDS MapOracle, CaptureScript, BinaryProofs, SequenceTheorems, FiniteSetTheorems

\* The moments of a game: any drawing in any cell, any table of sprites.
Moments ==
  [stock : [Cells -> Tiles], planeA : [Cells -> Tiles], sprites : SpriteTables,
   screen : {ScreenWorld, OtherScreen}, dark : BOOLEAN]

---------------------------------------------------------------------------
(* planes: the map's cells, and no others, get their tile back.            *)

\* The cells that show the map.
MapCells(m) == {c \in Cells : m.stock[c] = Map(c)}

\* What the 32X build has in a cell.
LEMMA OursInCell ==
  ASSUME NEW m \in Moments, NEW c \in Cells
  PROVE  /\ Ours(m)[c] = IF m.stock[c] = Map(c) THEN Blank ELSE m.stock[c]
         /\ Ours(m)[c].tile = 0 <=> m.stock[c] = Map(c) \/ m.stock[c].tile = 0
<1>1. Ours(m)[c] = IF m.stock[c] = Map(c) THEN Blank ELSE m.stock[c]
  BY DEF Ours
<1>2. QED
  BY <1>1 DEF Blank

\* In the light, where the state tells, the cells restored are those of the map.
LEMMA RestoresTheMap ==
  ASSUME NEW m \in Moments, Told(m), ~m.dark
  PROVE  Restored(m) = MapCells(m)
<1> DEFINE zero == {c \in Cells : Ours(m)[c].tile = 0}
<1>1. \A c \in Cells : c \in zero <=> m.stock[c] = Map(c) \/ m.stock[c].tile = 0
  BY OursInCell
<1>2. Restored(m) = IF m.screen = ScreenWorld \/ zero = Cells THEN zero ELSE {}
  BY DEF Restored
<1>3. zero \subseteq Cells
  OBVIOUS
<1> HIDE DEF zero
<1>4. CASE m.screen = ScreenWorld /\ \A c \in Cells : m.stock[c].tile # 0
  <2>1. zero = MapCells(m)
    BY <1>1, <1>3, <1>4 DEF MapCells
  <2>2. QED
    BY <1>2, <1>4, <2>1
<1>5. CASE m.screen # ScreenWorld /\ \A c \in Cells : m.stock[c] = Map(c)
  <2>1. zero = Cells /\ MapCells(m) = Cells
    BY <1>1, <1>3, <1>5 DEF MapCells
  <2>2. QED
    BY <1>2, <2>1
<1>6. CASE /\ m.screen # ScreenWorld /\ \A c \in Cells : m.stock[c] # Map(c)
           /\ \E c \in Cells : m.stock[c].tile # 0
  <2>1. zero # Cells
    BY <1>1, <1>6
  <2>2. MapCells(m) = {}
    BY <1>6 DEF MapCells
  <2>3. QED
    BY <1>2, <1>6, <2>1, <2>2
<1>7. QED
  BY <1>4, <1>5, <1>6 DEF Told

\* In the light, where the state tells, plane B is as stock has it.
LEMMA PlanesAsStock ==
  ASSUME NEW m \in Moments, Told(m), ~m.dark, NEW c \in Cells
  PROVE  Planes(m)[c] = m.stock[c]
<1>1. Planes(m)[c] = IF c \in Restored(m) THEN Map(c) ELSE Ours(m)[c]
  BY DEF Planes
<1>2. c \in Restored(m) <=> m.stock[c] = Map(c)
  BY RestoresTheMap DEF MapCells
<1>3. QED
  BY <1>1, <1>2, OursInCell

---------------------------------------------------------------------------
(* expected: the six layers against the display.                           *)

\* The layer of three that the display shows: of the opaque ones the highest.
Height(layer, k) == k + (IF layer[k].high THEN 3 ELSE 0)
Opaque(layer) == {k \in 1..3 : layer[k].colour # 0}
Topmost(layer) == CHOOSE k \in Opaque(layer) : \A j \in Opaque(layer) : Height(layer, j) <= Height(layer, k)

\* Nothing is higher than a layer over which no other is opaque.
LEMMA TopmostIs ==
  ASSUME NEW layer \in [1..3 -> Tiles], NEW k \in Opaque(layer),
         \A j \in Opaque(layer) \ {k} : Height(layer, j) < Height(layer, k)
  PROVE  Topmost(layer) = k
<1>1. \A j \in 1..3 : Height(layer, j) \in Nat
  BY DEF Height
<1>2. k \in 1..3 /\ Opaque(layer) \subseteq 1..3
  BY DEF Opaque
<1>3. \A j \in Opaque(layer) : Height(layer, j) <= Height(layer, k)
  BY <1>1, <1>2
<1>4. \A i \in Opaque(layer) : (\A j \in Opaque(layer) : Height(layer, j) <= Height(layer, i)) => i = k
  BY <1>1, <1>2
<1>5. QED
  BY <1>3, <1>4 DEF Topmost

\* The layers of the oracle, in the order it asks them.
High(e) == [opaque |-> e.colour # 0 /\ e.high = TRUE, colour |-> e.colour]
Low(e) == [opaque |-> e.colour # 0 /\ e.high = FALSE, colour |-> e.colour]
Stack(layer) ==
  <<High(layer[3]), High(layer[2]), High(layer[1]),
    Low(layer[3]), Low(layer[2]), Low(layer[1]),
    [opaque |-> TRUE, colour |-> Backdrop]>>
Answers(layer) == {n \in 1..7 : Stack(layer)[n].opaque}

\* Which layer answers where, and with what.
LEMMA AnswersAre ==
  ASSUME NEW layer \in [1..3 -> Tiles]
  PROVE  /\ \A k \in 1..3 :
              /\ 4 - k \in Answers(layer) <=> k \in Opaque(layer) /\ layer[k].high
              /\ 7 - k \in Answers(layer) <=> k \in Opaque(layer) /\ ~layer[k].high
              /\ Stack(layer)[4 - k].colour = layer[k].colour
              /\ Stack(layer)[7 - k].colour = layer[k].colour
         /\ 7 \in Answers(layer) /\ Stack(layer)[7].colour = Backdrop
<1> DEFINE q == Stack(layer)
<1>1. \A n \in 1..7 : n \in Answers(layer) <=> q[n].opaque
  BY DEF Answers
<1>2. q[7] = [opaque |-> TRUE, colour |-> Backdrop]
  BY DEF Stack
<1>3. q[7].opaque /\ q[7].colour = Backdrop
  BY <1>2
<1>4. ASSUME NEW k \in 1..3
      PROVE  /\ 4 - k \in Answers(layer) <=> k \in Opaque(layer) /\ layer[k].high
             /\ 7 - k \in Answers(layer) <=> k \in Opaque(layer) /\ ~layer[k].high
             /\ q[4 - k].colour = layer[k].colour
             /\ q[7 - k].colour = layer[k].colour
  <2>1. q[4 - k] = High(layer[k]) /\ q[7 - k] = Low(layer[k])
    <3>1. /\ q[3] = High(layer[1]) /\ q[6] = Low(layer[1])
          /\ q[2] = High(layer[2]) /\ q[5] = Low(layer[2])
          /\ q[1] = High(layer[3]) /\ q[4] = Low(layer[3])
      BY DEF Stack
    <3> HIDE DEF q
    <3>2. CASE k = 1
      BY <3>1, <3>2
    <3>3. CASE k = 2
      BY <3>1, <3>3
    <3>4. CASE k = 3
      BY <3>1, <3>4
    <3>5. QED
      BY <3>2, <3>3, <3>4
  <2>2. layer[k].high \in BOOLEAN
    BY DEF Tiles
  <2>3. /\ High(layer[k]).opaque <=> k \in Opaque(layer) /\ layer[k].high
        /\ Low(layer[k]).opaque <=> k \in Opaque(layer) /\ ~layer[k].high
        /\ High(layer[k]).colour = layer[k].colour
        /\ Low(layer[k]).colour = layer[k].colour
    BY <2>2 DEF High, Low, Opaque
  <2>4. 4 - k \in 1..7 /\ 7 - k \in 1..7
    OBVIOUS
  <2> HIDE DEF q
  <2>5. q[4 - k].opaque = High(layer[k]).opaque /\ q[7 - k].opaque = Low(layer[k]).opaque
    BY <2>1
  <2>6. /\ 4 - k \in Answers(layer) <=> q[4 - k].opaque
        /\ 7 - k \in Answers(layer) <=> q[7 - k].opaque
    BY <1>1, <2>4
  <2>7. q[4 - k].colour = layer[k].colour /\ q[7 - k].colour = layer[k].colour
    BY <2>1, <2>3
  <2>8. QED
    BY <2>3, <2>5, <2>6, <2>7
<1> HIDE DEF q
<1>5. 7 \in Answers(layer)
  BY <1>1, <1>3
<1>6. QED
  BY <1>3, <1>4, <1>5 DEF q

\* The least of a set of numbers.
LEMMA MinIs ==
  ASSUME NEW S \in SUBSET Nat, NEW k \in S, \A j \in S : k <= j
  PROVE  Min(S) = k
<1>1. \A i \in S : (\A j \in S : i <= j) => i = k
  OBVIOUS
<1>2. QED
  BY <1>1 DEF Min

\* The first layer that answers is the topmost.
LEMMA FirstIsTopmost ==
  ASSUME NEW layer \in [1..3 -> Tiles]
  PROVE  /\ Answers(layer) # {}
         /\ Stack(layer)[Min(Answers(layer))].colour =
              IF Opaque(layer) = {} THEN Backdrop ELSE layer[Topmost(layer)].colour
<1> DEFINE S == Answers(layer)
           H(k) == Height(layer, k)
           O == Opaque(layer)
<1>1. S \in SUBSET Nat /\ S \subseteq 1..7 /\ 7 \in S /\ O \subseteq 1..3
  BY AnswersAre DEF Answers, Opaque
<1>2. \A k \in 1..3 : layer[k].high \in BOOLEAN
  BY DEF Tiles
<1>3. \A k \in 1..3 : H(k) = IF layer[k].high THEN k + 3 ELSE k
  BY DEF Height
<1>4. ASSUME NEW k \in 1..3, NEW n \in 1..6, n \in S, \A j \in 1..n - 1 : j \notin S,
             k \in O, \A j \in O \ {k} : H(j) < H(k), Stack(layer)[n].colour = layer[k].colour
      PROVE  Stack(layer)[Min(S)].colour = IF O = {} THEN Backdrop ELSE layer[Topmost(layer)].colour
  <2>1. Topmost(layer) = k
    BY <1>4, TopmostIs
  <2>2. Min(S) = n
    <3>1. \A j \in S : n <= j
      BY <1>1, <1>4
    <3> HIDE DEF S
    <3>2. QED
      BY <1>1, <1>4, <3>1, MinIs
  <2>3. QED
    BY <1>4, <2>1, <2>2
<1>5. CASE O = {}
  <2>1. S = {7}
    BY <1>1, <1>5, AnswersAre
  <2>2. Min(S) = 7
    <3>1. \A j \in S : 7 <= j
      BY <2>1
    <3> HIDE DEF S
    <3>2. QED
      BY <1>1, <3>1, MinIs
  <2>3. QED
    BY <1>1, <1>5, <2>2, AnswersAre
<1>6. ASSUME NEW k \in O, layer[k].high, \A j \in O : j > k => ~layer[j].high
      PROVE  Stack(layer)[Min(S)].colour = layer[Topmost(layer)].colour
  <2>1. k \in 1..3 /\ 4 - k \in 1..6 /\ 4 - k \in S /\ Stack(layer)[4 - k].colour = layer[k].colour
    BY <1>1, <1>6, AnswersAre
  <2>2. \A j \in 1..(4 - k) - 1 : j \notin S
    <3> TAKE j \in 1..(4 - k) - 1
    <3>1. 4 - j \in 1..3 /\ 4 - j > k /\ 4 - (4 - j) = j
      BY <2>1
    <3>2. QED
      BY <1>6, <3>1, AnswersAre
  <2>3. \A j \in O \ {k} : H(j) < H(k)
    BY <1>1, <1>2, <1>3, <1>6, <2>1
  <2> HIDE DEF S, H
  <2>4. QED
    BY <1>4, <1>6, <2>1, <2>2, <2>3
<1>7. ASSUME NEW k \in O, \A j \in O : ~layer[j].high, \A j \in O : j <= k
      PROVE  Stack(layer)[Min(S)].colour = layer[Topmost(layer)].colour
  <2>1. k \in 1..3 /\ 7 - k \in 1..6 /\ 7 - k \in S /\ Stack(layer)[7 - k].colour = layer[k].colour
    BY <1>1, <1>7, AnswersAre
  <2>2. \A j \in 1..(7 - k) - 1 : j \notin S
    <3> TAKE j \in 1..(7 - k) - 1
    <3>1. CASE j \in 1..3
      <4>1. 4 - j \in 1..3 /\ 4 - (4 - j) = j
        BY <3>1
      <4>2. QED
        BY <1>7, <4>1, AnswersAre
    <3>2. CASE j \in 4..6
      <4>1. 7 - j \in 1..3 /\ 7 - j > k /\ 7 - (7 - j) = j
        BY <2>1, <3>2
      <4>2. QED
        BY <1>7, <2>1, <4>1, AnswersAre
    <3>3. QED
      BY <2>1, <3>1, <3>2
  <2>3. \A j \in O \ {k} : H(j) < H(k)
    BY <1>1, <1>2, <1>3, <1>7, <2>1
  <2> HIDE DEF S, H
  <2>4. QED
    BY <1>4, <1>7, <2>1, <2>2, <2>3
<1>8. CASE O # {}
  <2>1. \/ \E k \in O : layer[k].high /\ \A j \in O : j > k => ~layer[j].high
        \/ \E k \in O : (\A j \in O : ~layer[j].high) /\ \A j \in O : j <= k
    BY <1>1, <1>2, <1>8
  <2> HIDE DEF S, H, O
  <2>2. QED
    BY <1>1, <1>6, <1>7, <1>8, <2>1 DEF S, O
<1>9. QED
  BY <1>1, <1>5, <1>8
---------------------------------------------------------------------------
(* sprites: the walk along the list against the list.                      *)

\* Of the first n sprites of a list, the first that is opaque on a cell.
There(table, list, n, c) ==
  {k \in 1..n : table[list[k]].cell = c /\ table[list[k]].colour # 0}
Pixel(e) == [tile |-> 0, colour |-> e.colour, high |-> e.high]
FirstOf(table, list, n, c) ==
  IF There(table, list, n, c) = {} THEN Blank
  ELSE Pixel(table[list[Min(There(table, list, n, c))]])

\* A table of n sprites.
Tables(n) == [0..n - 1 -> [cell : Cells, colour : Nat, high : BOOLEAN, link : 0..n - 1]]

\* Every table has some number of sprites.
LEMMA TableHas ==
  ASSUME NEW table \in SpriteTables
  PROVE  \E n \in Nat \ {0} : table \in Tables(n) /\ Cardinality(DOMAIN table) = n
BY OracleAssumption DEF Tables

\* The least of a set of positions is one of them.
LEMMA MinOf ==
  ASSUME NEW S \in SUBSET Nat, S # {}
  PROVE  Min(S) \in S /\ \A j \in S : Min(S) <= j
<1> DEFINE T == {n \in Nat : \A j \in Nat : j <= n => j \notin S}
<1>1. \E k \in S : \A j \in S : k <= j
  <2> SUFFICES ASSUME \A k \in S : \E j \in S : j < k
               PROVE  FALSE
    OBVIOUS
  <2>1. 0 \in T
    OBVIOUS
  <2>2. ASSUME NEW n \in Nat, n \in T
        PROVE  n + 1 \in T
    <3>1. \A j \in S : j >= n + 1
      BY <2>2
    <3>2. n + 1 \notin S
      <4>1. SUFFICES ASSUME n + 1 \in S
                     PROVE  FALSE
        OBVIOUS
      <4>2. PICK j \in S : j < n + 1
        BY <4>1
      <4>3. QED
        BY <3>1, <4>2
    <3>3. QED
      BY <3>1, <3>2
  <2>3. \A n \in Nat : n \in T
    <3> HIDE DEF T
    <3> QED
      BY <2>1, <2>2, Induction
  <2>4. \A n \in Nat : n \notin S
    BY <2>3
  <2>5. QED
    BY <2>4
<1>2. QED
  BY <1>1 DEF Min

\* What the first n sprites show on a cell, and what the next one adds.
LEMMA FirstOfNext ==
  ASSUME NEW n \in Nat \ {0}, NEW table \in Tables(n), NEW list \in Seq(0..n - 1),
         NEW k \in 0..Len(list), NEW c \in Cells
  PROVE  /\ FirstOf(table, list, k, c) \in Tiles
         /\ FirstOf(table, list, k, c).colour = 0 <=> There(table, list, k, c) = {}
         /\ k < Len(list) =>
              LET e == table[list[k + 1]]
              IN FirstOf(table, list, k + 1, c) =
                   IF There(table, list, k, c) = {} /\ e.cell = c /\ e.colour # 0
                   THEN Pixel(e) ELSE FirstOf(table, list, k, c)
<1> DEFINE A == There(table, list, k, c)
           B == There(table, list, k + 1, c)
<1>1. Len(list) \in Nat /\ \A j \in 1..Len(list) : list[j] \in 0..n - 1
  BY LenProperties, ElementOfSeq
<1>2. \A j \in 1..Len(list) :
        table[list[j]] \in [cell : Cells, colour : Nat, high : BOOLEAN, link : 0..n - 1]
  BY <1>1 DEF Tables
<1>3. A \in SUBSET Nat /\ A \subseteq 1..k /\ B \in SUBSET Nat
  BY <1>1 DEF There
<1>4. A # {} => Min(A) \in A /\ \A j \in A : Min(A) <= j
  BY <1>3, MinOf
<1>5. FirstOf(table, list, k, c) \in Tiles /\ (FirstOf(table, list, k, c).colour = 0 <=> A = {})
  <2>1. CASE A = {}
    BY <2>1 DEF FirstOf, Blank, Tiles
  <2>2. CASE A # {}
    <3> DEFINE e == table[list[Min(A)]]
    <3>1. Min(A) \in 1..Len(list) /\ e.colour # 0
      BY <1>1, <1>3, <1>4, <2>2 DEF There
    <3>2. e \in [cell : Cells, colour : Nat, high : BOOLEAN, link : 0..n - 1]
      BY <1>2, <3>1
    <3>3. FirstOf(table, list, k, c) = Pixel(e)
      BY <2>2 DEF FirstOf
    <3> HIDE DEF e
    <3>4. QED
      BY <2>2, <3>1, <3>2, <3>3 DEF Pixel, Tiles
  <2>3. QED
    BY <2>1, <2>2
<1>6. ASSUME k < Len(list)
      PROVE  LET e == table[list[k + 1]]
             IN FirstOf(table, list, k + 1, c) =
                  IF A = {} /\ e.cell = c /\ e.colour # 0 THEN Pixel(e) ELSE FirstOf(table, list, k, c)
  <2> DEFINE e == table[list[k + 1]]
  <2>1. B = IF e.cell = c /\ e.colour # 0 THEN A \cup {k + 1} ELSE A
    BY <1>1, <1>6 DEF There
  <2>2. CASE e.cell = c /\ e.colour # 0 /\ A = {}
    <3>1. B = {k + 1}
      BY <2>1, <2>2
    <3>2. Min(B) = k + 1
      BY <1>3, <3>1, MinIs
    <3>3. QED
      BY <2>2, <3>1, <3>2 DEF FirstOf
  <2>3. CASE A # {}
    <3>1. Min(A) \in B /\ \A j \in B : Min(A) <= j
      BY <1>3, <1>4, <2>1, <2>3
    <3>2. Min(B) = Min(A)
      <4> DEFINE x == Min(A)
      <4>1. x \in B /\ \A j \in B : x <= j
        BY <3>1
      <4> HIDE DEF x
      <4>2. Min(B) = x
        BY <1>3, <4>1, MinIs
      <4>3. QED
        BY <4>2 DEF x
    <3>3. B # {}
      BY <3>1
    <3>4. QED
      BY <2>3, <3>2, <3>3 DEF FirstOf
  <2>4. CASE ~(e.cell = c /\ e.colour # 0)
    BY <2>1, <2>4 DEF FirstOf
  <2>5. QED
    BY <2>2, <2>3, <2>4
<1>7. QED
  BY <1>5, <1>6

\* What is linked behind a list changes nothing of what the list shows.
LEMMA FirstOfLonger ==
  ASSUME NEW n, NEW table, NEW list \in Seq(0..n - 1), NEW x, NEW k \in 0..Len(list), NEW c
  PROVE  FirstOf(table, Append(list, x), k, c) = FirstOf(table, list, k, c)
<1>1. Len(list) \in Nat /\ \A j \in 1..k : Append(list, x)[j] = list[j]
  BY LenProperties, AppendProperties
<1>2. There(table, Append(list, x), k, c) = There(table, list, k, c)
  BY <1>1 DEF There
<1>3. There(table, list, k, c) # {} => Min(There(table, list, k, c)) \in 1..k
  <2>1. There(table, list, k, c) \in SUBSET Nat /\ There(table, list, k, c) \subseteq 1..k
    BY <1>1 DEF There
  <2>2. QED
    BY <2>1, MinOf
<1>4. QED
  BY <1>1, <1>2, <1>3 DEF FirstOf
\* The lists of a table's sprites, and the states of the walk along one.
Chains(n) == {list \in Seq(0..n - 1) : list # <<>>}
Walks(n) == [index : 0..n - 1, buf : [Cells -> Tiles], ended : BOOLEAN]
Start == [index |-> 0, buf |-> [c \in Cells |-> Blank], ended |-> FALSE]

\* A list leads to a sprite of the table.
LEMMA LinkedType ==
  ASSUME NEW n \in Nat \ {0}, NEW table \in Tables(n), NEW list \in Chains(n)
  PROVE  /\ Len(list) \in Nat \ {0} /\ Last(list) \in 0..n - 1
         /\ table[Last(list)] \in [cell : Cells, colour : Nat, high : BOOLEAN, link : 0..n - 1]
         /\ Linked(table, list) \in Chains(n)
<1>1. Len(list) \in Nat /\ Len(list) # 0
  BY LenProperties, EmptySeq DEF Chains
<1>2. Last(list) \in 0..n - 1
  BY <1>1, ElementOfSeq DEF Chains, Last
<1>3. table[Last(list)] \in [cell : Cells, colour : Nat, high : BOOLEAN, link : 0..n - 1]
  BY <1>2 DEF Tables
<1>4. Linked(table, list) \in Chains(n)
  <2> DEFINE x == table[Last(list)].link
  <2>1. x \in 0..n - 1
    BY <1>3
  <2> HIDE DEF x
  <2>2. Append(list, x) \in Chains(n)
    BY <2>1, AppendProperties DEF Chains
  <2>3. QED
    BY <2>2 DEF Linked, x
<1>5. QED
  BY <1>1, <1>2, <1>3, <1>4

\* What a step of the walk makes.
LEMMA PutType ==
  ASSUME NEW n \in Nat \ {0}, NEW table \in Tables(n), NEW w \in Walks(n)
  PROVE  LET e == table[w.index]
         IN /\ Put(table, w) \in Walks(n)
            /\ Put(table, w).index = e.link /\ (Put(table, w).ended <=> w.ended \/ e.link = 0)
            /\ \A c \in Cells :
                 Put(table, w).buf[c] =
                   IF ~w.ended /\ w.buf[c].colour = 0 /\ e.cell = c /\ e.colour # 0
                   THEN Pixel(e) ELSE w.buf[c]
<1> DEFINE e == table[w.index]
           free == ~w.ended /\ w.buf[e.cell].colour = 0 /\ e.colour # 0
           buf == IF free THEN [w.buf EXCEPT ![e.cell] = Pixel(e)] ELSE w.buf
<1>1. e \in [cell : Cells, colour : Nat, high : BOOLEAN, link : 0..n - 1] /\ w.buf \in [Cells -> Tiles]
  BY DEF Tables, Walks
<1>2. Pixel(e) \in Tiles
  <2> HIDE DEF e
  <2> QED
    BY <1>1 DEF Pixel, Tiles
<1>3. Put(table, w) = [index |-> e.link, buf |-> buf, ended |-> w.ended \/ e.link = 0]
  BY DEF Put, Pixel
<1> HIDE DEF e
<1>4. buf \in [Cells -> Tiles]
  BY <1>1, <1>2
<1>5. \A c \in Cells : buf[c] = IF ~w.ended /\ w.buf[c].colour = 0 /\ e.cell = c /\ e.colour # 0
                                THEN Pixel(e) ELSE w.buf[c]
  BY <1>1
<1> HIDE DEF buf, free
<1>6. Put(table, w) \in Walks(n)
  BY <1>1, <1>3, <1>4 DEF Walks
<1>7. Put(table, w).index = e.link /\ Put(table, w).buf = buf /\ (Put(table, w).ended <=> w.ended \/ e.link = 0)
  <2>1. w.ended \in BOOLEAN
    BY DEF Walks
  <2> DEFINE ended == w.ended \/ e.link = 0
             link == e.link
  <2>2. Put(table, w) = [index |-> link, buf |-> buf, ended |-> ended]
    BY <1>3
  <2>3. ended \in BOOLEAN
    OBVIOUS
  <2> HIDE DEF ended, link
  <2>4. Put(table, w).index = link /\ Put(table, w).buf = buf /\ Put(table, w).ended = ended
    BY <2>2
  <2>5. QED
    BY <2>4 DEF ended, link
<1>8. QED
  BY <1>5, <1>6, <1>7 DEF e

\* The list of a table is made in as many steps as it has sprites.
LEMMA Chained ==
  ASSUME NEW n \in Nat \ {0}, NEW table \in Tables(n), Cardinality(DOMAIN table) = n
  PROVE  \E g \in [0..n -> Chains(n)] :
           /\ g[0] = <<0>>
           /\ \A k \in 1..n : g[k] = Linked(table, g[k - 1])
           /\ ChainOf(table) = g[n]
<1> DEFINE T == Chains(n)
           a == <<0>>
           F == [k \in 1..n |-> [x \in T |-> Linked(table, x)]]
           Is(f) == f = [k \in 0..n |-> IF k = 0 THEN a ELSE Linked(table, f[k - 1])]
           c == CHOOSE f : Is(f)
<1>1. a \in T
  <2>1. 0 \in 0..n - 1
    OBVIOUS
  <2>2. <<0>> \in Seq(0..n - 1) /\ <<0>> # <<>>
    BY <2>1
  <2>3. QED
    BY <2>2 DEF Chains
<1>2. \A x \in T : Linked(table, x) \in T
  BY LinkedType
<1>3. ChainOf(table) = c[n]
  BY DEF ChainOf
<1> HIDE DEF T, a
<1>4. F \in [1..n -> [T -> T]]
  BY <1>2
<1>5. PICK g \in [0..n -> T] : g[0] = a /\ \A k \in 1..n : g[k] = F[k][g[k - 1]]
  <2> HIDE DEF F
  <2>1. Recursive(n, T, a, F) # {}
    BY <1>1, <1>4, Recursion
  <2>2. QED
    BY <2>1 DEF Recursive
<1>6. \A k \in 1..n : g[k] = Linked(table, g[k - 1])
  <2> TAKE k \in 1..n
  <2>1. k - 1 \in 0..n
    OBVIOUS
  <2>2. g[k - 1] \in T /\ g[k] = F[k][g[k - 1]]
    BY <1>5, <2>1
  <2>3. QED
    BY <2>2
<1>7. Is(g)
  <2>1. g = [k \in 0..n |-> g[k]]
    BY <1>5
  <2>2. \A k \in 0..n : g[k] = IF k = 0 THEN a ELSE Linked(table, g[k - 1])
    BY <1>5, <1>6
  <2>3. QED
    BY <2>1, <2>2
<1>8. Is(c)
  <2> HIDE DEF Is
  <2> QED
    BY <1>7
<1>9. \A k \in 0..n : c[k] = IF k = 0 THEN a ELSE Linked(table, c[k - 1])
  <2> HIDE DEF c
  <2> QED
    BY <1>8
<1> HIDE DEF F, Is, c
<1> DEFINE S == {k \in Nat : k <= n => c[k] = g[k]}
<1>10. \A k \in Nat : k \in S
  <2>1. 0 \in S
    BY <1>5, <1>9
  <2>2. ASSUME NEW k \in Nat, k \in S
        PROVE  k + 1 \in S
    <3>1. SUFFICES ASSUME k + 1 <= n
                   PROVE  c[k + 1] = g[k + 1]
      OBVIOUS
    <3>2. k + 1 \in 1..n /\ k + 1 \in 0..n /\ (k + 1) - 1 = k
      BY <3>1
    <3>3. c[k] = g[k]
      BY <2>2, <3>1
    <3>4. QED
      BY <1>6, <1>9, <3>2, <3>3
  <2> HIDE DEF S
  <2>3. QED
    BY <2>1, <2>2, Induction
<1>11. c[n] = g[n]
  BY <1>10
<1>12. QED
  BY <1>3, <1>5, <1>6, <1>11 DEF T, a

\* So is the walk.
LEMMA Walked ==
  ASSUME NEW n \in Nat \ {0}, NEW table \in Tables(n), Cardinality(DOMAIN table) = n
  PROVE  \E g \in [0..n -> Walks(n)] :
           /\ g[0] = Start
           /\ \A k \in 1..n : g[k] = Put(table, g[k - 1])
           /\ Sprites(table) = g[n].buf
<1> DEFINE T == Walks(n)
           a == Start
           F == [k \in 1..n |-> [x \in T |-> Put(table, x)]]
           Is(f) == f = [k \in 0..n |-> IF k = 0 THEN a ELSE Put(table, f[k - 1])]
           c == CHOOSE f : Is(f)
<1>1. a \in T
  BY DEF Walks, Start, Blank, Tiles
<1>2. \A x \in T : Put(table, x) \in T
  BY PutType
<1>3. Sprites(table) = c[n].buf
  BY DEF Sprites, Start
<1> HIDE DEF T, a
<1>4. F \in [1..n -> [T -> T]]
  BY <1>2
<1>5. PICK g \in [0..n -> T] : g[0] = a /\ \A k \in 1..n : g[k] = F[k][g[k - 1]]
  <2> HIDE DEF F
  <2>1. Recursive(n, T, a, F) # {}
    BY <1>1, <1>4, Recursion
  <2>2. QED
    BY <2>1 DEF Recursive
<1>6. \A k \in 1..n : g[k] = Put(table, g[k - 1])
  <2> TAKE k \in 1..n
  <2>1. k - 1 \in 0..n
    OBVIOUS
  <2>2. g[k - 1] \in T /\ g[k] = F[k][g[k - 1]]
    BY <1>5, <2>1
  <2>3. QED
    BY <2>2
<1>7. Is(g)
  <2>1. g = [k \in 0..n |-> g[k]]
    BY <1>5
  <2>2. \A k \in 0..n : g[k] = IF k = 0 THEN a ELSE Put(table, g[k - 1])
    BY <1>5, <1>6
  <2>3. QED
    BY <2>1, <2>2
<1>8. Is(c)
  <2> HIDE DEF Is
  <2> QED
    BY <1>7
<1>9. \A k \in 0..n : c[k] = IF k = 0 THEN a ELSE Put(table, c[k - 1])
  <2> HIDE DEF c
  <2> QED
    BY <1>8
<1> HIDE DEF F, Is, c
<1> DEFINE S == {k \in Nat : k <= n => c[k] = g[k]}
<1>10. \A k \in Nat : k \in S
  <2>1. 0 \in S
    BY <1>5, <1>9
  <2>2. ASSUME NEW k \in Nat, k \in S
        PROVE  k + 1 \in S
    <3>1. SUFFICES ASSUME k + 1 <= n
                   PROVE  c[k + 1] = g[k + 1]
      OBVIOUS
    <3>2. k + 1 \in 1..n /\ k + 1 \in 0..n /\ (k + 1) - 1 = k
      BY <3>1
    <3>3. c[k] = g[k]
      BY <2>2, <3>1
    <3>4. QED
      BY <1>6, <1>9, <3>2, <3>3
  <2> HIDE DEF S
  <2>3. QED
    BY <2>1, <2>2, Induction
<1>11. c[n] = g[n]
  BY <1>10
<1>12. QED
  BY <1>3, <1>5, <1>6, <1>11 DEF T, a
\* Each sprite of a list is the one the sprite before it leads to.
Leads(table, list) == \A j \in 1..Len(list) - 1 : list[j + 1] = table[list[j]].link

\* The walk after k steps and the list so far: until the list ends, the walk is at
\* its last sprite, and what it has drawn is what the sprites before that show.
Along(n, table, k, list, w) ==
  /\ list \in Chains(n) /\ Leads(table, list) /\ w \in Walks(n)
  /\ w.ended =>
       /\ table[Last(list)].link = 0
       /\ \A c \in Cells : w.buf[c] = FirstOf(table, list, Len(list), c)
  /\ ~w.ended =>
       /\ Len(list) = k + 1 /\ w.index = Last(list)
       /\ \A c \in Cells : w.buf[c] = FirstOf(table, list, k, c)

\* A step of the list and of the walk.
LEMMA AlongStep ==
  ASSUME NEW n \in Nat \ {0}, NEW table \in Tables(n), NEW k \in Nat, NEW list, NEW w,
         Along(n, table, k, list, w)
  PROVE  Along(n, table, k + 1, Linked(table, list), Put(table, w))
<1> DEFINE e == table[Last(list)]
           next == Linked(table, list)
           v == Put(table, w)
<1>1. list \in Chains(n) /\ Leads(table, list) /\ w \in Walks(n) /\ list \in Seq(0..n - 1)
  BY DEF Along, Chains
<1>2. /\ Len(list) \in Nat \ {0} /\ Last(list) \in 0..n - 1 /\ next \in Chains(n)
      /\ e \in [cell : Cells, colour : Nat, high : BOOLEAN, link : 0..n - 1]
      /\ Last(list) = list[Len(list)]
  BY <1>1, LinkedType DEF Last
<1>3. next = IF e.link = 0 THEN list ELSE Append(list, e.link)
  BY DEF Linked
<1>4. v \in Walks(n)
  BY <1>1, PutType
<1>5. CASE w.ended
  <2>1. e.link = 0 /\ next = list /\ \A c \in Cells : w.buf[c] = FirstOf(table, list, Len(list), c)
    BY <1>3, <1>5 DEF Along
  <2>2. v.ended /\ \A c \in Cells : v.buf[c] = w.buf[c]
    BY <1>1, <1>5, PutType
  <2> HIDE DEF next, v
  <2>3. QED
    BY <1>1, <1>4, <2>1, <2>2 DEF Along, next, v
<1>6. CASE ~w.ended
  <2>1. Len(list) = k + 1 /\ w.index = Last(list) /\ \A c \in Cells : w.buf[c] = FirstOf(table, list, k, c)
    BY <1>6 DEF Along
  <2>2. /\ v.index = e.link /\ (v.ended <=> e.link = 0)
        /\ \A c \in Cells : v.buf[c] = IF w.buf[c].colour = 0 /\ e.cell = c /\ e.colour # 0
                                       THEN Pixel(e) ELSE w.buf[c]
    BY <1>1, <1>6, <2>1, PutType
  <2> HIDE DEF v
  <2>3. \A c \in Cells : v.buf[c] = FirstOf(table, list, k + 1, c)
    <3> TAKE c \in Cells
    <3>1. k \in 0..Len(list) /\ k < Len(list) /\ list[k + 1] = Last(list)
      BY <1>2, <2>1
    <3>2. /\ FirstOf(table, list, k, c).colour = 0 <=> There(table, list, k, c) = {}
          /\ FirstOf(table, list, k + 1, c) =
               IF There(table, list, k, c) = {} /\ e.cell = c /\ e.colour # 0
               THEN Pixel(e) ELSE FirstOf(table, list, k, c)
      BY <1>1, <3>1, FirstOfNext
    <3> HIDE DEF e
    <3>3. QED
      BY <2>1, <2>2, <3>2
  <2>4. CASE e.link = 0
    <3>1. v.ended /\ next = list
      BY <1>3, <2>2, <2>4
    <3> HIDE DEF next
    <3>2. QED
      BY <1>1, <1>4, <2>1, <2>3, <2>4, <3>1 DEF Along, next, v
  <2>5. CASE e.link # 0
    <3> DEFINE x == e.link
    <3>1. next = Append(list, x) /\ ~v.ended /\ v.index = x /\ x \in 0..n - 1
      BY <1>2, <1>3, <2>2, <2>5
    <3>2. Last(list) \in 0..n - 1 /\ table[list[k + 1]].link = x
      BY <1>2, <2>1
    <3> HIDE DEF next, x, e
    <3>3. /\ Len(next) = k + 2 /\ next[k + 2] = x
          /\ \A j \in 1..k + 1 : next[j] = list[j]
      BY <1>1, <2>1, <3>1, AppendProperties
    <3>4. Leads(table, next)
      <4> SUFFICES ASSUME NEW j \in 1..Len(next) - 1
                   PROVE  next[j + 1] = table[next[j]].link
        BY DEF Leads
      <4>1. CASE j = k + 1
        BY <3>2, <3>3, <4>1
      <4>2. CASE j # k + 1
        <5>1. j \in 1..Len(list) - 1 /\ j \in 1..k + 1 /\ j + 1 \in 1..k + 1
          BY <2>1, <3>3, <4>2
        <5>2. QED
          BY <1>1, <3>3, <5>1 DEF Leads
      <4>3. QED
        BY <4>1, <4>2
    <3>5. Last(next) = x
      BY <3>3 DEF Last
    <3>6. \A c \in Cells : v.buf[c] = FirstOf(table, next, k + 1, c)
      <4>1. k + 1 \in 0..Len(list)
        BY <2>1
      <4>2. ASSUME NEW c \in Cells
            PROVE  v.buf[c] = FirstOf(table, next, k + 1, c)
        <5> DEFINE m == k + 1
        <5>1. m \in 0..Len(list)
          BY <4>1
        <5> HIDE DEF m
        <5>2. FirstOf(table, Append(list, x), m, c) = FirstOf(table, list, m, c)
          BY <1>1, <5>1, FirstOfLonger
        <5>3. QED
          BY <2>3, <3>1, <5>2 DEF m
      <4>3. QED
        BY <4>2
    <3>7. QED
      BY <1>2, <1>4, <3>1, <3>3, <3>4, <3>5, <3>6 DEF Along, next, v
  <2>6. QED
    BY <2>4, <2>5
<1>7. QED
  BY <1>5, <1>6

\* A list that is longer than its table comes back to a sprite it had.
LEMMA ComesBack ==
  ASSUME NEW n \in Nat \ {0}, NEW table \in Tables(n), NEW list \in Chains(n),
         Len(list) = n + 1, Leads(table, list)
  PROVE  \E j \in 1..n : list[j] = list[n + 1]
<1>1. list \in [1..n + 1 -> 0..n - 1]
  BY ElementOfSeq, LenProperties DEF Chains
<1>2. PICK x, y \in 1..n + 1 : x # y /\ list[x] = list[y]
  <2>1. IsFiniteSet(1..n + 1) /\ Cardinality(1..n + 1) = n + 1
    BY FS_Interval
  <2>2. IsFiniteSet(0..n - 1) /\ Cardinality(0..n - 1) = n
    BY FS_Interval
  <2>3. Cardinality(0..n - 1) < Cardinality(1..n + 1)
    BY <2>1, <2>2
  <2> DEFINE P == 1..n + 1
             Q == 0..n - 1
  <2>4. IsFiniteSet(P) /\ IsFiniteSet(Q) /\ Cardinality(Q) < Cardinality(P) /\ list \in [P -> Q]
    BY <1>1, <2>1, <2>2, <2>3
  <2> HIDE DEF P, Q
  <2>5. \E x, y \in P : x # y /\ list[x] = list[y]
    BY <2>4, FS_PigeonHole
  <2>6. QED
    BY <2>5 DEF P
<1>3. \E p, q \in 1..n + 1 : p < q /\ list[p] = list[q]
  BY <1>2
<1>4. PICK p \in 1..n + 1, q \in 1..n + 1 : p < q /\ list[p] = list[q]
  BY <1>3
<1> DEFINE S == {d \in Nat : q + d <= n + 1 => list[p + d] = list[q + d]}
<1>5. 0 \in S
  BY <1>4
<1>6. ASSUME NEW d \in Nat, d \in S
      PROVE  d + 1 \in S
  <2>1. SUFFICES ASSUME q + (d + 1) <= n + 1
                 PROVE  list[p + (d + 1)] = list[q + (d + 1)]
    OBVIOUS
  <2>2. list[p + d] = list[q + d]
    BY <1>6, <2>1
  <2>3. p + d \in 1..Len(list) - 1 /\ q + d \in 1..Len(list) - 1
    BY <1>4, <2>1
  <2>4. list[(p + d) + 1] = table[list[p + d]].link /\ list[(q + d) + 1] = table[list[q + d]].link
    BY <2>3 DEF Leads
  <2>5. (p + d) + 1 = p + (d + 1) /\ (q + d) + 1 = q + (d + 1)
    OBVIOUS
  <2>6. QED
    BY <2>2, <2>4, <2>5
<1>7. \A d \in Nat : d \in S
  <2> HIDE DEF S
  <2> QED
    BY <1>5, <1>6, Induction
<1>8. n + 1 - q \in Nat /\ q + (n + 1 - q) = n + 1 /\ p + (n + 1 - q) \in 1..n
  BY <1>4
<1>9. QED
  <2> DEFINE d == n + 1 - q
  <2>1. d \in Nat /\ q + d = n + 1 /\ p + d \in 1..n
    BY <1>8
  <2> HIDE DEF d
  <2>2. list[p + d] = list[q + d]
    BY <1>7, <2>1
  <2>3. QED
    BY <2>1, <2>2
\* What the whole list shows is what its sprites show before they come again.
LEMMA OnceIsEnough ==
  ASSUME NEW n \in Nat \ {0}, NEW table \in Tables(n), NEW list \in Chains(n),
         Len(list) = n + 1, Leads(table, list), NEW c \in Cells
  PROVE  FirstOf(table, list, n + 1, c) = FirstOf(table, list, n, c)
<1> DEFINE e == table[list[n + 1]]
<1>1. PICK j \in 1..n : list[j] = list[n + 1]
  BY ComesBack
<1>2. e.cell = c /\ e.colour # 0 => j \in There(table, list, n, c)
  BY <1>1 DEF There
<1>3. list \in Seq(0..n - 1) /\ n \in 0..Len(list) /\ n < Len(list)
  BY DEF Chains
<1>4. FirstOf(table, list, n + 1, c) =
        IF There(table, list, n, c) = {} /\ e.cell = c /\ e.colour # 0
        THEN Pixel(e) ELSE FirstOf(table, list, n, c)
  BY <1>3, FirstOfNext
<1> HIDE DEF e
<1>5. QED
  BY <1>2, <1>4

\* The oracle draws the sprites that the display shows.
LEMMA SpritesAgree ==
  ASSUME NEW table \in SpriteTables, NEW c \in Cells
  PROVE  Sprites(table)[c] = SpriteAt(table, c) /\ SpriteAt(table, c) \in Tiles
<1>1. PICK n \in Nat \ {0} : table \in Tables(n) /\ Cardinality(DOMAIN table) = n
  BY TableHas
<1>2. PICK g \in [0..n -> Chains(n)] :
        /\ g[0] = <<0>>
        /\ \A k \in 1..n : g[k] = Linked(table, g[k - 1])
        /\ ChainOf(table) = g[n]
  BY <1>1, Chained
<1>3. PICK h \in [0..n -> Walks(n)] :
        /\ h[0] = Start
        /\ \A k \in 1..n : h[k] = Put(table, h[k - 1])
        /\ Sprites(table) = h[n].buf
  BY <1>1, Walked
<1> DEFINE S == {k \in Nat : k <= n => Along(n, table, k, g[k], h[k])}
<1>4. 0 \in S
  <2> DEFINE list == g[0]
             w == h[0]
  <2>1. list \in Chains(n) /\ w \in Walks(n) /\ list = <<0>> /\ w = Start
    <3>1. 0 \in 0..n
      OBVIOUS
    <3>2. list \in Chains(n) /\ list = <<0>>
      BY <1>2, <3>1
    <3>3. w \in Walks(n) /\ w = Start
      BY <1>3, <3>1
    <3>4. QED
      BY <3>2, <3>3
  <2>2. Len(list) = 1 /\ Last(list) = 0 /\ Leads(table, list)
    BY <2>1 DEF Last, Leads
  <2>3. ~w.ended /\ w.index = 0 /\ \A d \in Cells : w.buf[d] = Blank
    BY <2>1 DEF Start
  <2>4. \A d \in Cells : FirstOf(table, list, 0, d) = Blank
    BY DEF FirstOf, There
  <2> HIDE DEF list, w
  <2>5. Along(n, table, 0, list, w)
    BY <2>1, <2>2, <2>3, <2>4 DEF Along
  <2>6. QED
    BY <2>5 DEF list, w
<1>5. ASSUME NEW k \in Nat, k \in S
      PROVE  k + 1 \in S
  <2>1. SUFFICES ASSUME k + 1 <= n
                 PROVE  Along(n, table, k + 1, g[k + 1], h[k + 1])
    OBVIOUS
  <2>2. k + 1 \in 1..n /\ (k + 1) - 1 = k
    BY <2>1
  <2>3. g[k + 1] = Linked(table, g[k]) /\ h[k + 1] = Put(table, h[k])
    BY <1>2, <1>3, <2>2
  <2>4. Along(n, table, k, g[k], h[k])
    BY <1>5, <2>1
  <2>5. QED
    BY <1>1, <2>3, <2>4, AlongStep
<1>6. \A k \in Nat : k \in S
  <2> HIDE DEF S
  <2> QED
    BY <1>4, <1>5, Induction
<1> DEFINE list == ChainOf(table)
           w == h[n]
<1>7. Along(n, table, n, list, w)
  BY <1>2, <1>6
<1>8. Sprites(table)[c] = w.buf[c]
  BY <1>3
<1>9. list \in Seq(0..n - 1) /\ Len(list) \in Nat /\ DOMAIN list = 1..Len(list)
  BY <1>7, LenProperties DEF Along, Chains
<1>10. SpriteAt(table, c) = FirstOf(table, list, Len(list), c)
  <2>1. There(table, list, Len(list), c) =
          {k \in DOMAIN list : table[list[k]].cell = c /\ table[list[k]].colour # 0}
    BY <1>9 DEF There
  <2>2. QED
    BY <2>1 DEF SpriteAt, FirstOf, Pixel
<1> HIDE DEF list, w, S
<1>11. w.buf[c] = FirstOf(table, list, Len(list), c)
  <2>1. CASE w.ended
    BY <1>7, <2>1 DEF Along
  <2>2. CASE ~w.ended
    <3>1. Len(list) = n + 1 /\ Leads(table, list) /\ list \in Chains(n) /\ w.buf[c] = FirstOf(table, list, n, c)
      BY <1>7, <2>2 DEF Along
    <3>2. FirstOf(table, list, n + 1, c) = FirstOf(table, list, n, c)
      BY <1>1, <3>1, OnceIsEnough
    <3>3. QED
      BY <3>1, <3>2
  <2>3. QED
    BY <2>1, <2>2
<1>12. FirstOf(table, list, Len(list), c) \in Tiles
  <2> DEFINE l == Len(list)
  <2>1. l \in 0..Len(list)
    BY <1>9
  <2> HIDE DEF l
  <2>2. FirstOf(table, list, l, c) \in Tiles
    BY <1>1, <1>9, <2>1, FirstOfNext
  <2>3. QED
    BY <2>2 DEF l
<1>13. QED
  BY <1>8, <1>10, <1>11, <1>12

---------------------------------------------------------------------------
(* The pictures.                                                           *)

\* A shine over a choice is a choice of shines.
LEMMA ShineOfChoice ==
  ASSUME NEW m, NEW P \in BOOLEAN, NEW x, NEW y
  PROVE  (IF P THEN Shine(m, x) ELSE Shine(m, y)) = Shine(m, IF P THEN x ELSE y)
BY DEF Shine

\* The oracle's picture of a moment whose state tells is the stock game's.
LEMMA ExpectedIsStock ==
  ASSUME NEW m \in Moments, Told(m)
  PROVE  Expected(m) = Stock(m)
<1> DEFINE Seen(c) == <<m.stock[c], m.planeA[c], SpriteAt(m.sprites, c)>>
           Guess(c) == <<Planes(m)[c], m.planeA[c], Sprites(m.sprites)[c]>>
           Six(layer) == Stack(layer)[IF Answers(layer) # {} THEN Min(Answers(layer)) ELSE 0].colour
           Top(layer) == IF Opaque(layer) = {} THEN Backdrop ELSE layer[Topmost(layer)].colour
<1>1. \A c \in Cells : Seen(c) \in [1..3 -> Tiles]
  <2> TAKE c \in Cells
  <2>1. m.stock[c] \in Tiles /\ m.planeA[c] \in Tiles /\ SpriteAt(m.sprites, c) \in Tiles
    BY SpritesAgree DEF Moments
  <2>2. QED
    BY <2>1
<1>2. Stock(m) = [c \in Cells |-> Shine(m, Top(Seen(c)))]
  <2>1. Stock(m) = [c \in Cells |-> IF Opaque(Seen(c)) = {} THEN Shine(m, Backdrop)
                                    ELSE Shine(m, Seen(c)[Topmost(Seen(c))].colour)]
    BY Zenon DEF Stock, Display, Opaque, Topmost, Height
  <2> HIDE DEF Seen
  <2>2. QED
    BY <2>1, ShineOfChoice
<1>3. Expected(m) = [c \in Cells |-> Shine(m, Six(Guess(c)))]
  <2> DEFINE raw(c) ==
               <<High(Sprites(m.sprites)[c]), High(m.planeA[c]), High(Planes(m)[c]),
                 Low(Sprites(m.sprites)[c]), Low(m.planeA[c]), Low(Planes(m)[c]),
                 [opaque |-> TRUE, colour |-> Backdrop]>>
             those(c) == {n \in 1..Len(raw(c)) : raw(c)[n].opaque}
  <2>1. Expected(m) = [c \in Cells |->
                        Shine(m, raw(c)[IF those(c) # {} THEN Min(those(c)) ELSE 0].colour)]
    BY Zenon DEF Expected, SelectInSeq, High, Low
  <2>2. \A c \in Cells : raw(c) = Stack(Guess(c)) /\ Len(raw(c)) = 7
    BY DEF Stack
  <2> HIDE DEF raw, Guess
  <2>3. \A c \in Cells : those(c) = Answers(Guess(c))
    BY <2>2 DEF Answers
  <2> HIDE DEF those
  <2>4. QED
    BY <2>1, <2>2, <2>3
<1> HIDE DEF Six, Top
<1>4. ASSUME NEW c \in Cells
      PROVE  Shine(m, Six(Guess(c))) = Shine(m, Top(Seen(c)))
  <2>1. CASE m.dark
    BY <2>1 DEF Shine
  <2>2. CASE ~m.dark
    <3>1. Guess(c) = Seen(c)
      <4>1. m.sprites \in SpriteTables
        BY DEF Moments
      <4>2. QED
        BY <2>2, <4>1, PlanesAsStock, SpritesAgree
    <3> DEFINE layer == Seen(c)
    <3>2. layer \in [1..3 -> Tiles]
      BY <1>1
    <3> HIDE DEF layer
    <3>3. Six(layer) = Top(layer)
      BY <3>2, FirstIsTopmost DEF Six, Top
    <3>4. QED
      BY <3>1, <3>3 DEF layer
  <2>3. QED
    BY <2>1, <2>2
<1> HIDE DEF Seen, Guess
<1>5. QED
  BY <1>2, <1>3, <1>4
---------------------------------------------------------------------------
(* The invariant.                                                          *)

\* The run so far is a sequence of moments.
GameRight == moments \in Seq(Moments) /\ Len(moments) \in 1..LastFrame + 1

\* The frames to be compared are those of a capture.
AskedRight == asked \subseteq shots \cap 0..LastFrame

\* A frame that has been looked at is compared unless it is not to be.
LookedAt ==
  /\ todo \subseteq have /\ compared \subseteq have
  /\ \A f \in have \ todo : f \in compared \/ f \notin shots \/ Companion(f)
  /\ \A f \in compared : ~Companion(f)

\* A result is that of a frame of the whole run.
ResultRight ==
  /\ result # NotComparable => RunIsOver /\ result.frame \in 0..LastFrame
  /\ VerdictRight

OracleInv == GameRight /\ AskedRight /\ LookedAt /\ ResultRight

\* The drawings that come into play are drawings.
LEMMA TilesOf ==
  /\ Blank \in Tiles /\ Drawings \subseteq Tiles /\ \A c \in Cells : Map(c) \in Tiles
<1>1. Cells \subseteq Nat /\ Drawings \subseteq Tiles
  BY OracleAssumption
<1>2. QED
  BY <1>1 DEF Blank, Map, Tiles

\* A change of a moment makes a moment.
LEMMA ChangesAreMoments ==
  ASSUME NEW m \in Moments
  PROVE  Changes(m) \subseteq Moments
<1>1. /\ m.stock \in [Cells -> Tiles] /\ m.planeA \in [Cells -> Tiles] /\ m.sprites \in SpriteTables
      /\ m.screen \in {ScreenWorld, OtherScreen} /\ m.dark \in BOOLEAN
  BY DEF Moments
<1>2. m \in Moments /\ [m EXCEPT !.dark = ~@] \in Moments
  BY <1>1 DEF Moments
<1>3. MapLoaded(m) \in Moments
  <2> DEFINE stock == [c \in Cells |-> Map(c)]
  <2>1. stock \in [Cells -> Tiles]
    BY TilesOf
  <2> HIDE DEF stock
  <2>2. [m EXCEPT !.stock = stock, !.screen = ScreenWorld] \in Moments
    BY <1>1, <2>1 DEF Moments
  <2>3. QED
    BY <2>2 DEF stock, MapLoaded
<1>4. ASSUME NEW s \in {ScreenWorld, OtherScreen}
      PROVE  [m EXCEPT !.screen = s] \in Moments
  BY <1>1 DEF Moments
<1>5. ASSUME NEW e \in Drawings \cup {Blank}
      PROVE  Filled(m, e) \in Moments
  <2> DEFINE stock == [c \in Cells |-> e]
  <2>1. stock \in [Cells -> Tiles]
    BY TilesOf
  <2> HIDE DEF stock
  <2>2. [m EXCEPT !.stock = stock] \in Moments
    BY <1>1, <2>1 DEF Moments
  <2>3. QED
    BY <2>2 DEF stock, Filled
<1>6. ASSUME NEW d \in Cells, NEW e \in Drawings \cup {Blank}
      PROVE  [m EXCEPT !.stock[d] = e] \in Moments
  <2> DEFINE stock == [m.stock EXCEPT ![d] = e]
  <2>1. stock \in [Cells -> Tiles]
    BY <1>1, TilesOf
  <2>2. [m EXCEPT !.stock[d] = e] = [m EXCEPT !.stock = stock]
    OBVIOUS
  <2> HIDE DEF stock
  <2>3. QED
    BY <1>1, <2>1, <2>2 DEF Moments
<1>7. ASSUME NEW table \in SpriteTables
      PROVE  [m EXCEPT !.sprites = table] \in Moments
  BY <1>1 DEF Moments
<1> DEFINE A == {m, MapLoaded(m), [m EXCEPT !.dark = ~@]}
           B == {[m EXCEPT !.screen = s] : s \in {ScreenWorld, OtherScreen}}
           C == {Filled(m, e) : e \in Drawings \cup {Blank}}
           D == {[m EXCEPT !.stock[c] = e] : c \in Cells, e \in Drawings \cup {Blank}}
           E == {[m EXCEPT !.sprites = s] : s \in SpriteTables}
<1>8. Changes(m) = (((A \cup B) \cup C) \cup D) \cup E
  BY DEF Changes
<1>9. A \subseteq Moments
  BY <1>2, <1>3, Zenon
<1>10. B \subseteq Moments
  BY <1>4, Zenon
<1>11. C \subseteq Moments
  BY <1>5, Zenon
<1>12. D \subseteq Moments
  <2> SUFFICES ASSUME NEW x \in D
               PROVE  x \in Moments
    OBVIOUS
  <2>1. PICK d \in Cells, e \in Drawings \cup {Blank} : x = [m EXCEPT !.stock[d] = e]
    OBVIOUS
  <2>2. [m EXCEPT !.stock[d] = e] \in Moments
    BY <1>6
  <2>3. QED
    BY <2>1, <2>2
<1>13. E \subseteq Moments
  BY <1>7, Zenon
<1> HIDE DEF A, B, C, D, E
<1>14. QED
  BY <1>8, <1>9, <1>10, <1>11, <1>12, <1>13

\* The invariant holds at first.
LEMMA OracleStarts == OracleInit => OracleInv
<1> SUFFICES ASSUME OracleInit
             PROVE  OracleInv
  OBVIOUS
<1>1. PICK stock \in [Cells -> {Map(c) : c \in Cells} \cup Drawings \cup {Blank}],
           a \in PlaneA, table \in SpriteTables, screen \in {ScreenWorld, OtherScreen},
           dark \in BOOLEAN :
        LET m == [stock |-> stock, planeA |-> a, sprites |-> table, screen |-> screen, dark |-> dark]
        IN moments = <<m>>
  BY DEF OracleInit
<1> DEFINE m == [stock |-> stock, planeA |-> a, sprites |-> table, screen |-> screen, dark |-> dark]
<1>2. m \in Moments
  <2>1. stock \in [Cells -> Tiles] /\ a \in [Cells -> Tiles]
    BY TilesOf, OracleAssumption
  <2>2. QED
    BY <2>1 DEF Moments
<1>3. moments = <<m>>
  BY <1>1
<1> HIDE DEF m
<1>4. GameRight
  BY <1>2, <1>3, OracleAssumption DEF GameRight
<1>5. AskedRight
  BY OracleAssumption DEF OracleInit, AskedRight
<1>6. LookedAt
  BY DEF OracleInit, LookedAt
<1>7. ResultRight
  BY DEF OracleInit, ResultRight, VerdictRight
<1>8. QED
  BY <1>4, <1>5, <1>6, <1>7 DEF OracleInv

\* A frame of the whole run is a moment, that the oracle rebuilds if its state tells.
LEMMA FrameIs ==
  ASSUME GameRight, RunIsOver, NEW f \in 0..LastFrame
  PROVE  /\ Frame(f) \in Moments
         /\ Told(Frame(f)) => Expected(Frame(f)) = Stock(Frame(f))
<1>1. f + 1 \in 1..Len(moments)
  BY OracleAssumption DEF RunIsOver
<1>2. Frame(f) \in Moments
  BY <1>1, ElementOfSeq DEF GameRight, Frame
<1>3. QED
  BY <1>2, ExpectedIsStock

\* The states there are, are those of frames.
LEMMA HaveFrames == have \subseteq 0..LastFrame /\ (asked \subseteq 0..LastFrame => asked \subseteq have)
BY DEF have

\* The verdict on a frame.
LEMMA VerdictOn ==
  ASSUME GameRight, RunIsOver, NEW f \in 0..LastFrame, NEW shown,
         Told(Frame(f)), f + 1 \in have => Told(Frame(f + 1))
  PROVE  LET now == shown = Stock(Frame(f))
             early == f + 1 \in have /\ shown = Stock(Frame(f + 1))
             shows == IF early /\ ~now THEN Frame(f + 1) ELSE Frame(f)
         IN /\ Exact(f, shown) <=> now \/ early
            /\ ~shows.dark => Restored(Frame(Basis(f, shown))) = {c \in Cells : shows.stock[c] = Map(c)}
<1> DEFINE now == shown = Stock(Frame(f))
           early == f + 1 \in have /\ shown = Stock(Frame(f + 1))
           shows == IF early /\ ~now THEN Frame(f + 1) ELSE Frame(f)
<1>1. Frame(f) \in Moments /\ Told(Frame(f)) /\ Expected(Frame(f)) = Stock(Frame(f))
  BY FrameIs
<1>2. f + 1 \in have =>
        Frame(f + 1) \in Moments /\ Told(Frame(f + 1)) /\ Expected(Frame(f + 1)) = Stock(Frame(f + 1))
  BY FrameIs, HaveFrames
<1>3. Basis(f, shown) = IF early /\ ~now THEN f + 1 ELSE f
  BY <1>1, <1>2 DEF Basis
<1>4. Exact(f, shown) <=> now \/ early
  BY <1>1, <1>2, <1>3 DEF Exact
<1>5. Frame(Basis(f, shown)) = shows /\ shows \in Moments /\ Told(shows)
  BY <1>1, <1>2, <1>3
<1> HIDE DEF now, early, shows
<1>6. ~shows.dark => Restored(shows) = MapCells(shows)
  BY <1>5, RestoresTheMap
<1>7. ~shows.dark => Restored(Frame(Basis(f, shown))) = {c \in Cells : shows.stock[c] = Map(c)}
  BY <1>5, <1>6 DEF MapCells
<1>8. QED
  BY <1>4, <1>7 DEF now, early, shows
---------------------------------------------------------------------------
(* The steps.                                                              *)

\* A frame of the run.
LEMMA TickKeeps == OracleInv /\ Tick => OracleInv'
<1> SUFFICES ASSUME OracleInv, Tick
             PROVE  OracleInv'
  OBVIOUS
<1>1. moments \in Seq(Moments) /\ Len(moments) \in 1..LastFrame + 1
  BY DEF OracleInv, GameRight
<1>2. Len(moments) <= LastFrame /\ LastFrame \in Nat
  BY OracleAssumption DEF Tick
<1>3. PICK m \in Changes(Last(moments)) : moments' = Append(moments, m)
  BY DEF Tick
<1>4. m \in Moments
  <2>1. Last(moments) \in Moments
    BY <1>1, ElementOfSeq DEF Last
  <2>2. QED
    BY <1>3, <2>1, ChangesAreMoments
<1>5. UNCHANGED <<asked, shots, todo, compared, result>>
  BY DEF Tick
<1>6. GameRight'
  <2>1. moments' \in Seq(Moments) /\ Len(moments') = Len(moments) + 1
    BY <1>1, <1>3, <1>4, AppendProperties
  <2>2. QED
    BY <1>1, <1>2, <2>1 DEF GameRight
<1>7. AskedRight' /\ LookedAt'
  BY <1>5 DEF OracleInv, AskedRight, LookedAt, have, Companion
<1>8. ResultRight'
  <2>1. ~RunIsOver
    BY <1>1, <1>2 DEF RunIsOver
  <2>2. result = NotComparable
    BY <2>1 DEF OracleInv, ResultRight
  <2>3. QED
    BY <1>5, <2>2 DEF ResultRight, VerdictRight, NotComparable
<1>9. QED
  BY <1>6, <1>7, <1>8 DEF OracleInv

\* The frame looked at next is one of those left.
LEMMA NextFrame ==
  ASSUME LookedAt, todo # {}
  PROVE  Min(todo) \in todo /\ Min(todo) \in have /\ Min(todo) \in 0..LastFrame
<1>1. todo \in SUBSET Nat
  BY HaveFrames DEF LookedAt
<1>2. Min(todo) \in todo
  BY <1>1, MinOf
<1>3. QED
  BY <1>2, HaveFrames DEF LookedAt

\* A frame passed over.
LEMMA SkipKeeps == OracleInv /\ Skip => OracleInv'
<1> SUFFICES ASSUME OracleInv, Skip
             PROVE  OracleInv'
  OBVIOUS
<1> DEFINE f == Min(todo)
<1>1. /\ todo # {} /\ (f \notin shots \/ Companion(f)) /\ todo' = todo \ {f}
      /\ UNCHANGED <<moments, asked, shots, compared, result>>
  BY DEF Skip
<1>2. f \in todo
  BY <1>1, NextFrame DEF OracleInv
<1> HIDE DEF f
<1>3. GameRight' /\ AskedRight'
  BY <1>1 DEF OracleInv, GameRight, AskedRight
<1>4. LookedAt'
  BY <1>1, <1>2 DEF OracleInv, LookedAt, have, Companion
<1>5. ResultRight'
  BY <1>1 DEF OracleInv, ResultRight, VerdictRight, RunIsOver, Frame, have
<1>6. QED
  BY <1>3, <1>4, <1>5 DEF OracleInv

\* A frame compared.
LEMMA CompareKeeps == OracleInv /\ Compare => OracleInv'
<1> SUFFICES ASSUME OracleInv, Compare
             PROVE  OracleInv'
  OBVIOUS
<1> DEFINE f == Min(todo)
<1>1. /\ RunIsOver /\ todo # {} /\ ~Companion(f)
      /\ todo' = todo \ {f} /\ compared' = compared \cup {f}
      /\ UNCHANGED <<moments, asked, shots>>
  BY DEF Compare
<1>2. PICK shown \in Showable(f), h40 \in BOOLEAN, width \in {256, 320} :
        result' = IF Comparable(h40, width)
                  THEN [frame |-> f, shown |-> shown, exact |-> Exact(f, shown),
                        restored |-> Cardinality(Restored(Frame(Basis(f, shown))))]
                  ELSE NotComparable
  BY DEF Compare
<1>3. f \in todo /\ f \in have /\ f \in 0..LastFrame
  BY <1>1, NextFrame DEF OracleInv
<1> HIDE DEF f
<1>4. GameRight' /\ AskedRight'
  BY <1>1 DEF OracleInv, GameRight, AskedRight
<1>5. LookedAt'
  BY <1>1, <1>3 DEF OracleInv, LookedAt, have, Companion
<1>6. ResultRight'
  <2>1. CASE result' = NotComparable
    BY <2>1 DEF ResultRight, VerdictRight, NotComparable
  <2>2. CASE result' # NotComparable
    <3> DEFINE now == shown = Stock(Frame(f))
               early == f + 1 \in have /\ shown = Stock(Frame(f + 1))
               shows == IF early /\ ~now THEN Frame(f + 1) ELSE Frame(f)
    <3>1. /\ result'.frame = f /\ result'.shown = shown /\ result'.exact = Exact(f, shown)
          /\ result'.restored = Cardinality(Restored(Frame(Basis(f, shown))))
      BY <1>2, <2>2
    <3>2. Told(Frame(f)) /\ (f + 1 \in have => Told(Frame(f + 1))) =>
            /\ Exact(f, shown) <=> now \/ early
            /\ ~shows.dark => Restored(Frame(Basis(f, shown))) = {c \in Cells : shows.stock[c] = Map(c)}
      BY <1>1, <1>3, VerdictOn DEF OracleInv
    <3>3. RunIsOver' /\ \A g : Frame(g)' = Frame(g) /\ have' = have
      BY <1>1 DEF RunIsOver, Frame, have
    <3>4. VerdictRight'
      BY <3>1, <3>2, <3>3 DEF VerdictRight
    <3>5. QED
      BY <1>3, <3>1, <3>3, <3>4 DEF ResultRight
  <2>3. QED
    BY <2>1, <2>2
<1>7. QED
  BY <1>4, <1>5, <1>6 DEF OracleInv

\* Every step keeps the invariant.
LEMMA OracleSteps == OracleInv /\ [OracleNext]_oracle => OracleInv'
<1>1. ASSUME OracleInv, UNCHANGED oracle
      PROVE  OracleInv'
  BY <1>1 DEF oracle, OracleInv, GameRight, AskedRight, LookedAt, ResultRight, VerdictRight,
              RunIsOver, Frame, have, Companion
<1>2. QED
  BY <1>1, TickKeeps, SkipKeeps, CompareKeeps DEF OracleNext

\* When nothing is left to look at, every frame asked for has been compared but the
\* second in a stretch of states.
LEMMA AllSampled == OracleInv => SamplesCompared
<1> SUFFICES ASSUME OracleInv, todo = {}
             PROVE  /\ \A f \in asked : f \in compared <=> ~(f - 1 \in asked /\ f - 2 \notin have)
                    /\ \A f \in compared \ asked : f - 1 \in asked /\ f - 2 \in have
  BY DEF SamplesCompared
<1>1. asked \subseteq have /\ have \subseteq 0..LastFrame /\ asked \subseteq shots
  BY HaveFrames DEF OracleInv, AskedRight
<1>2. \A f \in have : f \in asked \/ f - 1 \in asked
  BY <1>1 DEF have
<1>3. \A f \in have : f \in compared \/ f \notin shots \/ Companion(f)
  BY DEF OracleInv, LookedAt
<1>4. compared \subseteq have /\ \A f \in compared : ~Companion(f)
  BY DEF OracleInv, LookedAt
<1>5. ASSUME NEW f \in have
      PROVE  Companion(f) <=> f - 1 \in asked /\ f - 2 \notin have
  <2>1. f \in Int /\ (f - 1) - 1 = f - 2
    BY <1>1
  <2>2. f - 1 \in have /\ f - 2 \notin have => f - 1 \in asked
    BY <1>1, <1>2, <2>1
  <2>3. QED
    BY <1>1, <2>2 DEF Companion
<1>6. ASSUME NEW f \in asked
      PROVE  f \in compared <=> ~(f - 1 \in asked /\ f - 2 \notin have)
  <2>1. f \in have /\ f \in shots
    BY <1>1
  <2>2. QED
    BY <1>3, <1>4, <1>5, <2>1
<1>7. ASSUME NEW f \in compared \ asked
      PROVE  f - 1 \in asked /\ f - 2 \in have
  <2>1. f \in have /\ ~Companion(f)
    BY <1>4
  <2>2. f - 1 \in asked
    BY <1>2, <2>1
  <2>3. QED
    BY <1>5, <2>1, <2>2
<1>8. QED
  BY <1>6, <1>7

\* In every run, whatever the game draws, however its sprites are linked and whatever
\* the build under test shows: a frame whose state and the next one's tell which
\* cells are the map's passes when and only when it shows what stock would have in
\* that frame or the next; and when none is left, all that were asked for have been
\* compared but the second in a stretch of states (mapscreen_oracle.py).
THEOREM OracleIsRight == OracleSpec => []OracleRight
<1>1. OracleInv => OracleRight
  BY AllSampled DEF OracleInv, ResultRight, OracleRight
<1>2. QED
  BY <1>1, OracleStarts, OracleSteps, PTL DEF OracleSpec

---------------------------------------------------------------------------
(* What scripts play.                                                      *)

\* What the frontend has played.
States == [frames : Seq(Nat), mask : Nat, saved : SUBSET (Nat \X Nat), on : BOOLEAN]

\* n frames with one mask.
Steady(n, mask) == [k \in 1..n |-> mask]

\* Frames with one mask are a sequence of masks.
LEMMA SteadyIs ==
  ASSUME NEW n \in Nat, NEW mask \in Nat
  PROVE  /\ Steady(n, mask) \in Seq(Nat) /\ Len(Steady(n, mask)) = n
         /\ \A k \in 1..n : Steady(n, mask)[k] = mask
<1>1. Steady(n, mask) \in [1..n -> Nat]
  BY DEF Steady
<1>2. QED
  BY <1>1 DEF Steady

\* They add their number to the frames before them.
LEMMA SteadyBehind ==
  \A s \in Seq(Nat), n, mask \in Nat :
    s \o Steady(n, mask) \in Seq(Nat) /\ Len(s \o Steady(n, mask)) = Len(s) + n
<1> TAKE s \in Seq(Nat), n, mask \in Nat
<1> DEFINE a == Steady(n, mask)
<1>1. a \in Seq(Nat) /\ Len(a) = n
  BY SteadyIs
<1> HIDE DEF a
<1>2. s \o a \in Seq(Nat) /\ Len(s \o a) = Len(s) + n
  BY <1>1, ConcatProperties
<1>3. QED
  BY <1>2 DEF a

\* Playing n frames, and m more, is playing their sum.
LEMMA SteadyOn ==
  \A s \in Seq(Nat), n, m, mask \in Nat :
    (s \o Steady(n, mask)) \o Steady(m, mask) = s \o Steady(n + m, mask)
<1> TAKE s \in Seq(Nat), n, m, mask \in Nat
<1> DEFINE a == Steady(n, mask)
           b == Steady(m, mask)
           c == Steady(n + m, mask)
<1>1. /\ a \in Seq(Nat) /\ Len(a) = n /\ \A k \in 1..n : a[k] = mask
      /\ b \in Seq(Nat) /\ Len(b) = m /\ \A k \in 1..m : b[k] = mask
  BY SteadyIs
<1>2. c \in Seq(Nat) /\ Len(c) = n + m /\ \A k \in 1..n + m : c[k] = mask
  <2>1. n + m \in Nat
    OBVIOUS
  <2>2. QED
    BY <2>1, SteadyIs
<1> HIDE DEF a, b, c
<1>3. /\ a \o b \in Seq(Nat) /\ Len(a \o b) = n + m
      /\ \A k \in 1..n + m : (a \o b)[k] = IF k <= n THEN a[k] ELSE b[k - n]
  BY <1>1, ConcatProperties
<1>4. \A k \in 1..n + m : (a \o b)[k] = c[k]
  <2> TAKE k \in 1..n + m
  <2>1. CASE k <= n
    BY <2>1, <1>1, <1>2, <1>3
  <2>2. CASE ~(k <= n)
    <3>1. k - n \in 1..m
      BY <2>2
    <3>2. QED
      BY <2>2, <3>1, <1>1, <1>2, <1>3
  <2>3. QED
    BY <2>1, <2>2
<1>5. a \o b = c
  BY <1>2, <1>3, <1>4, SeqEqual
<1>6. (s \o a) \o b = s \o (a \o b)
  BY <1>1, ConcatAssociative
<1>7. QED
  BY <1>5, <1>6 DEF a, b, c

\* No frames are an empty sequence.
LEMMA NoneSteady ==
  ASSUME NEW s \in Seq(Nat), NEW mask \in Nat
  PROVE  s \o Steady(0, mask) = s
<1>1. Steady(0, mask) = <<>>
  <2>1. Steady(0, mask) \in Seq(Nat) /\ Len(Steady(0, mask)) = 0
    BY SteadyIs
  <2>2. QED
    BY <2>1, EmptySeq
<1>2. QED
  BY <1>1, ConcatEmptySeq

\* A command leads from states to states.
LEMMA ObeyType ==
  ASSUME NEW st \in States, NEW l \in Commands
  PROVE  Obey(st, l) \in States
<1>1. /\ st.frames \in Seq(Nat) /\ st.mask \in Nat /\ st.saved \in SUBSET (Nat \X Nat)
      /\ st.on \in BOOLEAN /\ l.n \in Nat
  BY DEF States, Commands
<1>2. [k \in 1..l.n |-> st.mask] \in Seq(Nat)
  BY <1>1, SteadyIs DEF Steady
<1>3. st.frames \o [k \in 1..l.n |-> st.mask] \in Seq(Nat)
  BY <1>1, <1>2, ConcatProperties
<1>4. Len(st.frames) \in Nat
  BY <1>1, LenProperties
<1>5. Obey(st, l).frames \in Seq(Nat)
  BY <1>1, <1>3 DEF Obey
<1>6. Obey(st, l).mask \in Nat
  BY <1>1 DEF Obey
<1>7. Obey(st, l).saved \in SUBSET (Nat \X Nat)
  BY <1>1, <1>4 DEF Obey
<1>8. Obey(st, l).on \in BOOLEAN
  BY <1>1 DEF Obey
<1>9. QED
  BY <1>5, <1>6, <1>7, <1>8 DEF Obey, States

\* The states a script goes through.
LEMMA PlayedIs ==
  ASSUME NEW s \in Seq(Commands)
  PROVE  \E g \in [0..Len(s) -> States] :
           /\ g[0] = Power
           /\ \A k \in 1..Len(s) : g[k] = Obey(g[k - 1], s[k])
           /\ Played(s) = g[Len(s)]
<1> DEFINE n == Len(s)
           F == [k \in 1..n |-> [x \in States |-> Obey(x, s[k])]]
           Is(f) == f = [k \in 0..n |-> IF k = 0 THEN Power ELSE Obey(f[k - 1], s[k])]
           c == CHOOSE f : Is(f)
<1>1. Power \in States
  BY EmptySeq DEF Power, States
<1>2. n \in Nat /\ \A k \in 1..n : s[k] \in Commands
  BY LenProperties, ElementOfSeq
<1>3. Played(s) = c[n]
  BY DEF Played
<1> HIDE DEF n
<1>4. F \in [1..n -> [States -> States]]
  BY <1>2, ObeyType
<1>5. PICK g \in [0..n -> States] : g[0] = Power /\ \A k \in 1..n : g[k] = F[k][g[k - 1]]
  <2> HIDE DEF F
  <2>1. Recursive(n, States, Power, F) # {}
    BY <1>1, <1>2, <1>4, Recursion
  <2>2. QED
    BY <2>1 DEF Recursive
<1>6. \A k \in 1..n : g[k] = Obey(g[k - 1], s[k])
  <2> TAKE k \in 1..n
  <2>1. k - 1 \in 0..n
    BY <1>2
  <2>2. g[k - 1] \in States /\ g[k] = F[k][g[k - 1]]
    BY <1>5, <2>1
  <2>3. QED
    BY <2>2
<1>7. Is(g)
  <2>1. g = [k \in 0..n |-> g[k]]
    BY <1>5
  <2>2. \A k \in 0..n : g[k] = IF k = 0 THEN Power ELSE Obey(g[k - 1], s[k])
    BY <1>2, <1>5, <1>6
  <2>3. QED
    BY <2>1, <2>2
<1>8. Is(c)
  <2> HIDE DEF Is
  <2> QED
    BY <1>7
<1>9. \A k \in 0..n : c[k] = IF k = 0 THEN Power ELSE Obey(c[k - 1], s[k])
  <2> HIDE DEF c
  <2> QED
    BY <1>8
<1> HIDE DEF F, Is, c
<1> DEFINE S == {k \in Nat : k <= n => c[k] = g[k]}
<1>10. \A k \in Nat : k \in S
  <2>1. 0 \in S
    BY <1>2, <1>5, <1>9
  <2>2. ASSUME NEW k \in Nat, k \in S
        PROVE  k + 1 \in S
    <3>1. SUFFICES ASSUME k + 1 <= n
                   PROVE  c[k + 1] = g[k + 1]
      OBVIOUS
    <3>2. k + 1 \in 1..n /\ k + 1 \in 0..n /\ (k + 1) - 1 = k
      BY <1>2, <3>1
    <3>3. c[k] = g[k]
      BY <1>2, <2>2, <3>1
    <3>4. QED
      BY <1>6, <1>9, <3>2, <3>3
  <2> HIDE DEF S
  <2>3. QED
    BY <2>1, <2>2, Induction
<1>11. c[n] = g[n]
  BY <1>2, <1>10
<1>12. QED
  BY <1>3, <1>5, <1>6, <1>11 DEF n

\* A script that has no line plays nothing, and one more line is obeyed at its end.
LEMMA PlayedNext ==
  /\ Played(<<>>) = Power
  /\ \A s \in Seq(Commands), l \in Commands : Played(Append(s, l)) = Obey(Played(s), l)
<1>1. Played(<<>>) = Power
  <2>1. <<>> \in Seq(Commands) /\ Len(<<>>) = 0
    BY EmptySeq
  <2>2. QED
    BY <2>1, PlayedIs
<1>2. ASSUME NEW s \in Seq(Commands), NEW l \in Commands
      PROVE  Played(Append(s, l)) = Obey(Played(s), l)
  <2> DEFINE t == Append(s, l)
             n == Len(s)
  <2>1. /\ t \in Seq(Commands) /\ Len(t) = n + 1 /\ n \in Nat
        /\ \A k \in 1..n : t[k] = s[k]
        /\ t[n + 1] = l
    BY AppendProperties, LenProperties
  <2>2. PICK g : /\ g[0] = Power
                 /\ \A k \in 1..n : g[k] = Obey(g[k - 1], s[k])
                 /\ Played(s) = g[n]
    BY PlayedIs
  <2>3. PICK h : /\ h[0] = Power
                 /\ \A k \in 1..n + 1 : h[k] = Obey(h[k - 1], t[k])
                 /\ Played(t) = h[n + 1]
    <3> HIDE DEF t
    <3> QED
      BY <2>1, PlayedIs
  <2> HIDE DEF t, n
  <2> DEFINE S == {k \in Nat : k <= n => g[k] = h[k]}
  <2>4. \A k \in Nat : k \in S
    <3>1. 0 \in S
      BY <2>2, <2>3
    <3>2. ASSUME NEW k \in Nat, k \in S
          PROVE  k + 1 \in S
      <4>1. SUFFICES ASSUME k + 1 <= n
                     PROVE  g[k + 1] = h[k + 1]
        OBVIOUS
      <4>2. k + 1 \in 1..n /\ k + 1 \in 1..n + 1 /\ (k + 1) - 1 = k
        BY <2>1, <4>1
      <4>3. g[k] = h[k] /\ t[k + 1] = s[k + 1]
        BY <2>1, <3>2, <4>1, <4>2
      <4>4. QED
        BY <2>2, <2>3, <4>2, <4>3
    <3> HIDE DEF S
    <3>3. QED
      BY <3>1, <3>2, Induction
  <2>5. g[n] = h[n]
    BY <2>1, <2>4
  <2>6. n + 1 \in 1..n + 1 /\ (n + 1) - 1 = n
    BY <2>1
  <2>7. Played(t) = Obey(h[n], l)
    BY <2>1, <2>3, <2>6
  <2>8. QED
    BY <2>2, <2>5, <2>7 DEF t
<1>3. QED
  BY <1>1, <1>2

\* What a script has played is a state.
LEMMA PlayedType ==
  ASSUME NEW s \in Seq(Commands)
  PROVE  Played(s) \in States
<1>1. PICK g \in [0..Len(s) -> States] : Played(s) = g[Len(s)]
  BY PlayedIs
<1>2. Len(s) \in 0..Len(s)
  BY LenProperties
<1>3. QED
  BY <1>1, <1>2

\* The parts of what a script has played.
LEMMA PlayedParts ==
  ASSUME NEW s \in Seq(Commands)
  PROVE  /\ Played(s).frames \in Seq(Nat) /\ Played(s).mask \in Nat
         /\ Played(s).saved \in SUBSET (Nat \X Nat) /\ Played(s).on \in BOOLEAN
         /\ Len(Played(s).frames) \in Nat
<1>1. /\ Played(s).frames \in Seq(Nat) /\ Played(s).mask \in Nat
      /\ Played(s).saved \in SUBSET (Nat \X Nat) /\ Played(s).on \in BOOLEAN
  BY PlayedType DEF States
<1>2. QED
  BY <1>1, LenProperties

\* A run behind a script plays its frames with the mask of the script; a run of none
\* is not written.
LEMMA WithRunPlays ==
  ASSUME NEW s \in Seq(Commands), NEW n \in Nat, Played(s).on
  PROVE  /\ WithRun(s, n) \in Seq(Commands)
         /\ Played(WithRun(s, n)).frames = Played(s).frames \o Steady(n, Played(s).mask)
         /\ Played(WithRun(s, n)).mask = Played(s).mask
         /\ Played(WithRun(s, n)).saved = Played(s).saved
         /\ Played(WithRun(s, n)).on
<1>1. CASE n = 0
  <2>1. WithRun(s, n) = s
    BY <1>1 DEF WithRun
  <2>2. Played(s).frames \o Steady(n, Played(s).mask) = Played(s).frames
    BY <1>1, PlayedParts, NoneSteady
  <2>3. QED
    BY <2>1, <2>2
<1>2. CASE n # 0
  <2> DEFINE l == Command("run", n)
  <2>1. l \in Commands /\ l.op = "run" /\ l.n = n
    BY DEF Command, Commands
  <2> HIDE DEF l
  <2>2. WithRun(s, n) = Append(s, l)
    BY <1>2 DEF WithRun, l
  <2>3. Append(s, l) \in Seq(Commands) /\ Played(Append(s, l)) = Obey(Played(s), l)
    BY <2>1, AppendProperties, PlayedNext
  <2>4. /\ Obey(Played(s), l).frames = Played(s).frames \o Steady(l.n, Played(s).mask)
        /\ Obey(Played(s), l).mask = Played(s).mask
        /\ Obey(Played(s), l).saved = Played(s).saved
    BY <2>1 DEF Obey, Steady
  <2>5. Obey(Played(s), l).on
    BY <2>1 DEF Obey
  <2>6. QED
    BY <2>1, <2>2, <2>3, <2>4, <2>5
<1>3. QED
  BY <1>1, <1>2

\* A save notes the frame it is obeyed at.
LEMMA SavePlays ==
  ASSUME NEW s \in Seq(Commands), NEW f \in Nat, Played(s).on
  PROVE  LET t == Append(s, Command("save", f))
         IN /\ t \in Seq(Commands)
            /\ Played(t).frames = Played(s).frames
            /\ Played(t).mask = Played(s).mask
            /\ Played(t).saved = Played(s).saved \cup {<<f, Len(Played(s).frames)>>}
            /\ Played(t).on
<1> DEFINE l == Command("save", f)
<1>1. l \in Commands /\ l.op = "save" /\ l.n = f
  BY DEF Command, Commands
<1> HIDE DEF l
<1>2. Append(s, l) \in Seq(Commands) /\ Played(Append(s, l)) = Obey(Played(s), l)
  BY <1>1, AppendProperties, PlayedNext
<1>3. /\ Obey(Played(s), l).frames = Played(s).frames
      /\ Obey(Played(s), l).mask = Played(s).mask
      /\ Obey(Played(s), l).saved = Played(s).saved \cup {<<l.n, Len(Played(s).frames)>>}
  BY <1>1 DEF Obey
<1>4. Obey(Played(s), l).on
  BY <1>1 DEF Obey
<1>5. QED
  BY <1>1, <1>2, <1>3, <1>4 DEF l

---------------------------------------------------------------------------
(* The game.                                                               *)

\* a is the beginning of b.
Begins(a, b) == Len(a) <= Len(b) /\ \A k \in 1..Len(a) : a[k] = b[k]

\* What is played first is the beginning.
LEMMA BeginsConcat ==
  ASSUME NEW a \in Seq(Nat), NEW c \in Seq(Nat)
  PROVE  Begins(a, a \o c)
<1>1. /\ Len(a \o c) = Len(a) + Len(c) /\ Len(a) \in Nat /\ Len(c) \in Nat
      /\ \A k \in 1..Len(a) + Len(c) : (a \o c)[k] = IF k <= Len(a) THEN a[k] ELSE c[k - Len(a)]
  BY ConcatProperties, LenProperties
<1>2. \A k \in 1..Len(a) : a[k] = (a \o c)[k]
  BY <1>1
<1>3. QED
  BY <1>1, <1>2 DEF Begins

\* A command takes nothing back.
LEMMA ObeyBegins ==
  ASSUME NEW st \in States, NEW l \in Commands
  PROVE  Begins(st.frames, Obey(st, l).frames)
<1>1. st.frames \in Seq(Nat) /\ st.mask \in Nat /\ l.n \in Nat
  BY DEF States, Commands
<1>2. Len(st.frames) \in Nat
  BY <1>1, LenProperties
<1>3. CASE st.on /\ l.op = "run"
  <2>1. Obey(st, l).frames = st.frames \o Steady(l.n, st.mask)
    BY <1>3 DEF Obey, Steady
  <2>2. Steady(l.n, st.mask) \in Seq(Nat)
    BY <1>1, SteadyIs
  <2>3. QED
    BY <1>1, <2>1, <2>2, BeginsConcat
<1>4. CASE ~(st.on /\ l.op = "run")
  <2>1. Obey(st, l).frames = st.frames
    BY <1>4 DEF Obey
  <2>2. QED
    BY <1>2, <2>1 DEF Begins
<1>5. QED
  BY <1>3, <1>4

\* The first lines of a script, and those with the next.
LEMMA FirstLines ==
  ASSUME NEW s \in Seq(Commands)
  PROVE  /\ Len(s) \in Nat
         /\ \A k \in 0..Len(s) : SubSeq(s, 1, k) \in Seq(Commands) /\ Len(SubSeq(s, 1, k)) = k
         /\ SubSeq(s, 1, 0) = <<>>
         /\ SubSeq(s, 1, Len(s)) = s
         /\ \A k \in 0..Len(s) - 1 :
              s[k + 1] \in Commands /\ SubSeq(s, 1, k + 1) = Append(SubSeq(s, 1, k), s[k + 1])
<1>1. Len(s) \in Nat /\ \A k \in 1..Len(s) : s[k] \in Commands
  BY LenProperties, ElementOfSeq
<1>2. \A k \in 0..Len(s) :
        /\ SubSeq(s, 1, k) \in Seq(Commands) /\ Len(SubSeq(s, 1, k)) = k
        /\ \A i \in 1..k : SubSeq(s, 1, k)[i] = s[i]
  <2> TAKE k \in 0..Len(s)
  <2>1. k \in Int /\ 1 \in Int /\ \A i \in 1..k : s[i] \in Commands
    BY <1>1
  <2>2. /\ SubSeq(s, 1, k) \in Seq(Commands)
        /\ Len(SubSeq(s, 1, k)) = IF 1 <= k THEN k - 1 + 1 ELSE 0
        /\ \A i \in 1..k - 1 + 1 : SubSeq(s, 1, k)[i] = s[1 + i - 1]
    BY <2>1, SubSeqProperties
  <2>3. k - 1 + 1 = k /\ \A i \in 1..k : 1 + i - 1 = i
    BY <1>1
  <2>4. QED
    BY <1>1, <2>2, <2>3
<1>3. SubSeq(s, 1, 0) = <<>>
  BY SubSeqEmpty
<1>4. SubSeq(s, 1, Len(s)) = s
  BY SubSeqFull
<1>5. ASSUME NEW k \in 0..Len(s) - 1
      PROVE  s[k + 1] \in Commands /\ SubSeq(s, 1, k + 1) = Append(SubSeq(s, 1, k), s[k + 1])
  <2> DEFINE a == SubSeq(s, 1, k)
             b == SubSeq(s, 1, k + 1)
             c == Append(a, s[k + 1])
  <2>1. k + 1 \in 1..Len(s) /\ k + 1 \in 0..Len(s) /\ k \in 0..Len(s)
    BY <1>1
  <2>2. s[k + 1] \in Commands
    BY <1>1, <2>1
  <2>3. /\ a \in Seq(Commands) /\ Len(a) = k /\ \A i \in 1..k : a[i] = s[i]
        /\ b \in Seq(Commands) /\ Len(b) = k + 1 /\ \A i \in 1..k + 1 : b[i] = s[i]
    BY <1>2, <2>1
  <2> HIDE DEF a, b
  <2>4. /\ c \in Seq(Commands) /\ Len(c) = k + 1
        /\ \A i \in 1..k : c[i] = a[i]
        /\ c[k + 1] = s[k + 1]
    BY <2>2, <2>3, AppendProperties
  <2> HIDE DEF c
  <2>5. \A i \in 1..k + 1 : b[i] = c[i]
    BY <2>1, <2>3, <2>4
  <2>6. b = c
    BY <2>3, <2>4, <2>5, SeqEqual
  <2>7. QED
    BY <2>2, <2>6 DEF a, b, c
<1>6. QED
  BY <1>1, <1>2, <1>3, <1>4, <1>5

\* What the next line does.
LEMMA LinesNext ==
  ASSUME NEW s \in Seq(Commands), NEW k \in 0..Len(s) - 1
  PROVE  /\ s[k + 1] \in Commands /\ Played(SubSeq(s, 1, k)) \in States
         /\ Played(SubSeq(s, 1, k + 1)) = Obey(Played(SubSeq(s, 1, k)), s[k + 1])
<1>1. k \in 0..Len(s)
  BY LenProperties
<1>2. /\ s[k + 1] \in Commands /\ SubSeq(s, 1, k) \in Seq(Commands)
      /\ SubSeq(s, 1, k + 1) = Append(SubSeq(s, 1, k), s[k + 1])
  BY <1>1, FirstLines
<1>3. QED
  BY <1>2, PlayedType, PlayedNext

\* What the first lines of a script play is the beginning of what it plays.
LEMMA GameBegins ==
  ASSUME NEW s \in Seq(Commands)
  PROVE  \A k \in 0..Len(s) : Begins(Played(SubSeq(s, 1, k)).frames, Played(s).frames)
<1> DEFINE n == Len(s)
           P(k) == Played(SubSeq(s, 1, k)).frames
           S == {d \in Nat : d <= n => Begins(P(n - d), P(n))}
<1>1. n \in Nat /\ P(n) = Played(s).frames
  BY FirstLines
<1>2. \A k \in 0..n : Len(P(k)) \in Nat
  BY FirstLines, PlayedParts
<1>3. \A k \in 0..n - 1 : Begins(P(k), P(k + 1))
  BY LinesNext, ObeyBegins
<1> HIDE DEF n, P
<1>4. 0 \in S
  <2>1. n - 0 = n /\ n \in 0..n
    BY <1>1
  <2>2. QED
    BY <1>1, <1>2, <2>1 DEF Begins
<1>5. ASSUME NEW d \in Nat, d \in S
      PROVE  d + 1 \in S
  <2>1. SUFFICES ASSUME d + 1 <= n
                 PROVE  Begins(P(n - (d + 1)), P(n))
    OBVIOUS
  <2> DEFINE k == n - (d + 1)
  <2>2. k \in 0..n - 1 /\ k + 1 = n - d /\ k \in 0..n /\ k + 1 \in 0..n /\ n \in 0..n
    BY <1>1, <2>1
  <2>3. Begins(P(k + 1), P(n))
    BY <1>1, <1>5, <2>1, <2>2
  <2> HIDE DEF k
  <2>4. Begins(P(k), P(k + 1))
    BY <1>3, <2>2
  <2>5. Len(P(k)) \in Nat /\ Len(P(k + 1)) \in Nat /\ Len(P(n)) \in Nat
    BY <1>2, <2>2
  <2>6. Begins(P(k), P(n))
    BY <2>3, <2>4, <2>5 DEF Begins
  <2>7. QED
    BY <2>6 DEF k
<1>6. \A d \in Nat : d \in S
  <2> HIDE DEF S
  <2> QED
    BY <1>4, <1>5, Induction
<1>7. \A k \in 0..n : Begins(P(k), P(n))
  <2> TAKE k \in 0..n
  <2>1. n - k \in Nat /\ n - k <= n /\ n - (n - k) = k
    BY <1>1
  <2>2. n - k \in S
    BY <1>6, <2>1
  <2>3. QED
    BY <2>1, <2>2
<1>8. QED
  BY <1>1, <1>7 DEF n, P

\* A script goes on as long as it has lines.
LEMMA GameIsOn ==
  ASSUME NEW s \in Scripts
  PROVE  \A k \in 0..Len(s) - 1 : Played(SubSeq(s, 1, k)).on
<1> DEFINE S == {k \in Nat : k <= Len(s) - 1 => Played(SubSeq(s, 1, k)).on}
<1>1. s \in Seq(Commands) /\ Len(s) \in Nat
  BY CaptureAssumption, LenProperties
<1>2. \A k \in 1..Len(s) : s[k].op = "quit" => k = Len(s)
  <2>1. DOMAIN s = 1..Len(s)
    BY <1>1, LenProperties
  <2>2. QED
    BY <2>1, CaptureAssumption
<1>3. 0 \in S
  <2>1. Played(SubSeq(s, 1, 0)) = Power
    BY <1>1, FirstLines, PlayedNext
  <2>2. Power.on
    BY DEF Power
  <2>3. QED
    BY <2>1, <2>2
<1>4. ASSUME NEW k \in Nat, k \in S
      PROVE  k + 1 \in S
  <2>1. SUFFICES ASSUME k + 1 <= Len(s) - 1
                 PROVE  Played(SubSeq(s, 1, k + 1)).on
    OBVIOUS
  <2>2. Played(SubSeq(s, 1, k)).on
    BY <1>1, <1>4, <2>1
  <2>3. k \in 0..Len(s) - 1 /\ k + 1 \in 1..Len(s) /\ k + 1 # Len(s)
    <3> HIDE DEF S
    <3> QED
      BY <1>1, <2>1
  <2>4. s[k + 1].op # "quit"
    BY <1>2, <2>3
  <2>5. Played(SubSeq(s, 1, k + 1)) = Obey(Played(SubSeq(s, 1, k)), s[k + 1])
    BY <1>1, <2>3, LinesNext
  <2>6. Obey(Played(SubSeq(s, 1, k)), s[k + 1]).on
    BY <2>2, <2>4 DEF Obey
  <2>7. QED
    BY <2>5, <2>6
<1>5. \A k \in Nat : k \in S
  <2> HIDE DEF S
  <2> QED
    BY <1>3, <1>4, Induction
<1>6. QED
  BY <1>1, <1>5

---------------------------------------------------------------------------
(* The scripts that are made.                                              *)

\* What the lines read so far play, and what the lines made so far do.
Before == Played(SubSeq(script, 1, read))
Replay == Played(made)
Owed == IF left = NoRun THEN 0 ELSE left
RunRead == \E k \in 1..read : script[k].op = "run"

CaptureTypes ==
  /\ script \in Scripts /\ made \in Seq(Commands)
  /\ saveAt \subseteq Nat /\ pending \subseteq saveAt
  /\ read \in 0..Len(script)
  /\ left \in Nat \cup {NoRun} /\ at \in Nat
  /\ finished \in BOOLEAN
  /\ finished => left = NoRun
  /\ harness \in {"save", "cut"}

\* As long as the script is read, the lines made have played what was read, but for
\* what is left of a run.
InStep ==
  /\ Replay.on
  /\ harness = "save" \/ ~finished =>
       /\ at = Len(Replay.frames)
       /\ Replay.mask = Before.mask
       /\ Before.frames = Replay.frames \o Steady(Owed, Replay.mask)

\* The frames that are behind have been saved, and those pending are ahead.
SavedBehind ==
  harness = "save" =>
    /\ Replay.saved = {<<f, f>> : f \in saveAt \ pending}
    /\ \A f \in saveAt \ pending : f <= at
    /\ \A f \in pending : f >= at
    /\ left = NoRun /\ RunRead => \A f \in pending : f > at
    /\ finished => pending = {} \/ read = Len(script)

\* The cut is ahead, until the script made stops there or with the game.
CutAhead ==
  harness = "cut" =>
    /\ \E f \in Nat : saveAt = {f}
    /\ left = NoRun /\ pending = {} /\ Replay.saved = {}
    /\ ~finished => at <= Min(saveAt)
    /\ finished =>
         LET game == Played(script).frames
         IN /\ Begins(Replay.frames, game)
            /\ Len(Replay.frames) = IF Min(saveAt) <= Len(game) THEN Min(saveAt) ELSE Len(game)

CaptureInv == CaptureTypes /\ InStep /\ SavedBehind /\ CutAhead

\* What the types say of the scripts.
LEMMA ScriptFacts ==
  ASSUME CaptureTypes
  PROVE  /\ script \in Seq(Commands) /\ Len(script) \in Nat /\ read \in Nat
         /\ SubSeq(script, 1, read) \in Seq(Commands)
         /\ Before.frames \in Seq(Nat) /\ Before.mask \in Nat /\ Len(Before.frames) \in Nat
         /\ Replay.frames \in Seq(Nat) /\ Replay.mask \in Nat /\ Len(Replay.frames) \in Nat
         /\ saveAt \in SUBSET Nat /\ pending \in SUBSET Nat
<1>1. script \in Seq(Commands)
  BY CaptureAssumption DEF CaptureTypes
<1>2. Len(script) \in Nat /\ SubSeq(script, 1, read) \in Seq(Commands)
  BY <1>1, FirstLines DEF CaptureTypes
<1>3. Before.frames \in Seq(Nat) /\ Before.mask \in Nat /\ Len(Before.frames) \in Nat
  BY <1>2, PlayedParts DEF Before
<1>4. Replay.frames \in Seq(Nat) /\ Replay.mask \in Nat /\ Len(Replay.frames) \in Nat
  BY PlayedParts DEF Replay, CaptureTypes
<1>5. QED
  BY <1>1, <1>2, <1>3, <1>4 DEF CaptureTypes

\* The line that is read, and what the game does there.
LEMMA LineRead ==
  ASSUME CaptureTypes, Reading
  PROVE  /\ line \in Commands /\ line.n \in Nat /\ line.op \in {"run", "joypad", "save", "quit"}
         /\ read + 1 \in 0..Len(script)
         /\ Before.on
         /\ Played(SubSeq(script, 1, read + 1)) = Obey(Before, line)
<1>1. read \in 0..Len(script) - 1 /\ read + 1 \in 0..Len(script)
  BY ScriptFacts DEF CaptureTypes, Reading
<1>2. line \in Commands /\ Played(SubSeq(script, 1, read + 1)) = Obey(Before, line)
  BY <1>1, ScriptFacts, LinesNext DEF line, Before
<1>3. Before.on
  BY <1>1, GameIsOn DEF CaptureTypes, Before
<1>4. line.n \in Nat /\ line.op \in {"run", "joypad", "save", "quit"}
  BY <1>2 DEF Commands
<1>5. QED
  BY <1>1, <1>2, <1>3, <1>4

\* Nothing is made or read at first.
LEMMA CaptureStarts == CaptureInit => CaptureInv
<1> SUFFICES ASSUME CaptureInit
             PROVE  CaptureInv
  OBVIOUS
<1>1. script \in Scripts /\ script \in Seq(Commands) /\ Len(script) \in Nat
  BY CaptureAssumption, LenProperties DEF CaptureInit
<1>2. read = 0 /\ left = NoRun /\ at = 0 /\ made = <<>> /\ finished = FALSE
  BY DEF CaptureInit
<1>3. Before = Power /\ Replay = Power
  BY <1>1, <1>2, FirstLines, PlayedNext DEF Before, Replay
<1>4. Power.frames = <<>> /\ Power.mask = 0 /\ Power.saved = {} /\ Power.on
  BY DEF Power
<1>5. /\ saveAt \subseteq Nat /\ pending \subseteq saveAt /\ harness \in {"save", "cut"}
      /\ harness = "save" => pending = saveAt
      /\ harness = "cut" => pending = {} /\ \E f \in Nat : saveAt = {f}
  BY CaptureAssumption DEF CaptureInit
<1>6. CaptureTypes
  <2>1. made \in Seq(Commands)
    BY <1>2, EmptySeq
  <2>2. read \in 0..Len(script) /\ left \in Nat \cup {NoRun} /\ at \in Nat
    BY <1>1, <1>2
  <2>3. finished \in BOOLEAN /\ (finished => left = NoRun)
    BY <1>2
  <2>4. QED
    BY <1>1, <1>5, <2>1, <2>2, <2>3 DEF CaptureTypes
<1>7. InStep
  <2>1. Len(<<>>) = 0 /\ <<>> \in Seq(Nat)
    BY EmptySeq
  <2>2. <<>> \o Steady(0, 0) = <<>>
    BY <2>1, NoneSteady
  <2>3. Owed = 0
    BY <1>2 DEF Owed
  <2>4. Replay.on
    BY <1>3, <1>4
  <2>5. /\ at = Len(Replay.frames)
        /\ Replay.mask = Before.mask
        /\ Before.frames = Replay.frames \o Steady(Owed, Replay.mask)
    BY <1>2, <1>3, <1>4, <2>1, <2>2, <2>3
  <2>6. QED
    BY <2>4, <2>5 DEF InStep
<1>8. SavedBehind
  <2>1. ~RunRead
    BY <1>2 DEF RunRead
  <2>2. QED
    BY <1>2, <1>3, <1>4, <1>5, <2>1 DEF SavedBehind
<1>9. CutAhead
  <2> SUFFICES ASSUME harness = "cut"
               PROVE  /\ \E f \in Nat : saveAt = {f}
                      /\ left = NoRun /\ pending = {} /\ Replay.saved = {}
                      /\ at <= Min(saveAt)
    BY <1>2 DEF CutAhead
  <2>1. PICK f \in Nat : saveAt = {f}
    BY <1>5
  <2>2. Min(saveAt) = f
    BY <2>1, MinIs
  <2>3. QED
    BY <1>2, <1>3, <1>4, <1>5, <2>1, <2>2
<1>10. QED
  BY <1>6, <1>7, <1>8, <1>9 DEF CaptureInv

\* What is left of no run, and of a run.
LEMMA OwedIs ==
  ASSUME CaptureTypes
  PROVE  Owed \in Nat /\ (left = NoRun => Owed = 0) /\ (left # NoRun => Owed = left)
BY DEF Owed, CaptureTypes, NoRun

\* A save or quit of the script changes nothing.
LEMMA SkipLineKeeps == CaptureInv /\ SkipLine => CaptureInv'
<1> SUFFICES ASSUME CaptureInv, SkipLine
             PROVE  CaptureInv'
  OBVIOUS
<1>1. CaptureTypes /\ Reading
  BY DEF CaptureInv, SkipLine
<1>2. /\ script' = script /\ harness' = harness /\ saveAt' = saveAt /\ left' = left
      /\ pending' = pending /\ at' = at /\ made' = made /\ finished' = finished
      /\ read' = read + 1 /\ line.op \in {"save", "quit"}
  BY DEF SkipLine, IsInput
<1>3. /\ line \in Commands /\ read + 1 \in 0..Len(script)
      /\ Played(SubSeq(script, 1, read + 1)) = Obey(Before, line)
  BY <1>1, LineRead
<1>4. Replay' = Replay /\ Owed' = Owed /\ Before' = Obey(Before, line)
  BY <1>2, <1>3 DEF Replay, Owed, Before
<1>5. Obey(Before, line).frames = Before.frames /\ Obey(Before, line).mask = Before.mask
  BY <1>2 DEF Obey
<1>6. CaptureTypes'
  BY <1>1, <1>2, <1>3 DEF CaptureTypes
<1>7. InStep'
  <2>1. Before'.frames = Before.frames /\ Before'.mask = Before.mask
    BY <1>4, <1>5
  <2>2. QED
    BY <1>2, <1>4, <2>1 DEF InStep, CaptureInv
<1>8. SavedBehind'
  <2>1. RunRead' => RunRead
    <3> SUFFICES ASSUME NEW k \in 1..read + 1, script[k].op = "run"
                 PROVE  RunRead
      BY <1>2 DEF RunRead
    <3>1. k # read + 1
      BY <1>2 DEF line
    <3>2. k \in 1..read
      BY <1>1, <3>1, ScriptFacts
    <3>3. QED
      BY <3>2 DEF RunRead
  <2>2. finished = FALSE
    BY <1>1 DEF Reading, CaptureTypes
  <2>3. QED
    BY <1>2, <1>4, <2>1, <2>2 DEF SavedBehind, CaptureInv
<1>9. CutAhead'
  <2>1. finished = FALSE
    BY <1>1 DEF Reading, CaptureTypes
  <2>2. QED
    BY <1>2, <1>4, <2>1 DEF CutAhead, CaptureInv
<1>10. QED
  BY <1>6, <1>7, <1>8, <1>9 DEF CaptureInv

\* A mask that is copied is set in both.
LEMMA CopyLineKeeps == CaptureInv /\ CopyLine => CaptureInv'
<1> SUFFICES ASSUME CaptureInv, CopyLine
             PROVE  CaptureInv'
  OBVIOUS
<1>1. CaptureTypes /\ Reading /\ finished = FALSE /\ left = NoRun
  BY DEF CaptureInv, CopyLine, Reading, CaptureTypes
<1>2. /\ script' = script /\ harness' = harness /\ saveAt' = saveAt /\ left' = left
      /\ pending' = pending /\ at' = at /\ finished' = finished
      /\ made' = Append(made, line) /\ read' = read + 1
  BY DEF CopyLine
<1>3. /\ line \in Commands /\ line.n \in Nat /\ read + 1 \in 0..Len(script) /\ Before.on
      /\ Played(SubSeq(script, 1, read + 1)) = Obey(Before, line)
  BY <1>1, LineRead
<1>4. line.op = "joypad"
  BY <1>1, LineRead DEF CopyLine, IsInput
<1>5. made' \in Seq(Commands) /\ Replay' = Obey(Replay, line) /\ Before' = Obey(Before, line)
  <2>1. made \in Seq(Commands)
    BY <1>1 DEF CaptureTypes
  <2>2. QED
    BY <1>2, <1>3, <2>1, AppendProperties, PlayedNext DEF Replay, Before
<1>6. Owed' = Owed
  BY <1>2 DEF Owed
<1>7. Replay.on
  BY DEF CaptureInv, InStep
<1>8. Obey(Before, line).frames = Before.frames /\ Obey(Before, line).mask = line.n
  BY <1>3, <1>4 DEF Obey
<1>9. /\ Obey(Replay, line).frames = Replay.frames /\ Obey(Replay, line).mask = line.n
      /\ Obey(Replay, line).saved = Replay.saved
  BY <1>7, <1>4 DEF Obey
<1>10. Obey(Replay, line).on
  BY <1>7, <1>4 DEF Obey
<1>11. CaptureTypes'
  BY <1>1, <1>2, <1>3, <1>5 DEF CaptureTypes
<1>12. InStep'
  <2>1. /\ at' = Len(Replay'.frames)
        /\ Replay'.mask = Before'.mask
    BY <1>1, <1>2, <1>5, <1>8, <1>9 DEF CaptureInv, InStep
  <2>2. Before.frames = Replay.frames
    BY <1>1, OwedIs, ScriptFacts, NoneSteady DEF CaptureInv, InStep
  <2>3. Owed' = 0
    BY <1>1, <1>6, OwedIs
  <2>4. Replay.frames \o Steady(0, line.n) = Replay.frames
    BY <1>1, <1>3, ScriptFacts, NoneSteady
  <2>5. Before'.frames = Replay'.frames \o Steady(Owed', Replay'.mask)
    BY <1>5, <1>8, <1>9, <2>2, <2>3, <2>4
  <2>6. Replay'.on
    BY <1>5, <1>10
  <2>7. QED
    BY <2>1, <2>5, <2>6 DEF InStep
<1>13. SavedBehind'
  <2>1. RunRead' => RunRead
    <3> SUFFICES ASSUME NEW k \in 1..read + 1, script[k].op = "run"
                 PROVE  RunRead
      BY <1>2 DEF RunRead
    <3>1. k # read + 1
      BY <1>4 DEF line
    <3>2. k \in 1..read
      BY <1>1, <3>1, ScriptFacts
    <3>3. QED
      BY <3>2 DEF RunRead
  <2>2. QED
    BY <1>1, <1>2, <1>5, <1>9, <2>1 DEF SavedBehind, CaptureInv
<1>14. CutAhead'
  BY <1>1, <1>2, <1>5, <1>9 DEF CutAhead, CaptureInv
<1>15. QED
  BY <1>11, <1>12, <1>13, <1>14 DEF CaptureInv

\* While nothing is left of a run, the lines made have played what was read.
LEMMA NothingOwed ==
  ASSUME CaptureInv, left = NoRun, harness = "save" \/ ~finished
  PROVE  Before.frames = Replay.frames
<1>1. Owed = 0
  BY OwedIs DEF CaptureInv
<1>2. Replay.frames \o Steady(0, Replay.mask) = Replay.frames
  BY ScriptFacts, NoneSteady DEF CaptureInv
<1>3. QED
  BY <1>1, <1>2 DEF CaptureInv, InStep

\* A run that is read is owed.
LEMMA RunKeeps == CaptureInv /\ Run => CaptureInv'
<1> SUFFICES ASSUME CaptureInv, Run
             PROVE  CaptureInv'
  OBVIOUS
<1>1. /\ CaptureTypes /\ Reading /\ finished = FALSE /\ left = NoRun /\ harness = "save"
      /\ line.op = "run"
  BY DEF CaptureInv, Run, Reading, CaptureTypes
<1>2. /\ script' = script /\ harness' = harness /\ saveAt' = saveAt /\ left' = line.n
      /\ pending' = pending /\ at' = at /\ finished' = finished /\ made' = made
      /\ read' = read + 1
  BY DEF Run
<1>3. /\ line.n \in Nat /\ read + 1 \in 0..Len(script) /\ Before.on
      /\ Played(SubSeq(script, 1, read + 1)) = Obey(Before, line)
  BY <1>1, LineRead
<1>4. left' # NoRun /\ Owed' = line.n
  BY <1>2, <1>3 DEF Owed, NoRun
<1>5. Replay' = Replay /\ Before' = Obey(Before, line)
  BY <1>2, <1>3 DEF Replay, Before
<1>6. /\ Obey(Before, line).frames = Before.frames \o Steady(line.n, Before.mask)
      /\ Obey(Before, line).mask = Before.mask
  BY <1>1, <1>3 DEF Obey, Steady
<1>7. CaptureTypes'
  BY <1>1, <1>2, <1>3 DEF CaptureTypes
<1>8. InStep'
  <2>1. /\ Replay.on /\ at = Len(Replay.frames) /\ Replay.mask = Before.mask
    BY <1>1 DEF CaptureInv, InStep
  <2>2. Before.frames = Replay.frames
    BY <1>1, NothingOwed
  <2>3. Before'.frames = Replay'.frames \o Steady(Owed', Replay'.mask)
    BY <1>4, <1>5, <1>6, <2>1, <2>2
  <2>4. Replay'.on
    BY <1>5, <2>1
  <2>5. at' = Len(Replay'.frames) /\ Replay'.mask = Before'.mask
    BY <1>2, <1>5, <1>6, <2>1
  <2>6. QED
    BY <2>3, <2>4, <2>5 DEF InStep
<1>9. SavedBehind'
  BY <1>1, <1>2, <1>4, <1>5 DEF SavedBehind, CaptureInv
<1>10. CutAhead'
  BY <1>1, <1>2 DEF CutAhead
<1>11. QED
  BY <1>7, <1>8, <1>9, <1>10 DEF CaptureInv

\* A run that is broken at the next frame pending goes on from there.
LEMMA BreakKeeps == CaptureInv /\ Break => CaptureInv'
<1> SUFFICES ASSUME CaptureInv, Break
             PROVE  CaptureInv'
  OBVIOUS
<1> DEFINE frame == Min(pending)
           step == frame - at
           run == WithRun(made, step)
<1>1. /\ CaptureTypes /\ left # NoRun /\ pending # {} /\ at + left >= frame
      /\ pending' = pending \ {frame} /\ left' = left - step /\ at' = frame
      /\ made' = Append(run, Command("save", frame))
      /\ script' = script /\ harness' = harness /\ saveAt' = saveAt /\ read' = read
      /\ finished' = finished
  BY DEF CaptureInv, Break, Due
<1>2. left \in Nat /\ at \in Nat /\ finished = FALSE /\ made \in Seq(Commands)
  <2> HIDE DEF frame, step, run
  <2>1. left \in Nat /\ at \in Nat /\ made \in Seq(Commands)
    BY <1>1 DEF CaptureTypes
  <2>2. left # NoRun
    BY <1>1
  <2>3. finished \in BOOLEAN /\ (finished => left = NoRun)
    BY DEF CaptureInv, CaptureTypes
  <2>4. finished = FALSE
    BY <2>2, <2>3
  <2>5. QED
    BY <2>1, <2>4
<1>3. harness = "save"
  BY <1>1 DEF CaptureInv, CutAhead, CaptureTypes
<1>4. frame \in pending /\ \A f \in pending : frame <= f
  BY <1>1, ScriptFacts, MinOf
<1>5. frame \in Nat /\ frame \in saveAt
  BY <1>1, <1>4 DEF CaptureTypes
<1>6. /\ Replay.saved = {<<f, f>> : f \in saveAt \ pending}
      /\ \A f \in saveAt \ pending : f <= at
      /\ \A f \in pending : f >= at
  BY <1>3 DEF CaptureInv, SavedBehind
<1>7. /\ Replay.on /\ at = Len(Replay.frames) /\ Replay.mask = Before.mask
      /\ Before.frames = Replay.frames \o Steady(left, Replay.mask)
  BY <1>1, <1>3, OwedIs DEF CaptureInv, InStep
<1>8. /\ Replay.frames \in Seq(Nat) /\ Replay.mask \in Nat /\ Len(Replay.frames) \in Nat
  BY <1>1, ScriptFacts
<1> HIDE DEF frame
<1>9. step \in Nat /\ left - step \in Nat /\ at + step = frame /\ step + (left - step) = left
  BY <1>1, <1>2, <1>4, <1>5, <1>6
<1> HIDE DEF step
<1>10. /\ run \in Seq(Commands) /\ Played(run).on
       /\ Played(run).frames = Replay.frames \o Steady(step, Replay.mask)
       /\ Played(run).mask = Replay.mask
       /\ Played(run).saved = Replay.saved
  BY <1>2, <1>7, <1>9, WithRunPlays DEF Replay
<1>11. Len(Replay.frames \o Steady(step, Replay.mask)) = frame
  <2>1. Len(Replay.frames \o Steady(step, Replay.mask)) = Len(Replay.frames) + step
    BY <1>8, <1>9, SteadyBehind, Zenon
  <2>2. QED
    BY <1>7, <1>9, <2>1
<1> HIDE DEF run
<1>12. /\ made' \in Seq(Commands) /\ Replay'.on
       /\ Replay'.frames = Replay.frames \o Steady(step, Replay.mask)
       /\ Replay'.mask = Replay.mask
       /\ Replay'.saved = Replay.saved \cup {<<frame, frame>>}
  <2> DEFINE t == Append(run, Command("save", frame))
  <2>1. /\ t \in Seq(Commands) /\ Played(t).on
        /\ Played(t).frames = Played(run).frames
        /\ Played(t).mask = Played(run).mask
        /\ Played(t).saved = Played(run).saved \cup {<<frame, Len(Played(run).frames)>>}
    BY <1>5, <1>10, SavePlays
  <2>2. Replay' = Played(t)
    BY <1>1 DEF Replay
  <2> HIDE DEF t
  <2>3. QED
    BY <1>1, <1>10, <1>11, <2>1, <2>2 DEF t
<1>13. left' # NoRun /\ Owed' = left - step
  BY <1>1, <1>9 DEF Owed, NoRun
<1>14. Before' = Before
  BY <1>1 DEF Before
<1>15. CaptureTypes'
  BY <1>1, <1>2, <1>5, <1>9, <1>12 DEF CaptureTypes
<1>16. InStep'
  <2>1. (Replay.frames \o Steady(step, Replay.mask)) \o Steady(left - step, Replay.mask)
          = Replay.frames \o Steady(left, Replay.mask)
    <3> DEFINE rest == left - step
    <3>1. rest \in Nat /\ step \in Nat /\ step + rest = left
      BY <1>9
    <3> HIDE DEF rest
    <3>2. (Replay.frames \o Steady(step, Replay.mask)) \o Steady(rest, Replay.mask)
            = Replay.frames \o Steady(step + rest, Replay.mask)
      BY <1>8, <3>1, SteadyOn, ZenonT(30)
    <3>3. QED
      BY <3>1, <3>2 DEF rest
  <2>2. Before'.frames = Replay'.frames \o Steady(Owed', Replay'.mask)
    BY <1>7, <1>12, <1>13, <1>14, <2>1
  <2>3. at' = Len(Replay'.frames) /\ Replay'.mask = Before'.mask
    BY <1>1, <1>7, <1>11, <1>12, <1>14
  <2>4. Replay'.on
    BY <1>12
  <2>5. QED
    BY <2>2, <2>3, <2>4 DEF InStep
<1>17. SavedBehind'
  <2>1. saveAt \ pending' = (saveAt \ pending) \cup {frame}
    BY <1>1, <1>4, <1>5
  <2>2. Replay'.saved = {<<f, f>> : f \in saveAt' \ pending'}
    BY <1>1, <1>6, <1>12, <2>1
  <2>3. \A f \in saveAt' \ pending' : f <= at'
    <3>1. at <= frame
      BY <1>4, <1>6
    <3>2. \A f \in saveAt : f \in Nat
      BY <1>1 DEF CaptureTypes
    <3>3. QED
      BY <1>1, <1>2, <1>5, <1>6, <2>1, <3>1, <3>2
  <2>4. \A f \in pending' : f >= at'
    BY <1>1, <1>4
  <2>5. QED
    BY <1>1, <1>2, <1>13, <2>2, <2>3, <2>4 DEF SavedBehind
<1>18. CutAhead'
  BY <1>1, <1>3 DEF CutAhead
<1>19. QED
  BY <1>15, <1>16, <1>17, <1>18 DEF CaptureInv

\* The rest of a run is played.
LEMMA RunOnKeeps == CaptureInv /\ RunOn => CaptureInv'
<1> SUFFICES ASSUME CaptureInv, RunOn
             PROVE  CaptureInv'
  OBVIOUS
<1>1. /\ CaptureTypes /\ left # NoRun /\ (pending = {} \/ ~(at + left >= Min(pending)))
      /\ pending' = pending /\ left' = NoRun /\ at' = at + left
      /\ made' = WithRun(made, left) /\ finished' = (pending = {})
      /\ script' = script /\ harness' = harness /\ saveAt' = saveAt /\ read' = read
  BY DEF CaptureInv, RunOn, Due
<1>2. left \in Nat /\ at \in Nat /\ made \in Seq(Commands)
  BY <1>1 DEF CaptureTypes
<1>3. harness = "save"
  BY <1>1 DEF CaptureInv, CutAhead, CaptureTypes
<1>4. /\ Replay.saved = {<<f, f>> : f \in saveAt \ pending}
      /\ \A f \in saveAt \ pending : f <= at
  BY <1>3 DEF CaptureInv, SavedBehind
<1>5. /\ Replay.on /\ at = Len(Replay.frames) /\ Replay.mask = Before.mask
      /\ Before.frames = Replay.frames \o Steady(left, Replay.mask)
  BY <1>1, <1>3, OwedIs DEF CaptureInv, InStep
<1>6. /\ Replay.frames \in Seq(Nat) /\ Replay.mask \in Nat
  BY <1>1, ScriptFacts
<1>7. /\ made' \in Seq(Commands) /\ Replay'.on
      /\ Replay'.frames = Replay.frames \o Steady(left, Replay.mask)
      /\ Replay'.mask = Replay.mask /\ Replay'.saved = Replay.saved
  <2>1. Replay' = Played(WithRun(made, left))
    BY <1>1 DEF Replay
  <2>2. QED
    BY <1>1, <1>2, <1>5, <2>1, WithRunPlays DEF Replay
<1>8. Owed' = 0 /\ Before' = Before
  BY <1>1 DEF Owed, Before
<1>9. CaptureTypes'
  BY <1>1, <1>2, <1>7 DEF CaptureTypes
<1>10. InStep'
  <2> DEFINE now == Replay.frames \o Steady(left, Replay.mask)
  <2>1. now \in Seq(Nat) /\ Len(now) = Len(Replay.frames) + left
    BY <1>2, <1>6, SteadyBehind, Zenon
  <2>2. Len(now) = at + left
    BY <1>5, <2>1
  <2> HIDE DEF now
  <2>3. now \o Steady(0, Replay.mask) = now
    BY <1>6, <2>1, NoneSteady
  <2>4. Before'.frames = Replay'.frames \o Steady(Owed', Replay'.mask)
    BY <1>5, <1>7, <1>8, <2>3 DEF now
  <2>5. at' = Len(Replay'.frames) /\ Replay'.mask = Before'.mask
    BY <1>1, <1>5, <1>7, <1>8, <2>2 DEF now
  <2>6. Replay'.on
    BY <1>7
  <2>7. QED
    BY <2>4, <2>5, <2>6 DEF InStep
<1>11. SavedBehind'
  <2>1. \A f \in saveAt' \ pending' : f <= at'
    <3>1. \A f \in saveAt : f \in Nat
      BY <1>1 DEF CaptureTypes
    <3>2. QED
      BY <1>1, <1>2, <1>4, <3>1
  <2>2. \A f \in pending' : f > at'
    <3> SUFFICES ASSUME NEW f \in pending
                 PROVE  f > at + left
      BY <1>1
    <3>1. Min(pending) \in pending /\ Min(pending) <= f
      BY <1>1, ScriptFacts, MinOf
    <3>2. Min(pending) \in Nat /\ f \in Nat
      BY <1>1, <3>1, ScriptFacts
    <3>3. ~(at + left >= Min(pending))
      BY <1>1
    <3>4. QED
      BY <1>2, <3>1, <3>2, <3>3
  <2>3. \A f \in pending' : f >= at'
    <3>1. \A f \in pending' : f \in Nat
      BY <1>1, ScriptFacts
    <3>2. at' \in Nat
      BY <1>1, <1>2
    <3>3. QED
      BY <2>2, <3>1, <3>2
  <2>4. finished' => pending' = {}
    BY <1>1
  <2>5. QED
    BY <1>1, <1>4, <1>7, <2>1, <2>2, <2>3, <2>4 DEF SavedBehind
<1>12. CutAhead'
  BY <1>1, <1>3 DEF CutAhead
<1>13. QED
  BY <1>9, <1>10, <1>11, <1>12 DEF CaptureInv

\* A script is cut in the run that reaches its frame.
LEMMA CutRunKeeps == CaptureInv /\ CutRun => CaptureInv'
<1> SUFFICES ASSUME CaptureInv, CutRun
             PROVE  CaptureInv'
  OBVIOUS
<1> DEFINE frame == Min(saveAt)
           last == at + line.n >= frame
           step == frame - at
           game == Played(script).frames
           after == Before.frames \o Steady(line.n, Before.mask)
<1>1. /\ CaptureTypes /\ Reading /\ left = NoRun /\ harness = "cut" /\ line.op = "run"
  BY DEF CaptureInv, CutRun, Reading
<1>2. finished = FALSE
  BY <1>1 DEF CaptureTypes, Reading
<1>3. /\ script' = script /\ harness' = harness /\ saveAt' = saveAt /\ left' = left
      /\ pending' = pending /\ read' = read + 1
      /\ finished' = last
      /\ at' = IF last THEN at ELSE at + line.n
      /\ made' = IF last THEN WithRun(made, step) ELSE Append(made, line)
  BY DEF CutRun
<1>4. /\ line \in Commands /\ line.n \in Nat /\ read + 1 \in 0..Len(script) /\ Before.on
      /\ Played(SubSeq(script, 1, read + 1)) = Obey(Before, line)
  BY <1>1, LineRead
<1>5. /\ Obey(Before, line).frames = after
      /\ Obey(Before, line).mask = Before.mask
  BY <1>1, <1>4 DEF Obey, Steady
<1>6. Before' = Obey(Before, line)
  BY <1>3, <1>4 DEF Before
<1>7. /\ Replay.on /\ at = Len(Replay.frames) /\ Replay.mask = Before.mask
      /\ Replay.saved = {} /\ pending = {}
  BY <1>1, <1>2 DEF CaptureInv, InStep, CutAhead
<1>8. Before.frames = Replay.frames
  BY <1>1, <1>2, NothingOwed
<1>9. /\ Replay.frames \in Seq(Nat) /\ Replay.mask \in Nat /\ made \in Seq(Commands)
      /\ at \in Nat
  BY <1>1, ScriptFacts DEF CaptureTypes
<1>10. PICK f \in Nat : saveAt = {f}
  BY <1>1 DEF CaptureInv, CutAhead
<1>11. frame = f /\ at <= frame
  <2>1. frame = f
    BY <1>10, MinIs
  <2>2. at <= frame
    BY <1>1, <1>2 DEF CaptureInv, CutAhead
  <2>3. QED
    BY <2>1, <2>2
<1>12. Begins(after, game) /\ Len(game) \in Nat
  <2>1. Begins(Played(SubSeq(script, 1, read + 1)).frames, game)
    BY <1>1, <1>4, ScriptFacts, GameBegins
  <2>2. Len(game) \in Nat
    BY <1>1, ScriptFacts, PlayedParts
  <2>3. QED
    BY <1>4, <1>5, <2>1, <2>2
<1> HIDE DEF frame, game
<1>13. CASE last
  <2>1. step \in Nat /\ step <= line.n /\ at + step = frame
    BY <1>4, <1>9, <1>10, <1>11, <1>13
  <2>2. made' = WithRun(made, step) /\ at' = at /\ finished' = TRUE
    BY <1>3, <1>13
  <2> HIDE DEF step, last
  <2>3. /\ WithRun(made, step) \in Seq(Commands) /\ Played(WithRun(made, step)).on
        /\ Played(WithRun(made, step)).frames = Replay.frames \o Steady(step, Replay.mask)
        /\ Played(WithRun(made, step)).saved = Replay.saved
    BY <1>7, <1>9, <2>1, WithRunPlays DEF Replay
  <2>4. Replay' = Played(WithRun(made, step))
    BY <2>2 DEF Replay
  <2> DEFINE now == Replay.frames \o Steady(step, Replay.mask)
  <2>5. now \in Seq(Nat) /\ Len(now) = frame
    <3>1. now \in Seq(Nat) /\ Len(now) = Len(Replay.frames) + step
      BY <1>9, <2>1, SteadyBehind, Zenon
    <3>2. QED
      BY <1>7, <2>1, <3>1
  <2>6. Begins(now, after) /\ Len(after) \in Nat
    <3> DEFINE rest == line.n - step
    <3>1. rest \in Nat /\ step \in Nat /\ step + rest = line.n
      BY <1>4, <2>1
    <3> HIDE DEF rest
    <3>2. now \o Steady(rest, Replay.mask) = Replay.frames \o Steady(step + rest, Replay.mask)
      BY <1>9, <3>1, SteadyOn, ZenonT(30)
    <3>3. after = now \o Steady(rest, Replay.mask)
      BY <1>7, <1>8, <3>1, <3>2
    <3>4. Steady(rest, Replay.mask) \in Seq(Nat)
      BY <1>9, <3>1, SteadyIs
    <3> HIDE DEF now, after
    <3>5. Begins(now, after)
      BY <2>5, <3>3, <3>4, BeginsConcat
    <3>6. after \in Seq(Nat)
      BY <2>5, <3>3, <3>4, ConcatProperties
    <3>7. QED
      BY <3>5, <3>6, LenProperties
  <2> HIDE DEF now, after
  <2>7. frame \in Nat
    BY <1>10, <1>11
  <2>8. Begins(now, game) /\ frame <= Len(game)
    BY <1>12, <2>5, <2>6, <2>7 DEF Begins
  <2>9. Replay'.frames = now /\ Replay'.on /\ Replay'.saved = {}
    BY <1>7, <2>3, <2>4 DEF now
  <2>10. CaptureTypes'
    BY <1>1, <1>3, <1>4, <2>2, <2>3 DEF CaptureTypes
  <2>11. InStep'
    BY <1>1, <1>3, <2>2, <2>9 DEF InStep
  <2>12. SavedBehind'
    BY <1>1, <1>3 DEF SavedBehind
  <2>13. CutAhead'
    <3>1. Len(Replay'.frames) = IF frame <= Len(game) THEN frame ELSE Len(game)
      BY <2>5, <2>8, <2>9
    <3>2. frame = Min(saveAt') /\ game = Played(script').frames
      BY <1>3 DEF frame, game
    <3>3. QED
      BY <1>1, <1>3, <1>7, <1>10, <2>2, <2>8, <2>9, <3>1, <3>2 DEF CutAhead
  <2>14. QED
    BY <2>10, <2>11, <2>12, <2>13 DEF CaptureInv
<1>14. CASE ~last
  <2>1. at + line.n < frame
    BY <1>4, <1>9, <1>10, <1>11, <1>14
  <2> HIDE DEF last, step
  <2>2. made' = Append(made, line) /\ at' = at + line.n /\ finished' = FALSE
    <3>1. made' = Append(made, line) /\ at' = at + line.n
      BY <1>3, <1>14
    <3>2. finished' = FALSE
      <4>1. finished' = (at + line.n >= frame)
        BY <1>3 DEF last
      <4>2. ~(at + line.n >= frame)
        BY <1>14 DEF last
      <4>3. finished' \in BOOLEAN
        BY <4>1
      <4>4. ~finished'
        BY <4>1, <4>2
      <4>5. QED
        BY <4>3, <4>4
    <3>3. QED
      BY <3>1, <3>2
  <2>3. made' \in Seq(Commands) /\ Replay' = Obey(Replay, line)
    BY <1>4, <1>9, <2>2, AppendProperties, PlayedNext DEF Replay
  <2>4. /\ Obey(Replay, line).frames = Replay.frames \o Steady(line.n, Replay.mask)
        /\ Obey(Replay, line).mask = Replay.mask
        /\ Obey(Replay, line).saved = Replay.saved
    BY <1>1, <1>7 DEF Obey, Steady
  <2>5. Obey(Replay, line).on
    BY <1>1, <1>7 DEF Obey
  <2>6. Replay'.frames = after
    BY <1>7, <1>8, <2>3, <2>4
  <2>7. after \in Seq(Nat) /\ Len(after) = at + line.n
    <3>1. after \in Seq(Nat) /\ Len(after) = Len(Replay.frames) + line.n
      <4>1. Before.frames \in Seq(Nat) /\ Before.mask \in Nat /\ line.n \in Nat
        BY <1>4, <1>7, <1>8, <1>9
      <4>2. after \in Seq(Nat) /\ Len(after) = Len(Before.frames) + line.n
        BY <4>1, SteadyBehind, Zenon
      <4>3. QED
        BY <4>2, <1>8
    <3>2. QED
      BY <1>7, <3>1
  <2> HIDE DEF after
  <2>8. CaptureTypes'
    <3>1. at' \in Nat
      BY <1>4, <1>9, <2>2
    <3>2. QED
      BY <1>1, <1>3, <1>4, <2>2, <2>3, <3>1 DEF CaptureTypes
  <2>9. InStep'
    <3>1. Owed' = 0
      BY <1>1, <1>3 DEF Owed
    <3>2. after \o Steady(0, Replay.mask) = after
      BY <1>9, <2>7, NoneSteady
    <3>3. Before'.frames = Replay'.frames \o Steady(Owed', Replay'.mask)
      BY <1>5, <1>6, <2>3, <2>4, <2>6, <3>1, <3>2
    <3>4. at' = Len(Replay'.frames) /\ Replay'.mask = Before'.mask
      BY <1>5, <1>6, <1>7, <2>2, <2>3, <2>4, <2>6, <2>7
    <3>5. Replay'.on
      BY <2>3, <2>5
    <3>6. QED
      BY <3>3, <3>4, <3>5 DEF InStep
  <2>10. SavedBehind'
    BY <1>1, <1>3 DEF SavedBehind
  <2>11. CutAhead'
    <3>1. at' <= Min(saveAt')
      <4>1. at + line.n \in Nat /\ frame \in Nat
        BY <1>4, <1>9, <1>10, <1>11
      <4>2. at + line.n <= frame
        BY <2>1, <4>1
      <4>3. QED
        BY <1>3, <2>2, <4>2 DEF frame
    <3>2. Replay'.saved = {}
      BY <1>7, <2>3, <2>4
    <3>3. QED
      BY <1>1, <1>3, <1>7, <1>10, <2>2, <3>1, <3>2 DEF CutAhead
  <2>12. QED
    BY <2>8, <2>9, <2>10, <2>11 DEF CaptureInv
<1>15. QED
  BY <1>13, <1>14

\* At the end of the script the game has been played.
LEMMA EndOfScriptKeeps == CaptureInv /\ EndOfScript => CaptureInv'
<1> SUFFICES ASSUME CaptureInv, EndOfScript
             PROVE  CaptureInv'
  OBVIOUS
<1>1. CaptureTypes /\ left = NoRun /\ read = Len(script)
  BY DEF CaptureInv, EndOfScript
<1>2. finished = FALSE /\ finished' = TRUE
  BY <1>1 DEF CaptureTypes, EndOfScript
<1>3. /\ script' = script /\ harness' = harness /\ saveAt' = saveAt /\ left' = left
      /\ pending' = pending /\ at' = at /\ made' = made /\ read' = read
  BY DEF EndOfScript
<1>4. Replay' = Replay /\ Owed' = Owed /\ Before' = Before
  BY <1>3 DEF Replay, Owed, Before
<1>5. CaptureTypes'
  BY <1>1, <1>2, <1>3 DEF CaptureTypes
<1>6. InStep'
  BY <1>2, <1>3, <1>4 DEF InStep, CaptureInv
<1>7. SavedBehind'
  <2>1. RunRead' <=> RunRead
    BY <1>3 DEF RunRead
  <2>2. QED
    BY <1>1, <1>3, <1>4, <2>1 DEF SavedBehind, CaptureInv
<1>8. CutAhead'
  <2> SUFFICES ASSUME harness = "cut"
               PROVE  CutAhead'
    BY <1>3 DEF CutAhead
  <2> DEFINE game == Played(script).frames
  <2>1. Before.frames = game
    BY <1>1, ScriptFacts, FirstLines DEF Before
  <2>2. Replay.frames = game
    BY <1>1, <1>2, <2>1, NothingOwed
  <2>3. at = Len(game) /\ at <= Min(saveAt) /\ at \in Nat
    BY <1>1, <1>2, <2>2 DEF CaptureInv, CaptureTypes, InStep, CutAhead
  <2>4. /\ \E f \in Nat : saveAt = {f}
        /\ pending = {} /\ Replay.saved = {}
    BY DEF CaptureInv, CutAhead
  <2> HIDE DEF game
  <2>5. Min(saveAt) \in Nat
    <3>1. PICK f \in Nat : saveAt = {f}
      BY <2>4
    <3>2. Min(saveAt) = f
      BY <3>1, MinIs
    <3>3. QED
      BY <3>2
  <2>6. Begins(Replay.frames, game)
    BY <2>2, <2>3 DEF Begins
  <2>7. Len(Replay.frames) = IF Min(saveAt) <= Len(game) THEN Min(saveAt) ELSE Len(game)
    BY <2>2, <2>3, <2>5
  <2>8. game = Played(script').frames
    BY <1>3 DEF game
  <2>9. QED
    BY <1>1, <1>2, <1>3, <1>4, <2>4, <2>6, <2>7, <2>8 DEF CutAhead
<1>9. QED
  BY <1>5, <1>6, <1>7, <1>8 DEF CaptureInv

\* Every step keeps the invariant.
LEMMA CaptureSteps == CaptureInv /\ [CaptureNext]_capture => CaptureInv'
<1>1. ASSUME CaptureInv, UNCHANGED capture
      PROVE  CaptureInv'
  <2>1. /\ script' = script /\ harness' = harness /\ saveAt' = saveAt /\ left' = left
        /\ pending' = pending /\ at' = at /\ made' = made /\ read' = read
        /\ finished' = finished
    BY <1>1 DEF capture
  <2>2. Replay' = Replay /\ Owed' = Owed /\ Before' = Before /\ (RunRead' <=> RunRead)
    BY <2>1 DEF Replay, Owed, Before, RunRead
  <2>3. CaptureTypes'
    BY <1>1, <2>1 DEF CaptureInv, CaptureTypes
  <2>4. InStep'
    BY <1>1, <2>1, <2>2 DEF CaptureInv, InStep
  <2>5. SavedBehind'
    BY <1>1, <2>1, <2>2 DEF CaptureInv, SavedBehind
  <2>6. CutAhead'
    BY <1>1, <2>1, <2>2 DEF CaptureInv, CutAhead
  <2>7. QED
    BY <2>3, <2>4, <2>5, <2>6 DEF CaptureInv
<1>2. QED
  BY <1>1, SkipLineKeeps, CopyLineKeeps, RunKeeps, BreakKeeps, RunOnKeeps, CutRunKeeps,
     EndOfScriptKeeps DEF CaptureNext

\* When the script has been made, it does what was asked.
LEMMA SavedInTheEnd == CaptureInv => SavedWhereAsked
<1> SUFFICES ASSUME CaptureInv, finished
             PROVE  SavedWhereAsked
  BY DEF SavedWhereAsked
<1> DEFINE game == Played(script).frames
           end == IF harness = "save" THEN Command("quit", 0) ELSE Command("save", Min(saveAt))
<1>1. CaptureTypes /\ Replay.on
  BY DEF CaptureInv, InStep
<1>2. /\ script \in Seq(Commands) /\ made \in Seq(Commands) /\ Len(script) \in Nat
      /\ read \in 0..Len(script)
      /\ Replay.frames \in Seq(Nat) /\ Len(Replay.frames) \in Nat
  BY <1>1, ScriptFacts DEF CaptureTypes
<1>3. game \in Seq(Nat) /\ Len(game) \in Nat
  BY <1>2, PlayedParts
<1> HIDE DEF game
<1>4. Begins(Replay.frames, game)
  <2>1. CASE harness = "cut"
    BY <2>1 DEF CaptureInv, CutAhead, game
  <2>2. CASE harness = "save"
    <3>1. Before.frames = Replay.frames
      BY <1>1, <2>2, NothingOwed DEF CaptureTypes
    <3>2. QED
      BY <1>2, <3>1, GameBegins DEF Before, game
  <2>3. QED
    BY <1>1, <2>1, <2>2 DEF CaptureTypes
<1>5. Replay.frames = SubSeq(game, 1, Len(Replay.frames)) /\ Len(Replay.frames) <= Len(game)
  <2> DEFINE n == Len(Replay.frames)
  <2>1. n \in Nat /\ n <= Len(game) /\ \A k \in 1..n : Replay.frames[k] = game[k]
    BY <1>2, <1>4 DEF Begins
  <2>2. \A k \in 1..n : game[k] \in Nat
    <3>1. \A k \in 1..Len(game) : game[k] \in Nat
      BY <1>3, ElementOfSeq
    <3>2. QED
      BY <1>3, <2>1, <3>1
  <2> HIDE DEF n
  <2>3. /\ SubSeq(game, 1, n) \in Seq(Nat)
        /\ Len(SubSeq(game, 1, n)) = IF 1 <= n THEN n - 1 + 1 ELSE 0
        /\ \A k \in 1..n - 1 + 1 : SubSeq(game, 1, n)[k] = game[1 + k - 1]
    BY <2>1, <2>2, SubSeqProperties
  <2>4. Len(SubSeq(game, 1, n)) = n /\ \A k \in 1..n : SubSeq(game, 1, n)[k] = game[k]
    <3>1. n - 1 + 1 = n /\ \A k \in 1..n : 1 + k - 1 = k
      BY <2>1
    <3>2. QED
      BY <2>1, <2>3, <3>1
  <2>5. Replay.frames = SubSeq(game, 1, n)
    <3>1. Len(Replay.frames) = Len(SubSeq(game, 1, n))
      BY <2>4 DEF n
    <3>2. \A k \in 1..Len(Replay.frames) : Replay.frames[k] = SubSeq(game, 1, n)[k]
      BY <2>1, <2>4 DEF n
    <3>3. QED
      BY <1>2, <2>3, <3>1, <3>2, SeqEqual
  <2>6. QED
    BY <2>1, <2>5 DEF n
<1>6. CASE harness = "save"
  <2>1. Made = Append(made, Command("quit", 0))
    BY <1>6 DEF Made
  <2> DEFINE l == Command("quit", 0)
  <2>2. l \in Commands /\ l.op = "quit"
    BY DEF Command, Commands
  <2> HIDE DEF l
  <2>3. Played(Made) = Obey(Replay, l)
    BY <1>2, <2>1, <2>2, PlayedNext DEF Replay, l
  <2>4. Played(Made).frames = Replay.frames /\ Played(Made).saved = Replay.saved
    BY <2>2, <2>3 DEF Obey
  <2>5. Before.frames = Replay.frames /\ at = Len(Replay.frames) /\ left = NoRun
    BY <1>1, <1>6, NothingOwed DEF CaptureInv, InStep, CaptureTypes
  <2>6. {g \in saveAt : g <= Len(game)} = saveAt \ pending
    <3>1. \A f \in saveAt \ pending : f <= at /\ f \in Nat
      BY <1>1, <1>6 DEF CaptureInv, SavedBehind, CaptureTypes
    <3>2. \A f \in saveAt \ pending : f <= Len(game)
      BY <1>2, <1>3, <1>5, <2>5, <3>1
    <3>3. \A f \in pending : ~(f <= Len(game))
      <4>1. CASE pending = {}
        BY <4>1
      <4>2. CASE read = Len(script)
        <5>1. Before.frames = game
          BY <1>1, <4>2, ScriptFacts, FirstLines DEF Before, game
        <5>2. RunRead
          <6>1. DOMAIN script = 1..Len(script)
            BY <1>2, LenProperties
          <6>2. QED
            BY <1>1, <4>2, <6>1, CaptureAssumption DEF RunRead, CaptureTypes
        <5>3. \A f \in pending : f > at
          BY <1>6, <2>5, <5>2 DEF CaptureInv, SavedBehind
        <5>4. \A f \in pending : f \in Nat
          BY <1>1, ScriptFacts
        <5>5. at = Len(game)
          BY <2>5, <5>1
        <5>6. QED
          BY <1>3, <5>3, <5>4, <5>5
      <4>3. QED
        BY <1>6, <4>1, <4>2 DEF CaptureInv, SavedBehind
    <3>4. QED
      BY <3>2, <3>3
  <2>7. Replay.saved = {<<f, f>> : f \in saveAt \ pending}
    BY <1>6 DEF CaptureInv, SavedBehind
  <2>8. QED
    BY <1>5, <1>6, <2>4, <2>6, <2>7 DEF SavedWhereAsked, game
<1>7. CASE harness = "cut"
  <2>1. PICK f \in Nat : saveAt = {f}
    BY <1>7 DEF CaptureInv, CutAhead
  <2>2. Min(saveAt) = f
    BY <2>1, MinIs
  <2>3. Made = Append(made, Command("save", f))
    BY <1>7, <2>2 DEF Made
  <2>4. /\ Played(Made).frames = Replay.frames
        /\ Played(Made).saved = Replay.saved \cup {<<f, Len(Replay.frames)>>}
    BY <1>1, <1>2, <2>3, SavePlays DEF Replay
  <2>5. Replay.saved = {} /\ Len(Replay.frames) = IF f <= Len(game) THEN f ELSE Len(game)
    BY <1>7, <2>2 DEF CaptureInv, CutAhead, game
  <2>6. Played(Made).saved = {<<g, IF g <= Len(game) THEN g ELSE Len(game)>> : g \in saveAt}
    BY <2>1, <2>4, <2>5
  <2>7. QED
    BY <1>5, <1>7, <2>4, <2>6 DEF SavedWhereAsked, game
<1>8. QED
  BY <1>1, <1>6, <1>7 DEF CaptureTypes

\* Whatever the game's script is and whatever frames are asked for, the script made
\* plays the game and saves its states there, and nowhere else (save_script,
\* cut_script).
THEOREM CaptureSavesWhereAsked == CaptureSpec => []SavedWhereAsked
<1>1. CaptureInit => CaptureInv
  BY CaptureStarts
<1>2. CaptureInv /\ [CaptureNext]_capture => CaptureInv'
  BY CaptureSteps
<1>3. CaptureInv => SavedWhereAsked
  BY SavedInTheEnd
<1>4. QED
  BY <1>1, <1>2, <1>3, PTL DEF CaptureSpec
=============================================================================
