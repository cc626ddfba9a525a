-------------------------- MODULE SectionRefsProofs --------------------------
(***************************************************************************)
(* That the passes over a section file change no word it assembles to and  *)
(* no address that a comment gives, whatever the file, the pointers in it  *)
(* and the order of the passes.                                            *)
(***************************************************************************)
EXTENDS SectionRefs, BinaryProofs, SequenceTheorems

---------------------------------------------------------------------------
(* FlattenSeq, whose recursive definition induction unfolds.               *)

\* The first n values of the recursion.
Flats(W, s, n) ==
  {f \in [1..n -> Seq(W)] : \A i \in 1..n : f[i] = IF i = 1 THEN s[1] ELSE f[i - 1] \o s[i]}

\* There are such values for every n.
LEMMA FlatsExist ==
  ASSUME NEW W, NEW s \in Seq(Seq(W))
  PROVE  \A n \in Nat : n <= Len(s) => Flats(W, s, n) # {}
<1> DEFINE S == {n \in Nat : n <= Len(s) => Flats(W, s, n) # {}}
<1>1. 0 \in S
  <2>1. [i \in 1..0 |-> <<>>] \in Flats(W, s, 0)
    BY DEF Flats
  <2>2. QED
    BY <2>1
<1>2. ASSUME NEW n \in Nat, n \in S
      PROVE  n + 1 \in S
  <2>1. SUFFICES ASSUME n + 1 <= Len(s)
                 PROVE  Flats(W, s, n + 1) # {}
    OBVIOUS
  <2>2. n <= Len(s) /\ Len(s) \in Nat /\ n + 1 \in 1..Len(s)
    BY <2>1, LenProperties
  <2>3. PICK f : f \in Flats(W, s, n)
    BY <1>2, <2>2
  <2>4. f \in [1..n -> Seq(W)] /\ \A i \in 1..n : f[i] = IF i = 1 THEN s[1] ELSE f[i - 1] \o s[i]
    BY <2>3 DEF Flats
  <2>5. s[n + 1] \in Seq(W)
    BY <2>2, ElementOfSeq
  <2> DEFINE last == IF n + 1 = 1 THEN s[1] ELSE f[n] \o s[n + 1]
             g == [i \in 1..n + 1 |-> IF i = n + 1 THEN last ELSE f[i]]
  <2>6. last \in Seq(W)
    <3>1. CASE n = 0
      BY <3>1, <2>5
    <3>2. CASE n # 0
      <4>1. f[n] \in Seq(W)
        BY <2>4, <3>2
      <4>2. QED
        BY <4>1, <2>5, <3>2, ConcatProperties
    <3>3. QED
      BY <3>1, <3>2
  <2>7. g \in [1..n + 1 -> Seq(W)]
    BY <2>4, <2>6
  <2>8. ASSUME NEW i \in 1..n + 1
        PROVE  g[i] = IF i = 1 THEN s[1] ELSE g[i - 1] \o s[i]
    <3> HIDE DEF last
    <3>1. g[i] = IF i = n + 1 THEN last ELSE f[i]
      OBVIOUS
    <3>2. i # 1 => g[i - 1] = f[i - 1]
      BY <2>8
    <3>3. CASE i = n + 1
      BY <3>1, <3>2, <3>3 DEF last
    <3>4. CASE i # n + 1
      <4>1. i \in 1..n
        BY <3>4
      <4>2. QED
        BY <3>1, <3>2, <3>4, <4>1, <2>4
    <3>5. QED
      BY <3>3, <3>4
  <2>9. g \in Flats(W, s, n + 1)
    <3> HIDE DEF g
    <3> QED
      BY <2>7, <2>8 DEF Flats
  <2>10. QED
    BY <2>9
<1>3. \A n \in Nat : n \in S
  <2> HIDE DEF S
  <2> QED
    BY <1>1, <1>2, Induction
<1>4. QED
  BY <1>3

\* Do two sequences begin alike?
Alike(s, t, n) == \A j \in 1..n : s[j] = t[j]

\* They are the same for sequences that begin alike.
LEMMA FlatsAgree ==
  ASSUME NEW W, NEW s, NEW t, NEW m \in Nat, NEW n \in Nat,
         NEW f \in Flats(W, s, m), NEW g \in Flats(W, t, n),
         Alike(s, t, m)
  PROVE  \A i \in Nat : i \in 1..m /\ i \in 1..n => f[i] = g[i]
<1> DEFINE S == {i \in Nat : i \in 1..m /\ i \in 1..n => f[i] = g[i]}
<1>1. \A i \in 1..m : f[i] = IF i = 1 THEN s[1] ELSE f[i - 1] \o s[i]
  BY DEF Flats
<1>2. \A i \in 1..n : g[i] = IF i = 1 THEN t[1] ELSE g[i - 1] \o t[i]
  BY DEF Flats
<1>3. 0 \in S
  OBVIOUS
<1>4. ASSUME NEW i \in Nat, i \in S
      PROVE  i + 1 \in S
  <2>1. SUFFICES ASSUME i + 1 \in 1..m, i + 1 \in 1..n
                 PROVE  f[i + 1] = g[i + 1]
    OBVIOUS
  <2>2. s[i + 1] = t[i + 1] /\ s[1] = t[1]
    BY <2>1 DEF Alike
  <2>3. CASE i = 0
    BY <2>1, <2>2, <2>3, <1>1, <1>2
  <2>4. CASE i # 0
    <3>1. i \in 1..m /\ i \in 1..n /\ i + 1 # 1 /\ (i + 1) - 1 = i
      BY <2>1, <2>4
    <3>2. f[i] = g[i]
      BY <3>1, <1>4
    <3>3. f[i + 1] = f[i] \o s[i + 1] /\ g[i + 1] = g[i] \o t[i + 1]
      BY <3>1, <2>1, <1>1, <1>2
    <3>4. QED
      BY <3>2, <3>3, <2>2
  <2>5. QED
    BY <2>3, <2>4
<1>5. \A i \in Nat : i \in S
  <2> HIDE DEF S
  <2> QED
    BY <1>3, <1>4, Induction
<1>6. QED
  BY <1>5

\* FlattenSeq is the last of them.
LEMMA FlatIsLast ==
  ASSUME NEW W, NEW s \in Seq(Seq(W)), Len(s) # 0
  PROVE  \E f \in Flats(W, s, Len(s)) : FlattenSeq(s) = f[Len(s)]
<1> DEFINE n == Len(s)
           F(f) == f = [i \in 1..n |-> IF i = 1 THEN s[i] ELSE f[i - 1] \o s[i]]
           c == CHOOSE f : F(f)
<1>1. n \in Nat
  BY LenProperties
<1>2. PICK f : f \in Flats(W, s, n)
  BY <1>1, FlatsExist
<1>3. F(f)
  <2>1. f \in [1..n -> Seq(W)] /\ \A i \in 1..n : f[i] = IF i = 1 THEN s[1] ELSE f[i - 1] \o s[i]
    BY <1>2 DEF Flats
  <2>2. f = [i \in 1..n |-> f[i]]
    BY <2>1
  <2> HIDE DEF n
  <2>3. QED
    BY <2>1, <2>2
<1>4. F(c)
  <2> HIDE DEF F
  <2> QED
    BY <1>3
<1>5. FlattenSeq(s) = c[n]
  BY DEF FlattenSeq
<1>6. \A i \in 1..n : c[i] = IF i = 1 THEN s[1] ELSE c[i - 1] \o s[i]
  <2> HIDE DEF n, c
  <2> QED
    BY <1>4
<1>7. DOMAIN c = 1..n /\ c = [i \in 1..n |-> c[i]]
  <2> HIDE DEF n, c
  <2> QED
    BY <1>4
<1> HIDE DEF c, F
<1> DEFINE S == {i \in Nat : i \in 1..n => c[i] \in Seq(W)}
<1>8. \A i \in Nat : i \in S
  <2>1. 0 \in S
    OBVIOUS
  <2>2. ASSUME NEW i \in Nat, i \in S
        PROVE  i + 1 \in S
    <3>1. SUFFICES ASSUME i + 1 \in 1..n
                   PROVE  c[i + 1] \in Seq(W)
      OBVIOUS
    <3>2. s[i + 1] \in Seq(W)
      BY <3>1, ElementOfSeq
    <3>3. CASE i = 0
      BY <3>3, <3>2, <3>1, <1>6
    <3>4. CASE i # 0
      <4>1. i \in 1..n /\ i + 1 # 1 /\ (i + 1) - 1 = i
        BY <3>4, <3>1, <1>1
      <4>2. c[i] \in Seq(W)
        BY <4>1, <2>2
      <4>3. c[i + 1] = c[i] \o s[i + 1]
        BY <4>1, <3>1, <1>6
      <4>4. QED
        BY <4>2, <4>3, <3>2, ConcatProperties
    <3>5. QED
      BY <3>3, <3>4
  <2> HIDE DEF S
  <2>3. QED
    BY <2>1, <2>2, Induction
<1>9. \A i \in 1..n : c[i] \in Seq(W)
  <2>1. \A i \in 1..n : i \in Nat
    BY <1>1
  <2>2. QED
    BY <1>8, <2>1
<1>10. c \in Flats(W, s, n)
  <2> HIDE DEF n, S
  <2> QED
    BY <1>6, <1>7, <1>9 DEF Flats
<1>11. QED
  BY <1>5, <1>10

\* Nothing flattens to nothing.
LEMMA FlatEmpty == FlattenSeq(<<>>) = <<>>
BY DEF FlattenSeq

\* One more sequence at the end.
LEMMA FlatAppend ==
  ASSUME NEW W, NEW s \in Seq(Seq(W)), NEW x \in Seq(W)
  PROVE  FlattenSeq(Append(s, x)) = FlattenSeq(s) \o x
<1> DEFINE n == Len(s)
           t == Append(s, x)
<1>1. /\ n \in Nat /\ t \in Seq(Seq(W)) /\ Len(t) = n + 1
      /\ (\A i \in 1..n : t[i] = s[i]) /\ t[n + 1] = x
  BY AppendProperties, LenProperties
<1> HIDE DEF n, t
<1>2. PICK g \in Flats(W, t, n + 1) : FlattenSeq(t) = g[n + 1]
  BY <1>1, FlatIsLast
<1>3. \A i \in 1..n + 1 : g[i] = IF i = 1 THEN t[1] ELSE g[i - 1] \o t[i]
  BY <1>2 DEF Flats
<1>4. CASE n = 0
  <2>1. s = <<>>
    BY <1>4, EmptySeq DEF n
  <2>2. FlattenSeq(s) \o x = x
    BY <2>1, FlatEmpty, ConcatEmptySeq
  <2>3. g[n + 1] = x
    BY <1>1, <1>3, <1>4
  <2>4. QED
    BY <1>2, <2>2, <2>3 DEF t
<1>5. CASE n # 0
  <2>1. PICK f \in Flats(W, s, n) : FlattenSeq(s) = f[n]
    BY <1>5, FlatIsLast DEF n
  <2>2. Alike(s, t, n)
    BY <1>1 DEF Alike
  <2>3. n \in 1..n /\ n \in 1..n + 1 /\ n + 1 \in Nat /\ n + 1 \in 1..n + 1 /\ n + 1 # 1 /\ (n + 1) - 1 = n
    BY <1>1, <1>5
  <2>4. \A i \in Nat : i \in 1..n /\ i \in 1..n + 1 => f[i] = g[i]
    BY <2>2, <2>3, <1>1, FlatsAgree
  <2>5. g[n + 1] = g[n] \o x
    BY <1>1, <1>3, <2>3
  <2>6. f[n] = g[n]
    BY <2>3, <2>4, <1>1
  <2>7. QED
    BY <1>2, <2>1, <2>5, <2>6 DEF t
<1>6. QED
  BY <1>4, <1>5

\* What is flattened is a sequence of the elements.
LEMMA FlatType ==
  ASSUME NEW W, NEW s \in Seq(Seq(W))
  PROVE  FlattenSeq(s) \in Seq(W)
<1>1. Len(s) \in Nat
  BY LenProperties
<1>2. CASE Len(s) = 0
  <2>1. s = <<>>
    BY <1>2, EmptySeq
  <2>2. QED
    BY <2>1, FlatEmpty, EmptySeq
<1>3. CASE Len(s) # 0
  <2>1. PICK f \in Flats(W, s, Len(s)) : FlattenSeq(s) = f[Len(s)]
    BY <1>3, FlatIsLast
  <2>2. f \in [1..Len(s) -> Seq(W)] /\ Len(s) \in 1..Len(s)
    BY <1>1, <1>3 DEF Flats
  <2>3. QED
    BY <2>1, <2>2
<1>4. QED
  BY <1>2, <1>3

\* Concatenations associate.
LEMMA Associative ==
  ASSUME NEW S
  PROVE  \A s, t, u \in Seq(S) : (s \o t) \o u = s \o (t \o u)
<1> TAKE s, t, u \in Seq(S)
<1> QED
  BY ConcatAssociative

\* Two sequences of sequences, one behind the other.
LEMMA FlatConcat ==
  ASSUME NEW W, NEW s \in Seq(Seq(W))
  PROVE  \A t \in Seq(Seq(W)) : FlattenSeq(s \o t) = FlattenSeq(s) \o FlattenSeq(t)
<1> DEFINE S == {n \in Nat : \A t \in Seq(Seq(W)) :
                   Len(t) = n => FlattenSeq(s \o t) = FlattenSeq(s) \o FlattenSeq(t)}
<1>1. 0 \in S
  <2>1. ASSUME NEW t \in Seq(Seq(W)), Len(t) = 0
        PROVE  FlattenSeq(s \o t) = FlattenSeq(s) \o FlattenSeq(t)
    <3>1. t = <<>> /\ s \o t = s
      BY <2>1, EmptySeq, ConcatEmptySeq
    <3>2. FlattenSeq(s) \in Seq(W)
      BY FlatType
    <3>3. FlattenSeq(s) \o FlattenSeq(t) = FlattenSeq(s)
      BY <3>1, <3>2, FlatEmpty, ConcatEmptySeq
    <3>4. QED
      BY <3>1, <3>3
  <2>2. QED
    BY <2>1
<1>2. ASSUME NEW n \in Nat, n \in S
      PROVE  n + 1 \in S
  <2>1. ASSUME NEW t \in Seq(Seq(W)), Len(t) = n + 1
        PROVE  FlattenSeq(s \o t) = FlattenSeq(s) \o FlattenSeq(t)
    <3>1. t # <<>>
      BY <2>1, EmptySeq
    <3>2. PICK u \in Seq(Seq(W)), x \in Seq(W) : t = Append(u, x)
      BY <3>1, SequenceEmptyOrAppend
    <3>3. Len(u) = n
      <4>1. Len(t) = Len(u) + 1 /\ Len(u) \in Nat
        BY <3>2, AppendProperties, LenProperties
      <4>2. QED
        BY <4>1, <2>1
    <3>4. FlattenSeq(s \o u) = FlattenSeq(s) \o FlattenSeq(u)
      BY <1>2, <3>3
    <3>5. s \o t = Append(s \o u, x) /\ s \o u \in Seq(Seq(W))
      <4>1. s \o u \in Seq(Seq(W))
        BY ConcatProperties
      <4>2. <<x>> \in Seq(Seq(W)) /\ Append(s \o u, x) = (s \o u) \o <<x>> /\ t = u \o <<x>>
        BY <4>1, <3>2, AppendIsConcat
      <4>3. (s \o u) \o <<x>> = s \o (u \o <<x>>)
        <5> DEFINE y == <<x>>
        <5>1. y \in Seq(Seq(W))
          BY <4>2
        <5> HIDE DEF y
        <5>2. \A f, g, h \in Seq(Seq(W)) : (f \o g) \o h = f \o (g \o h)
          BY Associative, SMTT(30)
        <5>3. s \in Seq(Seq(W)) /\ u \in Seq(Seq(W))
          OBVIOUS
        <5>4. (s \o u) \o y = s \o (u \o y)
          BY <5>1, <5>2, <5>3, Zenon
        <5>5. QED
          BY <5>4 DEF y
      <4>4. QED
        BY <4>1, <4>2, <4>3
    <3>6. FlattenSeq(s \o t) = FlattenSeq(s \o u) \o x /\ FlattenSeq(t) = FlattenSeq(u) \o x
      BY <3>5, <3>2, FlatAppend
    <3>7. FlattenSeq(s) \in Seq(W) /\ FlattenSeq(u) \in Seq(W)
      BY FlatType
    <3>8. (FlattenSeq(s) \o FlattenSeq(u)) \o x = FlattenSeq(s) \o (FlattenSeq(u) \o x)
      BY <3>7, ConcatAssociative
    <3>9. QED
      BY <3>4, <3>6, <3>8
  <2>2. QED
    BY <2>1
<1>3. \A n \in Nat : n \in S
  <2> HIDE DEF S
  <2> QED
    BY <1>1, <1>2, Induction
<1>4. QED
  <2>1. \A t \in Seq(Seq(W)) : Len(t) \in Nat
    BY LenProperties
  <2>2. QED
    BY <1>3, <2>1

---------------------------------------------------------------------------
(* Lines, what they assemble to, and where they stand.                     *)

Operands == UNION {[S -> [form : SafeForms \cup {"imm"}, value : Nat]] : S \in SUBSET Nat}

\* The lines a file can hold.
Lines ==
  {line \in [kind : {"dcw", "dcl", "code", "text"}, words : Seq(Nat), at : Int,
             refs : Operands, based : SUBSET Nat] :
     line.kind = "dcw" => line.words # <<>>}

\* The words of the lines, one sequence for each.
WordsOf(src) == [n \in DOMAIN src |-> src[n].words]

\* What a line has.
LEMMA LineFields ==
  ASSUME NEW line \in Lines
  PROVE  /\ line.words \in Seq(Nat) /\ Len(line.words) \in Nat /\ line.at \in Int
         /\ line.refs \in Operands /\ line.based \in SUBSET Nat
         /\ line.kind \in {"dcw", "dcl", "code", "text"}
         /\ line.kind = "dcw" => line.words # <<>> /\ Len(line.words) # 0
<1>1. line \in [kind : {"dcw", "dcl", "code", "text"}, words : Seq(Nat), at : Int,
                refs : Operands, based : SUBSET Nat]
  BY DEF Lines
<1>2. line.words \in Seq(Nat)
  BY <1>1
<1>3. Len(line.words) \in Nat /\ (line.words # <<>> => Len(line.words) # 0)
  BY <1>2, LenProperties, EmptySeq
<1>4. QED
  BY <1>1, <1>2, <1>3 DEF Lines

\* A line put together.
LEMMA LineMade ==
  ASSUME NEW kind \in {"dcw", "dcl", "code", "text"}, NEW words \in Seq(Nat), NEW at \in Int,
         NEW refs \in Operands, NEW based \in SUBSET Nat, kind = "dcw" => words # <<>>
  PROVE  /\ Line(kind, words, at, refs, based) \in Lines
         /\ Line(kind, words, at, refs, based).words = words
         /\ Line(kind, words, at, refs, based).at = at
         /\ Line(kind, words, at, refs, based).kind = kind
BY DEF Line, Lines

\* A line without operands has that many.
LEMMA NoOperands == NoRefs \in Operands
<1>1. NoRefs \in [{} -> [form : SafeForms \cup {"imm"}, value : Nat]]
  BY DEF NoRefs
<1>2. QED
  BY <1>1 DEF Operands

\* The words of lines are sequences, one for each line.
LEMMA WordsOfType ==
  ASSUME NEW src \in Seq(Lines)
  PROVE  /\ WordsOf(src) \in Seq(Seq(Nat)) /\ Len(WordsOf(src)) = Len(src)
         /\ \A n \in 1..Len(src) : WordsOf(src)[n] = src[n].words /\ src[n] \in Lines
<1>1. Len(src) \in Nat /\ DOMAIN src = 1..Len(src) /\ \A n \in 1..Len(src) : src[n] \in Lines
  BY LenProperties, ElementOfSeq
<1>2. \A n \in 1..Len(src) : src[n].words \in Seq(Nat)
  BY <1>1, LineFields
<1>3. WordsOf(src) \in [1..Len(src) -> Seq(Nat)]
  BY <1>1, <1>2 DEF WordsOf
<1>4. QED
  BY <1>1, <1>3 DEF WordsOf

\* What lines assemble to is a sequence of words.
LEMMA AssembledType ==
  ASSUME NEW src \in Seq(Lines)
  PROVE  Assembled(src) \in Seq(Nat) /\ Len(Assembled(src)) \in Nat
<1>1. Assembled(src) = FlattenSeq(WordsOf(src))
  BY DEF Assembled, WordsOf
<1>2. Assembled(src) \in Seq(Nat)
  BY <1>1, WordsOfType, FlatType
<1>3. QED
  BY <1>2, LenProperties

\* Nothing assembles to nothing.
LEMMA AssembledEmpty == Assembled(<<>>) = <<>>
<1> DEFINE src == <<>>
<1>0. src \in Seq(Lines) /\ Len(src) = 0
  BY EmptySeq
<1>1. WordsOf(src) \in Seq(Seq(Nat)) /\ Len(WordsOf(src)) = 0
  <2> HIDE DEF src
  <2> QED
    BY <1>0, WordsOfType
<1>2. WordsOf(src) = <<>>
  <2> HIDE DEF src
  <2> QED
    BY <1>1, EmptySeq
<1>3. QED
  BY <1>2, FlatEmpty DEF Assembled, WordsOf

\* One line assembles to its words.
LEMMA AssembledOne ==
  ASSUME NEW line \in Lines
  PROVE  Assembled(<<line>>) = line.words
<1> DEFINE src == <<line>>
<1>1. src \in Seq(Lines) /\ Len(src) = 1 /\ src[1] = line
  BY EmptySeq, AppendProperties
<1> HIDE DEF src
<1>2. WordsOf(src) \in Seq(Seq(Nat)) /\ Len(WordsOf(src)) = 1 /\ WordsOf(src)[1] = line.words
  BY <1>1, WordsOfType
<1>3. PICK f \in Flats(Nat, WordsOf(src), 1) : FlattenSeq(WordsOf(src)) = f[1]
  <2> DEFINE ws == WordsOf(src)
  <2>1. ws \in Seq(Seq(Nat)) /\ Len(ws) = 1 /\ Len(ws) # 0
    BY <1>2
  <2> HIDE DEF ws
  <2>2. \E f \in Flats(Nat, ws, Len(ws)) : FlattenSeq(ws) = f[Len(ws)]
    BY <2>1, FlatIsLast
  <2>3. QED
    BY <2>1, <2>2 DEF ws
<1>4. f[1] = line.words
  BY <1>2, <1>3 DEF Flats
<1>5. QED
  BY <1>3, <1>4 DEF Assembled, WordsOf, src

\* Lines behind lines assemble to words behind words.
LEMMA AssembledConcat ==
  ASSUME NEW x \in Seq(Lines), NEW y \in Seq(Lines)
  PROVE  Assembled(x \o y) = Assembled(x) \o Assembled(y)
<1>1. x \o y \in Seq(Lines) /\ Len(x) \in Nat /\ Len(y) \in Nat /\ Len(x \o y) = Len(x) + Len(y)
  BY ConcatProperties, LenProperties
<1>2. /\ WordsOf(x) \in Seq(Seq(Nat)) /\ Len(WordsOf(x)) = Len(x)
      /\ \A n \in 1..Len(x) : WordsOf(x)[n] = x[n].words
  BY WordsOfType
<1>3. /\ WordsOf(y) \in Seq(Seq(Nat)) /\ Len(WordsOf(y)) = Len(y)
      /\ \A n \in 1..Len(y) : WordsOf(y)[n] = y[n].words
  BY WordsOfType
<1>4. /\ WordsOf(x \o y) \in Seq(Seq(Nat)) /\ Len(WordsOf(x \o y)) = Len(x) + Len(y)
      /\ \A n \in 1..Len(x) + Len(y) : WordsOf(x \o y)[n] = (x \o y)[n].words
  BY <1>1, WordsOfType
<1>5. WordsOf(x) \o WordsOf(y) \in Seq(Seq(Nat)) /\ Len(WordsOf(x) \o WordsOf(y)) = Len(x) + Len(y)
  <2>1. \A s, t \in Seq(Seq(Nat)) : s \o t \in Seq(Seq(Nat)) /\ Len(s \o t) = Len(s) + Len(t)
    BY ConcatProperties
  <2>2. QED
    BY <1>2, <1>3, <2>1
<1>6. ASSUME NEW n \in 1..Len(x) + Len(y)
      PROVE  WordsOf(x \o y)[n] = (WordsOf(x) \o WordsOf(y))[n]
  <2>1. (x \o y)[n] = IF n <= Len(x) THEN x[n] ELSE y[n - Len(x)]
    BY ConcatProperties
  <2>2. (WordsOf(x) \o WordsOf(y))[n] =
          IF n <= Len(x) THEN WordsOf(x)[n] ELSE WordsOf(y)[n - Len(x)]
    BY <1>2, <1>3, ConcatProperties
  <2>3. CASE n <= Len(x)
    <3>1. n \in 1..Len(x)
      BY <2>3, <1>1
    <3>2. WordsOf(x)[n] = x[n].words
      BY <3>1, <1>2
    <3>3. QED
      BY <2>1, <2>2, <2>3, <3>2, <1>4
  <2>4. CASE ~(n <= Len(x))
    <3>1. n - Len(x) \in 1..Len(y)
      BY <2>4, <1>1
    <3>2. WordsOf(y)[n - Len(x)] = y[n - Len(x)].words
      BY <3>1, <1>3
    <3>3. QED
      BY <2>1, <2>2, <2>4, <3>2, <1>4
  <2>5. QED
    BY <2>3, <2>4
<1>7. WordsOf(x \o y) = WordsOf(x) \o WordsOf(y)
  BY <1>1, <1>4, <1>5, <1>6, SeqEqual
<1>8. FlattenSeq(WordsOf(x) \o WordsOf(y)) = FlattenSeq(WordsOf(x)) \o FlattenSeq(WordsOf(y))
  BY <1>2, <1>3, FlatConcat
<1>9. QED
  BY <1>7, <1>8 DEF Assembled, WordsOf

\* The front of two sequences, one behind the other.
LEMMA FrontOfConcat ==
  ASSUME NEW S, NEW x \in Seq(S), NEW y \in Seq(S)
  PROVE  /\ \A n \in 0..Len(x) : SubSeq(x \o y, 1, n) = SubSeq(x, 1, n)
         /\ \A n \in 0..Len(y) : SubSeq(x \o y, 1, Len(x) + n) = x \o SubSeq(y, 1, n)
<1>1. x \o y \in Seq(S) /\ Len(x) \in Nat /\ Len(y) \in Nat /\ Len(x \o y) = Len(x) + Len(y)
  BY ConcatProperties, LenProperties
<1>2. \A i \in 1..Len(x) + Len(y) : (x \o y)[i] = IF i <= Len(x) THEN x[i] ELSE y[i - Len(x)]
  BY ConcatProperties
<1>3. \A i \in 1..Len(x) + Len(y) : (x \o y)[i] \in S
  BY <1>1, ElementOfSeq
<1>4. (\A i \in 1..Len(x) : x[i] \in S) /\ (\A i \in 1..Len(y) : y[i] \in S)
  BY ElementOfSeq
<1>5. ASSUME NEW n \in 0..Len(x)
      PROVE  SubSeq(x \o y, 1, n) = SubSeq(x, 1, n)
  <2> DEFINE u == SubSeq(x \o y, 1, n)
             v == SubSeq(x, 1, n)
  <2>1. u \in Seq(S) /\ Len(u) = n /\ \A i \in 1..n : u[i] = (x \o y)[i]
    <3>1. \A i \in 1..n : (x \o y)[i] \in S
      BY <1>1, <1>3
    <3>2. u \in Seq(S) /\ Len(u) = (IF 1 <= n THEN n - 1 + 1 ELSE 0) /\ \A i \in 1..n - 1 + 1 : u[i] = (x \o y)[1 + i - 1]
      BY <3>1, SubSeqProperties
    <3> HIDE DEF u
    <3>3. QED
      BY <3>2
  <2>2. v \in Seq(S) /\ Len(v) = n /\ \A i \in 1..n : v[i] = x[i]
    <3>1. \A i \in 1..n : x[i] \in S
      BY <1>1, <1>4
    <3>2. v \in Seq(S) /\ Len(v) = (IF 1 <= n THEN n - 1 + 1 ELSE 0) /\ \A i \in 1..n - 1 + 1 : v[i] = x[1 + i - 1]
      BY <3>1, SubSeqProperties
    <3> HIDE DEF v
    <3>3. QED
      BY <3>2
  <2>3. \A i \in 1..n : u[i] = v[i]
    <3> HIDE DEF u, v
    <3> QED
      BY <2>1, <2>2, <1>1, <1>2
  <2> HIDE DEF u, v
  <2>4. u = v
    BY <2>1, <2>2, <2>3, SeqEqual
  <2>5. QED
    BY <2>4 DEF u, v
<1>6. ASSUME NEW n \in 0..Len(y)
      PROVE  SubSeq(x \o y, 1, Len(x) + n) = x \o SubSeq(y, 1, n)
  <2> DEFINE m == Len(x) + n
             u == SubSeq(x \o y, 1, m)
             z == SubSeq(y, 1, n)
             v == x \o z
  <2>1. m \in Nat /\ m <= Len(x) + Len(y)
    BY <1>1
  <2>2. u \in Seq(S) /\ Len(u) = m /\ \A i \in 1..m : u[i] = (x \o y)[i]
    <3> HIDE DEF m
    <3>1. \A i \in 1..m : (x \o y)[i] \in S
      BY <2>1, <1>1, <1>3
    <3>2. u \in Seq(S) /\ Len(u) = (IF 1 <= m THEN m - 1 + 1 ELSE 0) /\ \A i \in 1..m - 1 + 1 : u[i] = (x \o y)[1 + i - 1]
      <4> DEFINE s == x \o y
      <4>1. m \in Int /\ 1 \in Int /\ \A i \in 1..m : s[i] \in S
        BY <2>1, <3>1
      <4> HIDE DEF s
      <4>2. /\ SubSeq(s, 1, m) \in Seq(S) /\ Len(SubSeq(s, 1, m)) = (IF 1 <= m THEN m - 1 + 1 ELSE 0)
            /\ \A i \in 1..m - 1 + 1 : SubSeq(s, 1, m)[i] = s[1 + i - 1]
        BY <4>1, SubSeqProperties
      <4>3. QED
        BY <4>2 DEF s
    <3> HIDE DEF u
    <3>3. QED
      BY <3>2, <2>1
  <2>3. z \in Seq(S) /\ Len(z) = n /\ \A i \in 1..n : z[i] = y[i]
    <3>1. \A i \in 1..n : y[i] \in S
      BY <1>1, <1>4
    <3>2. z \in Seq(S) /\ Len(z) = (IF 1 <= n THEN n - 1 + 1 ELSE 0) /\ \A i \in 1..n - 1 + 1 : z[i] = y[1 + i - 1]
      BY <3>1, SubSeqProperties
    <3> HIDE DEF z
    <3>3. QED
      BY <3>2
  <2> HIDE DEF z
  <2>4. v \in Seq(S) /\ Len(v) = m /\ \A i \in 1..m : v[i] = IF i <= Len(x) THEN x[i] ELSE z[i - Len(x)]
    BY <2>3, ConcatProperties
  <2> HIDE DEF u, v
  <2>5. ASSUME NEW i \in 1..m
        PROVE  u[i] = v[i]
    <3>1. i \in 1..Len(x) + Len(y)
      BY <2>1, <1>1
    <3>2. u[i] = IF i <= Len(x) THEN x[i] ELSE y[i - Len(x)]
      BY <3>1, <2>2, <1>2
    <3>3. ~(i <= Len(x)) => i - Len(x) \in 1..n
      BY <1>1
    <3> HIDE DEF m
    <3>4. QED
      BY <3>2, <3>3, <2>3, <2>4
  <2> HIDE DEF m
  <2>6. u = v
    BY <2>1, <2>2, <2>4, <2>5, SeqEqual
  <2>7. QED
    BY <2>6 DEF u, v, z, m
<1>7. QED
  BY <1>5, <1>6

\* A sequence cut in two.
LEMMA CutInTwo ==
  ASSUME NEW S, NEW s \in Seq(S), NEW n \in 0..Len(s)
  PROVE  /\ SubSeq(s, 1, n) \in Seq(S) /\ Len(SubSeq(s, 1, n)) = n
         /\ SubSeq(s, n + 1, Len(s)) \in Seq(S) /\ Len(SubSeq(s, n + 1, Len(s))) = Len(s) - n
         /\ s = SubSeq(s, 1, n) \o SubSeq(s, n + 1, Len(s))
         /\ \A i \in 1..n : SubSeq(s, 1, n)[i] = s[i]
         /\ \A i \in 1..Len(s) - n : SubSeq(s, n + 1, Len(s))[i] = s[n + i]
<1>1. Len(s) \in Nat /\ \A i \in 1..Len(s) : s[i] \in S
  BY LenProperties, ElementOfSeq
<1> DEFINE u == SubSeq(s, 1, n)
           v == SubSeq(s, n + 1, Len(s))
<1>2. u \in Seq(S) /\ Len(u) = n /\ \A i \in 1..n : u[i] = s[i]
  <2>1. \A i \in 1..n : s[i] \in S
    BY <1>1
  <2>2. u \in Seq(S) /\ Len(u) = (IF 1 <= n THEN n - 1 + 1 ELSE 0) /\ \A i \in 1..n - 1 + 1 : u[i] = s[1 + i - 1]
    BY <2>1, SubSeqProperties
  <2> HIDE DEF u
  <2>3. QED
    BY <2>2
<1>3. v \in Seq(S) /\ Len(v) = Len(s) - n /\ \A i \in 1..Len(s) - n : v[i] = s[n + i]
  <2> DEFINE a == n + 1
             b == Len(s)
  <2>1. a \in Int /\ b \in Int /\ \A i \in a..b : s[i] \in S
    BY <1>1
  <2> HIDE DEF a, b
  <2>2. /\ SubSeq(s, a, b) \in Seq(S) /\ Len(SubSeq(s, a, b)) = (IF a <= b THEN b - a + 1 ELSE 0)
        /\ \A i \in 1..b - a + 1 : SubSeq(s, a, b)[i] = s[a + i - 1]
    BY <2>1, SubSeqProperties
  <2> DEFINE w == SubSeq(s, a, b)
  <2>3. w \in Seq(S) /\ Len(w) = (IF a <= b THEN b - a + 1 ELSE 0) /\ \A i \in 1..b - a + 1 : w[i] = s[a + i - 1]
    BY <2>2
  <2>4. w = v
    BY DEF a, b
  <2> HIDE DEF w, v
  <2>5. QED
    BY <2>3, <2>4, <1>1 DEF a, b
<1> HIDE DEF u, v
<1>4. u \o v = s
  <2>1. u \o v \in Seq(S) /\ Len(u \o v) = Len(s)
    BY <1>1, <1>2, <1>3, ConcatProperties
  <2>2. ASSUME NEW i \in 1..Len(s)
        PROVE  (u \o v)[i] = s[i]
    <3>1. (u \o v)[i] = IF i <= n THEN u[i] ELSE v[i - n]
      BY <1>1, <1>2, <1>3, ConcatProperties
    <3>2. CASE i <= n
      BY <3>1, <3>2, <1>1, <1>2
    <3>3. CASE ~(i <= n)
      <4>1. i - n \in 1..Len(s) - n /\ n + (i - n) = i
        BY <3>3, <1>1
      <4>2. QED
        BY <4>1, <3>1, <3>3, <1>3
    <3>4. QED
      BY <3>2, <3>3
  <2>3. QED
    BY <2>1, <2>2, <1>1, SeqEqual
<1>5. QED
  BY <1>2, <1>3, <1>4 DEF u, v

\* The lines assemble to the words, and their comments are right if their first word
\* is at p.
Stands(src, p, words) ==
  src \in Seq(Lines) /\ Assembled(src) = words /\ AddressesRight(src, p)

\* Where the lines of two files start when one is behind the other.
LEMMA StartOfConcat ==
  ASSUME NEW x \in Seq(Lines), NEW y \in Seq(Lines)
  PROVE  /\ \A n \in 1..Len(x) + 1 : Start(x \o y, n) = Start(x, n)
         /\ \A n \in 1..Len(y) + 1 : Start(x \o y, Len(x) + n) = Len(Assembled(x)) + Start(y, n)
<1>1. Len(x) \in Nat /\ Len(y) \in Nat
  BY LenProperties
<1>2. ASSUME NEW n \in 1..Len(x) + 1
      PROVE  Start(x \o y, n) = Start(x, n)
  <2>1. n - 1 \in 0..Len(x)
    BY <1>1
  <2>2. SubSeq(x \o y, 1, n - 1) = SubSeq(x, 1, n - 1)
    BY <2>1, FrontOfConcat
  <2>3. QED
    BY <2>2 DEF Start
<1>3. ASSUME NEW n \in 1..Len(y) + 1
      PROVE  Start(x \o y, Len(x) + n) = Len(Assembled(x)) + Start(y, n)
  <2> DEFINE z == SubSeq(y, 1, n - 1)
  <2>1. n - 1 \in 0..Len(y) /\ (Len(x) + n) - 1 = Len(x) + (n - 1)
    BY <1>1
  <2>2. SubSeq(x \o y, 1, Len(x) + (n - 1)) = x \o z
    BY <2>1, FrontOfConcat
  <2>3. z \in Seq(Lines)
    BY <2>1, CutInTwo
  <2>4. Start(x \o y, Len(x) + n) = 1 + Len(Assembled(x \o z)) /\ Start(y, n) = 1 + Len(Assembled(z))
    BY <2>1, <2>2 DEF Start
  <2> HIDE DEF z
  <2>5. Assembled(x \o z) = Assembled(x) \o Assembled(z)
    BY <2>3, AssembledConcat
  <2>6. /\ Assembled(x) \in Seq(Nat) /\ Assembled(z) \in Seq(Nat)
        /\ Len(Assembled(x)) \in Nat /\ Len(Assembled(z)) \in Nat
    BY <2>3, AssembledType
  <2>7. Len(Assembled(x) \o Assembled(z)) = Len(Assembled(x)) + Len(Assembled(z))
    BY <2>6, ConcatProperties
  <2>8. QED
    BY <2>4, <2>5, <2>6, <2>7
<1>4. QED
  BY <1>2, <1>3

\* Where lines start.
LEMMA StartType ==
  ASSUME NEW src \in Seq(Lines)
  PROVE  \A n \in 1..Len(src) + 1 : Start(src, n) \in Nat \ {0}
<1>1. Len(src) \in Nat
  BY LenProperties
<1>2. ASSUME NEW n \in 1..Len(src) + 1
      PROVE  Start(src, n) \in Nat \ {0}
  <2>1. n - 1 \in 0..Len(src)
    BY <1>1
  <2>2. SubSeq(src, 1, n - 1) \in Seq(Lines)
    BY <2>1, CutInTwo
  <2>3. Len(Assembled(SubSeq(src, 1, n - 1))) \in Nat
    BY <2>2, AssembledType
  <2>4. QED
    BY <2>3 DEF Start
<1>3. QED
  BY <1>2

\* A line of its own.
LEMMA StandsOne ==
  ASSUME NEW p \in Nat, NEW line \in Lines, Base \in Nat
  PROVE  /\ (line.at = NoAt \/ line.at = Address(p)) => Stands(<<line>>, p, line.words)
         /\ Stands(<<line>>, p, line.words) => (line.at = NoAt \/ line.at = Address(p))
<1> DEFINE src == <<line>>
<1>1. src \in Seq(Lines) /\ Len(src) = 1 /\ src[1] = line /\ DOMAIN src = {1}
  OBVIOUS
<1>2. Assembled(src) = line.words
  BY AssembledOne
<1>3. Start(src, 1) = 1
  <2>1. SubSeq(src, 1, 1 - 1) = <<>>
    <3> HIDE DEF src
    <3>1. SubSeq(src, 1, 0) = <<>>
      BY SubSeqEmpty
    <3>2. QED
      BY <3>1
  <2>2. Len(<<>>) = 0
    OBVIOUS
  <2> HIDE DEF src
  <2>3. Start(src, 1) = 1 + Len(Assembled(SubSeq(src, 1, 1 - 1)))
    BY DEF Start
  <2>4. Len(Assembled(SubSeq(src, 1, 1 - 1))) = 0
    BY <2>1, <2>2, AssembledEmpty, Zenon
  <2>5. QED
    BY <2>3, <2>4
<1>4. AddressesRight(src, p) <=> (line.at # NoAt => line.at = Address(p))
  <2>1. p - 1 + 1 = p
    OBVIOUS
  <2> HIDE DEF src
  <2>2. QED
    BY <1>1, <1>3, <2>1 DEF AddressesRight
<1>5. QED
  BY <1>1, <1>2, <1>4 DEF Stands

\* No line at all.
LEMMA StandsNone == \A p : Stands(<<>>, p, <<>>)
<1>1. <<>> \in Seq(Lines) /\ DOMAIN <<>> = {}
  BY EmptySeq
<1>2. QED
  BY <1>1, AssembledEmpty DEF Stands, AddressesRight

\* Lines that stand behind lines.
LEMMA StandsTogether ==
  ASSUME NEW p \in Nat, NEW u, NEW v, NEW x, NEW y, Base \in Nat,
         Stands(x, p, u), Stands(y, p + Len(u), v)
  PROVE  Stands(x \o y, p, u \o v)
<1>1. /\ x \in Seq(Lines) /\ y \in Seq(Lines) /\ Assembled(x) = u /\ Assembled(y) = v
      /\ AddressesRight(x, p) /\ AddressesRight(y, p + Len(u))
  BY DEF Stands
<1>2. x \o y \in Seq(Lines) /\ Len(x) \in Nat /\ Len(y) \in Nat /\ Len(u) \in Nat
  BY <1>1, ConcatProperties, LenProperties, AssembledType
<1>3. DOMAIN (x \o y) = 1..Len(x) + Len(y) /\ DOMAIN x = 1..Len(x) /\ DOMAIN y = 1..Len(y)
  BY <1>1, ConcatProperties, LenProperties
<1>4. ASSUME NEW n \in 1..Len(x) + Len(y), (x \o y)[n].at # NoAt
      PROVE  (x \o y)[n].at = Address(p - 1 + Start(x \o y, n))
  <2>1. (x \o y)[n] = IF n <= Len(x) THEN x[n] ELSE y[n - Len(x)]
    BY <1>1, ConcatProperties
  <2>2. CASE n <= Len(x)
    <3>1. n \in 1..Len(x) /\ n \in 1..Len(x) + 1
      BY <2>2, <1>2
    <3>2. Start(x \o y, n) = Start(x, n)
      BY <3>1, <1>1, StartOfConcat
    <3>3. x[n].at = Address(p - 1 + Start(x, n))
      BY <3>1, <1>1, <1>3, <1>4, <2>1, <2>2 DEF AddressesRight
    <3>4. QED
      BY <2>1, <2>2, <3>2, <3>3
  <2>3. CASE ~(n <= Len(x))
    <3> DEFINE m == n - Len(x)
    <3>1. m \in 1..Len(y) /\ m \in 1..Len(y) + 1 /\ n = Len(x) + m
      BY <2>3, <1>2
    <3> HIDE DEF m
    <3>2. Start(x \o y, n) = Len(u) + Start(y, m)
      BY <3>1, <1>1, StartOfConcat
    <3>3. y[m].at = Address(p + Len(u) - 1 + Start(y, m))
      BY <3>1, <1>1, <1>3, <1>4, <2>1, <2>3 DEF AddressesRight, m
    <3>4. Start(y, m) \in Nat
      BY <3>1, <1>1, StartType
    <3>5. p + Len(u) - 1 + Start(y, m) = p - 1 + Start(x \o y, n)
      BY <3>2, <3>4, <1>2
    <3>6. QED
      BY <2>1, <2>3, <3>3, <3>5 DEF m
  <2>4. QED
    BY <2>2, <2>3
<1>5. AddressesRight(x \o y, p)
  BY <1>3, <1>4 DEF AddressesRight
<1>6. Assembled(x \o y) = u \o v
  BY <1>1, AssembledConcat
<1>7. QED
  BY <1>2, <1>5, <1>6 DEF Stands

\* The two parts of lines that stand.
LEMMA StandsApart ==
  ASSUME NEW p \in Nat, NEW w, NEW x \in Seq(Lines), NEW y \in Seq(Lines), Base \in Nat,
         Stands(x \o y, p, w)
  PROVE  /\ Stands(x, p, Assembled(x))
         /\ Stands(y, p + Len(Assembled(x)), Assembled(y))
         /\ w = Assembled(x) \o Assembled(y)
<1> DEFINE u == Assembled(x)
<1>1. AddressesRight(x \o y, p) /\ Assembled(x \o y) = w
  BY DEF Stands
<1>2. Len(x) \in Nat /\ Len(y) \in Nat /\ Len(u) \in Nat
  BY LenProperties, AssembledType
<1>3. DOMAIN (x \o y) = 1..Len(x) + Len(y) /\ DOMAIN x = 1..Len(x) /\ DOMAIN y = 1..Len(y)
  BY ConcatProperties, LenProperties
<1> HIDE DEF u
<1>4. ASSUME NEW n \in 1..Len(x), x[n].at # NoAt
      PROVE  x[n].at = Address(p - 1 + Start(x, n))
  <2>1. n \in 1..Len(x) + Len(y) /\ n \in 1..Len(x) + 1
    BY <1>2
  <2>2. (x \o y)[n] = x[n]
    BY <2>1, ConcatProperties
  <2>3. Start(x \o y, n) = Start(x, n)
    BY <2>1, StartOfConcat
  <2>4. QED
    BY <2>1, <2>2, <2>3, <1>1, <1>3, <1>4 DEF AddressesRight
<1>5. ASSUME NEW n \in 1..Len(y), y[n].at # NoAt
      PROVE  y[n].at = Address(p + Len(u) - 1 + Start(y, n))
  <2> DEFINE m == Len(x) + n
  <2>1. m \in 1..Len(x) + Len(y) /\ n \in 1..Len(y) + 1 /\ ~(m <= Len(x)) /\ m - Len(x) = n
    BY <1>2
  <2> HIDE DEF m
  <2>2. (x \o y)[m] = y[n]
    BY <2>1, ConcatProperties
  <2>3. Start(x \o y, m) = Len(u) + Start(y, n)
    BY <2>1, StartOfConcat DEF m, u
  <2>4. Start(y, n) \in Nat
    BY <2>1, StartType
  <2>5. p - 1 + Start(x \o y, m) = p + Len(u) - 1 + Start(y, n)
    BY <2>3, <2>4, <1>2
  <2>6. (x \o y)[m].at = Address(p - 1 + Start(x \o y, m))
    BY <2>1, <2>2, <1>1, <1>3, <1>5 DEF AddressesRight
  <2>7. QED
    BY <2>2, <2>5, <2>6
<1>6. Assembled(x \o y) = Assembled(x) \o Assembled(y)
  BY AssembledConcat
<1>7. AddressesRight(x, p) /\ AddressesRight(y, p + Len(u))
  BY <1>3, <1>4, <1>5 DEF AddressesRight
<1>8. QED
  BY <1>1, <1>6, <1>7 DEF Stands, u

\* A sequence in three parts, of which the second is from i to j.
Parted(S, s, i, j) ==
  /\ SubSeq(s, 1, i - 1) \in Seq(S) /\ SubSeq(s, i, j) \in Seq(S) /\ SubSeq(s, j + 1, Len(s)) \in Seq(S)
  /\ Len(SubSeq(s, 1, i - 1)) = i - 1 /\ Len(SubSeq(s, i, j)) = j - i + 1
  /\ Len(SubSeq(s, j + 1, Len(s))) = Len(s) - j
  /\ s = (SubSeq(s, 1, i - 1) \o SubSeq(s, i, j)) \o SubSeq(s, j + 1, Len(s))
  /\ SubSeq(s, 1, j) = SubSeq(s, 1, i - 1) \o SubSeq(s, i, j)
  /\ \A n \in 1..j - i + 1 : SubSeq(s, i, j)[n] = s[i + n - 1]

\* The part between two cuts.
LEMMA MiddlePart ==
  ASSUME NEW S, NEW s \in Seq(S), NEW i \in 1..Len(s) + 1, NEW j \in i - 1..Len(s)
  PROVE  Parted(S, s, i, j)
<1>1. Len(s) \in Nat /\ i - 1 \in 0..Len(s) /\ j \in 0..Len(s) /\ i \in Int /\ j \in Int /\ 1 \in Int
  BY LenProperties
<1>2. \A n \in i..j : s[n] \in S
  BY <1>1, ElementOfSeq
<1>3. /\ SubSeq(s, i, j) \in Seq(S) /\ Len(SubSeq(s, i, j)) = (IF i <= j THEN j - i + 1 ELSE 0)
      /\ \A n \in 1..j - i + 1 : SubSeq(s, i, j)[n] = s[i + n - 1]
  BY <1>1, <1>2, SubSeqProperties
<1>4. Len(SubSeq(s, i, j)) = j - i + 1
  BY <1>1, <1>3
<1>5. /\ SubSeq(s, 1, i - 1) \in Seq(S) /\ Len(SubSeq(s, 1, i - 1)) = i - 1
      /\ SubSeq(s, j + 1, Len(s)) \in Seq(S) /\ Len(SubSeq(s, j + 1, Len(s))) = Len(s) - j
      /\ s = SubSeq(s, 1, j) \o SubSeq(s, j + 1, Len(s))
  BY <1>1, CutInTwo
<1>6. SubSeq(s, 1, j) = SubSeq(s, 1, i - 1) \o SubSeq(s, i, j)
  <2> DEFINE k == i - 1
  <2>1. k + 1 = i /\ 1 \in 1..Len(s) + 1 /\ k \in 1 - 1..Len(s) /\ j \in k..Len(s)
    BY <1>1
  <2> HIDE DEF k
  <2>2. SubSeq(s, 1, k) \o SubSeq(s, k + 1, j) = SubSeq(s, 1, j)
    BY <2>1, ConcatAdjacentSubSeq
  <2>3. QED
    BY <2>1, <2>2 DEF k
<1>7. QED
  BY <1>3, <1>4, <1>5, <1>6 DEF Parted

\* Other lines in the place of some that assemble to the same words.
LEMMA Replaced ==
  ASSUME NEW p \in Nat \ {0}, NEW w, NEW src, Base \in Nat, Stands(src, p, w),
         NEW i \in 1..Len(src) + 1, NEW j \in i - 1..Len(src), NEW mid,
         Stands(mid, p - 1 + Start(src, i), Assembled(SubSeq(src, i, j)))
  PROVE  Stands((SubSeq(src, 1, i - 1) \o mid) \o SubSeq(src, j + 1, Len(src)), p, w)
<1> DEFINE x == SubSeq(src, 1, i - 1)
           m == SubSeq(src, i, j)
           y == SubSeq(src, j + 1, Len(src))
<1>1. src \in Seq(Lines)
  BY DEF Stands
<1>2. x \in Seq(Lines) /\ m \in Seq(Lines) /\ y \in Seq(Lines) /\ src = (x \o m) \o y
  <2>1. Parted(Lines, src, i, j)
    BY <1>1, MiddlePart
  <2>2. QED
    BY <2>1 DEF Parted
<1>3. Start(src, i) = 1 + Len(Assembled(x))
  BY DEF Start
<1> HIDE DEF x, m, y
<1>4. x \o m \in Seq(Lines) /\ Stands((x \o m) \o y, p, w)
  BY <1>2, ConcatProperties
<1>5. /\ Stands(x \o m, p, Assembled(x \o m))
      /\ Stands(y, p + Len(Assembled(x \o m)), Assembled(y))
      /\ w = Assembled(x \o m) \o Assembled(y)
  <2> DEFINE z == x \o m
  <2>1. z \in Seq(Lines) /\ y \in Seq(Lines) /\ Stands(z \o y, p, w) /\ p \in Nat
    BY <1>2, <1>4
  <2> HIDE DEF z
  <2>2. Stands(z, p, Assembled(z)) /\ Stands(y, p + Len(Assembled(z)), Assembled(y)) /\ w = Assembled(z) \o Assembled(y)
    BY <2>1, StandsApart
  <2>3. QED
    BY <2>2 DEF z
<1>6. Stands(x, p, Assembled(x))
  BY <1>2, <1>5, StandsApart
<1>7. Stands(mid, p + Len(Assembled(x)), Assembled(m))
  <2>1. Len(Assembled(x)) \in Nat
    BY <1>2, AssembledType
  <2>2. p - 1 + Start(src, i) = p + Len(Assembled(x))
    BY <1>3, <2>1
  <2>3. QED
    BY <2>2 DEF m
<1>8. Stands(x \o mid, p, Assembled(x) \o Assembled(m))
  BY <1>6, <1>7, StandsTogether
<1>9. Assembled(x) \o Assembled(m) = Assembled(x \o m)
  BY <1>2, AssembledConcat
<1>10. Stands((x \o mid) \o y, p, w)
  BY <1>5, <1>8, <1>9, StandsTogether
<1>11. QED
  BY <1>10 DEF x, y

\* A line and the next.
LEMMA StartNext ==
  ASSUME NEW src \in Seq(Lines)
  PROVE  /\ Start(src, 1) = 1 /\ Start(src, Len(src) + 1) = 1 + Len(Assembled(src))
         /\ \A n \in 1..Len(src) : Start(src, n + 1) = Start(src, n) + Len(src[n].words)
         /\ \A n \in 1..Len(src) : SubSeq(src, n, n) = <<src[n]>> /\ Assembled(SubSeq(src, n, n)) = src[n].words
<1>1. Len(src) \in Nat
  BY LenProperties
<1>2. Start(src, 1) = 1
  <2>1. SubSeq(src, 1, 0) = <<>>
    BY SubSeqEmpty
  <2>2. Len(Assembled(SubSeq(src, 1, 0))) = 0
    BY <2>1, AssembledEmpty, EmptySeq, Zenon
  <2>3. Start(src, 1) = 1 + Len(Assembled(SubSeq(src, 1, 1 - 1))) /\ 1 - 1 = 0
    BY DEF Start
  <2>4. QED
    BY <2>2, <2>3
<1>3. Start(src, Len(src) + 1) = 1 + Len(Assembled(src))
  <2>1. SubSeq(src, 1, Len(src)) = src /\ (Len(src) + 1) - 1 = Len(src)
    BY <1>1, SubSeqFull
  <2>2. QED
    BY <2>1 DEF Start
<1>4. ASSUME NEW n \in 1..Len(src)
      PROVE  SubSeq(src, n, n) = <<src[n]>> /\ Assembled(SubSeq(src, n, n)) = src[n].words
  <2>1. src[n] \in Lines /\ n \in Int
    BY ElementOfSeq, <1>1
  <2>2. n + 1 \in Int /\ n < n + 1 /\ n \in n..Len(src)
    BY <1>1
  <2>3. SubSeq(src, n, n) = <<src[n]>> \o SubSeq(src, n + 1, n)
    BY <2>2, SubSeqRecursiveFirst
  <2>4. SubSeq(src, n + 1, n) = <<>>
    BY <2>1, <2>2, SubSeqEmpty
  <2>5. <<src[n]>> \in Seq(Lines)
    BY <2>1
  <2>6. SubSeq(src, n, n) = <<src[n]>>
    BY <2>3, <2>4, <2>5, ConcatEmptySeq
  <2>7. QED
    BY <2>1, <2>6, AssembledOne
<1>5. ASSUME NEW n \in 1..Len(src)
      PROVE  Start(src, n + 1) = Start(src, n) + Len(src[n].words)
  <2> DEFINE x == SubSeq(src, 1, n - 1)
             m == SubSeq(src, n, n)
  <2>1. n \in 1..Len(src) + 1 /\ n \in n - 1..Len(src) /\ (n + 1) - 1 = n
    BY <1>1
  <2>2. x \in Seq(Lines) /\ m \in Seq(Lines) /\ SubSeq(src, 1, n) = x \o m
    <3>1. Parted(Lines, src, n, n)
      BY <2>1, MiddlePart
    <3>2. QED
      BY <3>1 DEF Parted
  <2>3. Assembled(m) = src[n].words
    BY <1>4
  <2>4. Start(src, n + 1) = 1 + Len(Assembled(x \o m)) /\ Start(src, n) = 1 + Len(Assembled(x))
    BY <2>1, <2>2 DEF Start
  <2> HIDE DEF x, m
  <2>5. Assembled(x \o m) = Assembled(x) \o Assembled(m)
    BY <2>2, AssembledConcat
  <2>6. /\ Assembled(x) \in Seq(Nat) /\ Assembled(m) \in Seq(Nat)
        /\ Len(Assembled(x)) \in Nat /\ Len(Assembled(m)) \in Nat
    BY <2>2, AssembledType
  <2>7. Len(Assembled(x) \o Assembled(m)) = Len(Assembled(x)) + Len(Assembled(m))
    BY <2>6, ConcatProperties
  <2>8. Start(src, n + 1) = 1 + (Len(Assembled(x)) + Len(src[n].words))
    BY <2>3, <2>4, <2>5, <2>7
  <2>9. Len(src[n].words) \in Nat
    BY <2>3, <2>6
  <2> DEFINE a == Len(Assembled(x))
             l == Len(src[n].words)
  <2>10. a \in Nat /\ l \in Nat /\ Start(src, n) = 1 + a /\ Start(src, n + 1) = 1 + (a + l)
    BY <2>4, <2>6, <2>8, <2>9
  <2>11. Start(src, n + 1) = Start(src, n) + l
    <3> HIDE DEF a, l
    <3> QED
      BY <2>10
  <2>12. QED
    BY <2>11
<1>6. QED
  BY <1>2, <1>3, <1>4, <1>5

---------------------------------------------------------------------------
(* --rewrite.                                                              *)

\* Lines with the same words and the same comments.
AlikeLines(x, y) ==
  /\ x \in Seq(Lines) /\ y \in Seq(Lines) /\ Len(x) = Len(y)
  /\ \A n \in 1..Len(x) : x[n].words = y[n].words /\ x[n].at = y[n].at

\* They assemble to the same.
LEMMA AssembledAlike ==
  ASSUME NEW x, NEW y, AlikeLines(x, y)
  PROVE  Assembled(x) = Assembled(y)
<1>1. x \in Seq(Lines) /\ y \in Seq(Lines) /\ Len(x) = Len(y) /\ \A n \in 1..Len(x) : x[n].words = y[n].words
  BY DEF AlikeLines
<1>2. DOMAIN x = 1..Len(x) /\ DOMAIN y = 1..Len(x)
  BY <1>1, LenProperties
<1>3. WordsOf(x) = WordsOf(y)
  BY <1>1, <1>2 DEF WordsOf
<1>4. QED
  BY <1>3 DEF Assembled, WordsOf

\* They stand in the same place.
LEMMA StandsAlike ==
  ASSUME NEW p, NEW w, NEW x, NEW y, AlikeLines(x, y), Stands(x, p, w)
  PROVE  Stands(y, p, w)
<1>1. /\ x \in Seq(Lines) /\ y \in Seq(Lines) /\ Len(x) = Len(y) /\ Len(x) \in Nat
      /\ \A n \in 1..Len(x) : x[n].words = y[n].words /\ x[n].at = y[n].at
  BY LenProperties DEF AlikeLines
<1>2. DOMAIN x = 1..Len(x) /\ DOMAIN y = 1..Len(x)
  BY <1>1, LenProperties
<1>3. ASSUME NEW n \in 1..Len(x)
      PROVE  Start(x, n) = Start(y, n)
  <2> DEFINE u == SubSeq(x, 1, n - 1)
             v == SubSeq(y, 1, n - 1)
  <2>1. n - 1 \in 0..Len(x) /\ n - 1 \in 0..Len(y)
    BY <1>1
  <2>2. u \in Seq(Lines) /\ Len(u) = n - 1 /\ \A i \in 1..n - 1 : u[i] = x[i]
    BY <1>1, <2>1, CutInTwo
  <2>3. v \in Seq(Lines) /\ Len(v) = n - 1 /\ \A i \in 1..n - 1 : v[i] = y[i]
    BY <1>1, <2>1, CutInTwo
  <2> HIDE DEF u, v
  <2>4. \A i \in 1..n - 1 : i \in 1..Len(x)
    BY <1>1
  <2>5. AlikeLines(u, v)
    BY <1>1, <2>2, <2>3, <2>4 DEF AlikeLines
  <2>6. Assembled(u) = Assembled(v)
    BY <2>5, AssembledAlike
  <2>7. QED
    BY <2>6 DEF Start, u, v
<1>4. Assembled(y) = w
  BY AssembledAlike DEF Stands
<1>5. AddressesRight(y, p)
  BY <1>1, <1>2, <1>3 DEF Stands, AddressesRight
<1>6. QED
  BY <1>1, <1>4, <1>5 DEF Stands

\* A line that is rewritten has the words and the comment it had.
LEMMA RewrittenLine ==
  ASSUME NEW line \in Lines, HandEncoded(line) => Len(line.words) = 3
  PROVE  /\ RewriteCode(line) \in Lines
         /\ RewriteCode(line).words = line.words /\ RewriteCode(line).at = line.at
<1>1. /\ line.words \in Seq(Nat) /\ Len(line.words) \in Nat /\ line.at \in Int
      /\ line.refs \in Operands /\ line.based \in SUBSET Nat
      /\ line.kind \in {"dcw", "dcl", "code", "text"}
  BY LineFields
<1>2. line \in [kind : {"dcw", "dcl", "code", "text"}, words : Seq(Nat), at : Int,
                refs : Operands, based : SUBSET Nat]
  BY DEF Lines
<1>3. CASE HandEncoded(line)
  <2> DEFINE operand == [form |-> HandForm(line.words[1]), value |-> Long(line.words, 2)]
             refs == [k \in {2} |-> operand]
  <2>1. Len(line.words) = 3 /\ 3 \in Nat
    BY <1>3
  <2>2. SubSeq(line.words, 1, 3) = line.words
    BY <2>1, <1>1, SubSeqFull
  <2>3. line.words[2] \in Nat /\ line.words[2 + 1] \in Nat
    BY <2>1, <1>1, ElementOfSeq
  <2>4. Long(line.words, 2) \in Nat
    <3>1. Long(line.words, 2) = 65536 * line.words[2] + line.words[2 + 1]
      BY DEF Long
    <3> DEFINE a == line.words[2]
               b == line.words[2 + 1]
    <3> HIDE DEF a, b
    <3>2. a \in Nat /\ b \in Nat
      BY <2>3 DEF a, b
    <3>3. 65536 * a + b \in Nat
      BY <3>2
    <3>4. QED
      BY <3>1, <3>3 DEF a, b
  <2>5. HandForm(line.words[1]) \in SafeForms \cup {"imm"}
    <3> DEFINE op == line.words[1]
               A == {\h41F9 + 512 * r : r \in 0..6}
               B == {\h2079 + 512 * r : r \in 0..3}
    <3>1. HandForm(op) = (CASE op \in A -> "lea" [] op \in B -> "load" [] OTHER -> "abs")
      BY DEF HandForm
    <3> HIDE DEF A, B, op
    <3>2. HandForm(op) \in {"lea", "load", "abs"}
      BY <3>1
    <3>3. QED
      BY <3>2 DEF op, SafeForms
  <2>6. operand \in [form : SafeForms \cup {"imm"}, value : Nat]
    BY <2>4, <2>5
  <2> HIDE DEF operand
  <2>7. refs \in [{2} -> [form : SafeForms \cup {"imm"}, value : Nat]]
    BY <2>6
  <2>8. refs \in Operands
    <3>1. {2} \in SUBSET Nat
      OBVIOUS
    <3>2. QED
      BY <2>7, <3>1, Zenon DEF Operands
  <2> HIDE DEF refs
  <2>9. RewriteCode(line) = Line("code", line.words, line.at, refs, {2})
    <3>1. RewriteCode(line) =
            Line("code", SubSeq(line.words, 1, 3), line.at,
                 [k \in {2} |-> [form |-> HandForm(line.words[1]), value |-> Long(line.words, 2)]], {2})
      BY <1>3, Zenon DEF RewriteCode
    <3>2. QED
      BY <3>1, <2>2 DEF refs, operand
  <2>10. QED
    BY <1>1, <2>8, <2>9, LineMade
<1>4. CASE ~HandEncoded(line) /\ IsTable(line)
  <2>1. Pairs(line.words) \in SUBSET Nat
    BY <1>1, LenProperties DEF Pairs
  <2>2. RewriteCode(line) = [line EXCEPT !.kind = "dcl", !.based = Pairs(line.words)]
    BY <1>4 DEF RewriteCode
  <2> DEFINE b == Pairs(line.words)
  <2> HIDE DEF b
  <2>3. /\ [line EXCEPT !.kind = "dcl", !.based = b] \in Lines
        /\ [line EXCEPT !.kind = "dcl", !.based = b].words = line.words
        /\ [line EXCEPT !.kind = "dcl", !.based = b].at = line.at
    BY <1>2, <2>1 DEF Lines, b
  <2>4. QED
    BY <2>2, <2>3 DEF b
<1>5. CASE ~HandEncoded(line) /\ ~IsTable(line)
  <2> DEFINE b == Based(line)
  <2>1. b \in SUBSET Nat
    <3>1. Pairs(line.words) \in SUBSET Nat
      BY <1>1, LenProperties DEF Pairs
    <3>2. DOMAIN line.refs \in SUBSET Nat
      BY <1>1 DEF Operands
    <3>3. QED
      BY <3>1, <3>2 DEF Based
  <2>2. RewriteCode(line) = [line EXCEPT !.based = b]
    BY <1>5 DEF RewriteCode
  <2> HIDE DEF b
  <2>3. /\ [line EXCEPT !.based = b] \in Lines
        /\ [line EXCEPT !.based = b].words = line.words
        /\ [line EXCEPT !.based = b].at = line.at
    BY <1>2, <2>1 DEF Lines
  <2>4. QED
    BY <2>2, <2>3
<1>6. QED
  BY <1>3, <1>4, <1>5

\* --rewrite leaves the lines where they stand.
LEMMA RewrittenStands ==
  ASSUME NEW p, NEW w, NEW src, NEW only, Stands(src, p, w),
         \A n \in DOMAIN src : HandEncoded(src[n]) => Len(src[n].words) = 3
  PROVE  Stands(Rewritten(src, only), p, w)
<1> DEFINE Due(n) == Forms(src, n) # {} /\ (only = All \/ Forms(src, n) = {only})
           new == [n \in DOMAIN src |-> IF Due(n) THEN RewriteCode(src[n]) ELSE src[n]]
<1>1. src \in Seq(Lines) /\ Len(src) \in Nat /\ DOMAIN src = 1..Len(src)
  BY LenProperties DEF Stands
<1>2. ASSUME NEW n \in 1..Len(src)
      PROVE  new[n] \in Lines /\ new[n].words = src[n].words /\ new[n].at = src[n].at
  <2>1. src[n] \in Lines /\ (HandEncoded(src[n]) => Len(src[n].words) = 3)
    BY <1>1, ElementOfSeq
  <2>2. new[n] = IF Due(n) THEN RewriteCode(src[n]) ELSE src[n]
    BY <1>1
  <2> HIDE DEF new, Due
  <2>3. /\ RewriteCode(src[n]) \in Lines
        /\ RewriteCode(src[n]).words = src[n].words /\ RewriteCode(src[n]).at = src[n].at
    BY <2>1, RewrittenLine
  <2>4. QED
    BY <2>1, <2>2, <2>3
<1>3. new \in [1..Len(src) -> Lines]
  <2>1. new = [n \in 1..Len(src) |-> new[n]]
    BY <1>1
  <2> HIDE DEF new
  <2>2. QED
    BY <1>2, <2>1
<1>4. Rewritten(src, only) = new \/ Rewritten(src, only) = src
  BY DEF Rewritten
<1> HIDE DEF new
<1>5. new \in Seq(Lines) /\ Len(new) = Len(src)
  BY <1>1, <1>3
<1>6. AlikeLines(src, new)
  BY <1>1, <1>2, <1>5 DEF AlikeLines
<1>7. Stands(new, p, w)
  BY <1>6, StandsAlike
<1>8. QED
  BY <1>4, <1>7

---------------------------------------------------------------------------
(* --rewrite-indirect: lines that are joined.                              *)

\* A set of numbers that is not empty has a least.
LEMMA Least ==
  ASSUME NEW S \in SUBSET Nat, S # {}
  PROVE  \E m \in S : \A j \in S : m <= j
<1>1. PICK m \in S : \A j \in S : ~(<<j, m>> \in OpToRel(<, Nat))
  BY WFMin, NatLessThanWellFounded
<1>2. ASSUME NEW j \in S
      PROVE  m <= j
  <2>1. j \in Nat /\ m \in Nat
    OBVIOUS
  <2>2. j < m => <<j, m>> \in OpToRel(<, Nat)
    BY <2>1 DEF OpToRel
  <2>3. ~(j < m)
    BY <1>1, <2>2
  <2>4. QED
    BY <2>1, <2>3
<1>3. QED
  BY <1>2

\* The place of a line of lines that stand.
LEMMA LineStands ==
  ASSUME NEW p \in Nat \ {0}, NEW w, NEW src, Stands(src, p, w), NEW n \in 1..Len(src)
  PROVE  /\ src[n] \in Lines /\ p - 1 + Start(src, n) \in Nat \ {0}
         /\ src[n].at # NoAt => src[n].at = Address(p - 1 + Start(src, n))
<1>1. src \in Seq(Lines) /\ AddressesRight(src, p) /\ DOMAIN src = 1..Len(src) /\ Len(src) \in Nat
  BY LenProperties DEF Stands
<1>2. n \in 1..Len(src) + 1
  BY <1>1
<1>3. Start(src, n) \in Nat \ {0}
  BY <1>1, <1>2, StartType
<1>4. QED
  BY <1>1, <1>3, ElementOfSeq DEF AddressesRight

\* One join leaves the lines where they stand.
LEMMA MergeOnceStands ==
  ASSUME NEW p \in Nat \ {0}, NEW w, NEW src, NEW targets, Base \in Nat, Stands(src, p, w)
  PROVE  Stands(MergeOnce(src, targets), p, w)
<1> DEFINE joins == {n \in 1..Len(src) - 1 : Joins(src, n, targets)}
           n == CHOOSE m \in joins : \A j \in joins : m <= j
           joined == [src[n] EXCEPT !.words = @ \o src[n + 1].words]
<1>1. src \in Seq(Lines) /\ Len(src) \in Nat
  BY LenProperties DEF Stands
<1>2. CASE joins = {}
  BY <1>2 DEF MergeOnce
<1>3. CASE joins # {}
  <2>1. MergeOnce(src, targets) = (SubSeq(src, 1, n - 1) \o <<joined>>) \o SubSeq(src, n + 2, Len(src))
    BY <1>3 DEF MergeOnce
  <2>2. n \in joins
    <3>1. joins \in SUBSET Nat
      OBVIOUS
    <3> HIDE DEF joins
    <3>2. \E m \in joins : \A j \in joins : m <= j
      BY <3>1, <1>3, Least
    <3>3. QED
      BY <3>2
  <2>3. n \in 1..Len(src) /\ n + 1 \in 1..Len(src) /\ n \in 1..Len(src) + 1 /\ n + 1 \in n - 1..Len(src)
    BY <1>1, <2>2
  <2> HIDE DEF n, joins
  <2> DEFINE a == src[n]
             b == src[n + 1]
  <2>4. a \in Lines /\ b \in Lines
    BY <1>1, <2>3, ElementOfSeq
  <2>5. /\ p - 1 + Start(src, n) \in Nat \ {0}
        /\ a.at # NoAt => a.at = Address(p - 1 + Start(src, n))
    BY <2>3, LineStands
  <2>6. a.words \in Seq(Nat) /\ b.words \in Seq(Nat) /\ (a.kind = "dcw" => a.words # <<>>)
    BY <2>4, LineFields
  <2>7. a.words \o b.words \in Seq(Nat) /\ (a.kind = "dcw" => a.words \o b.words # <<>>)
    <3> DEFINE u == a.words
               v == b.words
    <3>1. u \in Seq(Nat) /\ v \in Seq(Nat)
      BY <2>6
    <3> HIDE DEF u, v
    <3>2. u \o v \in Seq(Nat) /\ (u \o v = <<>> => u = <<>>)
      BY <3>1, ConcatProperties, ConcatEqualIffEmpty
    <3>3. QED
      BY <2>6, <3>2 DEF u, v
  <2>8. joined \in Lines /\ joined.words = a.words \o b.words /\ joined.at = a.at
    <3>1. joined = [a EXCEPT !.words = a.words \o b.words]
      OBVIOUS
    <3> DEFINE u == a.words \o b.words
    <3> HIDE DEF u, a, b, joined
    <3>2. [a EXCEPT !.words = u] \in Lines /\ [a EXCEPT !.words = u].words = u /\ [a EXCEPT !.words = u].at = a.at
      BY <2>4, <2>7 DEF Lines, u
    <3>3. QED
      BY <3>1, <3>2 DEF u
  <2>9. Assembled(SubSeq(src, n, n + 1)) = a.words \o b.words
    <3>1. SubSeq(src, n, n + 1) = <<a>> \o SubSeq(src, n + 1, n + 1)
      <4>1. n + 1 \in n..Len(src)
        BY <1>1, <2>3
      <4>2. QED
        BY <1>1, <2>3, <4>1, SubSeqRecursiveFirst
    <3>2. SubSeq(src, n + 1, n + 1) = <<b>>
      BY <1>1, <2>3, StartNext
    <3>3. <<a>> \in Seq(Lines) /\ <<b>> \in Seq(Lines)
      BY <2>4
    <3> DEFINE x == <<a>>
               y == <<b>>
    <3>4. Assembled(x) = a.words /\ Assembled(y) = b.words
      BY <2>4, AssembledOne
    <3>5. x \in Seq(Lines) /\ y \in Seq(Lines) /\ SubSeq(src, n, n + 1) = x \o y
      BY <3>1, <3>2, <3>3
    <3> HIDE DEF x, y, a, b
    <3>6. Assembled(x \o y) = Assembled(x) \o Assembled(y)
      BY <3>5, AssembledConcat
    <3>7. QED
      BY <3>4, <3>5, <3>6
  <2> HIDE DEF joined, a, b
  <2>10. Stands(<<joined>>, p - 1 + Start(src, n), joined.words)
    BY <2>5, <2>8, StandsOne
  <2> DEFINE mid == <<joined>>
             j == n + 1
  <2>11. /\ Stands(mid, p - 1 + Start(src, n), Assembled(SubSeq(src, n, j)))
         /\ n \in 1..Len(src) + 1 /\ j \in n - 1..Len(src) /\ j + 1 = n + 2
    <3>1. n \in 1..Len(src) + 1 /\ j \in n - 1..Len(src) /\ j + 1 = n + 2
      BY <1>1, <2>3
    <3>2. joined.words = Assembled(SubSeq(src, n, n + 1))
      BY <2>8, <2>9
    <3>3. QED
      BY <2>10, <3>1, <3>2
  <2> HIDE DEF mid, j
  <2>12. Stands((SubSeq(src, 1, n - 1) \o mid) \o SubSeq(src, j + 1, Len(src)), p, w)
    BY <2>11, Replaced
  <2>13. QED
    BY <2>1, <2>11, <2>12 DEF mid
<1>4. QED
  BY <1>2, <1>3

\* Joins leave the lines where they stand.
LEMMA MergedStands ==
  ASSUME NEW p \in Nat \ {0}, NEW w, NEW src, NEW targets, Base \in Nat, Stands(src, p, w)
  PROVE  Stands(Merged(src, targets), p, w)
<1> DEFINE N == Len(src)
           T == {s \in Seq(Lines) : Stands(s, p, w)}
           F == [k \in 1..N |-> [s \in T |-> MergeOnce(s, targets)]]
           Is(f) == f = [k \in 0..N |-> IF k = 0 THEN src ELSE MergeOnce(f[k - 1], targets)]
           c == CHOOSE f : Is(f)
<1>1. N \in Nat /\ src \in T
  BY LenProperties DEF Stands
<1>2. \A s \in T : MergeOnce(s, targets) \in T
  <2>1. ASSUME NEW s \in T
        PROVE  MergeOnce(s, targets) \in T
    <3>1. Stands(MergeOnce(s, targets), p, w)
      BY MergeOnceStands
    <3>2. QED
      BY <3>1 DEF Stands
  <2>2. QED
    BY <2>1
<1>3. Merged(src, targets) = c[N]
  BY DEF Merged
<1> HIDE DEF N, T
<1>4. F \in [1..N -> [T -> T]]
  BY <1>2
<1>5. PICK g \in [0..N -> T] : g[0] = src /\ \A k \in 1..N : g[k] = F[k][g[k - 1]]
  <2> HIDE DEF F
  <2>1. Recursive(N, T, src, F) # {}
    BY <1>1, <1>4, Recursion
  <2>2. QED
    BY <2>1 DEF Recursive
<1>6. Is(g)
  <2>1. ASSUME NEW k \in 0..N
        PROVE  g[k] = IF k = 0 THEN src ELSE MergeOnce(g[k - 1], targets)
    <3>1. CASE k = 0
      BY <3>1, <1>5
    <3>2. CASE k # 0
      <4>1. k \in 1..N /\ k - 1 \in 0..N
        BY <3>2, <1>1
      <4>2. g[k - 1] \in T /\ g[k] = F[k][g[k - 1]]
        BY <4>1, <1>5
      <4>3. QED
        BY <3>2, <4>1, <4>2
    <3>3. QED
      BY <3>1, <3>2
  <2>2. g = [k \in 0..N |-> g[k]]
    BY <1>5
  <2> HIDE DEF F
  <2>3. QED
    BY <2>1, <2>2
<1>7. Is(c)
  <2> HIDE DEF Is
  <2> QED
    BY <1>6
<1>8. \A k \in 0..N : c[k] = IF k = 0 THEN src ELSE MergeOnce(c[k - 1], targets)
  <2> HIDE DEF c
  <2> QED
    BY <1>7
<1> HIDE DEF c, Is
<1> DEFINE S == {k \in Nat : k <= N => c[k] \in T}
<1>9. 0 \in S
  BY <1>1, <1>8
<1>10. ASSUME NEW k \in Nat, k \in S
       PROVE  k + 1 \in S
  <2>1. SUFFICES ASSUME k + 1 <= N
                 PROVE  c[k + 1] \in T
    OBVIOUS
  <2>2. k + 1 \in 0..N /\ k + 1 # 0 /\ (k + 1) - 1 = k /\ k <= N
    BY <1>1, <2>1
  <2>3. c[k] \in T /\ c[k + 1] = MergeOnce(c[k], targets)
    BY <1>8, <1>10, <2>2
  <2>4. QED
    BY <1>2, <2>3
<1>11. \A k \in Nat : k \in S
  <2> HIDE DEF S
  <2> QED
    BY <1>9, <1>10, Induction
<1>12. c[N] \in T
  BY <1>1, <1>11
<1>13. QED
  BY <1>3, <1>12 DEF T

---------------------------------------------------------------------------
(* --rewrite-indirect: lines that are split.                               *)

\* One more word of a sequence.
LEMMA FrontGrows ==
  ASSUME NEW S, NEW s \in Seq(S), NEW k \in Nat, k < Len(s)
  PROVE  /\ SubSeq(s, 1, k) \in Seq(S) /\ Len(SubSeq(s, 1, k)) = k
         /\ SubSeq(s, 1, k + 1) = SubSeq(s, 1, k) \o <<s[k + 1]>>
         /\ SubSeq(s, 1, k + 1) = Append(SubSeq(s, 1, k), s[k + 1])
<1>1. Len(s) \in Nat /\ k \in 0..Len(s) /\ k + 1 \in 1..Len(s) /\ 1 \in 1..Len(s) /\ k + 1 \in 1..Len(s)
  BY LenProperties
<1>2. SubSeq(s, 1, k) \in Seq(S) /\ Len(SubSeq(s, 1, k)) = k
  BY <1>1, CutInTwo
<1>3. SubSeq(s, 1, k + 1) = SubSeq(s, 1, (k + 1) - 1) \o <<s[k + 1]>> /\ (k + 1) - 1 = k
  BY <1>1, SubSeqRecursiveSecond
<1>4. s[k + 1] \in S
  BY <1>1, ElementOfSeq
<1>5. Append(SubSeq(s, 1, k), s[k + 1]) = SubSeq(s, 1, k) \o <<s[k + 1]>>
  BY <1>2, <1>4, AppendIsConcat
<1>6. QED
  BY <1>2, <1>3, <1>5

\* A word more on the last line.
LEMMA LastLineGrows ==
  ASSUME NEW q \in Nat \ {0}, NEW u, NEW out, NEW v \in Nat, Base \in Nat, Stands(out, q, u), Len(out) > 0
  PROVE  Stands([out EXCEPT ![Len(out)] =
                   [out[Len(out)] EXCEPT !.words = Append(out[Len(out)].words, v)]], q, Append(u, v))
<1> DEFINE n == Len(out)
           l == out[n]
           m == [l EXCEPT !.words = Append(l.words, v)]
           x == SubSeq(out, 1, n - 1)
<1>1. out \in Seq(Lines) /\ n \in Nat /\ n \in 1..Len(out) /\ n - 1 \in 0..Len(out) /\ (n - 1) + 1 = n
  BY LenProperties DEF Stands
<1>2. l \in Lines
  BY <1>1, ElementOfSeq
<1>3. /\ x \in Seq(Lines) /\ Len(x) = n - 1 /\ out = x \o SubSeq(out, n, Len(out))
      /\ \A i \in 1..n - 1 : x[i] = out[i]
  <2> DEFINE k == n - 1
  <2>1. k \in 0..Len(out) /\ k + 1 = n
    BY <1>1
  <2> HIDE DEF k
  <2>2. /\ SubSeq(out, 1, k) \in Seq(Lines) /\ Len(SubSeq(out, 1, k)) = k
        /\ out = SubSeq(out, 1, k) \o SubSeq(out, k + 1, Len(out))
        /\ \A i \in 1..k : SubSeq(out, 1, k)[i] = out[i]
    BY <1>1, <2>1, CutInTwo
  <2>3. QED
    BY <2>1, <2>2 DEF k
<1>4. SubSeq(out, n, Len(out)) = <<l>>
  BY <1>1, StartNext
<1>5. l.words \in Seq(Nat) /\ (l.kind = "dcw" => l.words # <<>>)
  BY <1>2, LineFields
<1>6. Append(l.words, v) \in Seq(Nat) /\ Append(l.words, v) # <<>> /\ Append(l.words, v) = l.words \o <<v>>
  <2> DEFINE b == l.words
  <2>1. b \in Seq(Nat)
    BY <1>5
  <2> HIDE DEF b
  <2>2. Append(b, v) \in Seq(Nat) /\ Append(b, v) # <<>>
    BY <2>1, AppendProperties
  <2>3. Append(b, v) = b \o <<v>>
    BY <2>1, AppendIsConcat
  <2>4. QED
    BY <2>2, <2>3 DEF b
<1> HIDE DEF l, x, n
<1>7. m \in Lines /\ m.words = l.words \o <<v>> /\ m.at = l.at
  <2> DEFINE a == Append(l.words, v)
  <2> HIDE DEF a
  <2>1. [l EXCEPT !.words = a] \in Lines /\ [l EXCEPT !.words = a].words = a /\ [l EXCEPT !.words = a].at = l.at
    BY <1>2, <1>6 DEF Lines, a
  <2>2. QED
    BY <1>6, <2>1 DEF a
<1> HIDE DEF m
<1> DEFINE y == <<l>>
           z == <<m>>
<1>8. y \in Seq(Lines) /\ z \in Seq(Lines) /\ out = x \o y
  <2>1. y \in Seq(Lines)
    BY <1>2
  <2>2. z \in Seq(Lines)
    BY <1>7
  <2>3. out = x \o y
    BY <1>3, <1>4, Zenon
  <2>4. QED
    BY <2>1, <2>2, <2>3
<1>9. Assembled(y) = l.words
  BY <1>2, AssembledOne
<1>10. Stands(x, q, Assembled(x)) /\ Stands(y, q + Len(Assembled(x)), l.words) /\ u = Assembled(x) \o l.words
  <2> HIDE DEF y
  <2>1. Stands(x \o y, q, u)
    BY <1>8
  <2>2. Stands(x, q, Assembled(x)) /\ Stands(y, q + Len(Assembled(x)), Assembled(y)) /\ u = Assembled(x) \o Assembled(y)
    BY <1>3, <1>8, <2>1, StandsApart
  <2>3. QED
    BY <1>9, <2>2
<1>11. Assembled(x) \in Seq(Nat) /\ q + Len(Assembled(x)) \in Nat
  BY <1>3, AssembledType
<1>12. Stands(z, q + Len(Assembled(x)), m.words)
  BY <1>2, <1>7, <1>10, <1>11, StandsOne
<1>13. Stands(x \o z, q, Assembled(x) \o m.words)
  <2> HIDE DEF z
  <2> QED
    BY <1>10, <1>12, StandsTogether
<1>14. Assembled(x) \o m.words = Append(u, v)
  <2> DEFINE a == Assembled(x)
             b == l.words
             c == <<v>>
  <2>1. a \in Seq(Nat) /\ b \in Seq(Nat) /\ c \in Seq(Nat)
    BY <1>5, <1>11
  <2> HIDE DEF a, b, c
  <2>2. (a \o b) \o c = a \o (b \o c)
    <3>1. \A f, g, h \in Seq(Nat) : (f \o g) \o h = f \o (g \o h)
      BY Associative, SMTT(30)
    <3>2. QED
      BY <2>1, <3>1, Zenon
  <2>3. a \o b \in Seq(Nat)
    BY <2>1, ConcatProperties
  <2>4. Append(a \o b, v) = (a \o b) \o <<v>>
    BY <2>3, AppendIsConcat
  <2>5. QED
    BY <1>7, <1>10, <2>2, <2>4 DEF a, b, c
<1>15. [out EXCEPT ![n] = m] = x \o z
  <2> DEFINE new == [out EXCEPT ![n] = m]
  <2>1. new \in Seq(Lines) /\ Len(new) = n /\ \A j \in 1..n : new[j] = IF j = n THEN m ELSE out[j]
    BY <1>1, <1>7, ExceptSeq DEF n
  <2>2. z \in Seq(Lines) /\ Len(z) = 1 /\ z[1] = m
    BY <1>8
  <2> HIDE DEF z, new
  <2>3. /\ x \o z \in Seq(Lines) /\ Len(x \o z) = Len(x) + Len(z)
        /\ \A i \in 1..Len(x) + Len(z) : (x \o z)[i] = IF i <= Len(x) THEN x[i] ELSE z[i - Len(x)]
    BY <1>3, <2>2, ConcatProperties
  <2>4. Len(x \o z) = n /\ \A i \in 1..n : (x \o z)[i] = new[i]
    <3>1. Len(x) = n - 1 /\ Len(z) = 1 /\ n \in Nat
      BY <1>1, <1>3, <2>2
    <3>2. Len(x \o z) = n
      BY <2>3, <3>1
    <3>3. ASSUME NEW i \in 1..n
          PROVE  (x \o z)[i] = new[i]
      <4>1. (x \o z)[i] = IF i <= n - 1 THEN x[i] ELSE z[i - (n - 1)]
        BY <2>3, <3>1
      <4>2. CASE i = n
        <5>1. i - (n - 1) = 1 /\ ~(i <= n - 1)
          BY <4>2, <3>1
        <5>2. QED
          BY <4>1, <4>2, <5>1, <2>1, <2>2
      <4>3. CASE i # n
        <5>1. i \in 1..n - 1 /\ i <= n - 1
          BY <4>3, <3>1
        <5>2. QED
          BY <4>1, <4>3, <5>1, <2>1, <1>3
      <4>4. QED
        BY <4>2, <4>3
    <3>4. QED
      BY <3>2, <3>3
  <2>5. new = x \o z
    BY <2>1, <2>3, <2>4, SeqEqual
  <2>6. QED
    BY <2>5 DEF new
<1>16. QED
  BY <1>13, <1>14, <1>15 DEF n, l, m

\* How many words are in the pieces after k of them were looked at.
Taken(acc, k) == IF acc.taken THEN k + 1 ELSE k

\* The pieces of a line at q stand where their words do.
PiecesStand(acc, line, q, k) ==
  /\ acc \in [taken : BOOLEAN, out : Seq(Lines)] /\ Taken(acc, k) <= Len(line.words)
  /\ Stands(acc.out, q, SubSeq(line.words, 1, Taken(acc, k)))

\* One more word leaves the pieces where they stand.
LEMMA PieceStands ==
  ASSUME NEW q \in Nat \ {0}, NEW line \in Lines, line.at = Address(q), Base \in Nat, NEW targets,
         NEW k \in Nat, k < Len(line.words), NEW acc, PiecesStand(acc, line, q, k)
  PROVE  PiecesStand(Piece(acc, line, k + 1, targets), line, q, k + 1)
<1> DEFINE w == line.words
           N == Len(w)
           next == Piece(acc, line, k + 1, targets)
           at == line.at + 2 * ((k + 1) - 1)
           front == SubSeq(w, 1, k)
           last == Len(acc.out)
<1>1. /\ acc \in [taken : BOOLEAN, out : Seq(Lines)] /\ Taken(acc, k) <= N
      /\ Stands(acc.out, q, SubSeq(w, 1, Taken(acc, k)))
  BY DEF PiecesStand
<1>2. w \in Seq(Nat) /\ N \in Nat /\ k < N
  BY LineFields
<1>3. acc.out \in Seq(Lines) /\ last \in Nat
  BY <1>1, LenProperties
<1>4. at = Address(q + k) /\ at \in Int /\ q + k \in Nat /\ (k + 1) - 1 = k
  BY DEF Address
<1> HIDE DEF w, at, front, last
<1>5. w[k + 1] \in Nat /\ front \in Seq(Nat) /\ Len(front) = k
  <2>1. k + 1 \in 1..N
    BY <1>2
  <2>2. w[k + 1] \in Nat
    BY <1>2, <2>1, ElementOfSeq
  <2>3. QED
    BY <1>2, <2>2, FrontGrows DEF front
<1>6. SubSeq(w, 1, k + 1) = front \o <<w[k + 1]>> /\ SubSeq(w, 1, k + 1) = Append(front, w[k + 1])
  BY <1>2, FrontGrows DEF front
<1>7. CASE acc.taken
  <2>1. next = [acc EXCEPT !.taken = FALSE]
    BY <1>7, Zenon DEF Piece
  <2> HIDE DEF next, N
  <2>2. next \in [taken : BOOLEAN, out : Seq(Lines)] /\ ~next.taken /\ next.out = acc.out
    BY <1>1, <2>1
  <2>3. Taken(acc, k) = k + 1 /\ Taken(next, k + 1) = k + 1
    BY <1>7, <2>2 DEF Taken
  <2>4. QED
    BY <1>1, <2>2, <2>3 DEF PiecesStand, next, w, N
<1>8. CASE ~acc.taken
  <2>1. Stands(acc.out, q, front)
    BY <1>1, <1>8 DEF Taken, front
  <2>2. CASE At(line, k + 1, targets) /\ k + 1 < N
    <3> DEFINE two == SubSeq(w, k + 1, (k + 1) + 1)
               piece == Line("dcl", two, at, NoRefs, {1})
    <3>1. next = [taken |-> TRUE, out |-> Append(acc.out, piece)]
      BY <1>8, <2>2, Zenon DEF Piece, w, at
    <3>2. two \in Seq(Nat) /\ SubSeq(w, 1, k + 2) = front \o two
      <4> DEFINE i == k + 1
                 j == (k + 1) + 1
      <4>1. i \in 1..Len(w) + 1 /\ j \in i - 1..Len(w) /\ j = k + 2 /\ i - 1 = k
        BY <1>2, <2>2
      <4> HIDE DEF i, j
      <4>2. Parted(Nat, w, i, j)
        BY <1>2, <4>1, MiddlePart
      <4>3. SubSeq(w, i, j) \in Seq(Nat) /\ SubSeq(w, 1, j) = SubSeq(w, 1, i - 1) \o SubSeq(w, i, j)
        BY <4>2 DEF Parted
      <4>4. QED
        BY <4>1, <4>3 DEF i, j, front
    <3> HIDE DEF two, next
    <3>3. piece \in Lines /\ piece.words = two /\ piece.at = at
      <4>1. {1} \in SUBSET Nat
        OBVIOUS
      <4>2. QED
        BY <1>4, <3>2, <4>1, NoOperands, LineMade
    <3> HIDE DEF piece
    <3>4. Stands(<<piece>>, q + k, two)
      BY <1>4, <3>3, StandsOne
    <3> DEFINE one == <<piece>>
    <3>5. Append(acc.out, piece) = acc.out \o one
      BY <1>3, <3>3, AppendIsConcat
    <3>6. Stands(acc.out \o one, q, front \o two)
      <4>1. Stands(one, q + Len(front), two)
        BY <1>5, <3>4
      <4> HIDE DEF one
      <4>2. QED
        BY <2>1, <4>1, StandsTogether
    <3> HIDE DEF one
    <3>7. acc.out \o one \in Seq(Lines)
      BY <3>6 DEF Stands
    <3>8. next \in [taken : BOOLEAN, out : Seq(Lines)] /\ next.taken /\ next.out = acc.out \o one
      BY <3>1, <3>5, <3>7
    <3>9. Taken(next, k + 1) = k + 2 /\ k + 2 <= N
      BY <1>2, <2>2, <3>8 DEF Taken
    <3>10. QED
      BY <3>2, <3>6, <3>8, <3>9 DEF PiecesStand, next, w
  <2>3. CASE ~(At(line, k + 1, targets) /\ k + 1 < N)
    <3>1. CASE last > 0 /\ acc.out[last].kind = "dcw"
      <4> DEFINE l == [acc.out[last] EXCEPT !.words = Append(acc.out[last].words, w[k + 1])]
                 out == [acc.out EXCEPT ![last] = l]
      <4>1. next = [acc EXCEPT !.out[last].words = Append(@, w[k + 1])]
        BY <1>8, <2>3, <3>1, Zenon DEF Piece, w, last
      <4>2. next = [acc EXCEPT !.out = out]
        BY <4>1, <1>1
      <4>3. Stands(out, q, Append(front, w[k + 1]))
        <5>1. Len(acc.out) > 0 /\ w[k + 1] \in Nat
          BY <3>1, <1>5 DEF last
        <5>2. QED
          BY <2>1, <5>1, LastLineGrows DEF last
      <4> HIDE DEF out, next, N
      <4>4. out \in Seq(Lines)
        BY <4>3 DEF Stands
      <4>5. next \in [taken : BOOLEAN, out : Seq(Lines)] /\ ~next.taken /\ next.out = out
        BY <1>1, <1>8, <4>2, <4>4
      <4>6. Taken(next, k + 1) = k + 1 /\ k + 1 <= N
        BY <1>2, <4>5 DEF Taken
      <4>7. QED
        BY <1>6, <4>3, <4>5, <4>6 DEF PiecesStand, next, w, N
    <3>2. CASE ~(last > 0 /\ acc.out[last].kind = "dcw")
      <4> DEFINE word == <<w[k + 1]>>
                 piece == Line("dcw", word, at, NoRefs, {})
      <4>1. next = [acc EXCEPT !.out = Append(acc.out, piece)]
        BY <1>8, <2>3, <3>2, Zenon DEF Piece, w, last, at
      <4>2. word \in Seq(Nat) /\ word # <<>> /\ SubSeq(w, 1, k + 1) = front \o word
        BY <1>5, <1>6
      <4> HIDE DEF word, next, N
      <4>3. piece \in Lines /\ piece.words = word /\ piece.at = at
        <5>1. {} \in SUBSET Nat
          OBVIOUS
        <5>2. QED
          BY <1>4, <4>2, <5>1, NoOperands, LineMade
      <4> HIDE DEF piece
      <4>4. Stands(<<piece>>, q + k, word)
        BY <1>4, <4>3, StandsOne
      <4> DEFINE one == <<piece>>
      <4>5. Append(acc.out, piece) = acc.out \o one
        BY <1>3, <4>3, AppendIsConcat
      <4>6. Stands(acc.out \o one, q, front \o word)
        <5>1. Stands(one, q + Len(front), word)
          BY <1>5, <4>4
        <5> HIDE DEF one
        <5>2. QED
          BY <2>1, <5>1, StandsTogether
      <4> HIDE DEF one
      <4>7. acc.out \o one \in Seq(Lines)
        BY <4>6 DEF Stands
      <4>8. next \in [taken : BOOLEAN, out : Seq(Lines)] /\ ~next.taken /\ next.out = acc.out \o one
        BY <1>1, <1>8, <4>1, <4>5, <4>7
      <4>9. Taken(next, k + 1) = k + 1 /\ k + 1 <= N
        BY <1>2, <4>8 DEF Taken
      <4>10. QED
        BY <4>2, <4>6, <4>8, <4>9 DEF PiecesStand, next, w, N
    <3>3. QED
      BY <3>1, <3>2
  <2>4. QED
    BY <2>2, <2>3
<1>9. QED
  BY <1>7, <1>8

\* The pieces of a line stand where it stood.
LEMMA SplitStands ==
  ASSUME NEW q \in Nat \ {0}, NEW line \in Lines, line.at = Address(q), Base \in Nat, NEW targets
  PROVE  Stands(Split(line, targets), q, line.words)
<1> DEFINE N == Len(line.words)
           T == [taken : BOOLEAN, out : Seq(Lines)]
           none == [taken |-> FALSE, out |-> <<>>]
           Safe(acc, k) == PiecesStand(acc, line, q, k)
           Step(acc, k) == IF Safe(acc, k - 1) THEN Piece(acc, line, k, targets) ELSE acc
           F == [k \in 1..N |-> [acc \in T |-> Step(acc, k)]]
           Is(f) == f = [k \in 0..N |-> IF k = 0 THEN none ELSE Piece(f[k - 1], line, k, targets)]
           c == CHOOSE f : Is(f)
<1>1. N \in Nat /\ line.words \in Seq(Nat)
  BY LineFields
<1>2. none \in T /\ Safe(none, 0)
  <2>1. <<>> \in Seq(Lines) /\ none.taken = FALSE /\ none.out = <<>>
    BY EmptySeq
  <2>2. none \in T
    BY <2>1
  <2>3. Taken(none, 0) = 0
    BY DEF Taken
  <2>4. SubSeq(line.words, 1, 0) = <<>>
    BY SubSeqEmpty
  <2> HIDE DEF none
  <2>5. Stands(none.out, q, SubSeq(line.words, 1, Taken(none, 0)))
    BY <2>1, <2>3, <2>4, StandsNone
  <2>6. QED
    BY <1>1, <2>2, <2>3, <2>5 DEF PiecesStand
<1> HIDE DEF none
<1>3. ASSUME NEW k \in 1..N, NEW acc, Safe(acc, k - 1)
      PROVE  Safe(Piece(acc, line, k, targets), k)
  <2> DEFINE j == k - 1
  <2>1. j \in Nat /\ j < Len(line.words) /\ j + 1 = k
    BY <1>1
  <2>2. PiecesStand(acc, line, q, j)
    BY <1>3
  <2> HIDE DEF j, N
  <2>3. PiecesStand(Piece(acc, line, j + 1, targets), line, q, j + 1)
    BY <2>1, <2>2, PieceStands
  <2>4. QED
    BY <2>1, <2>3
<1>4. F \in [1..N -> [T -> T]]
  <2>1. ASSUME NEW k \in 1..N, NEW acc \in T
        PROVE  Step(acc, k) \in T
    <3>1. CASE Safe(acc, k - 1)
      <4>1. Piece(acc, line, k, targets) \in T
        BY <3>1, <1>3 DEF PiecesStand
      <4>2. QED
        BY <3>1, <4>1
    <3>2. CASE ~Safe(acc, k - 1)
      BY <3>2
    <3>3. QED
      BY <3>1, <3>2
  <2> HIDE DEF T, N, Step
  <2>2. QED
    BY <2>1
<1>5. PICK g \in [0..N -> T] : g[0] = none /\ \A k \in 1..N : g[k] = F[k][g[k - 1]]
  <2> HIDE DEF F, N, T
  <2>1. Recursive(N, T, none, F) # {}
    BY <1>1, <1>2, <1>4, Recursion
  <2>2. QED
    BY <2>1 DEF Recursive
<1>6. \A k \in 1..N : g[k] = Step(g[k - 1], k)
  <2>1. ASSUME NEW k \in 1..N
        PROVE  g[k] = Step(g[k - 1], k)
    <3>1. k - 1 \in 0..N
      BY <1>1
    <3> HIDE DEF T, Step, N
    <3>2. g[k - 1] \in T /\ g[k] = F[k][g[k - 1]]
      BY <1>5, <3>1
    <3>3. QED
      BY <3>2
  <2>2. QED
    BY <2>1
<1> HIDE DEF T, F, N, Safe
<1>7. \A k \in Nat : k <= N => Safe(g[k], k)
  <2> DEFINE S == {k \in Nat : k <= N => Safe(g[k], k)}
  <2>1. 0 \in S
    BY <1>2, <1>5
  <2>2. ASSUME NEW k \in Nat, k \in S
        PROVE  k + 1 \in S
    <3>1. SUFFICES ASSUME k + 1 <= N
                   PROVE  Safe(g[k + 1], k + 1)
      OBVIOUS
    <3>2. k + 1 \in 1..N /\ (k + 1) - 1 = k /\ k <= N
      BY <1>1, <3>1
    <3>3. Safe(g[k], k) /\ g[k + 1] = Step(g[k], k + 1)
      BY <1>6, <2>2, <3>2
    <3>4. g[k + 1] = Piece(g[k], line, k + 1, targets)
      BY <3>2, <3>3
    <3>5. QED
      BY <1>3, <3>2, <3>3, <3>4
  <2>3. \A k \in Nat : k \in S
    <3> HIDE DEF S
    <3> QED
      BY <2>1, <2>2, Induction
  <2>4. QED
    BY <2>3
<1>8. Is(g)
  <2>1. ASSUME NEW k \in 0..N
        PROVE  g[k] = IF k = 0 THEN none ELSE Piece(g[k - 1], line, k, targets)
    <3>1. CASE k = 0
      BY <3>1, <1>5
    <3>2. CASE k # 0
      <4>1. k \in 1..N /\ k - 1 \in Nat /\ k - 1 <= N
        BY <3>2, <1>1
      <4>2. Safe(g[k - 1], k - 1) /\ g[k] = Step(g[k - 1], k)
        BY <4>1, <1>6, <1>7
      <4>3. QED
        BY <3>2, <4>2
    <3>3. QED
      BY <3>1, <3>2
  <2>2. g = [k \in 0..N |-> g[k]]
    BY <1>5
  <2> HIDE DEF Step
  <2>3. QED
    BY <2>1, <2>2
<1>9. Is(c)
  <2> HIDE DEF Is
  <2> QED
    BY <1>8
<1>10. \A k \in 0..N : c[k] = IF k = 0 THEN none ELSE Piece(c[k - 1], line, k, targets)
  <2> HIDE DEF c
  <2> QED
    BY <1>9
<1>11. Split(line, targets) = c[N].out
  BY DEF Split, N, none
<1> HIDE DEF c, Is
<1>12. \A k \in Nat : k <= N => Safe(c[k], k)
  <2> DEFINE S == {k \in Nat : k <= N => Safe(c[k], k)}
  <2>1. 0 \in S
    BY <1>1, <1>2, <1>10
  <2>2. ASSUME NEW k \in Nat, k \in S
        PROVE  k + 1 \in S
    <3>1. SUFFICES ASSUME k + 1 <= N
                   PROVE  Safe(c[k + 1], k + 1)
      OBVIOUS
    <3>2. k + 1 \in 1..N /\ k + 1 \in 0..N /\ k + 1 # 0 /\ (k + 1) - 1 = k /\ k <= N
      BY <1>1, <3>1
    <3>3. Safe(c[k], k) /\ c[k + 1] = Piece(c[k], line, k + 1, targets)
      BY <1>10, <2>2, <3>2
    <3>4. QED
      BY <1>3, <3>2, <3>3
  <2>3. \A k \in Nat : k \in S
    <3> HIDE DEF S
    <3> QED
      BY <2>1, <2>2, Induction
  <2>4. QED
    BY <2>3
<1>13. Safe(c[N], N)
  BY <1>1, <1>12
<1>14. Taken(c[N], N) <= N /\ Stands(c[N].out, q, SubSeq(line.words, 1, Taken(c[N], N)))
  BY <1>13 DEF Safe, PiecesStand, N
<1>15. Taken(c[N], N) = N
  BY <1>1, <1>14 DEF Taken
<1>16. SubSeq(line.words, 1, N) = line.words
  BY <1>1, SubSeqFull DEF N
<1>17. QED
  BY <1>11, <1>14, <1>15, <1>16

\* Pieces of lines, each of which stands where its line did, one behind the other.
LEMMA StandsFlat ==
  ASSUME NEW p \in Nat \ {0}, NEW src \in Seq(Lines), NEW pieces \in Seq(Seq(Lines)), Base \in Nat,
         Len(pieces) = Len(src),
         \A n \in 1..Len(src) : Stands(pieces[n], p - 1 + Start(src, n), src[n].words)
  PROVE  Stands(FlattenSeq(pieces), p, Assembled(src))
<1> DEFINE Part(n) == Stands(FlattenSeq(SubSeq(pieces, 1, n)), p, Assembled(SubSeq(src, 1, n)))
           S == {n \in Nat : n <= Len(src) => Part(n)}
<1>1. Len(src) \in Nat
  BY LenProperties
<1>2. 0 \in S
  <2>1. SubSeq(pieces, 1, 0) = <<>> /\ SubSeq(src, 1, 0) = <<>>
    BY SubSeqEmpty
  <2>2. FlattenSeq(SubSeq(pieces, 1, 0)) = <<>> /\ Assembled(SubSeq(src, 1, 0)) = <<>>
    BY <2>1, FlatEmpty, AssembledEmpty, Zenon
  <2>3. Part(0)
    BY <2>2, StandsNone, Zenon
  <2>4. QED
    BY <2>3
<1>3. ASSUME NEW n \in Nat, n \in S
      PROVE  n + 1 \in S
  <2>1. SUFFICES ASSUME n + 1 <= Len(src)
                 PROVE  Part(n + 1)
    OBVIOUS
  <2>2. n < Len(src) /\ n < Len(pieces) /\ n + 1 \in 1..Len(src) /\ n + 1 \in 1..Len(pieces) /\ n <= Len(src)
    BY <1>1, <2>1
  <2> DEFINE x == SubSeq(src, 1, n)
             y == SubSeq(pieces, 1, n)
             l == src[n + 1]
  <2>3. Stands(FlattenSeq(y), p, Assembled(x))
    BY <1>3, <2>2
  <2>4. x \in Seq(Lines) /\ SubSeq(src, 1, n + 1) = x \o <<l>> /\ l \in Lines
    BY <2>2, FrontGrows, ElementOfSeq
  <2>5. y \in Seq(Seq(Lines)) /\ SubSeq(pieces, 1, n + 1) = Append(y, pieces[n + 1]) /\ pieces[n + 1] \in Seq(Lines)
    <3>1. pieces[n + 1] \in Seq(Lines)
      BY <2>2, ElementOfSeq
    <3>2. y \in Seq(Seq(Lines)) /\ SubSeq(pieces, 1, n + 1) = Append(y, pieces[n + 1])
      BY <2>2, FrontGrows
    <3>3. QED
      BY <3>1, <3>2
  <2>6. Start(src, n + 1) = 1 + Len(Assembled(x))
    <3>1. (n + 1) - 1 = n
      OBVIOUS
    <3>2. QED
      BY <3>1 DEF Start
  <2> HIDE DEF x, y, l
  <2>7. Len(Assembled(x)) \in Nat
    BY <2>4, AssembledType
  <2>8. Stands(pieces[n + 1], p + Len(Assembled(x)), l.words)
    <3>1. p - 1 + Start(src, n + 1) = p + Len(Assembled(x))
      BY <2>6, <2>7
    <3>2. Stands(pieces[n + 1], p - 1 + Start(src, n + 1), src[n + 1].words)
      BY <2>2
    <3>3. QED
      BY <3>1, <3>2 DEF l
  <2>9. Stands(FlattenSeq(y) \o pieces[n + 1], p, Assembled(x) \o l.words)
    BY <2>3, <2>8, StandsTogether
  <2>10. FlattenSeq(Append(y, pieces[n + 1])) = FlattenSeq(y) \o pieces[n + 1]
    BY <2>5, FlatAppend
  <2>11. Assembled(x \o <<l>>) = Assembled(x) \o l.words
    <3> DEFINE z == <<l>>
    <3>1. z \in Seq(Lines) /\ Assembled(z) = l.words
      BY <2>4, AssembledOne
    <3> HIDE DEF z
    <3>2. Assembled(x \o z) = Assembled(x) \o Assembled(z)
      BY <2>4, <3>1, AssembledConcat
    <3>3. QED
      BY <3>1, <3>2 DEF z
  <2>12. QED
    BY <2>4, <2>5, <2>9, <2>10, <2>11
<1>4. \A n \in Nat : n \in S
  <2> HIDE DEF S
  <2> QED
    BY <1>2, <1>3, Induction
<1>5. Part(Len(src))
  BY <1>1, <1>4
<1>6. SubSeq(pieces, 1, Len(src)) = pieces /\ SubSeq(src, 1, Len(src)) = src
  BY SubSeqFull
<1>7. QED
  BY <1>5, <1>6

\* --rewrite-indirect and --rewrite-tables leave the lines where they stand.
LEMMA IndirectStands ==
  ASSUME NEW p \in Nat \ {0}, NEW w, NEW src, NEW alsoTables, Base \in Nat, Stands(src, p, w)
  PROVE  Stands(Indirect(src, alsoTables), p, w)
<1> DEFINE targets == Targets(src, alsoTables)
           merged == Merged(src, targets)
           Part(n) == IF Addressed(merged[n]) THEN Split(merged[n], targets) ELSE <<merged[n]>>
           pieces == [n \in DOMAIN merged |-> Part(n)]
<1>1. Indirect(src, alsoTables) = FlattenSeq(pieces)
  BY DEF Indirect
<1> HIDE DEF targets
<1>2. Stands(merged, p, w)
  BY MergedStands
<1> HIDE DEF merged
<1>3. merged \in Seq(Lines) /\ Assembled(merged) = w /\ Len(merged) \in Nat /\ DOMAIN merged = 1..Len(merged)
  BY <1>2, LenProperties DEF Stands
<1>4. ASSUME NEW n \in 1..Len(merged)
      PROVE  Stands(Part(n), p - 1 + Start(merged, n), merged[n].words)
  <2> DEFINE line == merged[n]
             q == p - 1 + Start(merged, n)
  <2>1. line \in Lines /\ q \in Nat \ {0} /\ (line.at # NoAt => line.at = Address(q))
    BY <1>2, LineStands
  <2>2. CASE Addressed(merged[n])
    <3>1. line.at = Address(q)
      BY <2>1, <2>2 DEF Addressed
    <3> HIDE DEF line, q
    <3>2. Stands(Split(line, targets), q, line.words)
      BY <2>1, <3>1, SplitStands
    <3>3. QED
      BY <2>2, <3>2 DEF line, q
  <2>3. CASE ~Addressed(merged[n])
    <3> HIDE DEF line, q
    <3>1. Stands(<<line>>, q, line.words)
      BY <2>1, StandsOne
    <3>2. QED
      BY <2>3, <3>1 DEF line, q
  <2>4. QED
    BY <2>2, <2>3
<1> HIDE DEF Part
<1>5. pieces \in Seq(Seq(Lines)) /\ Len(pieces) = Len(merged) /\ \A n \in 1..Len(merged) : pieces[n] = Part(n)
  <2>1. \A n \in 1..Len(merged) : Part(n) \in Seq(Lines)
    BY <1>4 DEF Stands
  <2>2. pieces \in [1..Len(merged) -> Seq(Lines)]
    BY <1>3, <2>1
  <2>3. QED
    BY <1>3, <2>2
<1> HIDE DEF pieces
<1>6. \A n \in 1..Len(merged) : Stands(pieces[n], p - 1 + Start(merged, n), merged[n].words)
  BY <1>4, <1>5
<1>7. Stands(FlattenSeq(pieces), p, Assembled(merged))
  BY <1>3, <1>5, <1>6, StandsFlat
<1>8. QED
  BY <1>1, <1>3, <1>7

---------------------------------------------------------------------------
(* Where the words of a line are in the section.                           *)

\* The words of some lines are those of the section from the start of the first of
\* them to the start of the line behind them.
LEMMA WordsOfPart ==
  ASSUME NEW src \in Seq(Lines), NEW i \in 1..Len(src) + 1, NEW j \in i - 1..Len(src)
  PROVE  /\ Start(src, i) \in Nat \ {0} /\ Start(src, j + 1) \in Nat \ {0}
         /\ Start(src, i) <= Start(src, j + 1) /\ Start(src, j + 1) <= Len(Assembled(src)) + 1
         /\ Assembled(SubSeq(src, i, j)) = SubSeq(Assembled(src), Start(src, i), Start(src, j + 1) - 1)
<1> DEFINE x == SubSeq(src, 1, i - 1)
           m == SubSeq(src, i, j)
           y == SubSeq(src, j + 1, Len(src))
           a == Assembled(x)
           b == Assembled(m)
           c == Assembled(y)
           w == Assembled(src)
<1>1. Len(src) \in Nat /\ i \in Nat /\ j \in Nat /\ (j + 1) - 1 = j
  BY LenProperties
<1>2. /\ x \in Seq(Lines) /\ m \in Seq(Lines) /\ y \in Seq(Lines) /\ src = (x \o m) \o y
      /\ SubSeq(src, 1, j) = x \o m
  <2>1. Parted(Lines, src, i, j)
    BY MiddlePart
  <2>2. QED
    BY <2>1 DEF Parted
<1>3. Start(src, i) = 1 + Len(a) /\ Start(src, j + 1) = 1 + Len(Assembled(x \o m))
  BY <1>1, <1>2 DEF Start
<1> HIDE DEF x, m, y
<1>4. a \in Seq(Nat) /\ b \in Seq(Nat) /\ c \in Seq(Nat)
  BY <1>2, AssembledType
<1>5. Assembled(x \o m) = a \o b /\ w = (a \o b) \o c
  <2>1. Assembled(x \o m) = a \o b
    BY <1>2, AssembledConcat
  <2>2. x \o m \in Seq(Lines)
    BY <1>2, ConcatProperties
  <2>3. Assembled((x \o m) \o y) = Assembled(x \o m) \o c
    BY <1>2, <2>2, AssembledConcat
  <2>4. QED
    BY <1>2, <2>1, <2>3
<1> HIDE DEF a, b, c, w
<1> DEFINE ab == a \o b
           la == Len(a)
           lb == Len(b)
           lc == Len(c)
<1>6. la \in Nat /\ lb \in Nat /\ lc \in Nat
  BY <1>4, LenProperties
<1>7. ab \in Seq(Nat) /\ Len(ab) = la + lb /\ \A n \in 1..la + lb : ab[n] = IF n <= la THEN a[n] ELSE b[n - la]
  BY <1>4, ConcatProperties
<1> HIDE DEF ab
<1>8. /\ w \in Seq(Nat) /\ Len(w) = Len(ab) + lc
      /\ \A n \in 1..Len(ab) + lc : w[n] = IF n <= Len(ab) THEN ab[n] ELSE c[n - Len(ab)]
  <2>1. w = ab \o c
    BY <1>5 DEF ab
  <2>2. QED
    BY <2>1, <1>4, <1>7, ConcatProperties
<1> HIDE DEF la, lb, lc
<1>9. Start(src, i) = 1 + la /\ Start(src, j + 1) = 1 + (la + lb) /\ Len(w) = (la + lb) + lc
  BY <1>3, <1>5, <1>7, <1>8 DEF ab, la
<1> DEFINE s == 1 + la
           e == la + lb
           part == SubSeq(w, s, e)
<1>10. s \in Int /\ e \in Int /\ \A n \in s..e : w[n] \in Nat
  <2>1. \A n \in s..e : n \in 1..Len(w)
    BY <1>6, <1>9
  <2>2. QED
    BY <2>1, <1>6, <1>8, ElementOfSeq
<1>11. /\ part \in Seq(Nat) /\ Len(part) = (IF s <= e THEN e - s + 1 ELSE 0)
       /\ \A n \in 1..e - s + 1 : part[n] = w[s + n - 1]
  <2> HIDE DEF s, e
  <2> QED
    BY <1>10, SubSeqProperties
<1> HIDE DEF part
<1>12. Len(part) = lb
  BY <1>6, <1>11
<1>13. ASSUME NEW n \in 1..lb
       PROVE  part[n] = b[n]
  <2>1. part[n] = w[s + n - 1] /\ s + n - 1 = la + n
    BY <1>6, <1>11
  <2>2. w[la + n] = ab[la + n]
    <3>1. la + n \in 1..Len(ab) + lc /\ la + n <= Len(ab)
      BY <1>6, <1>7
    <3>2. QED
      BY <1>8, <3>1
  <2>3. ab[la + n] = b[n]
    <3>1. la + n \in 1..la + lb /\ ~(la + n <= la) /\ (la + n) - la = n
      BY <1>6
    <3>2. QED
      BY <1>7, <3>1
  <2>4. QED
    BY <2>1, <2>2, <2>3
<1>14. part = b
  BY <1>4, <1>11, <1>12, <1>13, SeqEqual DEF lb
<1>15. e = Start(src, j + 1) - 1 /\ s = Start(src, i)
  BY <1>6, <1>9
<1>16. Assembled(SubSeq(src, i, j)) = SubSeq(Assembled(src), Start(src, i), Start(src, j + 1) - 1)
  BY <1>14, <1>15 DEF part, b, m, w
<1>17. QED
  BY <1>6, <1>9, <1>16 DEF w

\* The words of line n lie in the section from its start to that of the next.
LineLies(src, n) ==
  /\ src[n] \in Lines /\ src[n].words \in Seq(Nat) /\ Len(src[n].words) \in Nat
  /\ Start(src, n) \in Nat \ {0} /\ Start(src, n + 1) = Start(src, n) + Len(src[n].words)
  /\ Start(src, n + 1) <= Len(Assembled(src)) + 1
  /\ \A k \in 1..Len(src[n].words) : src[n].words[k] = Assembled(src)[Start(src, n) + k - 1]

\* They do.
LEMMA LinesLie ==
  ASSUME NEW src \in Seq(Lines), NEW n \in 1..Len(src)
  PROVE  LineLies(src, n)
<1> DEFINE l == src[n].words
           w == Assembled(src)
           s == Start(src, n)
           e == Start(src, n + 1)
<1>1. Len(src) \in Nat /\ n \in 1..Len(src) + 1 /\ n \in n - 1..Len(src)
  BY LenProperties
<1>2. src[n] \in Lines
  BY ElementOfSeq
<1>3. l \in Seq(Nat) /\ Len(l) \in Nat
  BY <1>2, LineFields
<1>4. /\ s \in Nat \ {0} /\ e \in Nat \ {0} /\ s <= e /\ e <= Len(w) + 1
      /\ Assembled(SubSeq(src, n, n)) = SubSeq(w, s, e - 1)
  BY <1>1, WordsOfPart
<1>5. Assembled(SubSeq(src, n, n)) = l /\ e = s + Len(l)
  BY StartNext
<1>6. w \in Seq(Nat) /\ Len(w) \in Nat
  BY AssembledType
<1> HIDE DEF l, w, s, e
<1>7. \A k \in s..e - 1 : w[k] \in Nat
  <2>1. \A k \in s..e - 1 : k \in 1..Len(w)
    BY <1>4, <1>6
  <2>2. QED
    BY <2>1, <1>6, ElementOfSeq
<1>8. \A k \in 1..(e - 1) - s + 1 : SubSeq(w, s, e - 1)[k] = w[s + k - 1]
  <2> DEFINE f == e - 1
  <2>1. s \in Int /\ f \in Int /\ \A k \in s..f : w[k] \in Nat
    BY <1>4, <1>7
  <2> HIDE DEF f
  <2>2. \A k \in 1..f - s + 1 : SubSeq(w, s, f)[k] = w[s + k - 1]
    BY <2>1, SubSeqProperties
  <2>3. QED
    BY <2>2 DEF f
<1>9. ASSUME NEW k \in 1..Len(l)
      PROVE  l[k] = w[s + k - 1]
  <2>1. k \in 1..(e - 1) - s + 1
    BY <1>3, <1>4, <1>5
  <2>2. SubSeq(w, s, e - 1) = l
    BY <1>4, <1>5
  <2>3. QED
    BY <1>8, <2>1, <2>2
<1>10. QED
  BY <1>2, <1>3, <1>4, <1>5, <1>9 DEF LineLies, l, w, s, e

\* A part of a line is a part of the section.
LEMMA PartOfLine ==
  ASSUME NEW src \in Seq(Lines), NEW n \in 1..Len(src),
         NEW i \in 1..Len(src[n].words) + 1, NEW j \in i - 1..Len(src[n].words)
  PROVE  /\ SubSeq(src[n].words, i, j) \in Seq(Nat)
         /\ Len(SubSeq(src[n].words, i, j)) = j - i + 1
         /\ SubSeq(src[n].words, i, j) = SubSeq(Assembled(src), Start(src, n) + i - 1, Start(src, n) + j - 1)
<1> DEFINE l == src[n].words
           w == Assembled(src)
           s == Start(src, n)
           a == s + i - 1
           b == s + j - 1
           u == SubSeq(l, i, j)
           v == SubSeq(w, a, b)
<1>1. LineLies(src, n)
  BY LinesLie
<1>2. /\ l \in Seq(Nat) /\ Len(l) \in Nat /\ s \in Nat \ {0} /\ s + Len(l) <= Len(w) + 1
      /\ \A k \in 1..Len(l) : l[k] = w[s + k - 1]
  BY <1>1 DEF LineLies
<1>3. w \in Seq(Nat) /\ Len(w) \in Nat
  BY AssembledType
<1>4. i \in 1..Len(l) + 1 /\ j \in i - 1..Len(l)
  OBVIOUS
<1> HIDE DEF l, w, s
<1>5. Parted(Nat, l, i, j)
  BY <1>2, <1>4, MiddlePart
<1>6. u \in Seq(Nat) /\ Len(u) = j - i + 1 /\ \A n1 \in 1..j - i + 1 : u[n1] = l[i + n1 - 1]
  BY <1>5 DEF Parted
<1>7. i \in Int /\ j \in Int /\ a \in 1..Len(w) + 1 /\ b \in a - 1..Len(w) /\ b - a + 1 = j - i + 1
  BY <1>2, <1>3, <1>4
<1> HIDE DEF a, b
<1>8. Parted(Nat, w, a, b)
  BY <1>3, <1>7, MiddlePart
<1>9. v \in Seq(Nat) /\ Len(v) = b - a + 1 /\ \A n1 \in 1..b - a + 1 : v[n1] = w[a + n1 - 1]
  BY <1>8 DEF Parted
<1> HIDE DEF u, v
<1>10. ASSUME NEW k \in 1..j - i + 1
       PROVE  u[k] = v[k]
  <2>1. i + k - 1 \in 1..Len(l) /\ s + (i + k - 1) - 1 = a + k - 1 /\ k \in 1..b - a + 1
    BY <1>2, <1>4, <1>7 DEF a
  <2>2. l[i + k - 1] = w[s + (i + k - 1) - 1]
    BY <1>2, <2>1
  <2>3. QED
    BY <1>6, <1>9, <2>1, <2>2
<1>11. u = v
  BY <1>6, <1>7, <1>9, <1>10, SeqEqual
<1>12. QED
  BY <1>6, <1>11 DEF u, v, a, b, l, w, s

\* Lines start behind those before them.
LEMMA StartsGrow ==
  ASSUME NEW src \in Seq(Lines), NEW m \in 1..Len(src), NEW n \in 1..Len(src), m < n
  PROVE  Start(src, m) + Len(src[m].words) <= Start(src, n)
<1>1. m + 1 \in 1..Len(src) + 1 /\ n - 1 \in (m + 1) - 1..Len(src) /\ (n - 1) + 1 = n
  BY LenProperties
<1> DEFINE i == m + 1
           j == n - 1
<1>2. i \in 1..Len(src) + 1 /\ j \in i - 1..Len(src) /\ j + 1 = n
  BY <1>1
<1> HIDE DEF i, j
<1>3. Start(src, i) <= Start(src, j + 1)
  BY <1>2, WordsOfPart
<1>4. Start(src, m + 1) = Start(src, m) + Len(src[m].words)
  BY StartNext
<1>5. QED
  BY <1>2, <1>3, <1>4 DEF i

\* Two adjacent parts of a sequence.
LEMMA PartsJoin ==
  ASSUME NEW S, NEW w \in Seq(S), NEW a \in Nat \ {0}, NEW b \in Nat, NEW c \in Nat,
         a <= b + 1, b <= c, c <= Len(w)
  PROVE  /\ SubSeq(w, a, b) \in Seq(S) /\ SubSeq(w, b + 1, c) \in Seq(S)
         /\ Len(SubSeq(w, a, b)) = b + 1 - a /\ Len(SubSeq(w, b + 1, c)) = c - b
         /\ SubSeq(w, a, b) \o SubSeq(w, b + 1, c) = SubSeq(w, a, c)
<1>1. Len(w) \in Nat /\ a \in 1..Len(w) + 1 /\ b \in a - 1..Len(w) /\ c \in b..Len(w)
  BY LenProperties
<1>2. SubSeq(w, a, b) \o SubSeq(w, b + 1, c) = SubSeq(w, a, c)
  BY <1>1, ConcatAdjacentSubSeq
<1>3. Parted(S, w, a, b)
  BY <1>1, MiddlePart
<1> DEFINE d == b + 1
<1>4. d \in 1..Len(w) + 1 /\ c \in d - 1..Len(w) /\ c - d + 1 = c - b /\ b - a + 1 = b + 1 - a
  BY <1>1
<1> HIDE DEF d
<1>5. Parted(S, w, d, c)
  BY <1>4, MiddlePart
<1>6. SubSeq(w, a, b) \in Seq(S) /\ Len(SubSeq(w, a, b)) = b - a + 1
  BY <1>3 DEF Parted
<1>7. SubSeq(w, d, c) \in Seq(S) /\ Len(SubSeq(w, d, c)) = c - d + 1
  BY <1>5 DEF Parted
<1>8. QED
  BY <1>2, <1>4, <1>6, <1>7 DEF d

\* A dc.w line with the words, if there are words.
LEMMA DumpStands ==
  ASSUME NEW p \in Nat \ {0}, NEW words \in Seq(Nat), NEW at \in Int, Base \in Nat,
         at = NoAt \/ at = Address(p)
  PROVE  /\ words # <<>> => Stands(<<Line("dcw", words, at, NoRefs, {})>>, p, words)
         /\ words = <<>> => Stands(<<>>, p, words)
<1>1. ASSUME words # <<>>
      PROVE  Stands(<<Line("dcw", words, at, NoRefs, {})>>, p, words)
  <2> DEFINE line == Line("dcw", words, at, NoRefs, {})
  <2>1. line \in Lines /\ line.words = words /\ line.at = at
    BY <1>1, NoOperands, LineMade
  <2> HIDE DEF line
  <2>2. Stands(<<line>>, p, line.words)
    BY <2>1, StandsOne
  <2>3. QED
    BY <2>1, <2>2 DEF line
<1>2. QED
  BY <1>1, StandsNone

---------------------------------------------------------------------------
(* apply_translation.py.                                                   *)

\* A line that is found by its comment overlaps the block if one of its words is in it.
LEMMA OverlapsWords ==
  ASSUME NEW w, NEW src, Stands(src, 1, w), Base \in Nat, NEW first \in Int, NEW last \in Int,
         NEW n \in 1..Len(src)
  PROVE  /\ Addressed(src[n]) => src[n].at = Address(Start(src, n)) /\ Len(src[n].words) \in Nat \ {0}
         /\ Overlaps(src[n], first, last)
              <=> /\ Addressed(src[n]) /\ Start(src, n) <= last
                  /\ first <= Start(src, n) + Len(src[n].words) - 1
<1> DEFINE line == src[n]
           s == Start(src, n)
           e == Len(src[n].words)
<1>1. line \in Lines /\ 1 - 1 + s \in Nat \ {0} /\ (line.at # NoAt => line.at = Address(1 - 1 + s))
  BY LineStands
<1>2. s \in Nat \ {0}
  <2>1. src \in Seq(Lines) /\ n \in 1..Len(src) + 1
    BY LenProperties DEF Stands
  <2>2. QED
    BY <2>1, StartType
<1>3. 1 - 1 + s = s
  BY <1>2
<1>4. e \in Nat /\ (line.kind = "dcw" => e # 0)
  BY <1>1, LineFields
<1>5. ASSUME Addressed(line)
      PROVE  line.at = Address(s) /\ e \in Nat \ {0}
  BY <1>1, <1>3, <1>4, <1>5 DEF Addressed
<1>6. ASSUME Addressed(line)
      PROVE  Overlaps(line, first, last) <=> s <= last /\ first <= s + e - 1
  <2>1. line.at = Base + 2 * (s - 1)
    BY <1>5, <1>6 DEF Address
  <2> HIDE DEF line, s, e
  <2>2. Len(line.words) = e
    BY DEF line, e
  <2>3. line.at <= Address(last) + 1 <=> s <= last
    BY <2>1, <1>2 DEF Address
  <2>4. line.at + 2 * e - 1 >= Address(first) <=> first <= s + e - 1
    BY <2>1, <1>2, <1>4 DEF Address
  <2>5. QED
    BY <2>2, <2>3, <2>4, <1>6 DEF Overlaps
<1>7. QED
  BY <1>5, <1>6 DEF Overlaps

\* Instructions in the place of dumped words leave the lines where they stand.
LEMMA AppliedStands ==
  ASSUME NEW src, Stands(src, 1, rom), Base \in Nat, NEW first \in Int, NEW last \in Int,
         first <= last, NEW n0 \in DOMAIN src, Addressed(src[n0]), Start(src, n0) = first,
         NEW m0 \in DOMAIN src, Addressed(src[m0]),
         last \in Start(src, m0)..Start(src, m0) + Len(src[m0].words) - 1
  PROVE  Stands(Applied(src, first, last), 1, rom)
<1> DEFINE hit == {n \in DOMAIN src : Overlaps(src[n], first, last)}
           from == CHOOSE n \in hit : \A m \in hit : n <= m
           to   == CHOOSE n \in hit : \A m \in hit : m <= n
           S(n) == Start(src, n)
           E(n) == Len(src[n].words)
<1>1. src \in Seq(Lines) /\ Len(src) \in Nat /\ DOMAIN src = 1..Len(src) /\ Assembled(src) = rom
  BY LenProperties DEF Stands
<1>2. \A n \in 1..Len(src) : S(n) \in Nat \ {0} /\ E(n) \in Nat /\ S(n + 1) = S(n) + E(n)
                             /\ S(n + 1) <= Len(rom) + 1 /\ src[n] \in Lines
  <2>1. ASSUME NEW n \in 1..Len(src)
        PROVE  S(n) \in Nat \ {0} /\ E(n) \in Nat /\ S(n + 1) = S(n) + E(n)
               /\ S(n + 1) <= Len(rom) + 1 /\ src[n] \in Lines
    <3>1. LineLies(src, n)
      BY <1>1, LinesLie
    <3>2. QED
      BY <1>1, <3>1 DEF LineLies
  <2>2. QED
    BY <2>1
<1>3. rom \in Seq(Nat) /\ Len(rom) \in Nat
  BY <1>1, AssembledType
<1>4. \A n \in 1..Len(src) :
        /\ Addressed(src[n]) => src[n].at = Address(S(n)) /\ E(n) \in Nat \ {0}
        /\ Overlaps(src[n], first, last) <=> Addressed(src[n]) /\ S(n) <= last /\ first <= S(n) + E(n) - 1
  BY OverlapsWords
<1>5. \A m, n \in 1..Len(src) : m < n => S(m) + E(m) <= S(n)
  BY <1>1, StartsGrow
<1>6. n0 \in 1..Len(src) /\ m0 \in 1..Len(src) /\ S(n0) = first /\ last \in S(m0)..S(m0) + E(m0) - 1
  BY <1>1
<1> HIDE DEF S, E
<1>7. n0 \in hit /\ \A n \in hit : n0 <= n
  <2>1. n0 \in hit
    <3>1. E(n0) \in Nat \ {0} /\ S(n0) \in Nat
      BY <1>2, <1>4, <1>6
    <3>2. S(n0) <= last /\ first <= S(n0) + E(n0) - 1
      BY <1>6, <3>1
    <3>3. Overlaps(src[n0], first, last)
      BY <1>4, <1>6, <3>2
    <3>4. QED
      BY <3>3
  <2>2. ASSUME NEW n \in hit
        PROVE  n0 <= n
    <3>0. n \in 1..Len(src) /\ Overlaps(src[n], first, last)
      BY <1>1
    <3>1. n \in 1..Len(src) /\ first <= S(n) + E(n) - 1 /\ S(n) \in Nat /\ E(n) \in Nat
      BY <1>2, <1>4, <3>0
    <3>2. ~(n < n0)
      <4>1. n < n0 => S(n) + E(n) <= first
        BY <1>5, <1>6, <3>1
      <4>2. QED
        BY <3>1, <4>1
    <3>3. QED
      BY <1>6, <3>1, <3>2
  <2>3. QED
    BY <2>1, <2>2
<1>8. m0 \in hit /\ \A n \in hit : n <= m0
  <2>1. m0 \in hit
    <3>1. E(m0) \in Nat \ {0} /\ S(m0) \in Nat
      BY <1>2, <1>4, <1>6
    <3>2. S(m0) <= last /\ first <= S(m0) + E(m0) - 1
      BY <1>6, <3>1
    <3>3. Overlaps(src[m0], first, last)
      BY <1>4, <1>6, <3>2
    <3>4. QED
      BY <3>3
  <2>2. ASSUME NEW n \in hit
        PROVE  n <= m0
    <3>0. n \in 1..Len(src) /\ Overlaps(src[n], first, last)
      BY <1>1
    <3>1. n \in 1..Len(src) /\ S(n) <= last /\ S(n) \in Nat
      BY <1>2, <1>4, <3>0
    <3>2. S(m0) \in Nat /\ E(m0) \in Nat
      BY <1>2, <1>6
    <3>3. ~(m0 < n)
      BY <1>5, <1>6, <3>1, <3>2
    <3>4. QED
      BY <1>6, <3>1, <3>3
  <2>3. QED
    BY <2>1, <2>2
<1>9. from = n0 /\ to = m0 /\ n0 <= m0
  <2>1. \A n \in hit : n \in Int
    BY <1>1
  <2>2. n0 <= m0
    BY <1>7, <1>8
  <2> HIDE DEF hit
  <2>3. \A n \in hit : (\A m \in hit : n <= m) => n = n0
    BY <1>7, <2>1
  <2>4. \A n \in hit : (\A m \in hit : m <= n) => n = m0
    BY <1>8, <2>1
  <2>5. from = n0
    BY <1>7, <2>3
  <2>6. to = m0
    BY <1>8, <2>4
  <2>7. QED
    BY <2>2, <2>5, <2>6
<1> DEFINE code == Line("code", SubSeq(rom, first, last), NoAt, NoRefs, {})
           suffix == Suffix(src[m0], last)
           x == SubSeq(src, 1, n0 - 1)
           y == SubSeq(src, m0 + 1, Len(src))
<1>10. Applied(src, first, last) = x \o <<code>> \o suffix \o y
  <2>1. Applied(src, first, last) =
          SubSeq(src, 1, from - 1) \o <<code>> \o Suffix(src[to], last) \o SubSeq(src, to + 1, Len(src))
    BY DEF Applied
  <2> HIDE DEF from, to, code
  <2>2. QED
    BY <1>9, <2>1
<1> HIDE DEF hit, from, to
<1> DEFINE end == S(m0 + 1) - 1
<1>11. /\ first \in Nat \ {0} /\ last \in Nat \ {0} /\ end \in Nat /\ last <= end /\ end <= Len(rom)
       /\ end = S(m0) + E(m0) - 1 /\ E(m0) \in Nat \ {0} /\ S(m0) \in Nat \ {0}
  <2>1. S(m0) \in Nat \ {0} /\ S(m0 + 1) = S(m0) + E(m0) /\ S(m0 + 1) <= Len(rom) + 1
    BY <1>2, <1>6
  <2>2. E(m0) \in Nat \ {0} /\ S(n0) \in Nat \ {0}
    BY <1>2, <1>4, <1>6
  <2>3. first \in Nat \ {0} /\ last \in Nat \ {0}
    BY <1>6, <2>2
  <2>4. last \in S(m0)..S(m0) + E(m0) - 1
    BY <1>6
  <2> DEFINE s == S(m0)
             e == E(m0)
             t == S(m0 + 1)
             l == Len(rom)
  <2>5. s \in Nat \ {0} /\ t = s + e /\ t <= l + 1 /\ e \in Nat \ {0} /\ l \in Nat /\ last \in s..s + e - 1
    BY <2>1, <2>2, <2>4, <1>3
  <2> HIDE DEF s, e, t, l
  <2>6. t - 1 \in Nat /\ last <= t - 1 /\ t - 1 <= l /\ t - 1 = s + e - 1
    BY <2>3, <2>5
  <2>7. QED
    BY <2>3, <2>5, <2>6 DEF s, e, t, l
<1>12. /\ SubSeq(rom, first, last) \in Seq(Nat) /\ SubSeq(rom, last + 1, end) \in Seq(Nat)
       /\ Len(SubSeq(rom, first, last)) = last + 1 - first /\ Len(SubSeq(rom, last + 1, end)) = end - last
       /\ SubSeq(rom, first, last) \o SubSeq(rom, last + 1, end) = SubSeq(rom, first, end)
  <2> HIDE DEF end
  <2>1. first \in Nat \ {0} /\ last \in Nat /\ end \in Nat /\ first <= last + 1
    BY <1>11
  <2>2. rom \in Seq(Nat) /\ last <= end /\ end <= Len(rom)
    BY <1>3, <1>11
  <2>3. QED
    BY <2>1, <2>2, PartsJoin
<1>13. Stands(<<code>>, first, SubSeq(rom, first, last))
  <2>1. NoAt \in Int
    BY DEF NoAt
  <2>2. code \in Lines /\ code.words = SubSeq(rom, first, last) /\ code.at = NoAt
    <3> DEFINE words == SubSeq(rom, first, last)
    <3>1. words \in Seq(Nat) /\ "code" \in {"dcw", "dcl", "code", "text"} /\ "code" # "dcw"
      BY <1>12
    <3>2. {} \in SUBSET Nat
      OBVIOUS
    <3> HIDE DEF words
    <3>3. /\ Line("code", words, NoAt, NoRefs, {}) \in Lines
          /\ Line("code", words, NoAt, NoRefs, {}).words = words
          /\ Line("code", words, NoAt, NoRefs, {}).at = NoAt
      BY <2>1, <3>1, <3>2, NoOperands, LineMade
    <3>4. QED
      BY <3>3 DEF words
  <2> HIDE DEF code
  <2>3. Stands(<<code>>, first, code.words)
    BY <1>11, <2>2, StandsOne
  <2>4. QED
    BY <2>2, <2>3
<1>14. Stands(suffix, last + 1, SubSeq(rom, last + 1, end))
  <2> DEFINE line == src[m0]
             cut == (Address(last) + 2 - line.at) \div 2
             rest == SubSeq(line.words, cut + 1, Len(line.words))
             back == Line("dcw", rest, line.at + 2 * cut, NoRefs, {})
  <2>1. line.at = Base + 2 * (S(m0) - 1)
    BY <1>4, <1>6 DEF Address
  <2>2. Address(last) + 2 - line.at = 2 * (last - S(m0) + 1)
    BY <2>1, <1>11 DEF Address
  <2>3. cut = last - S(m0) + 1
    BY <2>2, <1>11
  <2>4. line.at + 2 * cut = Address(last + 1) /\ line.at + 2 * cut \in Int
    <3> HIDE DEF line, cut, end
    <3>1. S(m0) \in Int /\ last \in Int /\ Base \in Int
      BY <1>11
    <3>2. Address(last + 1) = Base + 2 * last
      BY <3>1 DEF Address
    <3>3. QED
      BY <2>1, <2>3, <3>1, <3>2
  <2>5. suffix = IF cut >= Len(line.words) THEN <<>> ELSE <<back>>
    BY DEF Suffix
  <2>6. Len(line.words) = E(m0)
    BY DEF E
  <2>7. cut \in 1..E(m0)
    <3> DEFINE c == cut
               s == S(m0)
               e == E(m0)
    <3>1. last \in s..s + e - 1 /\ s \in Nat /\ e \in Nat /\ last \in Nat /\ c = last - s + 1
      BY <2>3, <1>6, <1>11
    <3> HIDE DEF c, s, e
    <3>2. c \in 1..e
      BY <3>1
    <3>3. QED
      BY <3>2 DEF c, e
  <2>8. /\ rest \in Seq(Nat) /\ Len(rest) = E(m0) - cut
        /\ rest = SubSeq(rom, last + 1, end)
    <3> DEFINE i == cut + 1
               j == E(m0)
    <3>1. i \in 1..Len(src[m0].words) + 1 /\ j \in i - 1..Len(src[m0].words) /\ j - i + 1 = E(m0) - cut
      BY <2>6, <2>7
    <3>2. S(m0) + i - 1 = last + 1 /\ S(m0) + j - 1 = end
      BY <2>3, <1>11
    <3>3. rest = SubSeq(src[m0].words, i, j)
      BY <2>6
    <3> HIDE DEF i, j, cut, end, rest
    <3>4. /\ SubSeq(src[m0].words, i, j) \in Seq(Nat)
          /\ Len(SubSeq(src[m0].words, i, j)) = j - i + 1
          /\ SubSeq(src[m0].words, i, j)
               = SubSeq(Assembled(src), Start(src, m0) + i - 1, Start(src, m0) + j - 1)
      BY <1>1, <1>6, <3>1, PartOfLine
    <3>5. QED
      BY <3>1, <3>2, <3>3, <3>4, <1>1 DEF S
  <2> HIDE DEF cut, end, rest, line
  <2> DEFINE q == last + 1
             at == line.at + 2 * cut
  <2>9. q \in Nat \ {0} /\ at \in Int /\ at = Address(q)
    BY <1>11, <2>4
  <2>10. back = Line("dcw", rest, at, NoRefs, {})
    OBVIOUS
  <2> HIDE DEF q, at, back
  <2>11. /\ rest # <<>> => Stands(<<back>>, q, rest)
         /\ rest = <<>> => Stands(<<>>, q, rest)
    BY <2>8, <2>9, <2>10, DumpStands
  <2>12. rest = <<>> <=> cut >= Len(line.words)
    <3>1. rest = <<>> <=> Len(rest) = 0
      BY <2>8, EmptySeq
    <3>2. E(m0) \in Nat
      BY <1>11
    <3>3. QED
      BY <3>1, <3>2, <2>6, <2>7, <2>8
  <2>13. QED
    BY <2>5, <2>8, <2>11, <2>12 DEF q
<1>15. Stands(<<code>> \o suffix, 1 - 1 + Start(src, n0), Assembled(SubSeq(src, n0, m0)))
  <2>1. first + Len(SubSeq(rom, first, last)) = last + 1
    BY <1>11, <1>12
  <2> HIDE DEF code, suffix, end
  <2>2. Stands(<<code>> \o suffix, first, SubSeq(rom, first, last) \o SubSeq(rom, last + 1, end))
    BY <1>11, <1>13, <1>14, <2>1, StandsTogether
  <2>3. SubSeq(rom, first, end) = Assembled(SubSeq(src, n0, m0))
    <3>1. n0 \in 1..Len(src) + 1 /\ m0 \in n0 - 1..Len(src)
      BY <1>1, <1>6, <1>9
    <3>2. Assembled(SubSeq(src, n0, m0)) = SubSeq(Assembled(src), Start(src, n0), Start(src, m0 + 1) - 1)
      BY <1>1, <3>1, WordsOfPart
    <3>3. QED
      BY <1>1, <1>6, <3>2 DEF S, end
  <2>4. 1 - 1 + Start(src, n0) = first
    BY <1>11
  <2>5. QED
    BY <1>12, <2>2, <2>3, <2>4
<1>16. Stands((x \o (<<code>> \o suffix)) \o y, 1, rom)
  <2>1. n0 \in 1..Len(src) + 1 /\ m0 \in n0 - 1..Len(src) /\ 1 \in Nat \ {0}
    BY <1>1, <1>6, <1>9
  <2> DEFINE mid == <<code>> \o suffix
  <2>2. Stands(mid, 1 - 1 + Start(src, n0), Assembled(SubSeq(src, n0, m0)))
    BY <1>15
  <2> HIDE DEF mid
  <2>3. Stands((SubSeq(src, 1, n0 - 1) \o mid) \o SubSeq(src, m0 + 1, Len(src)), 1, rom)
    BY <2>1, <2>2, Replaced
  <2>4. QED
    BY <2>3 DEF mid
<1>17. x \o (<<code>> \o suffix) = (x \o <<code>>) \o suffix
  <2>1. x \in Seq(Lines)
    <3>1. n0 \in 1..Len(src) + 1 /\ m0 \in n0 - 1..Len(src)
      BY <1>1, <1>6, <1>9
    <3>2. Parted(Lines, src, n0, m0)
      BY <1>1, <3>1, MiddlePart
    <3>3. QED
      BY <3>2 DEF Parted
  <2>2. <<code>> \in Seq(Lines) /\ suffix \in Seq(Lines)
    BY <1>13, <1>14 DEF Stands
  <2> HIDE DEF x, suffix
  <2> DEFINE c == <<code>>
  <2>3. c \in Seq(Lines)
    BY <2>2
  <2> HIDE DEF c
  <2>4. \A a, b, d \in Seq(Lines) : (a \o b) \o d = a \o (b \o d)
    BY Associative, SMTT(30)
  <2>5. x \in Seq(Lines)
    BY <2>1
  <2>6. (x \o c) \o suffix = x \o (c \o suffix)
    BY <2>2, <2>3, <2>4, <2>5, Zenon
  <2>7. QED
    BY <2>1, <2>2, <2>6 DEF c
<1>18. QED
  BY <1>10, <1>16, <1>17

---------------------------------------------------------------------------
(* --rewrite-dcw-code.                                                     *)

\* Word p of the section is one of line n.
LineHas(src, p, n) ==
  /\ n \in 1..Len(src) /\ src[n] \in Lines /\ Start(src, n) \in Nat \ {0}
  /\ src[n].words \in Seq(Nat) /\ Len(src[n].words) \in Nat
  /\ Start(src, n) <= p /\ p < Start(src, n + 1)
  /\ Start(src, n + 1) = Start(src, n) + Len(src[n].words)
  /\ Start(src, n + 1) <= Len(Assembled(src)) + 1
  /\ \A k \in 1..Len(src[n].words) : src[n].words[k] = Assembled(src)[Start(src, n) + k - 1]

\* Every word of the section is in a line.
LEMMA LineOfWord ==
  ASSUME NEW src \in Seq(Lines), NEW p \in 1..Len(Assembled(src))
  PROVE  LineHas(src, p, LineOf(src, p))
<1> DEFINE S == {n \in 1..Len(src) : p < Start(src, n + 1)}
<1>1. Len(src) \in Nat /\ DOMAIN src = 1..Len(src) /\ Len(Assembled(src)) \in Nat /\ p \in Nat \ {0}
  BY LenProperties, AssembledType
<1>2. Start(src, 1) = 1 /\ Start(src, Len(src) + 1) = 1 + Len(Assembled(src))
  BY StartNext
<1>3. \A n \in 1..Len(src) + 1 : Start(src, n) \in Nat \ {0}
  BY StartType
<1>4. Len(src) \in S
  <2>1. Len(src) # 0
    BY <1>1, <1>2
  <2>2. QED
    BY <1>1, <1>2, <2>1
<1>5. PICK m \in S : \A j \in S : m <= j
  <2>1. S \in SUBSET Nat /\ S # {}
    BY <1>1, <1>4
  <2> HIDE DEF S
  <2>2. QED
    BY <2>1, Least
<1>6. m \in 1..Len(src) /\ p < Start(src, m + 1)
  OBVIOUS
<1>7. Start(src, m) <= p
  <2>1. CASE m = 1
    BY <1>1, <1>2, <2>1
  <2>2. CASE m # 1
    <3> DEFINE j == m - 1
    <3>1. j \in 1..Len(src) /\ j + 1 = m /\ ~(m <= j)
      BY <1>1, <1>6, <2>2
    <3> HIDE DEF j
    <3>2. j \notin S
      BY <1>5, <3>1
    <3>3. ~(p < Start(src, m))
      BY <3>1, <3>2
    <3>4. Start(src, m) \in Nat
      BY <1>1, <1>3, <1>6
    <3>5. QED
      BY <1>1, <3>3, <3>4
  <2>3. QED
    BY <2>1, <2>2
<1>8. m \in DOMAIN src /\ p \in Start(src, m)..Start(src, m + 1) - 1
  <2>1. Start(src, m) \in Nat /\ Start(src, m + 1) \in Nat
    BY <1>1, <1>3, <1>6
  <2>2. QED
    BY <1>1, <1>6, <1>7, <2>1
<1> HIDE DEF S
<1> DEFINE n == LineOf(src, p)
<1>9. n \in DOMAIN src /\ p \in Start(src, n)..Start(src, n + 1) - 1
  <2>1. \E k \in DOMAIN src : p \in Start(src, k)..Start(src, k + 1) - 1
    BY <1>8
  <2>2. QED
    BY <2>1 DEF LineOf
<1> HIDE DEF n
<1>10. n \in 1..Len(src) /\ Start(src, n) \in Nat \ {0} /\ Start(src, n + 1) \in Nat
  BY <1>1, <1>3, <1>9
<1>11. Start(src, n) <= p /\ p < Start(src, n + 1)
  BY <1>1, <1>9, <1>10
<1>12. LineLies(src, n)
  BY <1>10, LinesLie
<1>13. LineHas(src, p, n)
  BY <1>10, <1>11, <1>12 DEF LineHas, LineLies
<1>14. QED
  BY <1>13 DEF n

\* The lines of words are in the order of the words.
LEMMA LinesInOrder ==
  ASSUME NEW src \in Seq(Lines), NEW p \in 1..Len(Assembled(src)), NEW q \in 1..Len(Assembled(src)),
         p <= q
  PROVE  LineOf(src, p) <= LineOf(src, q)
<1> DEFINE m == LineOf(src, p)
           n == LineOf(src, q)
<1>1. LineHas(src, p, m) /\ LineHas(src, q, n)
  BY LineOfWord
<1> HIDE DEF m, n
<1>2. /\ m \in 1..Len(src) /\ n \in 1..Len(src) /\ Start(src, m) \in Nat /\ Start(src, n) \in Nat
      /\ Start(src, m) <= p /\ q < Start(src, n + 1) /\ Start(src, n + 1) = Start(src, n) + Len(src[n].words)
      /\ Len(src[n].words) \in Nat
  BY <1>1 DEF LineHas
<1>3. p \in Nat /\ q \in Nat /\ Len(src) \in Nat
  BY AssembledType, LenProperties
<1>4. ~(n < m)
  <2>1. n < m => Start(src, n) + Len(src[n].words) <= Start(src, m)
    BY <1>2, StartsGrow
  <2>2. QED
    BY <1>2, <1>3, <2>1
<1>5. QED
  BY <1>2, <1>3, <1>4 DEF m, n

\* Lines alike as far as line k start at the same words.
LEMMA StartsAgree ==
  ASSUME NEW x \in Seq(Lines), NEW y \in Seq(Lines), NEW k \in Nat, k <= Len(x), k <= Len(y),
         \A n \in 1..k : x[n] = y[n]
  PROVE  \A n \in 1..k + 1 : Start(x, n) = Start(y, n)
<1>1. Len(x) \in Nat /\ Len(y) \in Nat
  BY LenProperties
<1>2. ASSUME NEW n \in 1..k + 1
      PROVE  Start(x, n) = Start(y, n)
  <2> DEFINE j == n - 1
             u == SubSeq(x, 1, j)
             v == SubSeq(y, 1, j)
  <2>1. j \in 0..k /\ j \in 1 - 1..Len(x) /\ j \in 1 - 1..Len(y) /\ 1 \in 1..Len(x) + 1 /\ 1 \in 1..Len(y) + 1
    BY <1>1
  <2> HIDE DEF j
  <2>2. Parted(Lines, x, 1, j) /\ Parted(Lines, y, 1, j)
    BY <2>1, MiddlePart
  <2>3. /\ u \in Seq(Lines) /\ Len(u) = j - 1 + 1 /\ \A i \in 1..j - 1 + 1 : u[i] = x[1 + i - 1]
        /\ v \in Seq(Lines) /\ Len(v) = j - 1 + 1 /\ \A i \in 1..j - 1 + 1 : v[i] = y[1 + i - 1]
    BY <2>2 DEF Parted
  <2> HIDE DEF u, v
  <2>4. Len(u) = Len(v) /\ \A i \in 1..Len(u) : u[i] = v[i]
    <3>1. ASSUME NEW i \in 1..Len(u)
          PROVE  u[i] = v[i]
      <4>1. i \in 1..j - 1 + 1 /\ i \in 1..k /\ 1 + i - 1 = i
        BY <2>1, <2>3
      <4>2. QED
        BY <4>1, <2>3
    <3>2. QED
      BY <2>3, <3>1
  <2>5. u = v
    BY <2>3, <2>4, SeqEqual
  <2>6. QED
    BY <2>5 DEF Start, u, v, j
<1>3. QED
  BY <1>2

\* A line of dumped words, when there are words.
Dump(words, at) == IF words = <<>> THEN <<>> ELSE <<Line("dcw", words, at, NoRefs, {})>>

\* What the lines of the words at p + 1 and p + 2 become.
WordsBefore(src, p) == SubSeq(src[LineOf(src, p + 1)].words, 1, Place(src, p + 1).word - 1)
WordsAfter(src, p) ==
  SubSeq(src[LineOf(src, p + 2)].words, Place(src, p + 2).word + 1, Len(src[LineOf(src, p + 2)].words))
Operand(src, p) ==
  <<src[LineOf(src, p + 1)].words[Place(src, p + 1).word], src[LineOf(src, p + 2)].words[Place(src, p + 2).word]>>
InPlace(src, p) ==
  (Dump(WordsBefore(src, p), src[LineOf(src, p + 1)].at) \o <<Line("dcl", Operand(src, p), NoAt, NoRefs, {1})>>)
    \o Dump(WordsAfter(src, p), AddressComment(src[LineOf(src, p + 2)].at, Place(src, p + 2).word))

\* They stand where those lines did.
LEMMA LongStands ==
  ASSUME NEW w, NEW src, Stands(src, 1, w), Base \in Nat, NEW p \in 1..Len(w) - 2
  PROVE  /\ InPlace(src, p) \in Seq(Lines)
         /\ Dump(WordsBefore(src, p), src[LineOf(src, p + 1)].at) \in Seq(Lines)
         /\ Dump(WordsAfter(src, p), AddressComment(src[LineOf(src, p + 2)].at, Place(src, p + 2).word)) \in Seq(Lines)
         /\ <<Line("dcl", Operand(src, p), NoAt, NoRefs, {1})>> \in Seq(Lines)
         /\ LineOf(src, p + 1) \in 1..Len(src) /\ LineOf(src, p + 2) \in 1..Len(src)
         /\ LineOf(src, p + 1) <= LineOf(src, p + 2)
         /\ Stands(InPlace(src, p), Start(src, LineOf(src, p + 1)),
                   Assembled(SubSeq(src, LineOf(src, p + 1), LineOf(src, p + 2))))
<1> DEFINE h == LineOf(src, p + 1)
           l == LineOf(src, p + 2)
           s == Start(src, h)
           t == Start(src, l)
           hw == Place(src, p + 1).word
           lw == Place(src, p + 2).word
           e == Start(src, l + 1) - 1
           one == src[h]
           two == src[l]
           before == WordsBefore(src, p)
           after == WordsAfter(src, p)
           operand == Operand(src, p)
           at == AddressComment(two.at, lw)
           dcl == Line("dcl", operand, NoAt, NoRefs, {1})
           A == Dump(before, one.at)
           C == Dump(after, at)
<1>1. src \in Seq(Lines) /\ Assembled(src) = w /\ w \in Seq(Nat) /\ Len(w) \in Nat /\ Len(src) \in Nat
  BY AssembledType, LenProperties DEF Stands
<1>2. LineHas(src, p + 1, h) /\ LineHas(src, p + 2, l) /\ h <= l
  <2>1. p + 1 \in 1..Len(Assembled(src)) /\ p + 2 \in 1..Len(Assembled(src)) /\ p + 1 <= p + 2
    BY <1>1
  <2> DEFINE a == p + 1
             b == p + 2
  <2>2. a \in 1..Len(Assembled(src)) /\ b \in 1..Len(Assembled(src)) /\ a <= b
    BY <2>1
  <2> HIDE DEF a, b
  <2>3. LineHas(src, a, LineOf(src, a)) /\ LineHas(src, b, LineOf(src, b)) /\ LineOf(src, a) <= LineOf(src, b)
    BY <1>1, <2>2, LineOfWord, LinesInOrder
  <2>4. QED
    BY <2>3 DEF a, b
<1>3. hw = (p + 1) - s + 1 /\ lw = (p + 2) - t + 1
  <2>1. \A q : Place(src, q).word = q - Start(src, LineOf(src, q)) + 1
    BY DEF Place
  <2>2. QED
    BY <2>1, Zenon
<1>4. before = SubSeq(one.words, 1, hw - 1) /\ after = SubSeq(two.words, lw + 1, Len(two.words))
      /\ operand = <<one.words[hw], two.words[lw]>>
  BY DEF WordsBefore, WordsAfter, Operand
<1>5. /\ InPlace(src, p) = (A \o <<dcl>>) \o C
      /\ A = (IF before = <<>> THEN <<>> ELSE <<Line("dcw", before, one.at, NoRefs, {})>>)
      /\ C = (IF after = <<>> THEN <<>> ELSE <<Line("dcw", after, at, NoRefs, {})>>)
  BY DEF InPlace, Dump
<1> HIDE DEF h, l, s, t, hw, lw, before, after, operand, A, C
<1>6. /\ h \in 1..Len(src) /\ l \in 1..Len(src) /\ s \in Nat \ {0} /\ t \in Nat \ {0}
      /\ Len(one.words) \in Nat /\ Len(two.words) \in Nat
      /\ s <= p + 1 /\ p + 1 < s + Len(one.words) /\ t <= p + 2 /\ p + 2 < t + Len(two.words)
      /\ e = t + Len(two.words) - 1 /\ e <= Len(w) /\ e \in Nat
  <2>1. /\ h \in 1..Len(src) /\ s \in Nat \ {0} /\ Len(one.words) \in Nat
        /\ s <= p + 1 /\ p + 1 < Start(src, h + 1) /\ Start(src, h + 1) = s + Len(one.words)
    BY <1>2 DEF LineHas, s
  <2>2. /\ l \in 1..Len(src) /\ t \in Nat \ {0} /\ Len(two.words) \in Nat
        /\ t <= p + 2 /\ p + 2 < Start(src, l + 1) /\ Start(src, l + 1) = t + Len(two.words)
        /\ Start(src, l + 1) <= Len(w) + 1
    BY <1>1, <1>2 DEF LineHas, t
  <2>3. e = Start(src, l + 1) - 1
    OBVIOUS
  <2> DEFINE oo == Len(one.words)
             ll == Len(two.words)
             n == Start(src, l + 1)
  <2>4. /\ h \in 1..Len(src) /\ s \in Nat \ {0} /\ oo \in Nat /\ s <= p + 1 /\ p + 1 < s + oo
        /\ l \in 1..Len(src) /\ t \in Nat \ {0} /\ ll \in Nat /\ t <= p + 2 /\ p + 2 < n /\ n = t + ll
        /\ n <= Len(w) + 1 /\ e = n - 1
    BY <2>1, <2>2, <2>3
  <2> HIDE DEF oo, ll, n, e
  <2>5. e = t + ll - 1 /\ e <= Len(w) /\ e \in Nat
    BY <2>4, <1>1
  <2>6. QED
    BY <2>4, <2>5 DEF oo, ll, n
<1>7. /\ one \in Lines /\ one.at \in Int /\ (one.at # NoAt => one.at = Address(s))
      /\ two \in Lines /\ two.at \in Int /\ (two.at # NoAt => two.at = Address(t))
  <2>1. /\ one \in Lines /\ (one.at # NoAt => one.at = Address(1 - 1 + s))
    BY <1>6, LineStands DEF s
  <2>2. /\ two \in Lines /\ (two.at # NoAt => two.at = Address(1 - 1 + t))
    BY <1>6, LineStands DEF t
  <2>3. 1 - 1 + s = s /\ 1 - 1 + t = t
    BY <1>6
  <2> HIDE DEF one, two
  <2>4. QED
    BY <2>1, <2>2, <2>3, LineFields
<1>8. before \in Seq(Nat) /\ before = SubSeq(w, s, p)
  <2> DEFINE j == hw - 1
  <2>1. 1 \in 1..Len(src[h].words) + 1 /\ j \in 1 - 1..Len(src[h].words) /\ s + 1 - 1 = s /\ s + j - 1 = p
    BY <1>3, <1>6
  <2> HIDE DEF j
  <2>2. /\ SubSeq(src[h].words, 1, j) \in Seq(Nat)
        /\ SubSeq(src[h].words, 1, j) = SubSeq(Assembled(src), Start(src, h) + 1 - 1, Start(src, h) + j - 1)
    BY <1>1, <1>6, <2>1, PartOfLine
  <2>3. QED
    BY <1>1, <1>4, <2>1, <2>2 DEF s, j
<1>9. after \in Seq(Nat) /\ after = SubSeq(w, p + 3, e)
  <2> DEFINE i == lw + 1
             j == Len(two.words)
  <2>1. i \in 1..Len(src[l].words) + 1 /\ j \in i - 1..Len(src[l].words) /\ t + i - 1 = p + 3 /\ t + j - 1 = e
    BY <1>3, <1>6
  <2> HIDE DEF i, j, e
  <2>2. /\ SubSeq(src[l].words, i, j) \in Seq(Nat)
        /\ SubSeq(src[l].words, i, j) = SubSeq(Assembled(src), Start(src, l) + i - 1, Start(src, l) + j - 1)
    BY <1>1, <1>6, <2>1, PartOfLine
  <2>3. after = SubSeq(src[l].words, i, j)
    BY <1>4 DEF i, j
  <2>4. Start(src, l) + i - 1 = p + 3 /\ Start(src, l) + j - 1 = e
    BY <2>1 DEF t
  <2>5. QED
    BY <1>1, <2>2, <2>3, <2>4
<1>10. operand \in Seq(Nat) /\ operand = SubSeq(w, p + 1, p + 2)
  <2> DEFINE a == p + 1
             b == p + 2
             u == SubSeq(w, a, b)
  <2>1. one.words[hw] = w[p + 1] /\ two.words[lw] = w[p + 2]
    <3>1. hw \in 1..Len(one.words) /\ s + hw - 1 = p + 1
      BY <1>3, <1>6
    <3>2. lw \in 1..Len(two.words) /\ t + lw - 1 = p + 2
      BY <1>3, <1>6
    <3>3. \A k \in 1..Len(one.words) : one.words[k] = w[s + k - 1]
      BY <1>1, <1>2 DEF LineHas, s
    <3>4. \A k \in 1..Len(two.words) : two.words[k] = w[t + k - 1]
      BY <1>1, <1>2 DEF LineHas, t
    <3>5. one.words[hw] = w[s + hw - 1] /\ two.words[lw] = w[t + lw - 1]
      BY <3>1, <3>2, <3>3, <3>4
    <3>6. QED
      BY <3>1, <3>2, <3>5
  <2>2. a \in 1..Len(w) + 1 /\ b \in a - 1..Len(w) /\ b - a + 1 = 2 /\ a + 1 - 1 = p + 1 /\ a + 2 - 1 = p + 2
    BY <1>1
  <2> HIDE DEF a, b
  <2>3. Parted(Nat, w, a, b)
    BY <1>1, <2>2, MiddlePart
  <2>4. u \in Seq(Nat) /\ Len(u) = 2 /\ \A n \in 1..2 : u[n] = w[a + n - 1]
    BY <2>2, <2>3 DEF Parted
  <2> HIDE DEF u
  <2>5. u[1] = w[p + 1] /\ u[2] = w[p + 2]
    BY <2>2, <2>4
  <2>6. u = <<u[1], u[2]>>
    BY <2>4
  <2>7. u = operand
    BY <1>4, <2>1, <2>5, <2>6
  <2>8. QED
    BY <2>4, <2>7 DEF u, a, b
<1>11. at \in Int /\ (at = NoAt \/ at = Address(p + 3))
  <2> HIDE DEF two
  <2>1. at = IF two.at = NoAt THEN NoAt ELSE two.at + 2 * lw
    BY DEF AddressComment
  <2>2. NoAt \in Int /\ lw \in Int /\ t \in Int /\ Base \in Int /\ p \in Int
    BY <1>3, <1>6 DEF NoAt
  <2>3. CASE two.at = NoAt
    BY <2>1, <2>2, <2>3
  <2>4. CASE two.at # NoAt
    <3>1. two.at = Base + 2 * (t - 1) /\ Address(p + 3) = Base + 2 * (p + 3 - 1)
      BY <1>7, <2>4 DEF Address
    <3>2. two.at + 2 * lw = Address(p + 3)
      BY <1>3, <2>2, <3>1
    <3>3. QED
      BY <1>7, <2>1, <2>2, <2>4, <3>2
  <2>5. QED
    BY <2>3, <2>4
<1> HIDE DEF at, one, two, e
<1>12. Stands(A, s, SubSeq(w, s, p))
  <2> DEFINE oat == one.at
  <2>1. oat \in Int /\ (oat = NoAt \/ oat = Address(s)) /\ s \in Nat \ {0}
    BY <1>6, <1>7
  <2>2. A = IF before = <<>> THEN <<>> ELSE <<Line("dcw", before, oat, NoRefs, {})>>
    BY <1>5
  <2> HIDE DEF oat
  <2>3. /\ before # <<>> => Stands(<<Line("dcw", before, oat, NoRefs, {})>>, s, before)
        /\ before = <<>> => Stands(<<>>, s, before)
    BY <1>8, <2>1, DumpStands
  <2>4. QED
    BY <1>8, <2>2, <2>3
<1>13. Stands(C, p + 3, SubSeq(w, p + 3, e))
  <2> DEFINE q == p + 3
  <2>1. at \in Int /\ (at = NoAt \/ at = Address(q)) /\ q \in Nat \ {0}
    BY <1>11
  <2> HIDE DEF q
  <2>2. /\ after # <<>> => Stands(<<Line("dcw", after, at, NoRefs, {})>>, q, after)
        /\ after = <<>> => Stands(<<>>, q, after)
    BY <1>9, <2>1, DumpStands
  <2>3. Stands(C, q, after)
    BY <1>5, <2>2
  <2>4. QED
    BY <1>9, <2>3 DEF q
<1>14. Stands(<<dcl>>, p + 1, SubSeq(w, p + 1, p + 2))
  <2> DEFINE q == p + 1
  <2>1. q \in Nat /\ NoAt \in Int /\ {1} \in SUBSET Nat /\ "dcl" \in {"dcw", "dcl", "code", "text"}
    BY DEF NoAt
  <2> DEFINE kind == "dcl"
             based == {1}
  <2>2. /\ kind \in {"dcw", "dcl", "code", "text"} /\ based \in SUBSET Nat
        /\ kind = "dcw" => operand # <<>>
    OBVIOUS
  <2>3. dcl \in Lines /\ dcl.words = operand /\ dcl.at = NoAt
    <3>1. dcl = Line(kind, operand, NoAt, NoRefs, based)
      OBVIOUS
    <3> HIDE DEF kind, based, dcl
    <3>2. operand \in Seq(Nat)
      BY <1>10
    <3>3. /\ Line(kind, operand, NoAt, NoRefs, based) \in Lines
          /\ Line(kind, operand, NoAt, NoRefs, based).words = operand
          /\ Line(kind, operand, NoAt, NoRefs, based).at = NoAt
      BY <2>1, <2>2, <3>2, NoOperands, LineMade
    <3>4. QED
      BY <3>1, <3>3
  <2> HIDE DEF q, dcl
  <2>4. Stands(<<dcl>>, q, dcl.words)
    BY <2>1, <2>3, StandsOne
  <2>5. QED
    BY <1>10, <2>3, <2>4 DEF q
<1> HIDE DEF dcl
<1>15. /\ Len(SubSeq(w, s, p)) = p + 1 - s
       /\ SubSeq(w, s, p) \o SubSeq(w, p + 1, p + 2) = SubSeq(w, s, p + 2)
  <2> DEFINE c == p + 2
  <2>1. w \in Seq(Nat) /\ s \in Nat \ {0} /\ p \in Nat /\ c \in Nat /\ s <= p + 1 /\ p <= c /\ c <= Len(w)
    BY <1>1, <1>6
  <2> HIDE DEF c
  <2>2. /\ Len(SubSeq(w, s, p)) = p + 1 - s
        /\ SubSeq(w, s, p) \o SubSeq(w, p + 1, c) = SubSeq(w, s, c)
    BY <2>1, PartsJoin
  <2>3. QED
    BY <2>2 DEF c
<1>16. /\ Len(SubSeq(w, s, p + 2)) = p + 3 - s
       /\ SubSeq(w, s, p + 2) \o SubSeq(w, p + 3, e) = SubSeq(w, s, e)
  <2> DEFINE b == p + 2
  <2>1. w \in Seq(Nat) /\ s \in Nat \ {0} /\ b \in Nat /\ e \in Nat /\ s <= b + 1 /\ b <= e /\ e <= Len(w)
    BY <1>1, <1>6
  <2>2. b + 1 = p + 3 /\ b + 1 - s = p + 3 - s
    BY <1>6
  <2> HIDE DEF b
  <2>3. /\ Len(SubSeq(w, s, b)) = b + 1 - s
        /\ SubSeq(w, s, b) \o SubSeq(w, b + 1, e) = SubSeq(w, s, e)
    BY <2>1, PartsJoin
  <2>4. QED
    BY <2>2, <2>3 DEF b
<1>17. Stands(A \o <<dcl>>, s, SubSeq(w, s, p + 2))
  <2>1. s + Len(SubSeq(w, s, p)) = p + 1 /\ s \in Nat
    BY <1>6, <1>15
  <2> DEFINE d == <<dcl>>
             u == SubSeq(w, s, p)
             v == SubSeq(w, p + 1, p + 2)
  <2>2. Stands(A, s, u) /\ Stands(d, s + Len(u), v)
    BY <1>12, <1>14, <2>1
  <2> HIDE DEF d, u, v
  <2>3. Stands(A \o d, s, u \o v)
    BY <2>1, <2>2, StandsTogether
  <2>4. QED
    BY <1>15, <2>3 DEF d, u, v
<1>18. Stands((A \o <<dcl>>) \o C, s, SubSeq(w, s, e))
  <2>1. s + Len(SubSeq(w, s, p + 2)) = p + 3 /\ s \in Nat
    BY <1>6, <1>16
  <2> DEFINE d == A \o <<dcl>>
             u == SubSeq(w, s, p + 2)
             v == SubSeq(w, p + 3, e)
  <2>2. Stands(d, s, u) /\ Stands(C, s + Len(u), v)
    BY <1>13, <1>17, <2>1
  <2> HIDE DEF d, u, v
  <2>3. Stands(d \o C, s, u \o v)
    BY <2>1, <2>2, StandsTogether
  <2>4. QED
    BY <1>16, <2>3 DEF d, u, v
<1>19. SubSeq(w, s, e) = Assembled(SubSeq(src, h, l))
  <2>1. h \in 1..Len(src) + 1 /\ l \in h - 1..Len(src)
    BY <1>1, <1>2, <1>6
  <2>2. Assembled(SubSeq(src, h, l)) = SubSeq(Assembled(src), Start(src, h), Start(src, l + 1) - 1)
    BY <1>1, <2>1, WordsOfPart
  <2>3. QED
    BY <1>1, <2>2 DEF s, e
<1>20. A \in Seq(Lines) /\ <<dcl>> \in Seq(Lines) /\ C \in Seq(Lines) /\ InPlace(src, p) \in Seq(Lines)
  BY <1>5, <1>12, <1>13, <1>14, <1>18 DEF Stands
<1>21. h \in 1..Len(src) /\ l \in 1..Len(src) /\ h <= l /\ Stands(InPlace(src, p), s, Assembled(SubSeq(src, h, l)))
  BY <1>2, <1>5, <1>6, <1>18, <1>19
<1>22. QED
  BY <1>20, <1>21 DEF h, l, s, A, C, dcl, before, after, operand, at, one, two, lw

\* Lines y are those of x as far as line k.
AlikeTo(x, y, k) == k <= Len(y) /\ \A n \in 1..k : y[n] = x[n]

\* One site leaves the lines where they stand, and those before its address as they were.
LEMMA PutLongStands ==
  ASSUME NEW w, NEW src, Stands(src, 1, w), NEW lines, Stands(lines, 1, w), Base \in Nat,
         NEW p \in 1..Len(w) - 2, AlikeTo(src, lines, LineOf(src, p + 2))
  PROVE  /\ Stands(PutLong(src, lines, p), 1, w)
         /\ AlikeTo(src, PutLong(src, lines, p), LineOf(src, p + 1) - 1)
<1> DEFINE h == LineOf(src, p + 1)
           l == LineOf(src, p + 2)
           A == Dump(WordsBefore(src, p), src[h].at)
           B == <<Line("dcl", Operand(src, p), NoAt, NoRefs, {1})>>
           C == Dump(WordsAfter(src, p), AddressComment(src[l].at, Place(src, p + 2).word))
           mid == InPlace(src, p)
           x == SubSeq(lines, 1, h - 1)
           y == SubSeq(lines, l + 1, Len(lines))
<1>1. PutLong(src, lines, p) = x \o A \o B \o C \o y
  BY DEF PutLong, Place, Dump, WordsBefore, WordsAfter, Operand
<1>2. mid = (A \o B) \o C
  BY DEF InPlace
<1>3. /\ mid \in Seq(Lines) /\ A \in Seq(Lines) /\ B \in Seq(Lines) /\ C \in Seq(Lines)
      /\ h \in 1..Len(src) /\ l \in 1..Len(src) /\ h <= l
      /\ Stands(mid, Start(src, h), Assembled(SubSeq(src, h, l)))
  BY LongStands
<1> HIDE DEF A, B, C, mid, h, l
<1>4. /\ src \in Seq(Lines) /\ lines \in Seq(Lines) /\ Assembled(src) = w /\ Assembled(lines) = w
      /\ Len(src) \in Nat /\ Len(lines) \in Nat
  BY LenProperties DEF Stands
<1>5. l <= Len(lines) /\ \A n \in 1..l : lines[n] = src[n]
  BY DEF AlikeTo, l
<1>6. h \in Nat \ {0} /\ l \in Nat \ {0} /\ h \in 1..Len(lines) + 1 /\ l \in h - 1..Len(lines) /\ l <= Len(src)
  BY <1>3, <1>4, <1>5
<1>7. \A n \in 1..l + 1 : Start(src, n) = Start(lines, n)
  <2>1. l \in Nat /\ \A n \in 1..l : src[n] = lines[n]
    BY <1>5, <1>6
  <2>2. QED
    BY <1>4, <1>5, <1>6, <2>1, StartsAgree
<1>8. Start(src, h) = Start(lines, h) /\ Start(src, l + 1) = Start(lines, l + 1)
  <2>1. h \in 1..l + 1 /\ l + 1 \in 1..l + 1
    BY <1>3, <1>6
  <2>2. QED
    BY <1>7, <2>1
<1>9. Assembled(SubSeq(src, h, l)) = Assembled(SubSeq(lines, h, l))
  <2>1. h \in 1..Len(src) + 1 /\ l \in h - 1..Len(src)
    BY <1>3, <1>4, <1>6
  <2>2. Assembled(SubSeq(src, h, l)) = SubSeq(Assembled(src), Start(src, h), Start(src, l + 1) - 1)
    BY <1>4, <2>1, WordsOfPart
  <2>3. Assembled(SubSeq(lines, h, l)) = SubSeq(Assembled(lines), Start(lines, h), Start(lines, l + 1) - 1)
    BY <1>4, <1>6, WordsOfPart
  <2>4. QED
    BY <1>4, <1>8, <2>2, <2>3
<1>10. Stands((x \o mid) \o y, 1, w)
  <2>1. Stands(mid, 1 - 1 + Start(lines, h), Assembled(SubSeq(lines, h, l)))
    <3>1. Start(lines, h) \in Nat
      BY <1>4, <1>6, StartType
    <3>2. 1 - 1 + Start(lines, h) = Start(lines, h)
      BY <3>1
    <3>3. QED
      BY <1>3, <1>8, <1>9, <3>2
  <2>2. 1 \in Nat \ {0}
    OBVIOUS
  <2>3. QED
    BY <1>6, <2>1, <2>2, Replaced
<1>11. /\ x \in Seq(Lines) /\ y \in Seq(Lines) /\ Len(x) = h - 1
       /\ \A n \in 1..h - 1 : x[n] = lines[n]
  <2>1. Parted(Lines, lines, h, l)
    BY <1>4, <1>6, MiddlePart
  <2>2. x \in Seq(Lines) /\ y \in Seq(Lines) /\ Len(x) = h - 1
    BY <2>1 DEF Parted
  <2> DEFINE j == h - 1
  <2>3. 1 \in 1..Len(lines) + 1 /\ j \in 1 - 1..Len(lines) /\ j - 1 + 1 = j
    BY <1>4, <1>6
  <2> HIDE DEF j
  <2>4. Parted(Lines, lines, 1, j)
    BY <1>4, <2>3, MiddlePart
  <2>5. \A n \in 1..j - 1 + 1 : SubSeq(lines, 1, j)[n] = lines[1 + n - 1]
    BY <2>4 DEF Parted
  <2>6. \A n \in 1..j : SubSeq(lines, 1, j)[n] = lines[n]
    <3>1. ASSUME NEW n \in 1..j
          PROVE  SubSeq(lines, 1, j)[n] = lines[n]
      <4>1. n \in 1..j - 1 + 1 /\ 1 + n - 1 = n
        BY <2>3
      <4>2. QED
        BY <2>5, <4>1
    <3>2. QED
      BY <3>1
  <2>7. QED
    BY <2>2, <2>6 DEF j
<1> HIDE DEF x, y
<1>12. x \o A \o B \o C \o y = (x \o mid) \o y
  <2>1. \A a, b, c \in Seq(Lines) : (a \o b) \o c = a \o (b \o c)
    BY Associative, SMTT(30)
  <2>0. x \in Seq(Lines) /\ A \in Seq(Lines) /\ B \in Seq(Lines) /\ C \in Seq(Lines)
    BY <1>3, <1>11
  <2>2. A \o B \in Seq(Lines)
    BY <2>0, ConcatProperties
  <2>3. (x \o A) \o B = x \o (A \o B)
    BY <2>0, <2>1, Zenon
  <2>4. (x \o (A \o B)) \o C = x \o ((A \o B) \o C)
    <3> DEFINE ab == A \o B
    <3> HIDE DEF ab
    <3>1. ab \in Seq(Lines)
      BY <2>2 DEF ab
    <3>2. x \in Seq(Lines) /\ C \in Seq(Lines)
      BY <2>0
    <3>3. (x \o ab) \o C = x \o (ab \o C)
      BY <2>1, <3>1, <3>2, Zenon
    <3>4. QED
      BY <3>3 DEF ab
  <2>5. x \o ((A \o B) \o C) = x \o mid
    BY <1>2, Zenon
  <2>6. QED
    BY <2>3, <2>4, <2>5, Zenon
<1> DEFINE z == (x \o mid) \o y
<1>13. PutLong(src, lines, p) = z
  BY <1>1, <1>12
<1>14. h - 1 <= Len(z) /\ \A n \in 1..h - 1 : z[n] = src[n]
  <2> DEFINE b == mid \o y
  <2>1. b \in Seq(Lines) /\ z = x \o b
    <3>1. \A c, d, e \in Seq(Lines) : (c \o d) \o e = c \o (d \o e)
      BY Associative, SMTT(30)
    <3>2. x \in Seq(Lines) /\ mid \in Seq(Lines) /\ y \in Seq(Lines)
      BY <1>3, <1>11
    <3>3. mid \o y \in Seq(Lines)
      BY <3>2, ConcatProperties
    <3>4. (x \o mid) \o y = x \o (mid \o y)
      BY <3>1, <3>2, Zenon
    <3>5. QED
      BY <3>3, <3>4
  <2> HIDE DEF b, z
  <2>2. Len(b) \in Nat /\ Len(z) = Len(x) + Len(b)
    BY <2>1, <1>11, ConcatProperties, LenProperties
  <2>3. ASSUME NEW n \in 1..h - 1
        PROVE  z[n] = src[n]
    <3>1. n \in 1..Len(x) + Len(b) /\ n <= Len(x)
      BY <1>6, <1>11, <2>2
    <3>2. (x \o b)[n] = x[n]
      BY <1>11, <2>1, <3>1, ConcatProperties
    <3>3. n \in 1..l
      BY <1>3, <1>6
    <3>4. QED
      BY <1>5, <1>11, <2>1, <3>2, <3>3
  <2>4. h - 1 <= Len(z)
    BY <1>6, <1>11, <2>2
  <2>5. QED
    BY <2>3, <2>4
<1> HIDE DEF z
<1>15. Stands(z, 1, w)
  BY <1>10 DEF z
<1>16. AlikeTo(src, z, h - 1)
  BY <1>14 DEF AlikeTo
<1>17. QED
  BY <1>13, <1>15, <1>16 DEF h

\* What --rewrite-dcw-code has done when size - k words are left: the lines stand, and
\* those of the sites among them are as they were.
SitesLeft(src, w, lines, k) ==
  /\ Stands(lines, 1, w)
  /\ \A q \in Sites(src) : q <= Len(w) - k => AlikeTo(src, lines, LineOf(src, q + 2))

\* A site is a word with two behind it.
LEMMA SitesType ==
  ASSUME NEW src, NEW w, Stands(src, 1, w), NEW p \in Sites(src)
  PROVE  p \in 1..Len(w) - 2 /\ p \in Nat \ {0}
<1>1. Assembled(src) = w /\ Len(w) \in Nat
  BY AssembledType DEF Stands
<1>2. p \in 1..Len(w) - 2
  BY <1>1 DEF Sites
<1>3. QED
  BY <1>1, <1>2

\* One word of --rewrite-dcw-code.
LEMMA SiteDone ==
  ASSUME NEW w, NEW src, Stands(src, 1, w), SitesApart(src), Base \in Nat,
         NEW k \in 1..Len(w), NEW lines, SitesLeft(src, w, lines, k - 1)
  PROVE  SitesLeft(src, w, IF Len(w) + 1 - k \in Sites(src) THEN PutLong(src, lines, Len(w) + 1 - k) ELSE lines, k)
<1> DEFINE p == Len(w) + 1 - k
           next == IF p \in Sites(src) THEN PutLong(src, lines, p) ELSE lines
<1>1. Len(w) \in Nat /\ src \in Seq(Lines) /\ Assembled(src) = w
  BY AssembledType DEF Stands
<1>2. p \in Nat \ {0} /\ Len(w) - (k - 1) = p /\ Len(w) - k = p - 1
  BY <1>1
<1> HIDE DEF p
<1>3. Stands(lines, 1, w) /\ \A q \in Sites(src) : q <= p => AlikeTo(src, lines, LineOf(src, q + 2))
  BY <1>2 DEF SitesLeft
<1>4. \A q \in Sites(src) : q \in 1..Len(w) - 2 /\ q \in Nat \ {0}
  BY SitesType
<1>5. CASE p \in Sites(src)
  <2>1. p <= p /\ p \in 1..Len(w) - 2
    BY <1>2, <1>4, <1>5
  <2>2. AlikeTo(src, lines, LineOf(src, p + 2))
    BY <1>3, <1>5, <2>1
  <2>3. Stands(PutLong(src, lines, p), 1, w) /\ AlikeTo(src, PutLong(src, lines, p), LineOf(src, p + 1) - 1)
    BY <1>3, <2>1, <2>2, PutLongStands
  <2>4. ASSUME NEW q \in Sites(src), q <= p - 1
        PROVE  AlikeTo(src, PutLong(src, lines, p), LineOf(src, q + 2))
    <3> DEFINE m == LineOf(src, q + 2)
               n == LineOf(src, p + 1)
    <3>1. q < p
      BY <1>2, <1>4, <2>4
    <3>2. m < n
      BY <1>5, <3>1 DEF SitesApart
    <3>3. m \in Nat /\ n \in Nat
      <4> DEFINE a == q + 2
                 b == p + 1
      <4>1. a \in 1..Len(Assembled(src)) /\ b \in 1..Len(Assembled(src))
        BY <1>1, <1>4, <2>1
      <4> HIDE DEF a, b
      <4>2. LineHas(src, a, LineOf(src, a)) /\ LineHas(src, b, LineOf(src, b))
        BY <1>1, <4>1, LineOfWord
      <4>3. LineOf(src, a) \in 1..Len(src) /\ LineOf(src, b) \in 1..Len(src)
        BY <4>2 DEF LineHas
      <4>4. Len(src) \in Nat
        BY <1>1, LenProperties
      <4>5. QED
        BY <4>3, <4>4 DEF a, b
    <3> HIDE DEF m, n
    <3> DEFINE z == PutLong(src, lines, p)
    <3>4. Len(z) \in Nat
      BY <2>3, LenProperties DEF Stands
    <3>5. n - 1 <= Len(z) /\ \A i \in 1..n - 1 : z[i] = src[i]
      BY <2>3 DEF AlikeTo, n
    <3> HIDE DEF z
    <3>6. m <= Len(z) /\ \A i \in 1..m : z[i] = src[i]
      BY <3>2, <3>3, <3>4, <3>5
    <3>7. QED
      BY <3>6 DEF AlikeTo, m, z
  <2>5. QED
    BY <1>2, <1>5, <2>3, <2>4 DEF SitesLeft, p
<1>6. CASE p \notin Sites(src)
  <2>1. ASSUME NEW q \in Sites(src), q <= p - 1
        PROVE  AlikeTo(src, lines, LineOf(src, q + 2))
    <3>1. q <= p
      BY <1>2, <1>4, <2>1
    <3>2. QED
      BY <1>3, <3>1
  <2>2. QED
    BY <1>2, <1>3, <1>6, <2>1 DEF SitesLeft, p
<1>7. QED
  BY <1>5, <1>6

\* --rewrite-dcw-code leaves the lines where they stand, if no line holds words of two
\* sites.
LEMMA DcwCodeStands ==
  ASSUME NEW w, NEW src, Stands(src, 1, w), SitesApart(src), Base \in Nat
  PROVE  Stands(DcwCode(src), 1, w)
<1> DEFINE N == Len(w)
           T == Seq(Lines)
           Safe(acc, k) == SitesLeft(src, w, acc, k)
           Done(acc, k) == IF N + 1 - k \in Sites(src) THEN PutLong(src, acc, N + 1 - k) ELSE acc
           Step(acc, k) == IF Safe(acc, k - 1) THEN Done(acc, k) ELSE acc
           F == [k \in 1..N |-> [acc \in T |-> Step(acc, k)]]
           Is(f) == f = [k \in 0..N |-> IF k = 0 THEN src ELSE Done(f[k - 1], k)]
           c == CHOOSE f : Is(f)
<1>1. N \in Nat /\ src \in T /\ Assembled(src) = w
  BY AssembledType DEF Stands
<1>2. Safe(src, 0)
  <2>1. ASSUME NEW q \in Sites(src)
        PROVE  AlikeTo(src, src, LineOf(src, q + 2))
    <3> DEFINE a == q + 2
    <3>1. a \in 1..Len(Assembled(src))
      <4>1. q \in 1..Len(w) - 2 /\ q \in Nat \ {0}
        BY SitesType
      <4>2. QED
        BY <4>1, <1>1
    <3> HIDE DEF a, N
    <3>2. LineHas(src, a, LineOf(src, a))
      BY <1>1, <3>1, LineOfWord
    <3>3. LineOf(src, a) \in 1..Len(src) /\ Len(src) \in Nat
      BY <1>1, <3>2, LenProperties DEF LineHas
    <3>4. QED
      BY <3>3 DEF AlikeTo, a
  <2>2. QED
    BY <2>1 DEF SitesLeft
<1>3. ASSUME NEW k \in 1..N, NEW acc, Safe(acc, k - 1)
      PROVE  Safe(Done(acc, k), k)
  BY <1>3, SiteDone
<1>4. F \in [1..N -> [T -> T]]
  <2>1. ASSUME NEW k \in 1..N, NEW acc \in T
        PROVE  Step(acc, k) \in T
    <3>1. CASE Safe(acc, k - 1)
      <4>1. Done(acc, k) \in T
        BY <3>1, <1>3 DEF SitesLeft, Stands
      <4>2. QED
        BY <3>1, <4>1
    <3>2. CASE ~Safe(acc, k - 1)
      BY <3>2
    <3>3. QED
      BY <3>1, <3>2
  <2> HIDE DEF T, N, Step
  <2>2. QED
    BY <2>1
<1>5. PICK g \in [0..N -> T] : g[0] = src /\ \A k \in 1..N : g[k] = F[k][g[k - 1]]
  <2> HIDE DEF F, N, T
  <2>1. Recursive(N, T, src, F) # {}
    BY <1>1, <1>4, Recursion
  <2>2. QED
    BY <2>1 DEF Recursive
<1>6. \A k \in 1..N : g[k] = Step(g[k - 1], k)
  <2>1. ASSUME NEW k \in 1..N
        PROVE  g[k] = Step(g[k - 1], k)
    <3>1. k - 1 \in 0..N
      BY <1>1
    <3> HIDE DEF T, Step, N
    <3>2. g[k - 1] \in T /\ g[k] = F[k][g[k - 1]]
      BY <1>5, <3>1
    <3>3. QED
      BY <3>2
  <2>2. QED
    BY <2>1
<1> HIDE DEF T, F, Safe, Done
<1>7. \A k \in Nat : k <= N => Safe(g[k], k)
  <2> DEFINE S == {k \in Nat : k <= N => Safe(g[k], k)}
  <2>1. 0 \in S
    BY <1>2, <1>5
  <2>2. ASSUME NEW k \in Nat, k \in S
        PROVE  k + 1 \in S
    <3>1. SUFFICES ASSUME k + 1 <= N
                   PROVE  Safe(g[k + 1], k + 1)
      OBVIOUS
    <3>2. k + 1 \in 1..N /\ (k + 1) - 1 = k /\ k <= N
      BY <1>1, <3>1
    <3>3. Safe(g[k], k) /\ g[k + 1] = Step(g[k], k + 1)
      BY <1>6, <2>2, <3>2
    <3>4. g[k + 1] = Done(g[k], k + 1)
      BY <3>2, <3>3
    <3> HIDE DEF N
    <3>5. QED
      BY <1>3, <3>2, <3>3, <3>4
  <2>3. \A k \in Nat : k \in S
    <3> HIDE DEF S
    <3> QED
      BY <2>1, <2>2, Induction
  <2>4. QED
    BY <2>3
<1> HIDE DEF N
<1>8. Is(g)
  <2>1. ASSUME NEW k \in 0..N
        PROVE  g[k] = IF k = 0 THEN src ELSE Done(g[k - 1], k)
    <3>1. CASE k = 0
      BY <3>1, <1>5
    <3>2. CASE k # 0
      <4>1. k \in 1..N /\ k - 1 \in Nat /\ k - 1 <= N
        BY <3>2, <1>1
      <4>2. Safe(g[k - 1], k - 1) /\ g[k] = Step(g[k - 1], k)
        BY <4>1, <1>6, <1>7
      <4>3. QED
        BY <3>2, <4>2
    <3>3. QED
      BY <3>1, <3>2
  <2>2. g = [k \in 0..N |-> g[k]]
    BY <1>5
  <2> HIDE DEF Step
  <2>3. QED
    BY <2>1, <2>2
<1>9. Is(c)
  <2> HIDE DEF Is
  <2> QED
    BY <1>8
<1>10. \A k \in 0..N : c[k] = IF k = 0 THEN src ELSE Done(c[k - 1], k)
  <2> HIDE DEF c
  <2> QED
    BY <1>9
<1>11. DcwCode(src) = c[N]
  BY <1>1 DEF DcwCode, N, Done
<1> HIDE DEF c, Is
<1>12. \A k \in Nat : k <= N => Safe(c[k], k)
  <2> DEFINE S == {k \in Nat : k <= N => Safe(c[k], k)}
  <2>1. 0 \in S
    BY <1>1, <1>2, <1>10
  <2>2. ASSUME NEW k \in Nat, k \in S
        PROVE  k + 1 \in S
    <3>1. SUFFICES ASSUME k + 1 <= N
                   PROVE  Safe(c[k + 1], k + 1)
      OBVIOUS
    <3>2. k + 1 \in 1..N /\ k + 1 \in 0..N /\ k + 1 # 0 /\ (k + 1) - 1 = k /\ k <= N
      BY <1>1, <3>1
    <3>3. Safe(c[k], k) /\ c[k + 1] = Done(c[k], k + 1)
      BY <1>10, <2>2, <3>2
    <3>4. QED
      BY <1>3, <3>2, <3>3
  <2>3. \A k \in Nat : k \in S
    <3> HIDE DEF S
    <3> QED
      BY <2>1, <2>2, Induction
  <2>4. QED
    BY <2>3
<1>13. Safe(c[N], N)
  BY <1>1, <1>12
<1>14. QED
  BY <1>11, <1>13 DEF Safe, SitesLeft

---------------------------------------------------------------------------
(* The invariant and the theorems.                                         *)

\* The section stands at its base, with the words it had at first.
SourceRight == Stands(source, 1, rom)

\* A line of a file to start from is one a file can hold.
LEMMA LineOfFile ==
  ASSUME NEW line, IsLine(line)
  PROVE  line \in Lines
<1>1. /\ line \in [kind : {"dcw", "dcl", "code", "text"}, words : Seq(Nat), at : Int,
                   refs : {line.refs}, based : SUBSET Nat]
      /\ line.refs \in [DOMAIN line.refs -> [form : SafeForms \cup {"imm"}, value : Nat]]
      /\ DOMAIN line.refs \in SUBSET Nat
      /\ line.kind = "dcw" => line.words # <<>>
  BY DEF IsLine
<1>2. line.refs \in Operands
  BY <1>1 DEF Operands
<1> DEFINE refs == line.refs
<1>3. refs \in Operands
  BY <1>2
<1>4. line \in [kind : {"dcw", "dcl", "code", "text"}, words : Seq(Nat), at : Int,
                refs : {refs}, based : SUBSET Nat]
  BY <1>1
<1> HIDE DEF refs
<1>5. line \in [kind : {"dcw", "dcl", "code", "text"}, words : Seq(Nat), at : Int,
                refs : Operands, based : SUBSET Nat]
  BY <1>3, <1>4
<1>6. QED
  BY <1>1, <1>5 DEF Lines

\* The file to start from stands.
LEMMA InitRight ==
  ASSUME LayoutsRight, Init
  PROVE  SourceRight
<1>1. source \in Layouts /\ rom = Assembled(source)
  BY DEF Init
<1>2. /\ source \in Seq(Range(source)) /\ \A line \in Range(source) : IsLine(line)
      /\ AddressesRight(source, 1)
  BY <1>1 DEF LayoutsRight
<1>3. Range(source) \subseteq Lines
  BY <1>2, LineOfFile
<1>4. source \in Seq(Lines)
  <2> DEFINE R == Range(source)
  <2>1. R \subseteq Lines /\ source \in Seq(R)
    BY <1>2, <1>3
  <2> HIDE DEF R
  <2>2. Len(source) \in Nat /\ source \in [1..Len(source) -> R]
    BY <2>1, LenProperties, ElementOfSeq
  <2>3. source \in [1..Len(source) -> Lines]
    BY <2>1, <2>2
  <2>4. QED
    BY <2>2, <2>3
<1>5. QED
  BY <1>1, <1>2, <1>4 DEF SourceRight, Stands

\* No pass moves it.
LEMMA NextRight ==
  ASSUME LayoutsRight, ~SharedLines, SourceRight, CallsEndLines, [Next]_vars
  PROVE  SourceRight'
<1>1. Base \in Nat /\ Stands(source, 1, rom) /\ 1 \in Nat \ {0}
  BY DEF LayoutsRight, SourceRight
<1>2. ASSUME NEW only, Rewrite(only)
      PROVE  SourceRight'
  <2>1. \A n \in DOMAIN source : HandEncoded(source[n]) => Len(source[n].words) = 3
    BY DEF CallsEndLines
  <2>2. Stands(Rewritten(source, only), 1, rom)
    BY <1>1, <2>1, RewrittenStands
  <2>3. QED
    BY <1>2, <2>2 DEF Rewrite, SourceRight
<1>3. ASSUME NEW alsoTables, source' = Indirect(source, alsoTables), rom' = rom
      PROVE  SourceRight'
  <2>1. Stands(Indirect(source, alsoTables), 1, rom)
    BY <1>1, IndirectStands
  <2>2. QED
    BY <1>3, <2>1 DEF SourceRight
<1>4. CASE RewriteIndirect
  BY <1>3, <1>4 DEF RewriteIndirect
<1>5. CASE RewriteTables
  BY <1>3, <1>5 DEF RewriteTables
<1>6. CASE RewriteDcwCode
  <2>1. SitesApart(source) /\ source' = DcwCode(source) /\ rom' = rom
    BY <1>6 DEF RewriteDcwCode
  <2>2. Stands(DcwCode(source), 1, rom)
    BY <1>1, <2>1, DcwCodeStands
  <2>3. QED
    BY <2>1, <2>2 DEF SourceRight
<1>7. ASSUME NEW first \in DOMAIN rom, NEW last \in DOMAIN rom, first <= last, ApplyTranslation(first, last)
      PROVE  SourceRight'
  <2>1. first \in Int /\ last \in Int
    <3>1. rom \in Seq(Nat)
      BY <1>1, AssembledType DEF Stands
    <3>2. DOMAIN rom = 1..Len(rom)
      BY <3>1, LenProperties
    <3>3. QED
      BY <3>2
  <2>2. PICK n0 \in DOMAIN source : Addressed(source[n0]) /\ Start(source, n0) = first
    BY <1>7 DEF ApplyTranslation
  <2>3. PICK m0 \in DOMAIN source :
          Addressed(source[m0]) /\ last \in Start(source, m0)..Start(source, m0) + Len(source[m0].words) - 1
    BY <1>7 DEF ApplyTranslation
  <2>4. source' = Applied(source, first, last) /\ rom' = rom
    BY <1>7 DEF ApplyTranslation
  <2>5. Stands(Applied(source, first, last), 1, rom)
    BY <1>1, <1>7, <2>1, <2>2, <2>3, AppliedStands
  <2>6. QED
    BY <2>4, <2>5 DEF SourceRight
<1>8. CASE UNCHANGED vars
  <2>1. source' = source /\ rom' = rom
    BY <1>8 DEF vars
  <2>2. QED
    BY <1>1, <2>1 DEF SourceRight
<1>9. QED
  BY <1>2, <1>4, <1>5, <1>6, <1>7, <1>8 DEF Next

\* The passes of scan_rom_refs.py and apply_translation.py, however many are run and in
\* whatever order, leave a section that assembles to the words it assembled to, which
\* `make verify` compares with the ROM.  It takes dumped instructions that end their
\* lines, as scan_rom_refs.py:322 has them, and --rewrite-dcw-code on sites that share
\* no line, without which it is false.
THEOREM SectionBytesKept ==
  ASSUME LayoutsRight, ~SharedLines
  PROVE  Spec /\ []CallsEndLines => []BytesKept
<1>1. Init => SourceRight
  BY InitRight
<1>2. SourceRight /\ CallsEndLines /\ [Next]_vars => SourceRight'
  BY NextRight
<1>3. SourceRight => BytesKept
  BY DEF SourceRight, Stands, BytesKept
<1>4. QED
  BY <1>1, <1>2, <1>3, PTL DEF Spec

\* So do they leave every address comment that of the line's first word: DCW_ADDR and
\* extract_rom_addr find every line where it is after any number of passes.
THEOREM SectionCommentsRight ==
  ASSUME LayoutsRight, ~SharedLines
  PROVE  Spec /\ []CallsEndLines => []CommentsRight
<1>1. Init => SourceRight
  BY InitRight
<1>2. SourceRight /\ CallsEndLines /\ [Next]_vars => SourceRight'
  BY NextRight
<1>3. SourceRight => CommentsRight
  BY DEF SourceRight, Stands, CommentsRight
<1>4. QED
  BY <1>1, <1>2, <1>3, PTL DEF Spec
=============================================================================
