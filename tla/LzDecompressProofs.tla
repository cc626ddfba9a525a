------------------------- MODULE LzDecompressProofs -------------------------
(***************************************************************************)
(* The SH2's decoder implements the code for every stream, every output    *)
(* size and any number of tokens, and never writes past its buffer.  In    *)
(* four parts: rows of bits and the numbers they write; lz_read_bits as a  *)
(* queue; the tables of lengths and distances and the copy; the invariant  *)
(* and the refinement.                                                     *)
(***************************************************************************)
EXTENDS LzDecompress, BinaryProofs, SequenceTheorems

\* Bits, and the words of the stream.
Binary01 == {0, 1}
Words == {w \in Nat : w < 65536}

----------------------------------------------------------------------------
\* Shifting right and masking give numbers.
LEMMA Shifts ==
  ASSUME NEW v \in Int, NEW n \in Nat
  PROVE  /\ Weight[n] \in Nat \ {0}
         /\ v \div Weight[n] \in Int /\ v % Weight[n] \in 0..Weight[n] - 1
         /\ v % Weight[n] \in Nat
<1>1. Weight[n] \in Nat \ {0}
  BY WeightDoubles
<1>2. v \div Weight[n] \in Int /\ v % Weight[n] \in 0..Weight[n] - 1
  BY <1>1, DivMod
<1>3. QED
  BY <1>1, <1>2

\* What it is to be below a bound.
LEMMA Below ==
  ASSUME NEW n \in Int, NEW k \in 0..n - 1
  PROVE  k \in Nat /\ k < n
OBVIOUS

\* The rows of bits are sequences.
LEMMA BitsAreBits ==
  ASSUME NEW v \in Int, NEW n \in Nat
  PROVE  /\ BitsOf(v, n) \in Seq(Binary01) /\ Len(BitsOf(v, n)) = n
         /\ \A k \in 1..n : BitsOf(v, n)[k] = Bit(v, n - k)
<1>1. ASSUME NEW k \in 1..n
      PROVE  Field(v, n - k, 1) = Bit(v, n - k) /\ Bit(v, n - k) \in Binary01
  <2>1. v \div Weight[n - k] \in Int
    BY Shifts
  <2>2. QED
    BY <2>1, WeightTable DEF Field, Bit, Binary01
<1>2. BitsOf(v, n) \in [1..n -> Binary01]
  BY <1>1 DEF BitsOf
<1>3. QED
  BY <1>1, <1>2 DEF BitsOf

\* The specification's own are the same.
LEMMA BitsAreCode ==
  ASSUME NEW v \in Int, NEW n \in Nat
  PROVE  Code!Bits(v, n) = BitsOf(v, n)
<1>1. Code!Weight = Weight
  BY DEF Code!Weight, Weight
<1>2. BitsOf(v, n) = [k \in 1..n |-> (v \div Weight[n - k]) % 2]
  BY WeightTable DEF BitsOf, Field
<1>3. QED
  BY <1>1, <1>2 DEF Code!Bits

\* A number's row is that of its upper digits and that of its lower ones.
LEMMA Split ==
  ASSUME NEW v \in Int, NEW a \in Nat, NEW b \in Nat
  PROVE  BitsOf(v, a + b) = BitsOf(v \div Weight[b], a) \o BitsOf(v, b)
<1> DEFINE h == v \div Weight[b]
           s == BitsOf(v, a + b)
           t == BitsOf(h, a)
           u == BitsOf(v, b)
<1>1. h \in Int
  BY Shifts
<1>2. \A k \in 1..a : Bit(h, a - k) = Bit(v, b + (a - k))
  BY BitOfQuotient
<1> HIDE DEF h
<1>3. s \in Seq(Binary01) /\ Len(s) = a + b /\ \A k \in 1..a + b : s[k] = Bit(v, (a + b) - k)
  <2>1. a + b \in Nat
    OBVIOUS
  <2>2. QED
    BY <2>1, BitsAreBits
<1>4. t \in Seq(Binary01) /\ Len(t) = a /\ \A k \in 1..a : t[k] = Bit(h, a - k)
  BY <1>1, BitsAreBits
<1>5. u \in Seq(Binary01) /\ Len(u) = b /\ \A k \in 1..b : u[k] = Bit(v, b - k)
  BY BitsAreBits
<1> HIDE DEF s, t, u
<1>6. /\ t \o u \in Seq(Binary01) /\ Len(t \o u) = a + b
      /\ \A k \in 1..a + b : (t \o u)[k] = IF k <= a THEN t[k] ELSE u[k - a]
  BY <1>4, <1>5, ConcatProperties
<1>7. ASSUME NEW k \in 1..a + b
      PROVE  s[k] = (t \o u)[k]
  <2>1. s[k] = Bit(v, (a + b) - k)
    BY <1>3
  <2>2. CASE k <= a
    <3>1. k \in 1..a /\ b + (a - k) = (a + b) - k
      BY <2>2
    <3>2. (t \o u)[k] = t[k] /\ t[k] = Bit(h, a - k) /\ Bit(h, a - k) = Bit(v, b + (a - k))
      BY <1>2, <1>4, <1>6, <2>2, <3>1
    <3>3. QED
      BY <2>1, <3>1, <3>2
  <2>3. CASE ~(k <= a)
    <3>1. k - a \in 1..b /\ b - (k - a) = (a + b) - k
      BY <2>3
    <3>2. (t \o u)[k] = u[k - a] /\ u[k - a] = Bit(v, b - (k - a))
      BY <1>5, <1>6, <2>3, <3>1
    <3>3. QED
      BY <2>1, <3>1, <3>2
  <2>4. QED
    BY <2>2, <2>3
<1>8. s = t \o u
  BY <1>3, <1>6, <1>7, SeqEqual
<1>9. QED
  BY <1>8 DEF h, s, t, u

\* Digits above a row do not show in it.
LEMMA Lower ==
  ASSUME NEW v \in Int, NEW n \in Nat
  PROVE  BitsOf(v % Weight[n], n) = BitsOf(v, n)
<1> DEFINE w == v % Weight[n]
           s == BitsOf(w, n)
           t == BitsOf(v, n)
<1>1. w \in Int
  BY Shifts
<1>2. \A k \in 1..n : Bit(w, n - k) = Bit(v, n - k)
  BY BitOfRemainder
<1> HIDE DEF w
<1>3. s \in Seq(Binary01) /\ Len(s) = n /\ \A k \in 1..n : s[k] = Bit(w, n - k)
  BY <1>1, BitsAreBits
<1>4. t \in Seq(Binary01) /\ Len(t) = n /\ \A k \in 1..n : t[k] = Bit(v, n - k)
  BY BitsAreBits
<1> HIDE DEF s, t
<1>5. s = t
  BY <1>2, <1>3, <1>4, SeqEqual
<1>6. QED
  BY <1>5 DEF s, t, w

\* So a number put together of two parts has the rows of both.
LEMMA Join ==
  ASSUME NEW a \in Nat, NEW b \in Nat, NEW u \in Nat, NEW f \in 0..Weight[b] - 1
  PROVE  /\ BitsOf(u * Weight[b] + f, a + b) = BitsOf(u, a) \o BitsOf(f, b)
         /\ u * Weight[b] + f \in Nat
         /\ u < Weight[a] => u * Weight[b] + f < Weight[a + b]
<1> DEFINE y == Weight[b]
           v == u * y + f
<1>1. y \in Nat \ {0} /\ Weight[a] \in Nat \ {0} /\ Weight[a + b] = Weight[a] * y
  BY WeightDoubles, WeightsMultiply
<1>2. v \in Nat
  BY <1>1
<1>3. v \div y = u /\ v % y = f
  <2> HIDE DEF y
  <2>1. y \in Nat /\ v \in Int /\ u \in Int /\ f \in 0..y - 1
    BY <1>1, <1>2 DEF y
  <2>2. QED
    BY <2>1, Divided
<1>4. u < Weight[a] => v < Weight[a] * y
  <2> HIDE DEF y
  <2>1. Weight[a] \in Nat /\ f \in 0..y - 1
    BY <1>1 DEF y
  <2>2. QED
    BY <1>1, <2>1, PlaceValue
<1> HIDE DEF v
<1>5. /\ BitsOf(v, a + b) = BitsOf(v \div y, a) \o BitsOf(v, b)
      /\ BitsOf(v % y, b) = BitsOf(v, b)
  <2>1. v \in Int
    BY <1>2
  <2>2. QED
    BY <2>1, Split, Lower
<1>7. QED
  BY <1>1, <1>2, <1>3, <1>4, <1>5 DEF v

\* A piece out of a sequence.
LEMMA Piece ==
  ASSUME NEW S, NEW q \in Seq(S), NEW i \in 1..Len(q) + 1, NEW j \in i - 1..Len(q)
  PROVE  /\ SubSeq(q, i, j) \in Seq(S) /\ Len(SubSeq(q, i, j)) = j - i + 1
         /\ \A k \in 1..j - i + 1 : SubSeq(q, i, j)[k] = q[i + k - 1]
<1>1. Len(q) \in Nat
  BY LenProperties
<1>2. i \in Int /\ j \in Int
  BY <1>1
<1>3. \A k \in i..j : q[k] \in S
  BY <1>1, <1>2, ElementOfSeq
<1>4. SubSeq(q, i, j) = [k \in 1..j - i + 1 |-> q[i + k - 1]]
  BY <1>2
<1>5. QED
  BY <1>1, <1>3, <1>4

\* A piece out of a row, whatever follows the row.
LEMMA Slice ==
  ASSUME NEW v \in Int, NEW n \in Nat, NEW t \in Seq(Binary01), NEW i \in 1..n, NEW j \in i..n
  PROVE  SubSeq(BitsOf(v, n) \o t, i, j) = BitsOf(v \div Weight[n - j], j - i + 1)
<1> DEFINE s == BitsOf(v, n)
           m == j - i + 1
           h == v \div Weight[n - j]
           p == SubSeq(s \o t, i, j)
           q == BitsOf(h, m)
<1>1. n - j \in Nat /\ m \in Nat
  OBVIOUS
<1>2. h \in Int
  BY <1>1, Shifts
<1>3. \A k \in 1..m : Bit(h, m - k) = Bit(v, (n - j) + (m - k))
  BY <1>1, BitOfQuotient
<1> HIDE DEF h
<1>4. s \in Seq(Binary01) /\ Len(s) = n /\ \A k \in 1..n : s[k] = Bit(v, n - k)
  BY BitsAreBits
<1>5. q \in Seq(Binary01) /\ Len(q) = m /\ \A k \in 1..m : q[k] = Bit(h, m - k)
  BY <1>1, <1>2, BitsAreBits
<1> HIDE DEF s, q
<1>6. /\ Len(t) \in Nat /\ s \o t \in Seq(Binary01) /\ Len(s \o t) = n + Len(t)
      /\ \A k \in 1..n + Len(t) : (s \o t)[k] = IF k <= n THEN s[k] ELSE t[k - n]
  BY <1>4, ConcatProperties, LenProperties
<1>7. \A k \in i..j : (s \o t)[k] = s[k]
  BY <1>6
<1>8. p \in Seq(Binary01) /\ Len(p) = m /\ \A k \in 1..m : p[k] = (s \o t)[i + k - 1]
  <2>1. i \in 1..Len(s \o t) + 1 /\ j \in i - 1..Len(s \o t)
    BY <1>6
  <2>2. QED
    BY <1>6, <2>1, Piece
<1> HIDE DEF p
<1>9. ASSUME NEW k \in 1..m
      PROVE  p[k] = q[k]
  <2>1. i + k - 1 \in i..j /\ i + k - 1 \in 1..n /\ n - (i + k - 1) = (n - j) + (m - k)
    OBVIOUS
  <2>2. p[k] = s[i + k - 1] /\ s[i + k - 1] = Bit(v, n - (i + k - 1))
    BY <1>4, <1>7, <1>8, <2>1
  <2>3. q[k] = Bit(v, (n - j) + (m - k))
    BY <1>3, <1>5
  <2>4. QED
    BY <2>1, <2>2, <2>3
<1> HIDE DEF m
<1>10. p = q
  BY <1>5, <1>8, <1>9, SeqEqual
<1>11. QED
  BY <1>10 DEF p, q, s, m, h

\* What is left of a row and of what follows it when d bits are dropped.
LEMMA Dropped ==
  ASSUME NEW v \in Int, NEW n \in Nat, NEW t \in Seq(Binary01), NEW d \in 0..n
  PROVE  SubSeq(BitsOf(v, n) \o t, d + 1, n + Len(t)) = BitsOf(v, n - d) \o t
<1> DEFINE s == BitsOf(v, n)
           r == BitsOf(v, n - d)
           z == Len(t)
           p == SubSeq(s \o t, d + 1, n + z)
<1>1. n - d \in Nat /\ z \in Nat
  BY LenProperties
<1>2. s \in Seq(Binary01) /\ Len(s) = n /\ \A k \in 1..n : s[k] = Bit(v, n - k)
  BY BitsAreBits
<1>3. r \in Seq(Binary01) /\ Len(r) = n - d /\ \A k \in 1..n - d : r[k] = Bit(v, (n - d) - k)
  BY <1>1, BitsAreBits
<1> HIDE DEF s, r
<1>4. /\ s \o t \in Seq(Binary01) /\ Len(s \o t) = n + z
      /\ \A k \in 1..n + z : (s \o t)[k] = IF k <= n THEN s[k] ELSE t[k - n]
  BY <1>2, ConcatProperties
<1>5. /\ r \o t \in Seq(Binary01) /\ Len(r \o t) = (n - d) + z
      /\ \A k \in 1..(n - d) + z : (r \o t)[k] = IF k <= n - d THEN r[k] ELSE t[k - (n - d)]
  <2>1. /\ r \o t \in Seq(Binary01) /\ Len(r \o t) = Len(r) + z
        /\ \A k \in 1..Len(r) + z : (r \o t)[k] = IF k <= Len(r) THEN r[k] ELSE t[k - Len(r)]
    BY <1>3, ConcatProperties
  <2>2. Len(r) = n - d
    BY <1>3
  <2>3. QED
    BY <2>1, <2>2, Zenon
<1> HIDE DEF z
<1>6. (n + z) - (d + 1) + 1 = (n - d) + z
  BY <1>1
<1>7. /\ p \in Seq(Binary01) /\ Len(p) = (n - d) + z
      /\ \A k \in 1..(n - d) + z : p[k] = (s \o t)[(d + 1) + k - 1]
  <2>1. d + 1 \in 1..Len(s \o t) + 1 /\ n + z \in (d + 1) - 1..Len(s \o t)
    BY <1>1, <1>4
  <2>2. /\ p \in Seq(Binary01) /\ Len(p) = (n + z) - (d + 1) + 1
        /\ \A k \in 1..(n + z) - (d + 1) + 1 : p[k] = (s \o t)[(d + 1) + k - 1]
    BY <1>4, <2>1, Piece
  <2> HIDE DEF p
  <2>3. QED
    BY <1>6, <2>2, Zenon
<1> HIDE DEF p
<1>8. ASSUME NEW k \in 1..(n - d) + z
      PROVE  p[k] = (r \o t)[k]
  <2>1. d + k \in 1..n + z /\ (d + 1) + k - 1 = d + k
    BY <1>1
  <2>2. p[k] = (s \o t)[d + k]
    BY <1>7, <2>1
  <2>3. (s \o t)[d + k] = IF d + k <= n THEN s[d + k] ELSE t[(d + k) - n]
    BY <1>4, <2>1
  <2>4. (r \o t)[k] = IF k <= n - d THEN r[k] ELSE t[k - (n - d)]
    BY <1>5
  <2>5. CASE k <= n - d
    <3>1. d + k <= n /\ n - (d + k) = (n - d) - k /\ k \in 1..n - d /\ d + k \in 1..n
      BY <2>5
    <3>2. s[d + k] = Bit(v, n - (d + k)) /\ r[k] = Bit(v, (n - d) - k)
      BY <1>2, <1>3, <3>1
    <3>3. QED
      BY <2>2, <2>3, <2>4, <2>5, <3>1, <3>2
  <2>6. CASE ~(k <= n - d)
    <3>1. ~(d + k <= n) /\ (d + k) - n = k - (n - d)
      BY <1>1, <2>6
    <3>2. QED
      BY <2>2, <2>3, <2>4, <2>6, <3>1
  <2>7. QED
    BY <2>5, <2>6
<1>9. p = r \o t
  BY <1>5, <1>7, <1>8, SeqEqual
<1>10. QED
  BY <1>9 DEF p, s, r, z

\* One digit more of a remainder.
LEMMA Halving ==
  ASSUME NEW x \in Int, NEW c \in Nat \ {0}
  PROVE  x % (2 * c) = 2 * ((x \div 2) % c) + (x % 2)
<1> DEFINE h == x \div 2
           q == h \div c
           r == h % c
           b == x % 2
<1>1. h \in Int /\ b \in 0..1 /\ x = h * 2 + b
  OBVIOUS
<1> HIDE DEF h, b
<1>2. q \in Int /\ r \in 0..c - 1 /\ h = q * c + r
  BY <1>1, DivMod
<1> HIDE DEF q, r
<1>3. x = q * (2 * c) + (2 * r + b)
  BY <1>1, <1>2
<1>4. 2 * c \in Nat /\ 2 * r + b \in 0..2 * c - 1
  BY <1>1, <1>2
<1>5. x % (2 * c) = 2 * r + b
  BY <1>2, <1>3, <1>4, Divided
<1>6. QED
  BY <1>5 DEF h, r, b

\* The number that a row of bits writes.
LEMMA ValueOfBits ==
  ASSUME NEW v \in Int, NEW n \in Nat
  PROVE  Code!Value(BitsOf(v, n)) = v % Weight[n]
<1> DEFINE bits == BitsOf(v, n)
           Next(g) == [k \in 0..n |-> IF k = 0 THEN 0 ELSE 2 * g[k - 1] + bits[k]]
           u == [k \in 0..n |-> (v \div Weight[n - k]) % Weight[k]]
<1>1. Len(bits) = n /\ \A k \in 1..n : bits[k] = Bit(v, n - k)
  BY BitsAreBits
<1> HIDE DEF bits
<1>2. Code!Value(bits) = (CHOOSE g : g = Next(g))[n]
  BY <1>1 DEF Code!Value
<1>3. u = Next(u)
  <2>1. ASSUME NEW k \in 1..n
        PROVE  u[k] = 2 * u[k - 1] + bits[k]
    <3> DEFINE x == v \div Weight[n - k]
               c == Weight[k - 1]
    <3>1. n - k \in Nat /\ k - 1 \in Nat /\ (k - 1) + 1 = k /\ n - (k - 1) = (n - k) + 1
      OBVIOUS
    <3>2. x \in Int /\ c \in Nat \ {0} /\ Weight[(k - 1) + 1] = 2 * c
      BY <3>1, Shifts, WeightDoubles
    <3>3. Weight[n - k] \in Nat \ {0} /\ Weight[(n - k) + 1] = Weight[n - k] * 2
      BY <3>1, WeightDoubles
    <3>4. v \div Weight[(n - k) + 1] = x \div 2
      <4>1. 2 \in Nat \ {0}
        OBVIOUS
      <4>2. QED
        BY <3>3, <4>1, DividedTwice
    <3>5. bits[k] = x % 2
      BY <1>1 DEF Bit
    <3> HIDE DEF x, c
    <3>6. x % (2 * c) = 2 * ((x \div 2) % c) + (x % 2)
      BY <3>2, Halving
    <3>7. k \in 0..n /\ k - 1 \in 0..n
      OBVIOUS
    <3>8. u[k] = x % (2 * c)
      BY <3>1, <3>2, <3>7 DEF x
    <3>9. u[k - 1] = (x \div 2) % c
      BY <3>1, <3>4, <3>7 DEF c
    <3>10. QED
      BY <3>5, <3>6, <3>8, <3>9
  <2>2. u[0] = 0
    <3>1. v \div Weight[n] \in Int /\ Weight[0] = 1
      BY Shifts, WeightDoubles
    <3>2. u[0] = (v \div Weight[n]) % 1
      BY <3>1
    <3>3. QED
      BY <3>1, <3>2
  <2> DEFINE e(k) == IF k = 0 THEN 0 ELSE 2 * u[k - 1] + bits[k]
  <2>3. u = [k \in 0..n |-> u[k]]
    OBVIOUS
  <2> HIDE DEF u
  <2>4. ASSUME NEW k \in 0..n
        PROVE  u[k] = e(k)
    <3>1. CASE k = 0
      BY <2>2, <3>1
    <3>2. CASE k # 0
      <4>1. k \in 1..n
        BY <3>2
      <4>2. QED
        BY <2>1, <3>2, <4>1
    <3>3. QED
      BY <3>1, <3>2
  <2>5. [k \in 0..n |-> u[k]] = [k \in 0..n |-> e(k)]
    BY <2>4
  <2>6. QED
    BY <2>3, <2>5
<1>4. ASSUME NEW g, g = Next(g)
      PROVE  g[n] = u[n]
  <2> DEFINE S == {k \in Nat : k <= n => g[k] = u[k]}
  <2>1. \A k \in 0..n : g[k] = IF k = 0 THEN 0 ELSE 2 * g[k - 1] + bits[k]
    BY <1>4
  <2>2. \A k \in 0..n : u[k] = IF k = 0 THEN 0 ELSE 2 * u[k - 1] + bits[k]
    BY <1>3
  <2> HIDE DEF u
  <2>3. 0 \in S
    BY <2>1, <2>2
  <2>4. ASSUME NEW k \in Nat, k \in S
        PROVE  k + 1 \in S
    <3>1. ASSUME k + 1 <= n
          PROVE  g[k + 1] = u[k + 1]
      <4>1. k + 1 \in 0..n /\ k + 1 # 0 /\ (k + 1) - 1 = k /\ k <= n
        BY <3>1
      <4>2. g[k] = u[k]
        BY <2>4, <4>1
      <4>3. QED
        BY <2>1, <2>2, <4>1, <4>2
    <3>2. QED
      BY <3>1
  <2>5. \A k \in Nat : k \in S
    BY <2>3, <2>4, Induction
  <2>6. QED
    BY <2>5
<1>5. (CHOOSE g : g = Next(g))[n] = u[n]
  <2> HIDE DEF u
  <2>1. (CHOOSE g : g = Next(g)) = Next(CHOOSE g : g = Next(g))
    BY <1>3
  <2>2. QED
    BY <1>4, <2>1
<1>6. u[n] = v % Weight[n]
  <2>1. Weight[0] = 1 /\ v \div 1 = v /\ n - n = 0
    BY WeightDoubles
  <2>2. u[n] = (v \div Weight[n - n]) % Weight[n]
    OBVIOUS
  <2>3. QED
    BY <2>1, <2>2
<1>7. QED
  BY <1>2, <1>5, <1>6 DEF bits

----------------------------------------------------------------------------
\* A mask is a remainder.
LEMMA Fields ==
  ASSUME NEW v \in Int, NEW low \in Nat, NEW bits \in Nat
  PROVE  /\ Field(v, low, bits) \in 0..Weight[bits] - 1
         /\ BitsOf(Field(v, low, bits), bits) = BitsOf(v \div Weight[low], bits)
         /\ Field(v, 0, bits) = v % Weight[bits]
<1> DEFINE h == v \div Weight[low]
<1>1. h \in Int
  BY Shifts
<1>2. Field(v, low, bits) = h % Weight[bits]
  BY DEF Field
<1>3. Field(v, 0, bits) = v % Weight[bits]
  BY WeightTable DEF Field
<1> HIDE DEF h
<1>4. h % Weight[bits] \in 0..Weight[bits] - 1
  BY <1>1, Shifts
<1>5. BitsOf(h % Weight[bits], bits) = BitsOf(h, bits)
  BY <1>1, Lower
<1>6. QED
  BY <1>2, <1>3, <1>4, <1>5 DEF h

\* The window after n bits are shifted out of it: the c bits that stay, moved up.
MovesUp(w, n, c) ==
  /\ Field(w * Weight[n], 0, 16) = (w % Weight[c]) * Weight[n]
  /\ w % Weight[c] \in Nat /\ w % Weight[c] < Weight[c]
  /\ BitsOf(w % Weight[c], c) = BitsOf(w, c)

\* What of the window stays when n bits are shifted out of it.
LEMMA WindowShifted ==
  ASSUME NEW w \in Int, NEW n \in Nat, NEW c \in Nat, n + c = 16
  PROVE  MovesUp(w, n, c)
<1>1. Weight[n] \in Nat /\ Weight[c] \in Nat /\ Weight[16] \in Nat /\ 16 \in Nat /\ 0 \in Nat
  BY WeightDoubles
<1>2. w * Weight[n] \in Int
  BY <1>1
<1>3. Field(w * Weight[n], 0, 16) = (w * Weight[n]) % Weight[16]
  <2> DEFINE x == w * Weight[n]
  <2>1. x \in Int
    BY <1>2
  <2> HIDE DEF x
  <2>2. Field(x, 0, 16) = x % Weight[16]
    BY <1>1, <2>1, Fields
  <2>3. QED
    BY <2>2 DEF x
<1>4. (w * Weight[n]) % Weight[n + c] = (w % Weight[c]) * Weight[n]
  BY ShiftedLeftBy
<1> DEFINE u == w % Weight[c]
<1>5. u \in 0..Weight[c] - 1 /\ u \in Nat
  BY Shifts
<1>6. BitsOf(u, c) = BitsOf(w, c)
  BY Lower
<1>7. u < Weight[c]
  <2> HIDE DEF u
  <2>1. QED
    BY <1>1, <1>5
<1>8. QED
  BY <1>3, <1>4, <1>5, <1>6, <1>7 DEF MovesUp

\* Kept folded, so that the provers take a concatenation as it stands.
Then(s, t) == s \o t

\* Joining rows can be grouped at will.
LEMMA ThenAssociative ==
  ASSUME NEW s \in Seq(Binary01), NEW t \in Seq(Binary01), NEW u \in Seq(Binary01)
  PROVE  Then(Then(s, t), u) = Then(s, Then(t, u))
BY ConcatAssociative DEF Then

\* The window that lz_read_bits leaves with enough bits left, and when a word is fetched.
ReadsWithin(w, rest, left, n) == Field(w * Weight[n], 0, 16) + Field(rest, left, n)
ReadsAcross(w, rest, left, next, n, m, k) ==
  Field(w * Weight[n], 0, 16) + Field(rest, 0, left) * Weight[m] + Field(next, k, m)

\* lz_read_bits with enough bits left: they move up by n.
LEMMA ReadWithin ==
  ASSUME NEW w \in Int, NEW rest \in Int, NEW left \in Nat, NEW n \in Nat, NEW c \in Nat,
         n + c = 16
  PROVE  /\ ReadsWithin(w, rest, left, n) \in Nat /\ ReadsWithin(w, rest, left, n) < 65536
         /\ Then(BitsOf(ReadsWithin(w, rest, left, n), 16), BitsOf(rest, left))
              = Then(BitsOf(w, c), BitsOf(rest, n + left))
<1>0. MovesUp(w, n, c)
  BY WindowShifted
<1> DEFINE u == w % Weight[c]
           h == rest \div Weight[left]
           f == Field(rest, left, n)
           v == u * Weight[n] + f
<1>1. /\ Field(w * Weight[n], 0, 16) = u * Weight[n]
      /\ u \in Nat /\ u < Weight[c] /\ BitsOf(u, c) = BitsOf(w, c)
  BY <1>0, Zenon DEF MovesUp
<1>2. h \in Int
  BY Shifts
<1>3. f \in 0..Weight[n] - 1 /\ BitsOf(f, n) = BitsOf(h, n)
  BY Fields
<1>4. BitsOf(rest, n + left) = Then(BitsOf(h, n), BitsOf(rest, left))
  BY Split DEF Then
<1>5. v = ReadsWithin(w, rest, left, n)
  BY <1>1 DEF ReadsWithin
<1> HIDE DEF u, h, f
<1>6. /\ BitsOf(v, c + n) = Then(BitsOf(u, c), BitsOf(f, n))
      /\ v \in Nat /\ (u < Weight[c] => v < Weight[c + n])
  <2>1. u \in Nat /\ f \in 0..Weight[n] - 1
    BY <1>1, <1>3
  <2>2. QED
    BY <2>1, Join DEF Then
<1> HIDE DEF v
<1>7. c + n = 16 /\ Weight[16] = 65536
  BY WeightTable
<1>8. Then(Then(BitsOf(w, c), BitsOf(h, n)), BitsOf(rest, left))
        = Then(BitsOf(w, c), Then(BitsOf(h, n), BitsOf(rest, left)))
  <2>1. /\ BitsOf(w, c) \in Seq(Binary01) /\ BitsOf(h, n) \in Seq(Binary01)
        /\ BitsOf(rest, left) \in Seq(Binary01)
    BY <1>2, BitsAreBits
  <2>2. QED
    BY <2>1, ThenAssociative
<1>9. BitsOf(v, 16) = Then(BitsOf(w, c), BitsOf(h, n)) /\ v \in Nat /\ v < 65536
  BY <1>1, <1>3, <1>6, <1>7
<1>10. Then(BitsOf(v, 16), BitsOf(rest, left)) = Then(BitsOf(w, c), BitsOf(rest, n + left))
  BY <1>4, <1>8, <1>9
<1> DEFINE r == ReadsWithin(w, rest, left, n)
<1>11. r = v
  BY <1>5
<1> HIDE DEF r
<1>12. /\ r \in Nat /\ r < 65536
       /\ Then(BitsOf(r, 16), BitsOf(rest, left)) = Then(BitsOf(w, c), BitsOf(rest, n + left))
  BY <1>9, <1>10, <1>11
<1>13. QED
  BY <1>12 DEF r

\* And when a word has to be fetched: what is left moves up, and the word's own bits
\* follow it.
LEMMA ReadAcross ==
  ASSUME NEW w \in Int, NEW rest \in Int, NEW next \in Int, NEW left \in Nat, NEW n \in Nat,
         NEW c \in Nat, NEW m \in Nat, NEW k \in Nat, n + c = 16, left + m = n, m + k = 16
  PROVE  /\ ReadsAcross(w, rest, left, next, n, m, k) \in Nat
         /\ ReadsAcross(w, rest, left, next, n, m, k) < 65536
         /\ Then(BitsOf(ReadsAcross(w, rest, left, next, n, m, k), 16), BitsOf(next, k))
              = Then(Then(BitsOf(w, c), BitsOf(rest, left)), BitsOf(next, 16))
<1>0. MovesUp(w, n, c)
  BY WindowShifted
<1> DEFINE u == w % Weight[c]
           g == Field(rest, 0, left)
           h == next \div Weight[k]
           f == Field(next, k, m)
           t == u * Weight[left] + g
           v == t * Weight[m] + f
           kept == Then(BitsOf(w, c), BitsOf(rest, left))
<1>1. /\ Field(w * Weight[n], 0, 16) = u * Weight[n]
      /\ u \in Nat /\ u < Weight[c] /\ BitsOf(u, c) = BitsOf(w, c)
  BY <1>0, Zenon DEF MovesUp
<1>2. g \in 0..Weight[left] - 1 /\ BitsOf(g, left) = BitsOf(rest, left)
  <2>1. /\ g \in 0..Weight[left] - 1 /\ BitsOf(g, left) = BitsOf(rest \div Weight[0], left)
    BY Fields
  <2>2. rest \div Weight[0] = rest
    BY WeightTable
  <2>3. QED
    BY <2>1, <2>2
<1>3. h \in Int
  BY Shifts
<1>4. f \in 0..Weight[m] - 1 /\ BitsOf(f, m) = BitsOf(h, m)
  BY Fields
<1>5. BitsOf(next, m + k) = Then(BitsOf(h, m), BitsOf(next, k))
  BY Split DEF Then
<1>6. c + left \in Nat /\ (c + left) + m = 16 /\ m + k = 16 /\ Weight[16] = 65536
  BY WeightTable
<1>7. ReadsAcross(w, rest, left, next, n, m, k) = Field(w * Weight[n], 0, 16) + g * Weight[m] + f
  BY DEF ReadsAcross
<1> HIDE DEF u, g, h, f
<1>8. /\ BitsOf(t, c + left) = Then(BitsOf(u, c), BitsOf(g, left))
      /\ t \in Nat /\ (u < Weight[c] => t < Weight[c + left])
  <2>1. u \in Nat /\ g \in 0..Weight[left] - 1
    BY <1>1, <1>2
  <2>2. QED
    BY <2>1, Join DEF Then
<1>9. Field(w * Weight[n], 0, 16) + g * Weight[m] + f = v
  <2>1. Weight[left + m] = Weight[left] * Weight[m]
    BY WeightsMultiply
  <2>2. Weight[left] \in Nat /\ Weight[m] \in Nat
    BY WeightDoubles
  <2>3. g \in Nat /\ f \in Nat
    BY <1>2, <1>4, <2>2
  <2>4. (u * Weight[left] + g) * Weight[m] = u * (Weight[left] * Weight[m]) + g * Weight[m]
    BY <1>1, <2>2, <2>3
  <2>5. Field(w * Weight[n], 0, 16) = u * (Weight[left] * Weight[m])
    BY <1>1, <2>1
  <2>6. QED
    BY <2>4, <2>5
<1> HIDE DEF t
<1> DEFINE d == c + left
<1>10. /\ BitsOf(v, d + m) = Then(BitsOf(t, d), BitsOf(f, m))
       /\ v \in Nat /\ (t < Weight[d] => v < Weight[d + m])
  <2>1. d \in Nat /\ f \in 0..Weight[m] - 1 /\ t \in Nat
    BY <1>4, <1>6, <1>8
  <2> HIDE DEF d
  <2>2. QED
    BY <2>1, Join DEF Then
<1>11. v = ReadsAcross(w, rest, left, next, n, m, k)
  BY <1>7, <1>9
<1> HIDE DEF v
<1>12. v \in Nat /\ v < 65536 /\ BitsOf(v, 16) = Then(kept, BitsOf(h, m))
  BY <1>1, <1>2, <1>4, <1>6, <1>8, <1>10
<1>13. Then(Then(kept, BitsOf(h, m)), BitsOf(next, k))
         = Then(kept, Then(BitsOf(h, m), BitsOf(next, k)))
  <2>1. /\ BitsOf(w, c) \in Seq(Binary01) /\ BitsOf(rest, left) \in Seq(Binary01)
        /\ BitsOf(h, m) \in Seq(Binary01) /\ BitsOf(next, k) \in Seq(Binary01)
    BY <1>3, BitsAreBits
  <2>2. kept \in Seq(Binary01)
    BY <2>1, ConcatProperties DEF Then
  <2> HIDE DEF kept
  <2>3. QED
    BY <2>1, <2>2, ThenAssociative
<1>14. Then(BitsOf(v, 16), BitsOf(next, k)) = Then(kept, BitsOf(next, 16))
  BY <1>5, <1>6, <1>12, <1>13
<1>15. QED
  BY <1>11, <1>12, <1>14

----------------------------------------------------------------------------
\* What the code reads off a row is a field of the number.
LEMMA ReadAsField ==
  ASSUME NEW v \in Int, NEW n \in Nat, NEW t \in Seq(Binary01), NEW i \in 1..n, NEW j \in i..n
  PROVE  /\ Code!Value(SubSeq(Then(BitsOf(v, n), t), i, j)) = Field(v, n - j, j - i + 1)
         /\ Then(BitsOf(v, n), t)[i] = Bit(v, n - i)
<1> DEFINE h == v \div Weight[n - j]
           s == BitsOf(v, n)
<1>1. h \in Int /\ n - j \in Nat /\ j - i + 1 \in Nat
  BY Shifts
<1>2. SubSeq(Then(s, t), i, j) = BitsOf(h, j - i + 1)
  BY Slice DEF Then
<1>3. Field(v, n - j, j - i + 1) = h % Weight[j - i + 1]
  BY DEF Field
<1> HIDE DEF h
<1>4. Code!Value(BitsOf(h, j - i + 1)) = h % Weight[j - i + 1]
  BY <1>1, ValueOfBits
<1>5. s \in Seq(Binary01) /\ Len(s) = n /\ \A k \in 1..n : s[k] = Bit(v, n - k)
  BY BitsAreBits
<1> HIDE DEF s
<1>6. Then(s, t)[i] = Bit(v, n - i)
  <2>1. \A k \in 1..n + Len(t) : Then(s, t)[k] = IF k <= n THEN s[k] ELSE t[k - n]
    BY <1>5, ConcatProperties DEF Then
  <2>2. Len(t) \in Nat
    BY LenProperties
  <2>3. i \in 1..n + Len(t)
    BY <2>2
  <2>4. QED
    BY <1>5, <2>1, <2>3
<1>7. QED
  BY <1>2, <1>3, <1>4, <1>6 DEF s

\* The window's highest bit is z places below the top.
Highest(w, z) == Weight[15 - z] <= w /\ w < 2 * Weight[15 - z]

\* A weight is at most half of every higher one.
LEMMA WeightsGrow ==
  ASSUME NEW i \in Nat, NEW j \in Nat, i < j
  PROVE  2 * Weight[i] <= Weight[j]
<1>1. j - i - 1 \in Nat /\ (j - i - 1) + 1 = j - i /\ j - i \in Nat /\ i + (j - i) = j
  OBVIOUS
<1>2. /\ Weight[i] \in Nat \ {0} /\ Weight[j - i - 1] \in Nat \ {0}
      /\ Weight[j - i] = 2 * Weight[j - i - 1]
  BY <1>1, WeightDoubles
<1>3. Weight[j] = Weight[i] * Weight[j - i]
  BY <1>1, WeightsMultiply
<1> DEFINE x == Weight[i]
           y == Weight[j - i - 1]
<1>4. x * (2 * y) >= 2 * x
  <2>1. x \in Nat \ {0} /\ y \in Nat \ {0}
    BY <1>2
  <2> HIDE DEF x, y
  <2>2. x * (y - 1) \in Nat
    BY <2>1
  <2>3. x * (2 * y) = 2 * x + 2 * (x * (y - 1))
    BY <2>1
  <2>4. QED
    BY <2>1, <2>2, <2>3
<1>5. QED
  BY <1>2, <1>3, <1>4

\* There is one highest bit.
LEMMA OneHighest ==
  ASSUME NEW w \in Words, NEW z \in 0..6, Highest(w, z), NEW k \in 0..6, k # z
  PROVE  ~Highest(w, k)
<1> DEFINE x == Weight[15 - z]
           y == Weight[15 - k]
<1>1. 15 - z \in Nat /\ 15 - k \in Nat /\ w \in Int
  BY DEF Words
<1>2. x \in Nat /\ y \in Nat
  BY <1>1, WeightDoubles
<1>3. 2 * x <= y \/ 2 * y <= x
  <2>1. CASE k < z
    <3>1. 15 - z < 15 - k
      BY <2>1
    <3>2. QED
      BY <1>1, <3>1, WeightsGrow
  <2>2. CASE ~(k < z)
    <3>1. 15 - k < 15 - z
      BY <2>2
    <3>2. QED
      BY <1>1, <3>1, WeightsGrow
  <2>3. QED
    BY <2>1, <2>2
<1>4. x <= w /\ w < 2 * x
  BY DEF Highest
<1>5. Highest(w, k) <=> y <= w /\ w < 2 * y
  BY DEF Highest
<1> HIDE DEF x, y
<1>6. QED
  BY <1>1, <1>2, <1>3, <1>4, <1>5

\* And none in the low nine bits.
LEMMA LowHasNone ==
  ASSUME NEW w \in Words, w < 512, NEW z \in 0..6
  PROVE  w < Weight[15 - z] /\ ~Highest(w, z)
<1>1. Weight[9] = 512 /\ Weight[15 - z] \in Nat /\ Weight[15 - z] >= 512 /\ w \in Int
  <2>1. CASE z = 6
    BY <2>1, WeightTable DEF Words
  <2>2. CASE z # 6
    <3>1. 15 - z \in Nat /\ 9 \in Nat /\ 9 < 15 - z
      BY <2>2
    <3>2. 2 * Weight[9] <= Weight[15 - z] /\ Weight[15 - z] \in Nat
      BY <3>1, WeightsGrow, WeightDoubles
    <3>3. QED
      BY <3>2, WeightTable DEF Words
  <2>3. QED
    BY <2>1, <2>2
<1>2. QED
  BY <1>1 DEF Highest

\* What the decoder asks of the window is that.
LEMMA HighestField ==
  ASSUME NEW w \in Words, NEW z \in 0..6
  PROVE  Field(w, 15 - z, z + 1) = 1 <=> Highest(w, z)
<1> DEFINE y == Weight[15 - z]
           c == Weight[z + 1]
           q == w \div y
           r == w % y
<1>1. w \in Nat /\ w < 65536
  BY DEF Words
<1>2. y \in Nat \ {0} /\ c \in Nat \ {0} /\ c >= 2 /\ c * y = 65536
  <2>1. z \in Nat /\ z + 1 \in Nat /\ 15 - z \in Nat /\ (z + 1) + (15 - z) = 16
    OBVIOUS
  <2>2. Weight[z] \in Nat \ {0} /\ c = 2 * Weight[z] /\ y \in Nat \ {0}
    BY <2>1, WeightDoubles
  <2>3. Weight[(z + 1) + (15 - z)] = c * y
    BY <2>1, WeightsMultiply
  <2>4. c * y = 65536
    BY <2>1, <2>3, WeightTable
  <2> HIDE DEF c, y
  <2>5. QED
    BY <2>2, <2>4
<1>3. Field(w, 15 - z, z + 1) = q % c
  BY DEF Field
<1>4. Highest(w, z) <=> y <= w /\ w < 2 * y
  BY DEF Highest
<1> HIDE DEF y, c
<1>5. q \in Int /\ r \in 0..y - 1 /\ w = q * y + r
  BY <1>1, <1>2, DivMod
<1> HIDE DEF q, r
<1>6. ASSUME NEW n \in Nat
      PROVE  /\ q < n => w < n * y
             /\ q >= n => w >= n * y
  BY <1>2, <1>5, PlaceValue
<1>7. q \in 0..c - 1
  <2>1. (q < 0 => w < 0 * y) /\ (q >= c => w >= c * y)
    BY <1>2, <1>6
  <2>2. 0 * y = 0
    BY <1>2
  <2>3. QED
    BY <1>1, <1>2, <1>5, <2>1, <2>2
<1>8. q % c = q
  BY <1>2, <1>7
<1>9. q = 1 <=> y <= w /\ w < 2 * y
  <2>1. (q < 1 => w < 1 * y) /\ (q >= 1 => w >= 1 * y)
    BY <1>6
  <2>2. (q < 2 => w < 2 * y) /\ (q >= 2 => w >= 2 * y)
    BY <1>6
  <2>3. QED
    BY <1>1, <1>2, <1>5, <2>1, <2>2
<1>10. QED
  BY <1>3, <1>4, <1>8, <1>9

\* The seven tests of the decoder, one for each place of the highest bit.
LEMMA HighestFields ==
  ASSUME NEW w \in Words
  PROVE  /\ Field(w, 15, 1) = 1 <=> Highest(w, 0)
         /\ Field(w, 14, 2) = 1 <=> Highest(w, 1)
         /\ Field(w, 13, 3) = 1 <=> Highest(w, 2)
         /\ Field(w, 12, 4) = 1 <=> Highest(w, 3)
         /\ Field(w, 11, 5) = 1 <=> Highest(w, 4)
         /\ Field(w, 10, 6) = 1 <=> Highest(w, 5)
         /\ Field(w, 9, 7) = 1 <=> Highest(w, 6)
<1>1. Field(w, 15, 1) = 1 <=> Highest(w, 0)
  <2>1. 0 \in 0..6 /\ 15 - 0 = 15 /\ 0 + 1 = 1
    OBVIOUS
  <2>2. QED
    BY <2>1, HighestField
<1>2. Field(w, 14, 2) = 1 <=> Highest(w, 1)
  <2>1. 1 \in 0..6 /\ 15 - 1 = 14 /\ 1 + 1 = 2
    OBVIOUS
  <2>2. QED
    BY <2>1, HighestField
<1>3. Field(w, 13, 3) = 1 <=> Highest(w, 2)
  <2>1. 2 \in 0..6 /\ 15 - 2 = 13 /\ 2 + 1 = 3
    OBVIOUS
  <2>2. QED
    BY <2>1, HighestField
<1>4. Field(w, 12, 4) = 1 <=> Highest(w, 3)
  <2>1. 3 \in 0..6 /\ 15 - 3 = 12 /\ 3 + 1 = 4
    OBVIOUS
  <2>2. QED
    BY <2>1, HighestField
<1>5. Field(w, 11, 5) = 1 <=> Highest(w, 4)
  <2>1. 4 \in 0..6 /\ 15 - 4 = 11 /\ 4 + 1 = 5
    OBVIOUS
  <2>2. QED
    BY <2>1, HighestField
<1>6. Field(w, 10, 6) = 1 <=> Highest(w, 5)
  <2>1. 5 \in 0..6 /\ 15 - 5 = 10 /\ 5 + 1 = 6
    OBVIOUS
  <2>2. QED
    BY <2>1, HighestField
<1>7. Field(w, 9, 7) = 1 <=> Highest(w, 6)
  <2>1. 6 \in 0..6 /\ 15 - 6 = 9 /\ 6 + 1 = 7
    OBVIOUS
  <2>2. QED
    BY <2>1, HighestField
<1>8. QED
  BY <1>1, <1>2, <1>3, <1>4, <1>5, <1>6, <1>7

\* So the length by the highest bit.
LEMMA LengthAtHighest ==
  ASSUME NEW w \in Words, NEW z \in 0..6, Highest(w, z)
  PROVE  LengthAt(w) = <<Field(w, 15 - 2 * z, z + 1), 2 * z>>
<1>1. CASE z = 0
  <2>1. /\ Highest(w, 0) /\ ~Highest(w, 1) /\ ~Highest(w, 2)
        /\ ~Highest(w, 3) /\ ~Highest(w, 4) /\ ~Highest(w, 5)
        /\ ~Highest(w, 6)
    BY <1>1, OneHighest
  <2>2. /\ Field(w, 15, 1) = 1 /\ Field(w, 14, 2) # 1 /\ Field(w, 13, 3) # 1
        /\ Field(w, 12, 4) # 1 /\ Field(w, 11, 5) # 1 /\ Field(w, 10, 6) # 1
        /\ Field(w, 9, 7) # 1
    BY <2>1, HighestFields
  <2>3. LengthAt(w) = <<1, 0>>
    BY <2>2 DEF LengthAt
  <2>4. QED
    BY <1>1, <2>2, <2>3
<1>2. CASE z = 1
  <2>1. /\ ~Highest(w, 0) /\ Highest(w, 1) /\ ~Highest(w, 2)
        /\ ~Highest(w, 3) /\ ~Highest(w, 4) /\ ~Highest(w, 5)
        /\ ~Highest(w, 6)
    BY <1>2, OneHighest
  <2>2. /\ Field(w, 15, 1) # 1 /\ Field(w, 14, 2) = 1 /\ Field(w, 13, 3) # 1
        /\ Field(w, 12, 4) # 1 /\ Field(w, 11, 5) # 1 /\ Field(w, 10, 6) # 1
        /\ Field(w, 9, 7) # 1
    BY <2>1, HighestFields
  <2>3. LengthAt(w) = <<Field(w, 13, 2), 2>>
    BY <2>2 DEF LengthAt
  <2>4. QED
    BY <1>2, <2>2, <2>3
<1>3. CASE z = 2
  <2>1. /\ ~Highest(w, 0) /\ ~Highest(w, 1) /\ Highest(w, 2)
        /\ ~Highest(w, 3) /\ ~Highest(w, 4) /\ ~Highest(w, 5)
        /\ ~Highest(w, 6)
    BY <1>3, OneHighest
  <2>2. /\ Field(w, 15, 1) # 1 /\ Field(w, 14, 2) # 1 /\ Field(w, 13, 3) = 1
        /\ Field(w, 12, 4) # 1 /\ Field(w, 11, 5) # 1 /\ Field(w, 10, 6) # 1
        /\ Field(w, 9, 7) # 1
    BY <2>1, HighestFields
  <2>3. LengthAt(w) = <<Field(w, 11, 3), 4>>
    BY <2>2 DEF LengthAt
  <2>4. QED
    BY <1>3, <2>2, <2>3
<1>4. CASE z = 3
  <2>1. /\ ~Highest(w, 0) /\ ~Highest(w, 1) /\ ~Highest(w, 2)
        /\ Highest(w, 3) /\ ~Highest(w, 4) /\ ~Highest(w, 5)
        /\ ~Highest(w, 6)
    BY <1>4, OneHighest
  <2>2. /\ Field(w, 15, 1) # 1 /\ Field(w, 14, 2) # 1 /\ Field(w, 13, 3) # 1
        /\ Field(w, 12, 4) = 1 /\ Field(w, 11, 5) # 1 /\ Field(w, 10, 6) # 1
        /\ Field(w, 9, 7) # 1
    BY <2>1, HighestFields
  <2>3. LengthAt(w) = <<Field(w, 9, 4), 6>>
    BY <2>2 DEF LengthAt
  <2>4. QED
    BY <1>4, <2>2, <2>3
<1>5. CASE z = 4
  <2>1. /\ ~Highest(w, 0) /\ ~Highest(w, 1) /\ ~Highest(w, 2)
        /\ ~Highest(w, 3) /\ Highest(w, 4) /\ ~Highest(w, 5)
        /\ ~Highest(w, 6)
    BY <1>5, OneHighest
  <2>2. /\ Field(w, 15, 1) # 1 /\ Field(w, 14, 2) # 1 /\ Field(w, 13, 3) # 1
        /\ Field(w, 12, 4) # 1 /\ Field(w, 11, 5) = 1 /\ Field(w, 10, 6) # 1
        /\ Field(w, 9, 7) # 1
    BY <2>1, HighestFields
  <2>3. LengthAt(w) = <<Field(w, 7, 5), 8>>
    BY <2>2 DEF LengthAt
  <2>4. QED
    BY <1>5, <2>2, <2>3
<1>6. CASE z = 5
  <2>1. /\ ~Highest(w, 0) /\ ~Highest(w, 1) /\ ~Highest(w, 2)
        /\ ~Highest(w, 3) /\ ~Highest(w, 4) /\ Highest(w, 5)
        /\ ~Highest(w, 6)
    BY <1>6, OneHighest
  <2>2. /\ Field(w, 15, 1) # 1 /\ Field(w, 14, 2) # 1 /\ Field(w, 13, 3) # 1
        /\ Field(w, 12, 4) # 1 /\ Field(w, 11, 5) # 1 /\ Field(w, 10, 6) = 1
        /\ Field(w, 9, 7) # 1
    BY <2>1, HighestFields
  <2>3. LengthAt(w) = <<Field(w, 5, 6), 10>>
    BY <2>2 DEF LengthAt
  <2>4. QED
    BY <1>6, <2>2, <2>3
<1>7. CASE z = 6
  <2>1. /\ ~Highest(w, 0) /\ ~Highest(w, 1) /\ ~Highest(w, 2)
        /\ ~Highest(w, 3) /\ ~Highest(w, 4) /\ ~Highest(w, 5)
        /\ Highest(w, 6)
    BY <1>7, OneHighest
  <2>2. /\ Field(w, 15, 1) # 1 /\ Field(w, 14, 2) # 1 /\ Field(w, 13, 3) # 1
        /\ Field(w, 12, 4) # 1 /\ Field(w, 11, 5) # 1 /\ Field(w, 10, 6) # 1
        /\ Field(w, 9, 7) = 1
    BY <2>1, HighestFields
  <2>3. LengthAt(w) = <<Field(w, 3, 7), 12>>
    BY <2>2 DEF LengthAt
  <2>4. QED
    BY <1>7, <2>2, <2>3
<1>8. QED
  BY <1>1, <1>2, <1>3, <1>4, <1>5, <1>6, <1>7

\* And by a highest bit further down.
LEMMA LengthAtLowest ==
  ASSUME NEW w \in Words, w < 512
  PROVE  LengthAt(w) = <<Field(w, 2, 7) + 128, 13>>
<1>1. /\ ~Highest(w, 0) /\ ~Highest(w, 1) /\ ~Highest(w, 2)
      /\ ~Highest(w, 3) /\ ~Highest(w, 4) /\ ~Highest(w, 5)
      /\ ~Highest(w, 6)
  BY LowHasNone
<1>2. /\ Field(w, 15, 1) # 1 /\ Field(w, 14, 2) # 1 /\ Field(w, 13, 3) # 1
      /\ Field(w, 12, 4) # 1 /\ Field(w, 11, 5) # 1 /\ Field(w, 10, 6) # 1
      /\ Field(w, 9, 7) # 1
  BY <1>1, HighestFields
<1>3. QED
  BY <1>2 DEF LengthAt

\* The bits above the highest are 0.
LEMMA HighestBit ==
  ASSUME NEW w \in Words, NEW z \in 0..6
  PROVE  /\ Highest(w, z) => Bit(w, 15 - z) = 1
         /\ w < Weight[15 - z] => Bit(w, 15 - z) = 0
<1> DEFINE y == Weight[15 - z]
<1>1. w \in Nat /\ y \in Nat \ {0}
  <2>1. 15 - z \in Nat
    OBVIOUS
  <2>2. y \in Nat \ {0}
    BY <2>1, WeightDoubles
  <2>3. w \in Nat
    BY DEF Words
  <2>4. QED
    BY <2>2, <2>3
<1>2. Bit(w, 15 - z) = (w \div y) % 2
  BY DEF Bit
<1>3. Highest(w, z) => y <= w /\ w < 2 * y
  BY DEF Highest
<1> HIDE DEF y
<1>4. ASSUME y <= w, w < 2 * y
      PROVE  w \div y = 1
  <2>1. w - y \in 0..y - 1 /\ w = 1 * y + (w - y)
    BY <1>1, <1>4
  <2>2. w \in Int /\ y \in Nat /\ 1 \in Int
    BY <1>1
  <2>3. QED
    BY <2>1, <2>2, Divided
<1>5. ASSUME w < y
      PROVE  w \div y = 0
  <2>1. w \in 0..y - 1 /\ w = 0 * y + w
    BY <1>1, <1>5
  <2>2. w \in Int /\ y \in Nat /\ 0 \in Int
    BY <1>1
  <2>3. QED
    BY <2>1, <2>2, Divided
<1>6. w < y => Bit(w, 15 - z) = 0
  BY <1>2, <1>5
<1>7. Highest(w, z) => Bit(w, 15 - z) = 1
  BY <1>2, <1>3, <1>4
<1>8. QED
  BY <1>6, <1>7 DEF y

\* A field of seven bits or fewer.
LEMMA SmallField ==
  ASSUME NEW w \in Int, NEW low \in Nat, NEW bits \in Nat, bits <= 7
  PROVE  Field(w, low, bits) \in Nat /\ Field(w, low, bits) < 128
<1>1. Weight[bits] \in Nat /\ Weight[bits] <= 128
  <2>1. Weight[7] = 128 /\ Weight[bits] \in Nat
    BY WeightTable, WeightDoubles
  <2>2. CASE bits = 7
    BY <2>1, <2>2
  <2>3. CASE bits # 7
    <3>1. bits < 7 /\ 7 \in Nat
      BY <2>3
    <3>2. 2 * Weight[bits] <= Weight[7]
      BY <3>1, WeightsGrow
    <3>3. QED
      BY <2>1, <3>2
  <2>4. QED
    BY <2>2, <2>3
<1>2. Field(w, low, bits) \in 0..Weight[bits] - 1
  BY Fields
<1> DEFINE f == Field(w, low, bits)
<1> HIDE DEF f
<1>3. f \in 0..Weight[bits] - 1
  BY <1>2 DEF f
<1>4. f \in Nat /\ f < 128
  BY <1>1, <1>3
<1>5. QED
  BY <1>4 DEF f

\* The length that the tables give is the code's.
LEMMA LengthIsCode ==
  ASSUME NEW w \in Words, NEW t \in Seq(Binary01)
  PROVE  LET code == Code!LengthCode(Then(BitsOf(w, 16), t))
         IN  /\ LengthAt(w) = <<code.value, code.used - 1>>
             /\ code.used \in Nat /\ 1 <= code.used /\ code.used <= 14
             /\ code.value \in Nat /\ code.value < 256
<1> DEFINE Right(code) ==
             /\ LengthAt(w) = <<code.value, code.used - 1>>
             /\ code.used \in Nat /\ 1 <= code.used /\ code.used <= 14
             /\ code.value \in Nat /\ code.value < 256
<1> DEFINE q == Then(BitsOf(w, 16), t)
           ones == {z \in 0..6 : q[z + 1] = 1}
           first == IF ones = {} THEN 7 ELSE CHOOSE x \in ones : \A y \in ones : x <= y
<1>1. w \in Int /\ 16 \in Nat
  BY DEF Words
<1>2. Code!LengthCode(q) =
        IF first < 7 THEN [value |-> Code!Value(SubSeq(q, first + 1, 2 * first + 1)),
                           used |-> 2 * first + 1]
        ELSE [value |-> 128 + Code!Value(SubSeq(q, 8, 14)), used |-> 14]
  BY DEF Code!LengthCode
<1>3. ASSUME NEW z \in 0..6
      PROVE  q[z + 1] = Bit(w, 15 - z)
  <2>1. z + 1 \in 1..16 /\ 16 - (z + 1) = 15 - z
    OBVIOUS
  <2>2. Then(BitsOf(w, 16), t)[z + 1] = Bit(w, 16 - (z + 1))
    <3>1. z + 1 \in (z + 1)..16
      OBVIOUS
    <3>2. QED
      BY <1>1, <2>1, <3>1, ReadAsField
  <2>3. QED
    BY <2>1, <2>2
<1>4. ASSUME NEW i \in 1..16, NEW j \in i..16
      PROVE  Code!Value(SubSeq(q, i, j)) = Field(w, 16 - j, j - i + 1)
  BY <1>1, ReadAsField
<1> HIDE DEF q
<1>5. ASSUME NEW z \in 0..6, Highest(w, z)
      PROVE  first = z
  <2>1. z \in ones
    BY <1>3, <1>5, HighestBit
  <2>2. ASSUME NEW y \in 0..z - 1
        PROVE  y \notin ones
    <3>1. y \in 0..6 /\ 15 - y \in Nat /\ 15 - z \in Nat /\ 15 - z < 15 - y
      OBVIOUS
    <3>2. 2 * Weight[15 - z] <= Weight[15 - y] /\ w < 2 * Weight[15 - z]
      BY <1>5, <3>1, WeightsGrow DEF Highest
    <3>3. Weight[15 - y] \in Nat /\ Weight[15 - z] \in Nat
      BY <3>1, WeightDoubles
    <3>4. w < Weight[15 - y]
      BY <1>1, <3>2, <3>3
    <3>5. Bit(w, 15 - y) = 0
      BY <3>1, <3>4, HighestBit
    <3>6. q[y + 1] = 0
      BY <1>3, <3>1, <3>5
    <3>7. QED
      BY <3>6
  <2>3. \A x \in ones : z <= x
    BY <2>2
  <2>4. ones \subseteq 0..6
    OBVIOUS
  <2> HIDE DEF ones
  <2>5. \A x \in ones : (\A y \in ones : x <= y) => x = z
    BY <2>1, <2>3, <2>4
  <2>6. (CHOOSE x \in ones : \A y \in ones : x <= y) = z
    BY <2>1, <2>3, <2>5
  <2>7. QED
    BY <2>1, <2>6
<1>6. ASSUME w < 512
      PROVE  first = 7
  <2>1. ASSUME NEW z \in 0..6
        PROVE  q[z + 1] # 1
    BY <1>3, <1>6, LowHasNone, HighestBit
  <2>2. ones = {}
    BY <2>1
  <2> HIDE DEF ones
  <2>3. QED
    BY <2>2
<1> HIDE DEF first
<1>7. ASSUME NEW z \in 0..6, Highest(w, z)
      PROVE  Right(Code!LengthCode(q))
  <2>1. /\ z + 1 \in 1..16 /\ 2 * z + 1 \in (z + 1)..16 /\ 16 - (2 * z + 1) = 15 - 2 * z
        /\ (2 * z + 1) - (z + 1) + 1 = z + 1 /\ (2 * z + 1) - 1 = 2 * z /\ z < 7
    OBVIOUS
  <2>2. Code!Value(SubSeq(q, z + 1, 2 * z + 1)) = Field(w, 15 - 2 * z, z + 1)
    BY <1>4, <2>1
  <2>3. Code!LengthCode(q) = [value |-> Field(w, 15 - 2 * z, z + 1), used |-> 2 * z + 1]
    BY <1>2, <1>5, <1>7, <2>1, <2>2
  <2>4. LengthAt(w) = <<Field(w, 15 - 2 * z, z + 1), 2 * z>>
    BY <1>7, LengthAtHighest
  <2>5. Field(w, 15 - 2 * z, z + 1) \in Nat /\ Field(w, 15 - 2 * z, z + 1) < 128
    <3>1. 15 - 2 * z \in Nat /\ z + 1 \in Nat /\ z + 1 <= 7
      OBVIOUS
    <3>2. QED
      BY <1>1, <3>1, SmallField
  <2>6. QED
    BY <2>1, <2>3, <2>4, <2>5
<1>8. ASSUME w < 512
      PROVE  Right(Code!LengthCode(q))
  <2>1. Code!Value(SubSeq(q, 8, 14)) = Field(w, 2, 7)
    <3>1. 8 \in 1..16 /\ 14 \in 8..16 /\ 16 - 14 = 2 /\ 14 - 8 + 1 = 7
      OBVIOUS
    <3>2. QED
      BY <1>4, <3>1
  <2>2. Code!LengthCode(q) = [value |-> 128 + Field(w, 2, 7), used |-> 14]
    BY <1>2, <1>6, <1>8, <2>1
  <2>3. LengthAt(w) = <<Field(w, 2, 7) + 128, 13>>
    BY <1>8, LengthAtLowest
  <2>4. Field(w, 2, 7) \in Nat /\ Field(w, 2, 7) < 128
    <3>1. 2 \in Nat /\ 7 \in Nat /\ 7 <= 7
      OBVIOUS
    <3>2. QED
      BY <1>1, <3>1, SmallField
  <2>5. QED
    BY <2>2, <2>3, <2>4
<1>9. w < 512 \/ \E z \in 0..6 : Highest(w, z)
  <2>1. Highest(w, 0) <=> 32768 <= w /\ w < 65536
    <3>1. Weight[15 - 0] = 32768 /\ 2 * 32768 = 65536
      BY WeightTable
    <3>2. QED
      BY <3>1 DEF Highest
  <2>2. Highest(w, 1) <=> 16384 <= w /\ w < 32768
    <3>1. Weight[15 - 1] = 16384 /\ 2 * 16384 = 32768
      BY WeightTable
    <3>2. QED
      BY <3>1 DEF Highest
  <2>3. Highest(w, 2) <=> 8192 <= w /\ w < 16384
    <3>1. Weight[15 - 2] = 8192 /\ 2 * 8192 = 16384
      BY WeightTable
    <3>2. QED
      BY <3>1 DEF Highest
  <2>4. Highest(w, 3) <=> 4096 <= w /\ w < 8192
    <3>1. Weight[15 - 3] = 4096 /\ 2 * 4096 = 8192
      BY WeightTable
    <3>2. QED
      BY <3>1 DEF Highest
  <2>5. Highest(w, 4) <=> 2048 <= w /\ w < 4096
    <3>1. Weight[15 - 4] = 2048 /\ 2 * 2048 = 4096
      BY WeightTable
    <3>2. QED
      BY <3>1 DEF Highest
  <2>6. Highest(w, 5) <=> 1024 <= w /\ w < 2048
    <3>1. Weight[15 - 5] = 1024 /\ 2 * 1024 = 2048
      BY WeightTable
    <3>2. QED
      BY <3>1 DEF Highest
  <2>7. Highest(w, 6) <=> 512 <= w /\ w < 1024
    <3>1. Weight[15 - 6] = 512 /\ 2 * 512 = 1024
      BY WeightTable
    <3>2. QED
      BY <3>1 DEF Highest
  <2>8. w \in Int /\ 0 <= w /\ w < 65536
    BY DEF Words
  <2>9. \/ w < 512 \/ Highest(w, 0) \/ Highest(w, 1) \/ Highest(w, 2) \/ Highest(w, 3)
        \/ Highest(w, 4) \/ Highest(w, 5) \/ Highest(w, 6)
    BY <2>1, <2>2, <2>3, <2>4, <2>5, <2>6, <2>7, <2>8
  <2>10. QED
    BY <2>9
<1>10. QED
  BY <1>7, <1>8, <1>9 DEF q

----------------------------------------------------------------------------
\* The classes of distances, and the windows that each takes.
C(bits, first, base, count) == [bits |-> bits, first |-> first, base |-> base, count |-> count]
Takes(c, v) ==
  c.first * Weight[15 - c.bits] <= v /\ v < (c.first + c.count) * Weight[15 - c.bits]

\* The nine classes by name, and what their fields are.
LEMMA TheClasses ==
  /\ Code!Classes = { C(6, 0, 0, 4), C(7, 8, 4, 4), C(8, 24, 8, 24),
                      C(9, 96, 32, 96), C(10, 384, 128, 128), C(11, 1024, 256, 256),
                      C(12, 2560, 512, 512), C(13, 6144, 1024, 1024), C(14, 14336, 2048, 2048) }
  /\ \A c \in Code!Classes :
       c.bits \in 6..14 /\ c.first \in Nat /\ c.base \in Nat /\ c.count \in Nat \ {0}
<1>1. Code!Classes = { C(6, 0, 0, 4), C(7, 8, 4, 4), C(8, 24, 8, 24),
                       C(9, 96, 32, 96), C(10, 384, 128, 128), C(11, 1024, 256, 256),
                       C(12, 2560, 512, 512), C(13, 6144, 1024, 1024), C(14, 14336, 2048, 2048) }
  BY DEF Code!Classes, C
<1>2. ASSUME NEW c \in Code!Classes
      PROVE  c.bits \in 6..14 /\ c.first \in Nat /\ c.base \in Nat /\ c.count \in Nat \ {0}
  BY <1>1 DEF C
<1>3. QED
  BY <1>1, <1>2

\* The same for one class.
LEMMA ClassTypes ==
  ASSUME NEW c \in Code!Classes
  PROVE  c.bits \in 6..14 /\ c.first \in Nat /\ c.base \in Nat /\ c.count \in Nat \ {0}
BY TheClasses

\* The windows of each class.
LEMMA ClassTable ==
  ASSUME NEW v \in Int
  PROVE  /\ Takes(C(6, 0, 0, 4), v) <=> 0 <= v /\ v < 2048
         /\ Takes(C(7, 8, 4, 4), v) <=> 2048 <= v /\ v < 3072
         /\ Takes(C(8, 24, 8, 24), v) <=> 3072 <= v /\ v < 6144
         /\ Takes(C(9, 96, 32, 96), v) <=> 6144 <= v /\ v < 12288
         /\ Takes(C(10, 384, 128, 128), v) <=> 12288 <= v /\ v < 16384
         /\ Takes(C(11, 1024, 256, 256), v) <=> 16384 <= v /\ v < 20480
         /\ Takes(C(12, 2560, 512, 512), v) <=> 20480 <= v /\ v < 24576
         /\ Takes(C(13, 6144, 1024, 1024), v) <=> 24576 <= v /\ v < 28672
         /\ Takes(C(14, 14336, 2048, 2048), v) <=> 28672 <= v /\ v < 32768
<1>1. Takes(C(6, 0, 0, 4), v) <=> 0 <= v /\ v < 2048
  <2>1. Weight[15 - 6] = 512
    BY WeightTable
  <2>2. 0 * 512 = 0 /\ (0 + 4) * 512 = 2048
    OBVIOUS
  <2>3. Takes(C(6, 0, 0, 4), v) <=> 0 * Weight[15 - 6] <= v /\ v < (0 + 4) * Weight[15 - 6]
    BY DEF Takes, C
  <2>4. QED
    BY <2>1, <2>2, <2>3
<1>2. Takes(C(7, 8, 4, 4), v) <=> 2048 <= v /\ v < 3072
  <2>1. Weight[15 - 7] = 256
    BY WeightTable
  <2>2. 8 * 256 = 2048 /\ (8 + 4) * 256 = 3072
    OBVIOUS
  <2>3. Takes(C(7, 8, 4, 4), v) <=> 8 * Weight[15 - 7] <= v /\ v < (8 + 4) * Weight[15 - 7]
    BY DEF Takes, C
  <2>4. QED
    BY <2>1, <2>2, <2>3
<1>3. Takes(C(8, 24, 8, 24), v) <=> 3072 <= v /\ v < 6144
  <2>1. Weight[15 - 8] = 128
    BY WeightTable
  <2>2. 24 * 128 = 3072 /\ (24 + 24) * 128 = 6144
    OBVIOUS
  <2>3. Takes(C(8, 24, 8, 24), v) <=> 24 * Weight[15 - 8] <= v /\ v < (24 + 24) * Weight[15 - 8]
    BY DEF Takes, C
  <2>4. QED
    BY <2>1, <2>2, <2>3
<1>4. Takes(C(9, 96, 32, 96), v) <=> 6144 <= v /\ v < 12288
  <2>1. Weight[15 - 9] = 64
    BY WeightTable
  <2>2. 96 * 64 = 6144 /\ (96 + 96) * 64 = 12288
    OBVIOUS
  <2>3. Takes(C(9, 96, 32, 96), v) <=> 96 * Weight[15 - 9] <= v /\ v < (96 + 96) * Weight[15 - 9]
    BY DEF Takes, C
  <2>4. QED
    BY <2>1, <2>2, <2>3
<1>5. Takes(C(10, 384, 128, 128), v) <=> 12288 <= v /\ v < 16384
  <2>1. Weight[15 - 10] = 32
    BY WeightTable
  <2>2. 384 * 32 = 12288 /\ (384 + 128) * 32 = 16384
    OBVIOUS
  <2>3. Takes(C(10, 384, 128, 128), v)
          <=> 384 * Weight[15 - 10] <= v /\ v < (384 + 128) * Weight[15 - 10]
    BY DEF Takes, C
  <2>4. QED
    BY <2>1, <2>2, <2>3
<1>6. Takes(C(11, 1024, 256, 256), v) <=> 16384 <= v /\ v < 20480
  <2>1. Weight[15 - 11] = 16
    BY WeightTable
  <2>2. 1024 * 16 = 16384 /\ (1024 + 256) * 16 = 20480
    OBVIOUS
  <2>3. Takes(C(11, 1024, 256, 256), v)
          <=> 1024 * Weight[15 - 11] <= v /\ v < (1024 + 256) * Weight[15 - 11]
    BY DEF Takes, C
  <2>4. QED
    BY <2>1, <2>2, <2>3
<1>7. Takes(C(12, 2560, 512, 512), v) <=> 20480 <= v /\ v < 24576
  <2>1. Weight[15 - 12] = 8
    BY WeightTable
  <2>2. 2560 * 8 = 20480 /\ (2560 + 512) * 8 = 24576
    OBVIOUS
  <2>3. Takes(C(12, 2560, 512, 512), v)
          <=> 2560 * Weight[15 - 12] <= v /\ v < (2560 + 512) * Weight[15 - 12]
    BY DEF Takes, C
  <2>4. QED
    BY <2>1, <2>2, <2>3
<1>8. Takes(C(13, 6144, 1024, 1024), v) <=> 24576 <= v /\ v < 28672
  <2>1. Weight[15 - 13] = 4
    BY WeightTable
  <2>2. 6144 * 4 = 24576 /\ (6144 + 1024) * 4 = 28672
    OBVIOUS
  <2>3. Takes(C(13, 6144, 1024, 1024), v)
          <=> 6144 * Weight[15 - 13] <= v /\ v < (6144 + 1024) * Weight[15 - 13]
    BY DEF Takes, C
  <2>4. QED
    BY <2>1, <2>2, <2>3
<1>9. Takes(C(14, 14336, 2048, 2048), v) <=> 28672 <= v /\ v < 32768
  <2>1. Weight[15 - 14] = 2
    BY WeightTable
  <2>2. 14336 * 2 = 28672 /\ (14336 + 2048) * 2 = 32768
    OBVIOUS
  <2>3. Takes(C(14, 14336, 2048, 2048), v)
          <=> 14336 * Weight[15 - 14] <= v /\ v < (14336 + 2048) * Weight[15 - 14]
    BY DEF Takes, C
  <2>4. QED
    BY <2>1, <2>2, <2>3
<1>10. QED
  BY <1>1, <1>2, <1>3, <1>4, <1>5, <1>6, <1>7, <1>8, <1>9

\* Every window is in one class.
LEMMA OneClass ==
  ASSUME NEW v \in Nat, v < 32768
  PROVE  /\ \E c \in Code!Classes : Takes(c, v)
         /\ \A c, d \in Code!Classes : Takes(c, v) /\ Takes(d, v) => c = d
<1>1. v \in Int /\ 0 <= v /\ v < 32768
  OBVIOUS
<1>2. ASSUME 0 <= v, v < 2048
      PROVE  \E c \in Code!Classes :
               Takes(c, v) /\ \A d \in Code!Classes : Takes(d, v) => d = c
  <2>1. /\ Takes(C(6, 0, 0, 4), v)
        /\ ~Takes(C(7, 8, 4, 4), v)
        /\ ~Takes(C(8, 24, 8, 24), v)
        /\ ~Takes(C(9, 96, 32, 96), v)
        /\ ~Takes(C(10, 384, 128, 128), v)
        /\ ~Takes(C(11, 1024, 256, 256), v)
        /\ ~Takes(C(12, 2560, 512, 512), v)
        /\ ~Takes(C(13, 6144, 1024, 1024), v)
        /\ ~Takes(C(14, 14336, 2048, 2048), v)
    BY <1>1, <1>2, ClassTable
  <2>2. QED
    BY <2>1, TheClasses
<1>3. ASSUME 2048 <= v, v < 3072
      PROVE  \E c \in Code!Classes :
               Takes(c, v) /\ \A d \in Code!Classes : Takes(d, v) => d = c
  <2>1. /\ Takes(C(7, 8, 4, 4), v)
        /\ ~Takes(C(6, 0, 0, 4), v)
        /\ ~Takes(C(8, 24, 8, 24), v)
        /\ ~Takes(C(9, 96, 32, 96), v)
        /\ ~Takes(C(10, 384, 128, 128), v)
        /\ ~Takes(C(11, 1024, 256, 256), v)
        /\ ~Takes(C(12, 2560, 512, 512), v)
        /\ ~Takes(C(13, 6144, 1024, 1024), v)
        /\ ~Takes(C(14, 14336, 2048, 2048), v)
    BY <1>1, <1>3, ClassTable
  <2>2. QED
    BY <2>1, TheClasses
<1>4. ASSUME 3072 <= v, v < 6144
      PROVE  \E c \in Code!Classes :
               Takes(c, v) /\ \A d \in Code!Classes : Takes(d, v) => d = c
  <2>1. /\ Takes(C(8, 24, 8, 24), v)
        /\ ~Takes(C(6, 0, 0, 4), v)
        /\ ~Takes(C(7, 8, 4, 4), v)
        /\ ~Takes(C(9, 96, 32, 96), v)
        /\ ~Takes(C(10, 384, 128, 128), v)
        /\ ~Takes(C(11, 1024, 256, 256), v)
        /\ ~Takes(C(12, 2560, 512, 512), v)
        /\ ~Takes(C(13, 6144, 1024, 1024), v)
        /\ ~Takes(C(14, 14336, 2048, 2048), v)
    BY <1>1, <1>4, ClassTable
  <2>2. QED
    BY <2>1, TheClasses
<1>5. ASSUME 6144 <= v, v < 12288
      PROVE  \E c \in Code!Classes :
               Takes(c, v) /\ \A d \in Code!Classes : Takes(d, v) => d = c
  <2>1. /\ Takes(C(9, 96, 32, 96), v)
        /\ ~Takes(C(6, 0, 0, 4), v)
        /\ ~Takes(C(7, 8, 4, 4), v)
        /\ ~Takes(C(8, 24, 8, 24), v)
        /\ ~Takes(C(10, 384, 128, 128), v)
        /\ ~Takes(C(11, 1024, 256, 256), v)
        /\ ~Takes(C(12, 2560, 512, 512), v)
        /\ ~Takes(C(13, 6144, 1024, 1024), v)
        /\ ~Takes(C(14, 14336, 2048, 2048), v)
    BY <1>1, <1>5, ClassTable
  <2>2. QED
    BY <2>1, TheClasses
<1>6. ASSUME 12288 <= v, v < 16384
      PROVE  \E c \in Code!Classes :
               Takes(c, v) /\ \A d \in Code!Classes : Takes(d, v) => d = c
  <2>1. /\ Takes(C(10, 384, 128, 128), v)
        /\ ~Takes(C(6, 0, 0, 4), v)
        /\ ~Takes(C(7, 8, 4, 4), v)
        /\ ~Takes(C(8, 24, 8, 24), v)
        /\ ~Takes(C(9, 96, 32, 96), v)
        /\ ~Takes(C(11, 1024, 256, 256), v)
        /\ ~Takes(C(12, 2560, 512, 512), v)
        /\ ~Takes(C(13, 6144, 1024, 1024), v)
        /\ ~Takes(C(14, 14336, 2048, 2048), v)
    BY <1>1, <1>6, ClassTable
  <2>2. QED
    BY <2>1, TheClasses
<1>7. ASSUME 16384 <= v, v < 20480
      PROVE  \E c \in Code!Classes :
               Takes(c, v) /\ \A d \in Code!Classes : Takes(d, v) => d = c
  <2>1. /\ Takes(C(11, 1024, 256, 256), v)
        /\ ~Takes(C(6, 0, 0, 4), v)
        /\ ~Takes(C(7, 8, 4, 4), v)
        /\ ~Takes(C(8, 24, 8, 24), v)
        /\ ~Takes(C(9, 96, 32, 96), v)
        /\ ~Takes(C(10, 384, 128, 128), v)
        /\ ~Takes(C(12, 2560, 512, 512), v)
        /\ ~Takes(C(13, 6144, 1024, 1024), v)
        /\ ~Takes(C(14, 14336, 2048, 2048), v)
    BY <1>1, <1>7, ClassTable
  <2>2. QED
    BY <2>1, TheClasses
<1>8. ASSUME 20480 <= v, v < 24576
      PROVE  \E c \in Code!Classes :
               Takes(c, v) /\ \A d \in Code!Classes : Takes(d, v) => d = c
  <2>1. /\ Takes(C(12, 2560, 512, 512), v)
        /\ ~Takes(C(6, 0, 0, 4), v)
        /\ ~Takes(C(7, 8, 4, 4), v)
        /\ ~Takes(C(8, 24, 8, 24), v)
        /\ ~Takes(C(9, 96, 32, 96), v)
        /\ ~Takes(C(10, 384, 128, 128), v)
        /\ ~Takes(C(11, 1024, 256, 256), v)
        /\ ~Takes(C(13, 6144, 1024, 1024), v)
        /\ ~Takes(C(14, 14336, 2048, 2048), v)
    BY <1>1, <1>8, ClassTable
  <2>2. QED
    BY <2>1, TheClasses
<1>9. ASSUME 24576 <= v, v < 28672
      PROVE  \E c \in Code!Classes :
               Takes(c, v) /\ \A d \in Code!Classes : Takes(d, v) => d = c
  <2>1. /\ Takes(C(13, 6144, 1024, 1024), v)
        /\ ~Takes(C(6, 0, 0, 4), v)
        /\ ~Takes(C(7, 8, 4, 4), v)
        /\ ~Takes(C(8, 24, 8, 24), v)
        /\ ~Takes(C(9, 96, 32, 96), v)
        /\ ~Takes(C(10, 384, 128, 128), v)
        /\ ~Takes(C(11, 1024, 256, 256), v)
        /\ ~Takes(C(12, 2560, 512, 512), v)
        /\ ~Takes(C(14, 14336, 2048, 2048), v)
    BY <1>1, <1>9, ClassTable
  <2>2. QED
    BY <2>1, TheClasses
<1>10. ASSUME 28672 <= v, v < 32768
      PROVE  \E c \in Code!Classes :
               Takes(c, v) /\ \A d \in Code!Classes : Takes(d, v) => d = c
  <2>1. /\ Takes(C(14, 14336, 2048, 2048), v)
        /\ ~Takes(C(6, 0, 0, 4), v)
        /\ ~Takes(C(7, 8, 4, 4), v)
        /\ ~Takes(C(8, 24, 8, 24), v)
        /\ ~Takes(C(9, 96, 32, 96), v)
        /\ ~Takes(C(10, 384, 128, 128), v)
        /\ ~Takes(C(11, 1024, 256, 256), v)
        /\ ~Takes(C(12, 2560, 512, 512), v)
        /\ ~Takes(C(13, 6144, 1024, 1024), v)
    BY <1>1, <1>10, ClassTable
  <2>2. QED
    BY <2>1, TheClasses
<1>11. \E c \in Code!Classes :
         Takes(c, v) /\ \A d \in Code!Classes : Takes(d, v) => d = c
  BY <1>1, <1>2, <1>3, <1>4, <1>5, <1>6, <1>7, <1>8, <1>9, <1>10
<1>12. QED
  BY <1>11

\* The bounds of a quotient.
LEMMA QuotientBound ==
  ASSUME NEW v \in Int, NEW y \in Nat \ {0}, NEW a \in Nat
  PROVE  /\ v < a * y => v \div y < a
         /\ v >= a * y => v \div y >= a
<1> DEFINE h == v \div y
           r == v % y
           z == a * y
<1>1. h \in Int /\ r \in 0..y - 1 /\ v = h * y + r
  BY DivMod
<1> HIDE DEF h, r
<1>2. (h < a => v < a * y) /\ (h >= a => v >= a * y)
  BY <1>1, PlaceValue
<1>3. z \in Int
  OBVIOUS
<1> HIDE DEF z
<1>4. (h < a => v < z) /\ (h >= a => v >= z)
  BY <1>2 DEF z
<1>5. (v < z => h < a) /\ (v >= z => h >= a)
  BY <1>1, <1>3, <1>4
<1>6. QED
  BY <1>5 DEF z, h

\* A fifteen-bit window's digits above a place and below it.
LEMMA FifteenPlaces ==
  ASSUME NEW n \in Nat, NEW m \in Nat, n + m = 15
  PROVE  Weight[n] * Weight[m] = 32768
<1>1. Weight[n] * Weight[m] = Weight[15]
  BY WeightSum
<1>2. QED
  BY <1>1, WeightTable

\* The digits that lead.
Lead(v, t, n) == Code!Value(SubSeq(Then(BitsOf(v, 15), t), 1, n))

\* The code's n leading digits are the window shifted right.
LEMMA Leading ==
  ASSUME NEW v \in Nat, v < 32768, NEW t \in Seq(Binary01), NEW n \in Nat, NEW m \in Nat,
         1 <= n, n + m = 15
  PROVE  /\ v \div Weight[m] \in Nat
         /\ Lead(v, t, n) = v \div Weight[m]
<1> DEFINE y == Weight[m]
           c == Weight[n]
           h == v \div y
<1>1. n \in Nat /\ m \in Nat /\ n + m = 15 /\ v \in Int
  OBVIOUS
<1>2. y \in Nat \ {0}
  BY <1>1, WeightDoubles
<1>3. c \in Nat \ {0}
  BY <1>1, WeightDoubles
<1>4. c * y = 32768
  BY FifteenPlaces
<1>5. Code!Value(SubSeq(Then(BitsOf(v, 15), t), 1, n)) = h % c
  <2>1. 1 \in 1..15 /\ n \in 1..15 /\ n - 1 + 1 = n /\ 15 \in Nat /\ 15 - n = m
    OBVIOUS
  <2>2. Code!Value(SubSeq(Then(BitsOf(v, 15), t), 1, n)) = Field(v, 15 - n, n - 1 + 1)
    BY <1>1, <2>1, ReadAsField
  <2>3. Field(v, m, n) = h % c
    BY DEF Field
  <2> HIDE DEF h, c
  <2>4. QED
    BY <2>1, <2>2, <2>3
<1> HIDE DEF y, c
<1>6. h \in Int
  BY <1>1, <1>2, DivMod
<1>7. h < c
  <2>1. v < c * y => h < c
    BY <1>1, <1>2, <1>3, QuotientBound
  <2>2. v < c * y
    BY <1>4
  <2>3. QED
    BY <2>1, <2>2
<1>8. h >= 0
  <2>1. v >= 0 * y => h >= 0
    BY <1>1, <1>2, QuotientBound
  <2>2. 0 * y = 0
    BY <1>2
  <2>3. QED
    BY <2>1, <2>2
<1> HIDE DEF h
<1>9. h \in Nat /\ h % c = h
  BY <1>3, <1>6, <1>7, <1>8
<1>10. QED
  BY <1>5, <1>9 DEF h, y, Lead

\* When a number read is one of a class's.
LEMMA ClassTest ==
  ASSUME NEW v \in Nat, NEW m \in Nat, NEW f \in Nat, NEW k \in Nat \ {0}
  PROVE  v \div Weight[m] - f \in 0..k - 1
           <=> f * Weight[m] <= v /\ v < (f + k) * Weight[m]
<1> DEFINE y == Weight[m]
           h == v \div y
           g == f + k
           l == f * y
           u == g * y
<1>1. m \in Nat /\ v \in Int /\ g \in Nat
  OBVIOUS
<1>2. y \in Nat \ {0}
  BY <1>1, WeightDoubles
<1> HIDE DEF y, g
<1>3. h \in Int
  BY <1>1, <1>2, DivMod
<1>4. (v < l => h < f) /\ (v >= l => h >= f)
  BY <1>1, <1>2, QuotientBound
<1>5. (v < u => h < g) /\ (v >= u => h >= g)
  BY <1>1, <1>2, QuotientBound
<1>6. l \in Int /\ u \in Int
  BY <1>1, <1>2
<1> HIDE DEF h, l, u
<1>7. h - f \in 0..k - 1 <=> l <= v /\ v < u
  BY <1>3, <1>4, <1>5, <1>6 DEF g
<1>8. QED
  BY <1>7 DEF h, l, u, g, y

\* A class leaves some of the fifteen bits.
LEMMA BitsBehind ==
  ASSUME NEW n \in 6..14
  PROVE  15 - n \in Nat /\ 1 <= n /\ n + (15 - n) = 15
OBVIOUS

\* What the code reads in the class that takes the window.
LEMMA DistanceOfClass ==
  ASSUME NEW v \in Nat, v < 32768, NEW t \in Seq(Binary01), NEW c \in Code!Classes, Takes(c, v)
  PROVE  Code!DistanceCode(Then(BitsOf(v, 15), t)) =
           [value |-> c.base + (v \div Weight[15 - c.bits] - c.first), used |-> c.bits]
<1> DEFINE q == Then(BitsOf(v, 15), t)
           V(d) == Lead(v, t, d.bits) - d.first
<1>1. ASSUME NEW d \in Code!Classes
      PROVE  /\ V(d) = v \div Weight[15 - d.bits] - d.first
             /\ V(d) \in 0..d.count - 1 <=> Takes(d, v)
  <2>1. PICK n \in Nat : n = d.bits /\ n \in 6..14
    BY ClassTypes
  <2>2. PICK m \in Nat : m = 15 - n /\ 1 <= n /\ n + m = 15
    <3>1. 15 - n \in Nat /\ 1 <= n /\ n + (15 - n) = 15
      BY <2>1, BitsBehind
    <3>2. QED
      BY <3>1
  <2>10. m = 15 - d.bits
    BY <2>1, <2>2
  <2>3. PICK f \in Nat : f = d.first
    BY ClassTypes
  <2>4. PICK k \in Nat \ {0} : k = d.count
    BY ClassTypes
  <2>5. V(d) = v \div Weight[m] - f
    <3>1. Lead(v, t, n) = v \div Weight[m]
      BY <2>2, Leading
    <3>2. V(d) = Lead(v, t, n) - f
      BY <2>1, <2>3
    <3> HIDE DEF V
    <3>3. QED
      BY <3>1, <3>2
  <2>6. v \div Weight[m] - f \in 0..k - 1 <=> f * Weight[m] <= v /\ v < (f + k) * Weight[m]
    BY ClassTest
  <2>7. Takes(d, v) <=> f * Weight[m] <= v /\ v < (f + k) * Weight[m]
    BY <2>10, <2>3, <2>4 DEF Takes
  <2> HIDE DEF V
  <2>8. V(d) \in 0..k - 1 <=> Takes(d, v)
    BY <2>5, <2>6, <2>7
  <2>9. QED
    BY <2>10, <2>3, <2>4, <2>5, <2>8
<1> DEFINE class == CHOOSE d \in Code!Classes : V(d) \in 0..d.count - 1
<1>2. Code!DistanceCode(q) = [value |-> class.base + V(class), used |-> class.bits]
  BY DEF Code!DistanceCode, Lead
<1> HIDE DEF V, q, class
<1>3. class = c
  <2>1. V(c) \in 0..c.count - 1
    <3>1. V(c) \in 0..c.count - 1 <=> Takes(c, v)
      BY <1>1
    <3>2. QED
      BY <3>1
  <2>2. \A d \in Code!Classes : V(d) \in 0..d.count - 1 => d = c
    <3>1. \A d \in Code!Classes : V(d) \in 0..d.count - 1 => Takes(d, v)
      BY <1>1
    <3>2. QED
      BY <3>1, OneClass
  <2>3. QED
    BY <2>1, <2>2 DEF class
<1>4. V(c) = v \div Weight[15 - c.bits] - c.first
  BY <1>1
<1>5. Code!DistanceCode(q) = [value |-> c.base + V(c), used |-> c.bits]
  BY <1>2, <1>3
<1>6. QED
  BY <1>4, <1>5 DEF q

\* Subtracting so many times the divisor before or after.
LEMMA Backed ==
  ASSUME NEW v \in Int, NEW y \in Nat \ {0}, NEW a \in Int, NEW x \in Int, x = a * y
  PROVE  /\ (v - x) \div y = v \div y - a
         /\ v - x \in 0..y - 1 => v % y = v - x
<1> DEFINE h == v \div y
           r == v % y
<1>1. h \in Int /\ r \in 0..y - 1 /\ v = h * y + r
  BY DivMod
<1> HIDE DEF h, r
<1>2. (h - a) * y = h * y - a * y
  BY <1>1
<1>3. v - x = (h - a) * y + r /\ v - x \in Int /\ h - a \in Int
  BY <1>1, <1>2
<1>4. (v - x) \div y = h - a
  BY <1>1, <1>3, Divided
<1>5. ASSUME v - x \in 0..y - 1
      PROVE  r = v - x
  <2>1. v = a * y + (v - x)
    OBVIOUS
  <2>2. v % y = v - x
    BY <1>5, <2>1, Divided
  <2>3. QED
    BY <2>2 DEF r
<1>6. QED
  BY <1>4, <1>5 DEF h, r

\* The table of distances, range by range.
LEMMA DistanceRanges ==
  ASSUME NEW v \in Nat, v < 32768
  PROVE  /\ 0 <= v /\ v < 2048 => DistanceAt(v) = <<0 + (v \div 512 - 0), 7>>
         /\ 2048 <= v /\ v < 3072 => DistanceAt(v) = <<4 + (v \div 256 - 8), 8>>
         /\ 3072 <= v /\ v < 6144 => DistanceAt(v) = <<8 + (v \div 128 - 24), 9>>
         /\ 6144 <= v /\ v < 12288 => DistanceAt(v) = <<32 + (v \div 64 - 96), 10>>
         /\ 12288 <= v /\ v < 16384 => DistanceAt(v) = <<128 + (v \div 32 - 384), 11>>
         /\ 16384 <= v /\ v < 20480 => DistanceAt(v) = <<256 + (v \div 16 - 1024), 12>>
         /\ 20480 <= v /\ v < 24576 => DistanceAt(v) = <<512 + (v \div 8 - 2560), 13>>
         /\ 24576 <= v /\ v < 28672 => DistanceAt(v) = <<1024 + (v \div 4 - 6144), 14>>
         /\ 28672 <= v /\ v < 32768 => DistanceAt(v) = <<2048 + (v \div 2 - 14336), 15>>
<1>1. 0 <= v /\ v < 2048 => DistanceAt(v) = <<0 + (v \div 512 - 0), 7>>
  <2> SUFFICES ASSUME 0 <= v, v < 2048
               PROVE  DistanceAt(v) = <<0 + (v \div 512 - 0), 7>>
    OBVIOUS
  <2>1. /\ v < 2048 /\ ~Between(v, 2048, 3072) /\ ~Between(v, 3072, 6144)
        /\ ~Between(v, 6144, 12288) /\ ~Between(v, 12288, 16384) /\ ~Between(v, 16384, 20480)
        /\ ~Between(v, 20480, 24576) /\ ~Between(v, 24576, 28672)
    BY DEF Between
  <2>2. DistanceAt(v) = <<Field(v, 9, 2), 7>>
    BY <2>1 DEF DistanceAt
  <2> DEFINE h == v \div 512
             r == v % 512
  <2>3. h \in Int /\ r \in 0..511 /\ v = h * 512 + r
    OBVIOUS
  <2>4. Field(v, 9, 2) = (v \div 512) % 4
    BY WeightTable DEF Field
  <2>5. (v \div 512) % 4 = h % 4
    OBVIOUS
  <2> HIDE DEF h, r
  <2>6. h % 4 = h - 0
    BY <2>3
  <2>7. Field(v, 9, 2) = 0 + (h - 0)
    BY <2>3, <2>4, <2>5, <2>6
  <2>9. QED
    BY <2>2, <2>7 DEF h
<1>2. 2048 <= v /\ v < 3072 => DistanceAt(v) = <<4 + (v \div 256 - 8), 8>>
  <2> SUFFICES ASSUME 2048 <= v, v < 3072
               PROVE  DistanceAt(v) = <<4 + (v \div 256 - 8), 8>>
    OBVIOUS
  <2>1. /\ ~(v < 2048) /\ Between(v, 2048, 3072) /\ ~Between(v, 3072, 6144)
        /\ ~Between(v, 6144, 12288) /\ ~Between(v, 12288, 16384) /\ ~Between(v, 16384, 20480)
        /\ ~Between(v, 20480, 24576) /\ ~Between(v, 24576, 28672)
    BY DEF Between
  <2>2. DistanceAt(v) = <<Field(v, 8, 2) + 4, 8>>
    BY <2>1 DEF DistanceAt
  <2> DEFINE h == v \div 256
             r == v % 256
  <2>3. h \in Int /\ r \in 0..255 /\ v = h * 256 + r
    OBVIOUS
  <2>4. Field(v, 8, 2) = (v \div 256) % 4
    BY WeightTable DEF Field
  <2>5. (v \div 256) % 4 = h % 4
    OBVIOUS
  <2> HIDE DEF h, r
  <2>6. h % 4 = h - 8
    BY <2>3
  <2>7. Field(v, 8, 2) + 4 = 4 + (h - 8)
    BY <2>3, <2>4, <2>5, <2>6
  <2>9. QED
    BY <2>2, <2>7 DEF h
<1>3. 3072 <= v /\ v < 6144 => DistanceAt(v) = <<8 + (v \div 128 - 24), 9>>
  <2> SUFFICES ASSUME 3072 <= v, v < 6144
               PROVE  DistanceAt(v) = <<8 + (v \div 128 - 24), 9>>
    OBVIOUS
  <2>1. /\ ~(v < 2048) /\ ~Between(v, 2048, 3072) /\ Between(v, 3072, 6144)
        /\ ~Between(v, 6144, 12288) /\ ~Between(v, 12288, 16384) /\ ~Between(v, 16384, 20480)
        /\ ~Between(v, 20480, 24576) /\ ~Between(v, 24576, 28672)
    BY DEF Between
  <2>2. DistanceAt(v) = <<Field(v - 3072, 7, 5) + 8, 9>>
    BY <2>1 DEF DistanceAt
  <2> DEFINE h == v \div 128
             r == v % 128
  <2>3. h \in Int /\ r \in 0..127 /\ v = h * 128 + r
    OBVIOUS
  <2>4. Field(v - 3072, 7, 5) = ((v - 3072) \div 128) % 32
    BY WeightTable DEF Field
  <2>5. (v - 3072) \div 128 = h - 24
    <3>1. v \in Int /\ 128 \in Nat \ {0} /\ 24 \in Int /\ 3072 \in Int /\ 3072 = 24 * 128
      OBVIOUS
    <3>2. QED
      BY <3>1, Backed
  <2> HIDE DEF h, r
  <2>6. (h - 24) % 32 = h - 24
    BY <2>3
  <2>7. Field(v - 3072, 7, 5) + 8 = 8 + (h - 24)
    BY <2>3, <2>4, <2>5, <2>6
  <2>9. QED
    BY <2>2, <2>7 DEF h
<1>4. 6144 <= v /\ v < 12288 => DistanceAt(v) = <<32 + (v \div 64 - 96), 10>>
  <2> SUFFICES ASSUME 6144 <= v, v < 12288
               PROVE  DistanceAt(v) = <<32 + (v \div 64 - 96), 10>>
    OBVIOUS
  <2>1. /\ ~(v < 2048) /\ ~Between(v, 2048, 3072) /\ ~Between(v, 3072, 6144)
        /\ Between(v, 6144, 12288) /\ ~Between(v, 12288, 16384) /\ ~Between(v, 16384, 20480)
        /\ ~Between(v, 20480, 24576) /\ ~Between(v, 24576, 28672)
    BY DEF Between
  <2>2. DistanceAt(v) = <<Field(v - 6144, 6, 7) + 32, 10>>
    BY <2>1 DEF DistanceAt
  <2> DEFINE h == v \div 64
             r == v % 64
  <2>3. h \in Int /\ r \in 0..63 /\ v = h * 64 + r
    OBVIOUS
  <2>4. Field(v - 6144, 6, 7) = ((v - 6144) \div 64) % 128
    BY WeightTable DEF Field
  <2>5. (v - 6144) \div 64 = h - 96
    <3>1. v \in Int /\ 64 \in Nat \ {0} /\ 96 \in Int /\ 6144 \in Int /\ 6144 = 96 * 64
      OBVIOUS
    <3>2. QED
      BY <3>1, Backed
  <2> HIDE DEF h, r
  <2>6. (h - 96) % 128 = h - 96
    BY <2>3
  <2>7. Field(v - 6144, 6, 7) + 32 = 32 + (h - 96)
    BY <2>3, <2>4, <2>5, <2>6
  <2>9. QED
    BY <2>2, <2>7 DEF h
<1>5. 12288 <= v /\ v < 16384 => DistanceAt(v) = <<128 + (v \div 32 - 384), 11>>
  <2> SUFFICES ASSUME 12288 <= v, v < 16384
               PROVE  DistanceAt(v) = <<128 + (v \div 32 - 384), 11>>
    OBVIOUS
  <2>1. /\ ~(v < 2048) /\ ~Between(v, 2048, 3072) /\ ~Between(v, 3072, 6144)
        /\ ~Between(v, 6144, 12288) /\ Between(v, 12288, 16384) /\ ~Between(v, 16384, 20480)
        /\ ~Between(v, 20480, 24576) /\ ~Between(v, 24576, 28672)
    BY DEF Between
  <2>2. DistanceAt(v) = <<TopSet(v) \div 32, 11>>
    BY <2>1 DEF DistanceAt
  <2> DEFINE h == v \div 32
             r == v % 32
  <2>3. h \in Int /\ r \in 0..31 /\ v = h * 32 + r
    OBVIOUS
  <2>4. TopSet(v) = 4096 + (v % 4096)
    BY WeightTable DEF TopSet, Field
  <2>5. v % 4096 = v - 12288
    <3>1. /\ v \in Int /\ 4096 \in Nat /\ 3 \in Int
          /\ v - 12288 \in 0..4096 - 1 /\ v = 3 * 4096 + (v - 12288)
      OBVIOUS
    <3>2. QED
      BY <3>1, Divided
  <2>6. 4096 + (v - 12288) = v - 8192
    OBVIOUS
  <2>7. (v - 8192) \div 32 = h - 256
    <3>1. v \in Int /\ 32 \in Nat \ {0} /\ 256 \in Int /\ 8192 \in Int /\ 8192 = 256 * 32
      OBVIOUS
    <3>2. QED
      BY <3>1, Backed
  <2> HIDE DEF h, r
  <2>8. TopSet(v) \div 32 = 128 + (h - 384)
    BY <2>3, <2>4, <2>5, <2>6, <2>7
  <2>9. QED
    BY <2>2, <2>8 DEF h
<1>6. 16384 <= v /\ v < 20480 => DistanceAt(v) = <<256 + (v \div 16 - 1024), 12>>
  <2> SUFFICES ASSUME 16384 <= v, v < 20480
               PROVE  DistanceAt(v) = <<256 + (v \div 16 - 1024), 12>>
    OBVIOUS
  <2>1. /\ ~(v < 2048) /\ ~Between(v, 2048, 3072) /\ ~Between(v, 3072, 6144)
        /\ ~Between(v, 6144, 12288) /\ ~Between(v, 12288, 16384) /\ Between(v, 16384, 20480)
        /\ ~Between(v, 20480, 24576) /\ ~Between(v, 24576, 28672)
    BY DEF Between
  <2>2. DistanceAt(v) = <<TopSet(v) \div 16, 12>>
    BY <2>1 DEF DistanceAt
  <2> DEFINE h == v \div 16
             r == v % 16
  <2>3. h \in Int /\ r \in 0..15 /\ v = h * 16 + r
    OBVIOUS
  <2>4. TopSet(v) = 4096 + (v % 4096)
    BY WeightTable DEF TopSet, Field
  <2>5. v % 4096 = v - 16384
    <3>1. /\ v \in Int /\ 4096 \in Nat /\ 4 \in Int
          /\ v - 16384 \in 0..4096 - 1 /\ v = 4 * 4096 + (v - 16384)
      OBVIOUS
    <3>2. QED
      BY <3>1, Divided
  <2>6. 4096 + (v - 16384) = v - 12288
    OBVIOUS
  <2>7. (v - 12288) \div 16 = h - 768
    <3>1. v \in Int /\ 16 \in Nat \ {0} /\ 768 \in Int /\ 12288 \in Int /\ 12288 = 768 * 16
      OBVIOUS
    <3>2. QED
      BY <3>1, Backed
  <2> HIDE DEF h, r
  <2>8. TopSet(v) \div 16 = 256 + (h - 1024)
    BY <2>3, <2>4, <2>5, <2>6, <2>7
  <2>9. QED
    BY <2>2, <2>8 DEF h
<1>7. 20480 <= v /\ v < 24576 => DistanceAt(v) = <<512 + (v \div 8 - 2560), 13>>
  <2> SUFFICES ASSUME 20480 <= v, v < 24576
               PROVE  DistanceAt(v) = <<512 + (v \div 8 - 2560), 13>>
    OBVIOUS
  <2>1. /\ ~(v < 2048) /\ ~Between(v, 2048, 3072) /\ ~Between(v, 3072, 6144)
        /\ ~Between(v, 6144, 12288) /\ ~Between(v, 12288, 16384) /\ ~Between(v, 16384, 20480)
        /\ Between(v, 20480, 24576) /\ ~Between(v, 24576, 28672)
    BY DEF Between
  <2>2. DistanceAt(v) = <<TopSet(v) \div 8, 13>>
    BY <2>1 DEF DistanceAt
  <2> DEFINE h == v \div 8
             r == v % 8
  <2>3. h \in Int /\ r \in 0..7 /\ v = h * 8 + r
    OBVIOUS
  <2>4. TopSet(v) = 4096 + (v % 4096)
    BY WeightTable DEF TopSet, Field
  <2>5. v % 4096 = v - 20480
    <3>1. /\ v \in Int /\ 4096 \in Nat /\ 5 \in Int
          /\ v - 20480 \in 0..4096 - 1 /\ v = 5 * 4096 + (v - 20480)
      OBVIOUS
    <3>2. QED
      BY <3>1, Divided
  <2>6. 4096 + (v - 20480) = v - 16384
    OBVIOUS
  <2>7. (v - 16384) \div 8 = h - 2048
    <3>1. v \in Int /\ 8 \in Nat \ {0} /\ 2048 \in Int /\ 16384 \in Int /\ 16384 = 2048 * 8
      OBVIOUS
    <3>2. QED
      BY <3>1, Backed
  <2> HIDE DEF h, r
  <2>8. TopSet(v) \div 8 = 512 + (h - 2560)
    BY <2>3, <2>4, <2>5, <2>6, <2>7
  <2>9. QED
    BY <2>2, <2>8 DEF h
<1>8. 24576 <= v /\ v < 28672 => DistanceAt(v) = <<1024 + (v \div 4 - 6144), 14>>
  <2> SUFFICES ASSUME 24576 <= v, v < 28672
               PROVE  DistanceAt(v) = <<1024 + (v \div 4 - 6144), 14>>
    OBVIOUS
  <2>1. /\ ~(v < 2048) /\ ~Between(v, 2048, 3072) /\ ~Between(v, 3072, 6144)
        /\ ~Between(v, 6144, 12288) /\ ~Between(v, 12288, 16384) /\ ~Between(v, 16384, 20480)
        /\ ~Between(v, 20480, 24576) /\ Between(v, 24576, 28672)
    BY DEF Between
  <2>2. DistanceAt(v) = <<TopSet(v) \div 4, 14>>
    BY <2>1 DEF DistanceAt
  <2> DEFINE h == v \div 4
             r == v % 4
  <2>3. h \in Int /\ r \in 0..3 /\ v = h * 4 + r
    OBVIOUS
  <2>4. TopSet(v) = 4096 + (v % 4096)
    BY WeightTable DEF TopSet, Field
  <2>5. v % 4096 = v - 24576
    <3>1. /\ v \in Int /\ 4096 \in Nat /\ 6 \in Int
          /\ v - 24576 \in 0..4096 - 1 /\ v = 6 * 4096 + (v - 24576)
      OBVIOUS
    <3>2. QED
      BY <3>1, Divided
  <2>6. 4096 + (v - 24576) = v - 20480
    OBVIOUS
  <2>7. (v - 20480) \div 4 = h - 5120
    <3>1. v \in Int /\ 4 \in Nat \ {0} /\ 5120 \in Int /\ 20480 \in Int /\ 20480 = 5120 * 4
      OBVIOUS
    <3>2. QED
      BY <3>1, Backed
  <2> HIDE DEF h, r
  <2>8. TopSet(v) \div 4 = 1024 + (h - 6144)
    BY <2>3, <2>4, <2>5, <2>6, <2>7
  <2>9. QED
    BY <2>2, <2>8 DEF h
<1>9. 28672 <= v /\ v < 32768 => DistanceAt(v) = <<2048 + (v \div 2 - 14336), 15>>
  <2> SUFFICES ASSUME 28672 <= v, v < 32768
               PROVE  DistanceAt(v) = <<2048 + (v \div 2 - 14336), 15>>
    OBVIOUS
  <2>1. /\ ~(v < 2048) /\ ~Between(v, 2048, 3072) /\ ~Between(v, 3072, 6144)
        /\ ~Between(v, 6144, 12288) /\ ~Between(v, 12288, 16384) /\ ~Between(v, 16384, 20480)
        /\ ~Between(v, 20480, 24576) /\ ~Between(v, 24576, 28672)
    BY DEF Between
  <2>2. DistanceAt(v) = <<TopSet(v) \div 2, 15>>
    BY <2>1 DEF DistanceAt
  <2> DEFINE h == v \div 2
             r == v % 2
  <2>3. h \in Int /\ r \in 0..1 /\ v = h * 2 + r
    OBVIOUS
  <2>4. TopSet(v) = 4096 + (v % 4096)
    BY WeightTable DEF TopSet, Field
  <2>5. v % 4096 = v - 28672
    <3>1. /\ v \in Int /\ 4096 \in Nat /\ 7 \in Int
          /\ v - 28672 \in 0..4096 - 1 /\ v = 7 * 4096 + (v - 28672)
      OBVIOUS
    <3>2. QED
      BY <3>1, Divided
  <2>6. 4096 + (v - 28672) = v - 24576
    OBVIOUS
  <2>7. (v - 24576) \div 2 = h - 12288
    <3>1. v \in Int /\ 2 \in Nat \ {0} /\ 12288 \in Int /\ 24576 \in Int /\ 24576 = 12288 * 2
      OBVIOUS
    <3>2. QED
      BY <3>1, Backed
  <2> HIDE DEF h, r
  <2>8. TopSet(v) \div 2 = 2048 + (h - 14336)
    BY <2>3, <2>4, <2>5, <2>6, <2>7
  <2>9. QED
    BY <2>2, <2>8 DEF h
<1>10. QED
  BY <1>1, <1>2, <1>3, <1>4, <1>5, <1>6, <1>7, <1>8, <1>9

\* In a class the table's distance is the code's.
LEMMA DistanceInClass ==
  ASSUME NEW v \in Nat, v < 32768, NEW t \in Seq(Binary01), NEW c \in Code!Classes, Takes(c, v),
         DistanceAt(v) = <<c.base + (v \div Weight[15 - c.bits] - c.first), c.bits + 1>>
  PROVE  LET code == Code!DistanceCode(Then(BitsOf(v, 15), t))
         IN  DistanceAt(v) = <<code.value, code.used + 1>>
<1> DEFINE code == Code!DistanceCode(Then(BitsOf(v, 15), t))
<1>1. code = [value |-> c.base + (v \div Weight[15 - c.bits] - c.first), used |-> c.bits]
  BY DistanceOfClass
<1> HIDE DEF code
<1>2. DistanceAt(v) = <<code.value, code.used + 1>>
  BY <1>1
<1>3. QED
  BY <1>2 DEF code

\* The distance that the table gives is the code's.
LEMMA DistanceIsCode ==
  ASSUME NEW v \in Nat, v < 32768, NEW t \in Seq(Binary01)
  PROVE  LET code == Code!DistanceCode(Then(BitsOf(v, 15), t))
         IN  DistanceAt(v) = <<code.value, code.used + 1>>
<1> DEFINE code == Code!DistanceCode(Then(BitsOf(v, 15), t))
           Right == DistanceAt(v) = <<code.value, code.used + 1>>
           Places(c) == <<c.base + (v \div Weight[15 - c.bits] - c.first), c.bits + 1>>
<1> SUFFICES Right
  OBVIOUS
<1>1. ASSUME NEW c \in Code!Classes, Takes(c, v), DistanceAt(v) = Places(c)
      PROVE  Right
  BY <1>1, DistanceInClass
<1> HIDE DEF Right
<1>2. CASE 0 <= v /\ v < 2048
  <2> DEFINE c == C(6, 0, 0, 4)
  <2>1. c \in Code!Classes /\ Takes(c, v)
    BY <1>2, TheClasses, ClassTable
  <2>2. c.base = 0 /\ c.bits = 6 /\ c.first = 0 /\ Weight[15 - 6] = 512
    BY WeightTable DEF C
  <2>3. DistanceAt(v) = <<0 + (v \div 512 - 0), 7>>
    BY <1>2, DistanceRanges
  <2> HIDE DEF c
  <2>4. Places(c) = <<0 + (v \div 512 - 0), 7>>
    BY <2>2
  <2> HIDE DEF Places
  <2>5. QED
    BY <1>1, <2>1, <2>3, <2>4
<1>3. CASE 2048 <= v /\ v < 3072
  <2> DEFINE c == C(7, 8, 4, 4)
  <2>1. c \in Code!Classes /\ Takes(c, v)
    BY <1>3, TheClasses, ClassTable
  <2>2. c.base = 4 /\ c.bits = 7 /\ c.first = 8 /\ Weight[15 - 7] = 256
    BY WeightTable DEF C
  <2>3. DistanceAt(v) = <<4 + (v \div 256 - 8), 8>>
    BY <1>3, DistanceRanges
  <2> HIDE DEF c
  <2>4. Places(c) = <<4 + (v \div 256 - 8), 8>>
    BY <2>2
  <2> HIDE DEF Places
  <2>5. QED
    BY <1>1, <2>1, <2>3, <2>4
<1>4. CASE 3072 <= v /\ v < 6144
  <2> DEFINE c == C(8, 24, 8, 24)
  <2>1. c \in Code!Classes /\ Takes(c, v)
    BY <1>4, TheClasses, ClassTable
  <2>2. c.base = 8 /\ c.bits = 8 /\ c.first = 24 /\ Weight[15 - 8] = 128
    BY WeightTable DEF C
  <2>3. DistanceAt(v) = <<8 + (v \div 128 - 24), 9>>
    BY <1>4, DistanceRanges
  <2> HIDE DEF c
  <2>4. Places(c) = <<8 + (v \div 128 - 24), 9>>
    BY <2>2
  <2> HIDE DEF Places
  <2>5. QED
    BY <1>1, <2>1, <2>3, <2>4
<1>5. CASE 6144 <= v /\ v < 12288
  <2> DEFINE c == C(9, 96, 32, 96)
  <2>1. c \in Code!Classes /\ Takes(c, v)
    BY <1>5, TheClasses, ClassTable
  <2>2. c.base = 32 /\ c.bits = 9 /\ c.first = 96 /\ Weight[15 - 9] = 64
    BY WeightTable DEF C
  <2>3. DistanceAt(v) = <<32 + (v \div 64 - 96), 10>>
    BY <1>5, DistanceRanges
  <2> HIDE DEF c
  <2>4. Places(c) = <<32 + (v \div 64 - 96), 10>>
    BY <2>2
  <2> HIDE DEF Places
  <2>5. QED
    BY <1>1, <2>1, <2>3, <2>4
<1>6. CASE 12288 <= v /\ v < 16384
  <2> DEFINE c == C(10, 384, 128, 128)
  <2>1. c \in Code!Classes /\ Takes(c, v)
    BY <1>6, TheClasses, ClassTable
  <2>2. c.base = 128 /\ c.bits = 10 /\ c.first = 384 /\ Weight[15 - 10] = 32
    BY WeightTable DEF C
  <2>3. DistanceAt(v) = <<128 + (v \div 32 - 384), 11>>
    BY <1>6, DistanceRanges
  <2> HIDE DEF c
  <2>4. Places(c) = <<128 + (v \div 32 - 384), 11>>
    BY <2>2
  <2> HIDE DEF Places
  <2>5. QED
    BY <1>1, <2>1, <2>3, <2>4
<1>7. CASE 16384 <= v /\ v < 20480
  <2> DEFINE c == C(11, 1024, 256, 256)
  <2>1. c \in Code!Classes /\ Takes(c, v)
    BY <1>7, TheClasses, ClassTable
  <2>2. c.base = 256 /\ c.bits = 11 /\ c.first = 1024 /\ Weight[15 - 11] = 16
    BY WeightTable DEF C
  <2>3. DistanceAt(v) = <<256 + (v \div 16 - 1024), 12>>
    BY <1>7, DistanceRanges
  <2> HIDE DEF c
  <2>4. Places(c) = <<256 + (v \div 16 - 1024), 12>>
    BY <2>2
  <2> HIDE DEF Places
  <2>5. QED
    BY <1>1, <2>1, <2>3, <2>4
<1>8. CASE 20480 <= v /\ v < 24576
  <2> DEFINE c == C(12, 2560, 512, 512)
  <2>1. c \in Code!Classes /\ Takes(c, v)
    BY <1>8, TheClasses, ClassTable
  <2>2. c.base = 512 /\ c.bits = 12 /\ c.first = 2560 /\ Weight[15 - 12] = 8
    BY WeightTable DEF C
  <2>3. DistanceAt(v) = <<512 + (v \div 8 - 2560), 13>>
    BY <1>8, DistanceRanges
  <2> HIDE DEF c
  <2>4. Places(c) = <<512 + (v \div 8 - 2560), 13>>
    BY <2>2
  <2> HIDE DEF Places
  <2>5. QED
    BY <1>1, <2>1, <2>3, <2>4
<1>9. CASE 24576 <= v /\ v < 28672
  <2> DEFINE c == C(13, 6144, 1024, 1024)
  <2>1. c \in Code!Classes /\ Takes(c, v)
    BY <1>9, TheClasses, ClassTable
  <2>2. c.base = 1024 /\ c.bits = 13 /\ c.first = 6144 /\ Weight[15 - 13] = 4
    BY WeightTable DEF C
  <2>3. DistanceAt(v) = <<1024 + (v \div 4 - 6144), 14>>
    BY <1>9, DistanceRanges
  <2> HIDE DEF c
  <2>4. Places(c) = <<1024 + (v \div 4 - 6144), 14>>
    BY <2>2
  <2> HIDE DEF Places
  <2>5. QED
    BY <1>1, <2>1, <2>3, <2>4
<1>10. CASE 28672 <= v /\ v < 32768
  <2> DEFINE c == C(14, 14336, 2048, 2048)
  <2>1. c \in Code!Classes /\ Takes(c, v)
    BY <1>10, TheClasses, ClassTable
  <2>2. c.base = 2048 /\ c.bits = 14 /\ c.first = 14336 /\ Weight[15 - 14] = 2
    BY WeightTable DEF C
  <2>3. DistanceAt(v) = <<2048 + (v \div 2 - 14336), 15>>
    BY <1>10, DistanceRanges
  <2> HIDE DEF c
  <2>4. Places(c) = <<2048 + (v \div 2 - 14336), 15>>
    BY <2>2
  <2> HIDE DEF Places
  <2>5. QED
    BY <1>1, <2>1, <2>3, <2>4
<1>11. QED
  BY <1>2, <1>3, <1>4, <1>5, <1>6, <1>7, <1>8, <1>9, <1>10

----------------------------------------------------------------------------
\* A reader, and the queue of bits that it holds.
Rd(u, rest, a, x) == [w |-> u, word |-> rest, avail |-> a, took |-> x]
Queue(u, rest, a) == Then(BitsOf(u, 16), BitsOf(rest, a))

\* A pair of bytes of the stream is a word.
LEMMA PairIsWord ==
  ASSUME NEW pair \in BitWords
  PROVE  pair # <<>> /\ WordOf(pair) \in Words /\ pair \in Seq(Int)
<1>1. pair \in (0..255) \X (0..255)
  BY StreamAssumption
<1>2. pair = <<pair[1], pair[2]>> /\ pair[1] \in 0..255 /\ pair[2] \in 0..255
  BY <1>1
<1>3. PICK a \in Nat : a = pair[1] /\ a < 256
  BY <1>2
<1>4. PICK b \in Nat : b = pair[2] /\ b < 256
  BY <1>2
<1>5. pair = <<a, b>>
  BY <1>2, <1>3, <1>4, Zenon
<1>6. b * 256 + a \in Words
  BY <1>3, <1>4 DEF Words
<1>7. WordOf(pair) \in Words
  BY <1>3, <1>4, <1>6 DEF WordOf
<1>8. <<a, b>> # <<>> /\ <<a, b>> \in Seq(Int)
  OBVIOUS
<1>9. QED
  BY <1>5, <1>7, <1>8

\* What a word is, without its set.
LEMMA WordsAreNumbers ==
  ASSUME NEW w \in Words
  PROVE  w \in Nat /\ w \in Int /\ w < 65536
BY DEF Words

\* lz_read_bits with enough bits left.
LEMMA ShortRead ==
  ASSUME NEW w \in Words, NEW rest \in Words, NEW a \in Nat, NEW n \in Nat, n <= a, n <= 16, NEW x
  PROVE  \E u \in Words :
           /\ ReadBits(Rd(w, rest, a, x), n, <<>>) = Rd(u, rest, a - n, x \o <<>>)
           /\ Queue(u, rest, a - n) = Then(BitsOf(w, 16 - n), BitsOf(rest, a))
<1> DEFINE u == ReadsWithin(w, rest, a - n, n)
<1>1. w \in Int /\ rest \in Int /\ a - n \in Nat /\ 16 - n \in Nat
  BY WordsAreNumbers
<1>2. PICK left \in Nat, c \in Nat : left = a - n /\ c = 16 - n /\ n + c = 16 /\ n + left = a
  BY <1>1
<1>3. /\ ReadsWithin(w, rest, left, n) \in Nat /\ ReadsWithin(w, rest, left, n) < 65536
      /\ Then(BitsOf(ReadsWithin(w, rest, left, n), 16), BitsOf(rest, left))
           = Then(BitsOf(w, c), BitsOf(rest, n + left))
  BY <1>1, <1>2, ReadWithin
<1>4. Field(w * Weight[n], 0, 16) \in Int
  <2>1. Weight[n] \in Int
    BY WeightDoubles
  <2> DEFINE y == w * Weight[n]
  <2>2. y \in Int
    BY <1>1, <2>1
  <2> HIDE DEF y
  <2>3. 0 \in Nat /\ 16 \in Nat
    OBVIOUS
  <2>4. Field(y, 0, 16) = y % Weight[16]
    BY <2>2, <2>3, Fields
  <2>5. y % Weight[16] \in Nat
    BY <2>2, <2>3, Shifts
  <2>6. QED
    BY <2>4, <2>5 DEF y
<1>5. ReadBits(Rd(w, rest, a, x), n, <<>>)
        = [w |-> Field(w * Weight[n], 0, 16) + 0 + Field(rest, a - n, n),
           word |-> rest, avail |-> a - n, took |-> x \o <<>>]
  BY DEF ReadBits, Rd
<1>6. Field(w * Weight[n], 0, 16) + 0 + Field(rest, a - n, n) = u
  BY <1>4 DEF ReadsWithin
<1>7. u \in Words /\ Queue(u, rest, a - n) = Then(BitsOf(w, 16 - n), BitsOf(rest, a))
  <2>1. u \in Nat /\ u < 65536
    BY <1>2, <1>3
  <2>2. Then(BitsOf(u, 16), BitsOf(rest, a - n)) = Then(BitsOf(w, 16 - n), BitsOf(rest, a))
    BY <1>2, <1>3
  <2> HIDE DEF u
  <2>3. QED
    BY <2>1, <2>2 DEF Words, Queue
<1>8. ReadBits(Rd(w, rest, a, x), n, <<>>) = Rd(u, rest, a - n, x \o <<>>)
  BY <1>5, <1>6 DEF Rd
<1> HIDE DEF u
<1>9. QED
  BY <1>7, <1>8

\* And when a word has to be fetched.
LEMMA LongRead ==
  ASSUME NEW w \in Words, NEW rest \in Words, NEW a \in Nat, NEW n \in Nat, a < n, n <= 16, NEW x,
         NEW pair \in BitWords
  PROVE  \E u \in Words :
           /\ ReadBits(Rd(w, rest, a, x), n, pair) = Rd(u, WordOf(pair), 16 - (n - a), x \o pair)
           /\ Queue(u, WordOf(pair), 16 - (n - a))
                = Then(Then(BitsOf(w, 16 - n), BitsOf(rest, a)), BitsOf(WordOf(pair), 16))
<1> DEFINE v == WordOf(pair)
           u == ReadsAcross(w, rest, a, v, n, n - a, 16 - (n - a))
<1>1. w \in Int /\ rest \in Int /\ v \in Int /\ pair # <<>>
  BY WordsAreNumbers, PairIsWord
<1>2. PICK m \in Nat, k \in Nat, c \in Nat :
        /\ m = n - a /\ k = 16 - (n - a) /\ c = 16 - n
        /\ n + c = 16 /\ a + m = n /\ m + k = 16
  <2>1. n - a \in Nat /\ 16 - (n - a) \in Nat /\ 16 - n \in Nat
    OBVIOUS
  <2>2. QED
    BY <2>1
<1>3. ReadBits(Rd(w, rest, a, x), n, pair)
        = [w |-> Field(w * Weight[n], 0, 16) + Field(rest, 0, a) * Weight[n - a]
                   + Field(v, 16 - (n - a), n - a),
           word |-> v, avail |-> 16 - (n - a), took |-> x \o pair]
  BY <1>1 DEF ReadBits, Rd
<1>4. ReadBits(Rd(w, rest, a, x), n, pair) = Rd(u, v, 16 - (n - a), x \o pair)
  BY <1>3 DEF Rd, ReadsAcross
<1> HIDE DEF v
<1>5. /\ ReadsAcross(w, rest, a, v, n, m, k) \in Nat /\ ReadsAcross(w, rest, a, v, n, m, k) < 65536
      /\ Then(BitsOf(ReadsAcross(w, rest, a, v, n, m, k), 16), BitsOf(v, k))
           = Then(Then(BitsOf(w, c), BitsOf(rest, a)), BitsOf(v, 16))
  BY <1>1, <1>2, ReadAcross
<1>6. u \in Nat /\ u < 65536
  BY <1>2, <1>5
<1>7. Queue(u, v, 16 - (n - a))
        = Then(Then(BitsOf(w, 16 - n), BitsOf(rest, a)), BitsOf(v, 16))
  BY <1>2, <1>5 DEF Queue
<1> HIDE DEF u
<1>8. u \in Words
  BY <1>6 DEF Words
<1>9. QED
  BY <1>4, <1>7, <1>8 DEF v

\* What the code does with a row and what follows it: it drops, and takes a word if
\* fewer than sixteen bits would be left.
LEMMA CodeDrops ==
  ASSUME NEW v \in Int, NEW n \in Nat, NEW t \in Seq(Binary01), NEW d \in Nat, d <= n
  PROVE  /\ Code!After(Then(BitsOf(v, n), t), d, <<>>) = Then(BitsOf(v, n - d), t)
         /\ \A pair \in BitWords : Code!After(Then(BitsOf(v, n), t), d, pair)
              = Then(Then(BitsOf(v, n - d), t), BitsOf(WordOf(pair), 16))
         /\ Code!Supply(Then(BitsOf(v, n), t), d) =
              IF n + Len(t) - d < 16 THEN BitWords ELSE {<<>>}
<1> DEFINE q == Then(BitsOf(v, n), t)
           p == Then(BitsOf(v, n - d), t)
<1>1. Len(q) = n + Len(t)
  <2> DEFINE s == BitsOf(v, n)
  <2>1. s \in Seq(Binary01) /\ Len(s) = n
    BY BitsAreBits
  <2> HIDE DEF s
  <2>2. Len(s \o t) = Len(s) + Len(t)
    BY <2>1, ConcatProperties
  <2>3. QED
    BY <2>1, <2>2 DEF s, Then
<1>2. SubSeq(q, d + 1, n + Len(t)) = p
  <2>1. d \in 0..n
    OBVIOUS
  <2>2. QED
    BY <2>1, Dropped DEF Then
<1>3. p \in Seq(Binary01)
  <2> DEFINE s == BitsOf(v, n - d)
  <2>1. n - d \in Nat
    OBVIOUS
  <2>2. s \in Seq(Binary01)
    BY <2>1, BitsAreBits
  <2> HIDE DEF s
  <2>3. s \o t \in Seq(Binary01)
    BY <2>2, ConcatProperties
  <2>4. QED
    BY <2>3 DEF s, Then
<1>4. Code!Supply(q, d) = IF n + Len(t) - d < 16 THEN BitWords ELSE {<<>>}
  BY <1>1 DEF Code!Supply
<1> HIDE DEF p, q
<1>5. Code!After(q, d, <<>>) = p
  <2>1. Code!After(q, d, <<>>) = p \o <<>>
    BY <1>1, <1>2 DEF Code!After
  <2>2. QED
    BY <1>3, <2>1, ConcatEmptySeq
<1>6. ASSUME NEW pair \in BitWords
      PROVE  Code!After(q, d, pair) = Then(p, BitsOf(WordOf(pair), 16))
  <2>1. pair # <<>> /\ WordOf(pair) \in Int
    BY PairIsWord, WordsAreNumbers
  <2>2. Code!WordOf(pair) = WordOf(pair)
    BY DEF Code!WordOf, WordOf
  <2>3. Code!Bits(WordOf(pair), 16) = BitsOf(WordOf(pair), 16)
    BY <2>1, BitsAreCode
  <2>4. Code!After(q, d, pair) = p \o Code!Bits(Code!WordOf(pair), 16)
    BY <1>1, <1>2, <2>1 DEF Code!After
  <2>5. QED
    BY <2>2, <2>3, <2>4 DEF Then
<1>7. QED
  BY <1>4, <1>5, <1>6 DEF p, q

----------------------------------------------------------------------------
\* A queue without its first n bits, and the bits of a word, or of none.
Drop(q, n) == SubSeq(q, n + 1, Len(q))
Refill(pair) == IF pair = <<>> THEN <<>> ELSE BitsOf(WordOf(pair), 16)
Queues == Seq(Binary01)

\* Two queues that agree place by place are one.
LEMMA SameQueue ==
  ASSUME NEW p \in Queues, NEW q \in Queues, Len(p) = Len(q), \A k \in 1..Len(p) : p[k] = q[k]
  PROVE  p = q
BY SeqEqual DEF Queues

\* What joining does place by place.
LEMMA ThenTypes ==
  ASSUME NEW p \in Queues, NEW q \in Queues
  PROVE  /\ Then(p, q) \in Queues /\ Len(Then(p, q)) = Len(p) + Len(q)
         /\ \A k \in 1..Len(p) + Len(q) :
              Then(p, q)[k] = IF k <= Len(p) THEN p[k] ELSE q[k - Len(p)]
BY ConcatProperties DEF Then, Queues

\* What dropping does place by place.
LEMMA DropTypes ==
  ASSUME NEW q \in Queues, NEW n \in Nat, n <= Len(q)
  PROVE  /\ Drop(q, n) \in Queues /\ Len(Drop(q, n)) = Len(q) - n
         /\ \A k \in 1..Len(q) - n : Drop(q, n)[k] = q[n + k]
<1>1. Len(q) \in Nat /\ q \in Seq(Binary01)
  BY DEF Queues
<1>2. n + 1 \in 1..Len(q) + 1 /\ Len(q) \in (n + 1) - 1..Len(q) /\ Len(q) - (n + 1) + 1 = Len(q) - n
  BY <1>1
<1>3. /\ SubSeq(q, n + 1, Len(q)) \in Seq(Binary01)
      /\ Len(SubSeq(q, n + 1, Len(q))) = Len(q) - (n + 1) + 1
      /\ \A k \in 1..Len(q) - (n + 1) + 1 : SubSeq(q, n + 1, Len(q))[k] = q[(n + 1) + k - 1]
  BY <1>1, <1>2, Piece
<1>4. \A k \in 1..Len(q) - n : (n + 1) + k - 1 = n + k
  BY <1>1
<1>5. QED
  BY <1>2, <1>3, <1>4 DEF Drop, Queues

\* Dropping twice.
LEMMA DropDrop ==
  ASSUME NEW q \in Queues, NEW m \in Nat, NEW n \in Nat, NEW k, m + n = k, k <= Len(q)
  PROVE  Drop(Drop(q, m), n) = Drop(q, k)
<1>1. Len(q) \in Nat /\ k \in Nat /\ m <= Len(q) /\ n <= Len(q) - m
  BY DEF Queues
<1>2. /\ Drop(q, m) \in Queues /\ Len(Drop(q, m)) = Len(q) - m
      /\ \A i \in 1..Len(q) - m : Drop(q, m)[i] = q[m + i]
  BY <1>1, DropTypes
<1>3. /\ Drop(q, k) \in Queues /\ Len(Drop(q, k)) = Len(q) - k
      /\ \A i \in 1..Len(q) - k : Drop(q, k)[i] = q[k + i]
  BY <1>1, DropTypes
<1> DEFINE p == Drop(q, m)
<1>4. /\ Drop(p, n) \in Queues /\ Len(Drop(p, n)) = Len(p) - n
      /\ \A i \in 1..Len(p) - n : Drop(p, n)[i] = p[n + i]
  BY <1>1, <1>2, DropTypes
<1>5. Len(p) - n = Len(q) - k
  <2>1. Len(p) = Len(q) - m
    BY <1>2
  <2> HIDE DEF p
  <2>2. (Len(q) - m) - n = Len(q) - k
    BY <1>1
  <2>3. QED
    BY <2>1, <2>2
<1>6. ASSUME NEW i \in 1..Len(q) - k
      PROVE  Drop(p, n)[i] = Drop(q, k)[i]
  <2>1. n + i \in 1..Len(q) - m /\ m + (n + i) = k + i
    BY <1>1
  <2>2. p[n + i] = q[m + (n + i)]
    BY <1>2, <2>1
  <2>3. Drop(p, n)[i] = p[n + i]
    BY <1>4, <1>5, Zenon
  <2>4. Drop(q, k)[i] = q[k + i]
    BY <1>3, Zenon
  <2>5. QED
    BY <2>1, <2>2, <2>3, <2>4, Zenon
<1> HIDE DEF p
<1>7. Drop(p, n) = Drop(q, k)
  BY <1>3, <1>4, <1>5, <1>6, SameQueue
<1>8. QED
  BY <1>7 DEF p

\* Dropping from the first of two.
LEMMA DropThen ==
  ASSUME NEW q \in Queues, NEW t \in Queues, NEW n \in Nat, n <= Len(q)
  PROVE  Drop(Then(q, t), n) = Then(Drop(q, n), t)
<1> DEFINE a == Then(q, t)
           b == Drop(q, n)
<1>1. Len(q) \in Nat /\ Len(t) \in Nat
  BY DEF Queues
<1>2. /\ a \in Queues /\ Len(a) = Len(q) + Len(t)
      /\ \A k \in 1..Len(q) + Len(t) : a[k] = IF k <= Len(q) THEN q[k] ELSE t[k - Len(q)]
  BY ThenTypes
<1>3. /\ b \in Queues /\ Len(b) = Len(q) - n /\ \A k \in 1..Len(q) - n : b[k] = q[n + k]
  BY DropTypes
<1> HIDE DEF a, b
<1>4. /\ Drop(a, n) \in Queues /\ Len(Drop(a, n)) = Len(a) - n
      /\ \A k \in 1..Len(a) - n : Drop(a, n)[k] = a[n + k]
  <2>1. n <= Len(a)
    BY <1>1, <1>2
  <2>2. QED
    BY <1>2, <2>1, DropTypes
<1>5. /\ Then(b, t) \in Queues /\ Len(Then(b, t)) = Len(b) + Len(t)
      /\ \A k \in 1..Len(b) + Len(t) : Then(b, t)[k] =
           IF k <= Len(b) THEN b[k] ELSE t[k - Len(b)]
  BY <1>3, ThenTypes
<1>6. Len(a) - n = Len(b) + Len(t)
  BY <1>1, <1>2, <1>3
<1>7. ASSUME NEW k \in 1..Len(b) + Len(t)
      PROVE  Drop(a, n)[k] = Then(b, t)[k]
  <2>1. Drop(a, n)[k] = a[n + k]
    BY <1>4, <1>6
  <2>2. n + k \in 1..Len(q) + Len(t)
    BY <1>1, <1>3
  <2>3. CASE k <= Len(b)
    <3>1. n + k <= Len(q) /\ k \in 1..Len(q) - n
      BY <1>1, <1>3, <2>3
    <3>2. a[n + k] = q[n + k] /\ b[k] = q[n + k] /\ Then(b, t)[k] = b[k]
      BY <1>2, <1>3, <1>5, <2>2, <2>3, <3>1
    <3>3. QED
      BY <2>1, <3>2
  <2>4. CASE ~(k <= Len(b))
    <3>1. ~(n + k <= Len(q)) /\ (n + k) - Len(q) = k - Len(b)
      BY <1>1, <1>3, <2>4
    <3>2. a[n + k] = t[(n + k) - Len(q)]
      BY <1>2, <2>2, <3>1
    <3>3. Then(b, t)[k] = t[k - Len(b)]
      BY <1>5, <2>4
    <3>4. QED
      BY <2>1, <3>1, <3>2, <3>3
  <2>5. QED
    BY <2>3, <2>4
<1>8. Drop(a, n) = Then(b, t)
  BY <1>4, <1>5, <1>6, <1>7, SameQueue
<1>9. QED
  BY <1>8 DEF a, b

\* Nothing joined, nothing dropped.
LEMMA ThenNothing ==
  ASSUME NEW q \in Queues
  PROVE  Then(q, <<>>) = q /\ Then(<<>>, q) = q /\ Drop(q, 0) = q
<1>1. Then(q, <<>>) = q /\ Then(<<>>, q) = q
  BY ConcatEmptySeq DEF Then, Queues
<1>2. Drop(q, 0) = q
  <2>1. Len(q) \in Nat
    BY DEF Queues
  <2>2. /\ Drop(q, 0) \in Queues /\ Len(Drop(q, 0)) = Len(q) - 0
        /\ \A k \in 1..Len(q) - 0 : Drop(q, 0)[k] = q[0 + k]
    BY <2>1, DropTypes
  <2>3. Len(q) - 0 = Len(q) /\ \A k \in 1..Len(q) : 0 + k = k
    BY <2>1
  <2>4. QED
    BY <2>2, <2>3, SameQueue
<1>3. QED
  BY <1>1, <1>2

\* The rows that are queues.
LEMMA RowQueue ==
  ASSUME NEW v \in Int, NEW n \in Nat
  PROVE  BitsOf(v, n) \in Queues /\ Len(BitsOf(v, n)) = n
BY BitsAreBits DEF Queues

\* What a word refills.
LEMMA RefillQueue ==
  /\ Refill(<<>>) = <<>> /\ Refill(<<>>) \in Queues /\ Len(Refill(<<>>)) = 0
  /\ \A pair \in BitWords : Refill(pair) \in Queues /\ Len(Refill(pair)) = 16
<1>1. Refill(<<>>) = <<>> /\ Refill(<<>>) \in Queues /\ Len(Refill(<<>>)) = 0
  BY DEF Refill, Queues
<1>2. ASSUME NEW pair \in BitWords
      PROVE  Refill(pair) \in Queues /\ Len(Refill(pair)) = 16
  <2>1. pair # <<>> /\ WordOf(pair) \in Int
    BY PairIsWord, WordsAreNumbers
  <2>2. BitsOf(WordOf(pair), 16) \in Queues /\ Len(BitsOf(WordOf(pair), 16)) = 16
    BY <2>1, RowQueue
  <2>3. QED
    BY <2>1, <2>2 DEF Refill
<1>3. QED
  BY <1>1, <1>2

\* What the code does with a queue, in these terms.
LEMMA CodeReads ==
  ASSUME NEW q \in Queues, NEW n \in Nat, n <= Len(q)
  PROVE  /\ \A pair \in BitWords \cup {<<>>} : Code!After(q, n, pair) = Then(Drop(q, n), Refill(pair))
         /\ Code!Supply(q, n) = IF Len(q) - n < 16 THEN BitWords ELSE {<<>>}
<1>1. ASSUME NEW pair \in BitWords \cup {<<>>}
      PROVE  Code!After(q, n, pair) = Then(Drop(q, n), Refill(pair))
  <2>1. CASE pair = <<>>
    BY <2>1 DEF Code!After, Then, Drop, Refill
  <2>2. CASE pair # <<>>
    <3>1. pair \in BitWords /\ WordOf(pair) \in Int
      BY <2>2, PairIsWord, WordsAreNumbers
    <3>2. Code!WordOf(pair) = WordOf(pair)
      BY DEF Code!WordOf, WordOf
    <3>3. Code!Bits(WordOf(pair), 16) = BitsOf(WordOf(pair), 16)
      BY <3>1, BitsAreCode
    <3>4. QED
      BY <2>2, <3>2, <3>3 DEF Code!After, Then, Drop, Refill
  <2>3. QED
    BY <2>1, <2>2
<1>2. Code!Supply(q, n) = IF Len(q) - n < 16 THEN BitWords ELSE {<<>>}
  BY DEF Code!Supply
<1>3. QED
  BY <1>1, <1>2

\* A reader's queue.
LEMMA QueueIsQueue ==
  ASSUME NEW w \in Words, NEW rest \in Words, NEW a \in Nat
  PROVE  Queue(w, rest, a) \in Queues /\ Len(Queue(w, rest, a)) = 16 + a
<1>1. w \in Int /\ rest \in Int /\ 16 \in Nat
  BY WordsAreNumbers
<1>2. /\ BitsOf(w, 16) \in Queues /\ Len(BitsOf(w, 16)) = 16
      /\ BitsOf(rest, a) \in Queues /\ Len(BitsOf(rest, a)) = a
  BY <1>1, RowQueue
<1>3. /\ Then(BitsOf(w, 16), BitsOf(rest, a)) \in Queues
      /\ Len(Then(BitsOf(w, 16), BitsOf(rest, a))) = 16 + a
  <2> DEFINE p == BitsOf(w, 16)
             q == BitsOf(rest, a)
  <2>1. p \in Queues /\ q \in Queues /\ Len(p) = 16 /\ Len(q) = a
    BY <1>2
  <2> HIDE DEF p, q
  <2>2. Then(p, q) \in Queues /\ Len(Then(p, q)) = Len(p) + Len(q)
    BY <2>1, ThenTypes
  <2>3. QED
    BY <2>1, <2>2 DEF p, q
<1>4. QED
  BY <1>3 DEF Queue

\* Dropping from a reader's queue drops from the window.
LEMMA QueueDrops ==
  ASSUME NEW w \in Words, NEW rest \in Words, NEW a \in Nat, NEW n \in Nat, n <= 16
  PROVE  Drop(Queue(w, rest, a), n) = Then(BitsOf(w, 16 - n), BitsOf(rest, a))
<1> DEFINE q == Queue(w, rest, a)
           t == BitsOf(rest, a)
<1>1. w \in Int /\ rest \in Int /\ 16 \in Nat /\ 16 - n \in Nat
  BY WordsAreNumbers
<1>2. t \in Queues /\ t \in Seq(Binary01)
  BY <1>1, RowQueue DEF Queues
<1>3. q \in Queues /\ Len(q) = 16 + a
  BY QueueIsQueue
<1>4. q = Then(BitsOf(w, 16), t)
  BY DEF Queue
<1> HIDE DEF q, t
<1>5. Code!After(Then(BitsOf(w, 16), t), n, <<>>) = Then(BitsOf(w, 16 - n), t)
  BY <1>1, <1>2, CodeDrops
<1>6. n <= Len(q)
  BY <1>3
<1>7. Code!After(q, n, <<>>) = Then(Drop(q, n), Refill(<<>>))
  BY <1>3, <1>6, CodeReads
<1>8. Drop(q, n) \in Queues /\ Refill(<<>>) = <<>>
  BY <1>3, <1>6, DropTypes, RefillQueue
<1>9. Drop(q, n) = Then(BitsOf(w, 16 - n), t)
  BY <1>4, <1>5, <1>7, <1>8, ThenNothing
<1>10. QED
  BY <1>9 DEF q, t

\* Whether lz_read_bits fetches, and from what.
LEMMA PairsFetched ==
  ASSUME NEW w, NEW rest, NEW a \in Nat, NEW n \in Nat, NEW x
  PROVE  Pairs(Rd(w, rest, a, x), n) = IF n > a THEN BitWords ELSE {<<>>}
BY DEF Pairs, Fetches, Rd

\* lz_read_bits drops n bits of the queue, and fetches when the code does.
LEMMA ReadIsCode ==
  ASSUME NEW w \in Words, NEW rest \in Words, NEW a \in Nat, a <= 15, NEW n \in Nat, n <= 16,
         NEW x, NEW pair \in Pairs(Rd(w, rest, a, x), n)
  PROVE  /\ pair \in Code!Supply(Queue(w, rest, a), n) /\ pair \in BitWords \cup {<<>>}
         /\ n <= a => pair = <<>>
         /\ \E u, v \in Words : \E b \in Nat :
              /\ b <= 15
              /\ ReadBits(Rd(w, rest, a, x), n, pair) = Rd(u, v, b, x \o pair)
              /\ Queue(u, v, b) = Then(Drop(Queue(w, rest, a), n), Refill(pair))
<1> DEFINE q == Queue(w, rest, a)
<1>1. q \in Queues /\ Len(q) = 16 + a
  BY QueueIsQueue
<1>2. Drop(q, n) = Then(BitsOf(w, 16 - n), BitsOf(rest, a))
  BY QueueDrops
<1> HIDE DEF q
<1>3. Code!Supply(q, n) = IF Len(q) - n < 16 THEN BitWords ELSE {<<>>}
  BY <1>1, CodeReads
<1>4. Len(q) - n < 16 <=> n > a
  BY <1>1
<1>5. Pairs(Rd(w, rest, a, x), n) = IF n > a THEN BitWords ELSE {<<>>}
  BY PairsFetched
<1>6. CASE n <= a
  <2>1. pair = <<>>
    BY <1>5, <1>6
  <2>2. PICK u \in Words :
          /\ ReadBits(Rd(w, rest, a, x), n, <<>>) = Rd(u, rest, a - n, x \o <<>>)
          /\ Queue(u, rest, a - n) = Then(BitsOf(w, 16 - n), BitsOf(rest, a))
    BY <1>6, ShortRead
  <2>3. a - n \in Nat /\ a - n <= 15
    BY <1>6
  <2>4. Then(Drop(q, n), Refill(<<>>)) = Drop(q, n)
    <3>1. n <= Len(q)
      BY <1>1
    <3>2. Drop(q, n) \in Queues /\ Refill(<<>>) = <<>>
      BY <1>1, <3>1, DropTypes, RefillQueue
    <3>3. QED
      BY <3>2, ThenNothing
  <2>5. Queue(u, rest, a - n) = Then(Drop(q, n), Refill(pair))
    BY <1>2, <2>1, <2>2, <2>4
  <2>6. ReadBits(Rd(w, rest, a, x), n, pair) = Rd(u, rest, a - n, x \o pair)
    BY <2>1, <2>2
  <2>7. pair \in Code!Supply(q, n) /\ pair \in BitWords \cup {<<>>}
    BY <1>3, <1>4, <1>6, <2>1
  <2>8. QED
    BY <2>1, <2>3, <2>5, <2>6, <2>7 DEF q
<1>7. CASE ~(n <= a)
  <2>1. pair \in BitWords /\ a < n
    BY <1>5, <1>7
  <2>2. PICK u \in Words :
          /\ ReadBits(Rd(w, rest, a, x), n, pair) = Rd(u, WordOf(pair), 16 - (n - a), x \o pair)
          /\ Queue(u, WordOf(pair), 16 - (n - a))
               = Then(Then(BitsOf(w, 16 - n), BitsOf(rest, a)), BitsOf(WordOf(pair), 16))
    BY <2>1, LongRead
  <2>3. 16 - (n - a) \in Nat /\ 16 - (n - a) <= 15
    BY <2>1
  <2>4. pair # <<>> /\ WordOf(pair) \in Words
    BY <2>1, PairIsWord
  <2>5. Refill(pair) = BitsOf(WordOf(pair), 16)
    BY <2>4 DEF Refill
  <2>6. Queue(u, WordOf(pair), 16 - (n - a)) = Then(Drop(q, n), Refill(pair))
    BY <1>2, <2>2, <2>5
  <2>7. pair \in Code!Supply(q, n)
    BY <1>3, <1>4, <1>7, <2>1
  <2>8. QED
    BY <1>7, <2>1, <2>2, <2>3, <2>4, <2>6, <2>7 DEF q
<1>8. QED
  BY <1>6, <1>7

\* Clearing the window's top bit leaves the same queue behind it.
LEMMA Cleared ==
  ASSUME NEW w \in Words, NEW rest \in Words, NEW a \in Nat
  PROVE  LET f == Field(w, 0, 15)
         IN  /\ f \in Words /\ f < 32768
             /\ Drop(Queue(w, rest, a), 1) = Then(BitsOf(f, 15), BitsOf(rest, a))
             /\ Drop(Queue(f, rest, a), 1) = Then(BitsOf(f, 15), BitsOf(rest, a))
<1> DEFINE f == Field(w, 0, 15)
<1>1. w \in Int /\ 0 \in Nat /\ 15 \in Nat /\ 1 \in Nat /\ 1 <= 16 /\ 16 - 1 = 15
  BY WordsAreNumbers
<1>2. f \in 0..Weight[15] - 1 /\ f = w % Weight[15]
  BY <1>1, Fields
<1>3. BitsOf(w % Weight[15], 15) = BitsOf(w, 15)
  BY <1>1, Lower
<1>4. BitsOf(f, 15) = BitsOf(w, 15)
  BY <1>2, <1>3
<1> HIDE DEF f
<1>5. f \in Nat /\ f < 32768
  <2>1. Weight[15] = 32768
    BY WeightTable
  <2>2. f \in Nat /\ f < Weight[15]
    <3>1. Weight[15] \in Int
      BY <2>1
    <3>2. QED
      BY <1>2, <3>1, Below
  <2>3. QED
    BY <2>1, <2>2
<1>6. f \in Words
  BY <1>5 DEF Words
<1>7. Drop(Queue(w, rest, a), 1) = Then(BitsOf(w, 15), BitsOf(rest, a))
  BY <1>1, QueueDrops
<1>8. Drop(Queue(f, rest, a), 1) = Then(BitsOf(f, 15), BitsOf(rest, a))
  BY <1>1, <1>6, QueueDrops
<1>9. QED
  BY <1>4, <1>5, <1>6, <1>7, <1>8 DEF f

\* What was fetched is a sequence.
LEMMA FetchedJoins ==
  ASSUME NEW p \in BitWords \cup {<<>>}
  PROVE  p \in Seq(Int) /\ <<>> \o p = p /\ p \o <<>> = p
<1>1. p \in Seq(Int)
  <2>1. CASE p \in BitWords
    BY <2>1, PairIsWord
  <2>2. CASE p = <<>>
    <3>1. <<>> \in Seq(Int)
      OBVIOUS
    <3>2. QED
      BY <2>2, <3>1
  <2>3. QED
    BY <2>1, <2>2
<1>2. QED
  BY <1>1, ConcatEmptySeq

\* The bits of a length but its last are dropped, or none if there are none.
LEMMA LengthRead ==
  ASSUME NEW w \in Words, NEW rest \in Words, NEW a \in Nat, a <= 15, NEW n \in Nat, n <= 16,
         NEW p \in IF n = 0 THEN {<<>>} ELSE Pairs(Rd(w, rest, a, <<>>), n)
  PROVE  /\ p \in Code!Supply(Queue(w, rest, a), n) /\ p \in BitWords \cup {<<>>}
         /\ n <= a => p = <<>>
         /\ \E u, v \in Words : \E b \in Nat :
              /\ b <= 15
              /\ (IF n = 0 THEN Rd(w, rest, a, <<>>) ELSE ReadBits(Rd(w, rest, a, <<>>), n, p))
                   = Rd(u, v, b, p)
              /\ Queue(u, v, b) = Then(Drop(Queue(w, rest, a), n), Refill(p))
<1>1. CASE n = 0
  <2> DEFINE q == Queue(w, rest, a)
  <2>1. q \in Queues /\ Len(q) = 16 + a
    BY QueueIsQueue
  <2>2. p = <<>> /\ p \in BitWords \cup {<<>>}
    BY <1>1
  <2> HIDE DEF q
  <2>3. 0 \in Nat /\ 0 <= Len(q) /\ ~(Len(q) - 0 < 16)
    BY <2>1
  <2>4. Code!Supply(q, 0) = IF Len(q) - 0 < 16 THEN BitWords ELSE {<<>>}
    BY <2>1, <2>3, CodeReads
  <2>5. p \in Code!Supply(q, n)
    BY <1>1, <2>2, <2>3, <2>4
  <2>6. Drop(q, 0) = q /\ Refill(<<>>) = <<>> /\ Then(q, <<>>) = q
    BY <2>1, ThenNothing, RefillQueue
  <2>7. q = Then(Drop(q, n), Refill(p))
    BY <1>1, <2>2, <2>6
  <2>8. (IF n = 0 THEN Rd(w, rest, a, <<>>) ELSE ReadBits(Rd(w, rest, a, <<>>), n, p))
          = Rd(w, rest, a, p)
    BY <1>1, <2>2
  <2>9. QED
    BY <2>2, <2>5, <2>7, <2>8 DEF q
<1>2. CASE n # 0
  <2>1. p \in Pairs(Rd(w, rest, a, <<>>), n)
    BY <1>2
  <2> DEFINE e == <<>>
  <2>2. p \in Pairs(Rd(w, rest, a, e), n)
    BY <2>1
  <2> HIDE DEF e
  <2>3. /\ p \in Code!Supply(Queue(w, rest, a), n) /\ p \in BitWords \cup {<<>>}
        /\ n <= a => p = <<>>
        /\ \E u, v \in Words : \E b \in Nat :
             /\ b <= 15
             /\ ReadBits(Rd(w, rest, a, e), n, p) = Rd(u, v, b, e \o p)
             /\ Queue(u, v, b) = Then(Drop(Queue(w, rest, a), n), Refill(p))
    BY <2>2, ReadIsCode
  <2>4. e \o p = p
    BY <2>3, FetchedJoins DEF e
  <2>5. QED
    BY <1>2, <2>3, <2>4 DEF e
<1>3. QED
  BY <1>1, <1>2

\* The queue behind a length, and what the distance's bits leave of it.
LEMMA Behind ==
  ASSUME NEW q \in Queues, NEW n \in Nat, n + 1 <= Len(q), NEW p \in BitWords \cup {<<>>},
         NEW u \in Words, NEW v \in Words, NEW b \in Nat,
         Queue(u, v, b) = Then(Drop(q, n), Refill(p))
  PROVE  LET f == Field(u, 0, 15)
             behind == Then(BitsOf(f, 15), BitsOf(v, b))
         IN  /\ behind \in Queues /\ Len(behind) = 15 + b
             /\ behind = Then(Drop(q, n + 1), Refill(p))
             /\ \A d \in Nat : 1 <= d /\ d <= 15 =>
                  Drop(Queue(f, v, b), d) = Drop(behind, d - 1)
<1> DEFINE f == Field(u, 0, 15)
           behind == Then(BitsOf(f, 15), BitsOf(v, b))
           t == Refill(p)
<1>1. /\ f \in Words /\ Drop(Queue(u, v, b), 1) = behind /\ Drop(Queue(f, v, b), 1) = behind
  BY Cleared
<1>2. t \in Queues
  BY RefillQueue
<1> HIDE DEF f, behind, t
<1>3. Len(q) \in Nat /\ n <= Len(q) /\ 1 \in Nat /\ n + 1 \in Nat
  BY DEF Queues
<1>4. Drop(q, n) \in Queues /\ Len(Drop(q, n)) = Len(q) - n
  BY <1>3, DropTypes
<1>5. Drop(Then(Drop(q, n), t), 1) = Then(Drop(Drop(q, n), 1), t)
  <2>1. 1 <= Len(Drop(q, n))
    BY <1>3, <1>4
  <2>2. QED
    BY <1>2, <1>3, <1>4, <2>1, DropThen
<1>6. Drop(Drop(q, n), 1) = Drop(q, n + 1)
  BY <1>3, DropDrop
<1>7. behind = Then(Drop(q, n + 1), t)
  BY <1>1, <1>5, <1>6 DEF t
<1>8. Queue(f, v, b) \in Queues /\ Len(Queue(f, v, b)) = 16 + b
  BY <1>1, QueueIsQueue
<1>9. behind \in Queues /\ Len(behind) = 15 + b
  <2>1. 1 <= Len(Queue(f, v, b))
    BY <1>8
  <2>2. /\ Drop(Queue(f, v, b), 1) \in Queues
        /\ Len(Drop(Queue(f, v, b), 1)) = Len(Queue(f, v, b)) - 1
    BY <1>3, <1>8, <2>1, DropTypes
  <2>3. QED
    BY <1>1, <1>8, <2>2
<1>10. ASSUME NEW d \in Nat, 1 <= d, d <= 15
       PROVE  Drop(Queue(f, v, b), d) = Drop(behind, d - 1)
  <2>1. d - 1 \in Nat /\ 1 + (d - 1) = d /\ d <= Len(Queue(f, v, b))
    BY <1>8, <1>10
  <2>2. Drop(Drop(Queue(f, v, b), 1), d - 1) = Drop(Queue(f, v, b), d)
    BY <1>3, <1>8, <2>1, DropDrop
  <2>3. QED
    BY <1>1, <2>2
<1>11. QED
  BY <1>7, <1>9, <1>10 DEF f, behind, t

\* The code fetches w1 and w2 where the decoder fetches p and p2, and both are left
\* with the same queue.
FetchedAs(q, n, f, v, b, p, d, p2) ==
  \E w1, w2 \in BitWords \cup {<<>>} : \E t \in Queues : \E x, y \in Words : \E c \in Nat :
    /\ w1 \in Code!Supply(q, n + 1)
    /\ Code!After(q, n + 1, w1) = Then(BitsOf(f, 15), t)
    /\ w2 \in Code!Supply(Then(BitsOf(f, 15), t), d - 1)
    /\ w1 \o w2 = p \o p2
    /\ ReadBits(Rd(f, v, b, p), d, p2) = Rd(x, y, c, p \o p2)
    /\ Queue(x, y, c) = Code!After(Then(BitsOf(f, 15), t), d - 1, w2)
    /\ c <= 15

\* A match fetches what the code fetches, though not always between the same two
\* bits: when the length ends with the last bit kept, the code fetches there and the
\* decoder with the distance.
LEMMA MatchRead ==
  ASSUME NEW w \in Words, NEW rest \in Words, NEW a \in Nat, a <= 15, NEW n \in Nat, n <= 13,
         NEW p \in BitWords \cup {<<>>}, p \in Code!Supply(Queue(w, rest, a), n),
         n <= a => p = <<>>,
         NEW u \in Words, NEW v \in Words, NEW b \in Nat, b <= 15,
         Queue(u, v, b) = Then(Drop(Queue(w, rest, a), n), Refill(p)),
         NEW d \in Nat, 1 <= d, d <= 15, NEW p2 \in Pairs(Rd(Field(u, 0, 15), v, b, p), d)
  PROVE  FetchedAs(Queue(w, rest, a), n, Field(u, 0, 15), v, b, p, d, p2)
<1> DEFINE f == Field(u, 0, 15)
           q == Queue(w, rest, a)
           q2 == Queue(f, v, b)
           behind == Then(BitsOf(f, 15), BitsOf(v, b))
           s == Rd(f, v, b, p)
<1>1. f \in Words /\ f < 32768
  BY Cleared
<1>2. q \in Queues /\ Len(q) = 16 + a
  BY QueueIsQueue
<1>3. q2 \in Queues /\ Len(q2) = 16 + b
  BY <1>1, QueueIsQueue
<1>4. n + 1 <= Len(q) /\ n <= Len(q) /\ n + 1 \in Nat
  BY <1>2
<1>5. /\ behind \in Queues /\ Len(behind) = 15 + b
      /\ behind = Then(Drop(q, n + 1), Refill(p))
      /\ Drop(q2, d) = Drop(behind, d - 1)
  BY <1>2, <1>4, Behind
<1>6. f \in Int /\ v \in Int
  BY <1>1, WordsAreNumbers
<1>7. PICK x \in Words, y \in Words, c \in Nat :
        /\ c <= 15 /\ ReadBits(s, d, p2) = Rd(x, y, c, p \o p2)
        /\ Queue(x, y, c) = Then(Drop(q2, d), Refill(p2))
  <2>1. d <= 16
    OBVIOUS
  <2>2. QED
    BY <1>1, <2>1, ReadIsCode
<1>8. p2 \in Code!Supply(q2, d) /\ p2 \in BitWords \cup {<<>>}
  <2>1. d <= 16
    OBVIOUS
  <2>2. QED
    BY <1>1, <2>1, ReadIsCode
<1>9. BitsOf(f, 15) \in Queues /\ BitsOf(v, b) \in Queues
  BY <1>6, RowQueue
<1>10. Queue(u, v, b) = Then(Drop(q, n), Refill(p)) /\ p \in Code!Supply(q, n)
  OBVIOUS
<1>11. Len(Queue(u, v, b)) = 16 + b
  BY QueueIsQueue
<1> HIDE DEF f, q, q2, s
<1>12. d - 1 \in Nat /\ d - 1 <= Len(behind)
  BY <1>5
<1>13. Code!Supply(q, n) = IF Len(q) - n < 16 THEN BitWords ELSE {<<>>}
  BY <1>2, <1>4, CodeReads
<1>14. Code!Supply(q, n + 1) = IF Len(q) - (n + 1) < 16 THEN BitWords ELSE {<<>>}
  BY <1>2, <1>4, CodeReads
<1>15. Code!Supply(q2, d) = IF Len(q2) - d < 16 THEN BitWords ELSE {<<>>}
  <2>1. d <= Len(q2)
    BY <1>3
  <2>2. QED
    BY <1>3, <2>1, CodeReads
<1>16. CASE n # a
  <2> HIDE DEF behind
  <2>1. Len(q) - n < 16 <=> Len(q) - (n + 1) < 16
    BY <1>2, <1>16
  <2>2. p \in Code!Supply(q, n + 1)
    BY <1>10, <1>13, <1>14, <2>1
  <2>3. Code!After(q, n + 1, p) = behind
    BY <1>2, <1>4, <1>5, CodeReads
  <2>4. Len(behind) - (d - 1) < 16 <=> Len(q2) - d < 16
    BY <1>3, <1>5
  <2>5. Code!Supply(behind, d - 1) = IF Len(behind) - (d - 1) < 16 THEN BitWords ELSE {<<>>}
    BY <1>5, <1>12, CodeReads
  <2>6. p2 \in Code!Supply(behind, d - 1)
    BY <1>8, <1>15, <2>4, <2>5
  <2>7. Code!After(behind, d - 1, p2) = Then(Drop(behind, d - 1), Refill(p2))
    BY <1>5, <1>8, <1>12, CodeReads
  <2>8. Queue(x, y, c) = Code!After(behind, d - 1, p2)
    BY <1>5, <1>7, <2>7
  <2>9. QED
    BY <1>7, <1>8, <1>9, <2>2, <2>3, <2>6, <2>8 DEF FetchedAs, behind, f, q, s
<1>17. CASE n = a
  <2> DEFINE refill == Refill(p2)
             r == Then(behind, refill)
             t == Then(BitsOf(v, b), refill)
  <2>1. p = <<>> /\ Refill(p) = <<>>
    BY <1>17, RefillQueue
  <2>2. Drop(q, n) \in Queues /\ Len(Drop(q, n)) = Len(q) - n
    BY <1>2, <1>4, DropTypes
  <2>3. Drop(q, n + 1) \in Queues
    BY <1>2, <1>4, DropTypes
  <2>4. Queue(u, v, b) = Drop(q, n) /\ behind = Drop(q, n + 1)
    BY <1>5, <1>10, <2>1, <2>2, <2>3, ThenNothing
  <2>5. b = 0
    <3>1. 16 + b = (16 + a) - n
      BY <1>2, <1>11, <2>2, <2>4
    <3>2. QED
      BY <1>17, <3>1
  <2>6. p2 \in BitWords
    <3>1. Len(q2) - d < 16
      BY <1>3, <2>5
    <3>2. QED
      BY <1>8, <1>15, <3>1
  <2>7. p2 \in Code!Supply(q, n + 1)
    <3>1. Len(q) - (n + 1) < 16
      BY <1>2, <1>17
    <3>2. QED
      BY <1>14, <2>6, <3>1
  <2>8. refill \in Queues /\ Len(refill) = 16
    BY <2>6, RefillQueue
  <2> HIDE DEF refill
  <2>9. Code!After(q, n + 1, p2) = r
    BY <1>2, <1>4, <1>8, <2>4, CodeReads DEF refill
  <2>10. r = Then(BitsOf(f, 15), t) /\ t \in Queues
    <3>1. Then(BitsOf(v, b), refill) \in Queues
      BY <1>9, <2>8, ThenTypes
    <3>2. QED
      BY <1>9, <2>8, <3>1, ThenAssociative DEF Queues
  <2> HIDE DEF t, behind
  <2>11. r \in Queues /\ Len(r) = 15 + b + 16
    <3>1. r \in Queues /\ Len(r) = Len(behind) + Len(refill)
      BY <1>5, <2>8, ThenTypes
    <3>2. QED
      BY <1>5, <2>8, <3>1
  <2>12. Drop(r, d - 1) = Then(Drop(behind, d - 1), refill)
    BY <1>5, <1>12, <2>8, DropThen
  <2> HIDE DEF r
  <2>13. d - 1 <= Len(r) /\ ~(Len(r) - (d - 1) < 16)
    BY <2>5, <2>11
  <2>14. Code!Supply(r, d - 1) = IF Len(r) - (d - 1) < 16 THEN BitWords ELSE {<<>>}
    BY <1>12, <2>11, <2>13, CodeReads
  <2>15. <<>> \in Code!Supply(r, d - 1)
    BY <2>13, <2>14
  <2>16. Code!After(r, d - 1, <<>>) = Then(Drop(r, d - 1), Refill(<<>>))
    BY <1>12, <2>11, <2>13, CodeReads
  <2>17. Drop(r, d - 1) \in Queues /\ Refill(<<>>) = <<>>
    BY <1>12, <2>11, <2>13, DropTypes, RefillQueue
  <2>18. Queue(x, y, c) = Code!After(r, d - 1, <<>>)
    BY <1>5, <1>7, <2>12, <2>16, <2>17, ThenNothing DEF refill
  <2>19. p2 \o <<>> = p \o p2
    BY <1>8, <2>1, FetchedJoins
  <2>20. QED
    BY <1>7, <1>8, <2>7, <2>9, <2>10, <2>15, <2>18, <2>19 DEF FetchedAs, f, q, s
<1>18. QED
  BY <1>16, <1>17

----------------------------------------------------------------------------
\* The flags of a group after t tokens, and the control byte shifted once more.
Flags(c, t) == BitsOf(c \div Weight[t], 8 - t)
Shifted(c) == (2 * c) % 256

\* The control byte shifted left by one.
LEMMA ShiftedBits ==
  ASSUME NEW c \in Nat
  PROVE  /\ Shifted(c) \in Nat /\ Shifted(c) < 256
         /\ \A j \in 0..6 : Bit(Shifted(c), j + 1) = Bit(c, j)
<1>1. Shifted(c) \in Nat /\ Shifted(c) < 256
  BY DEF Shifted
<1>2. ASSUME NEW j \in 0..6
      PROVE  Bit(Shifted(c), j + 1) = Bit(c, j)
  <2> DEFINE x == 2 * c
  <2>1. x \in Int /\ 8 \in Nat /\ j + 1 \in 0..8 - 1 /\ j \in Nat /\ 1 \in Nat /\ 1 + j = j + 1
    OBVIOUS
  <2>2. x \div 2 = c
    OBVIOUS
  <2> HIDE DEF x
  <2>3. Bit(x % Weight[8], j + 1) = Bit(x, j + 1)
    BY <2>1, BitOfRemainder
  <2>4. Bit(x \div Weight[1], j) = Bit(x, 1 + j)
    BY <2>1, BitOfQuotient
  <2>5. Weight[8] = 256 /\ Weight[1] = 2
    BY WeightTable
  <2>6. Bit(x % 256, j + 1) = Bit(c, j)
    BY <2>1, <2>2, <2>3, <2>4, <2>5
  <2>7. QED
    BY <2>6 DEF x, Shifted
<1>3. QED
  BY <1>1, <1>2

\* Place by place, the flags are the control byte's bits from the top down.
LEMMA FlagPlaces ==
  ASSUME NEW c \in Nat, NEW t \in Nat, t <= 8
  PROVE  /\ Flags(c, t) \in Queues /\ Len(Flags(c, t)) = 8 - t
         /\ \A k \in 1..8 - t : Flags(c, t)[k] = Bit(c, 8 - k)
<1> DEFINE h == c \div Weight[t]
<1>1. h \in Int /\ 8 - t \in Nat /\ c \in Int
  BY Shifts
<1>2. \A k \in 1..8 - t : Bit(h, (8 - t) - k) = Bit(c, 8 - k)
  <2>1. ASSUME NEW k \in 1..8 - t
        PROVE  Bit(h, (8 - t) - k) = Bit(c, 8 - k)
    <3>1. (8 - t) - k \in Nat /\ t + ((8 - t) - k) = 8 - k
      OBVIOUS
    <3>2. Bit(h, (8 - t) - k) = Bit(c, t + ((8 - t) - k))
      BY <1>1, <3>1, BitOfQuotient
    <3>3. QED
      BY <3>1, <3>2
  <2>2. QED
    BY <2>1
<1> HIDE DEF h
<1>3. BitsOf(h, 8 - t) \in Queues /\ Len(BitsOf(h, 8 - t)) = 8 - t
  BY <1>1, RowQueue
<1>4. \A k \in 1..8 - t : BitsOf(h, 8 - t)[k] = Bit(h, (8 - t) - k)
  BY <1>1, BitsAreBits
<1>5. QED
  BY <1>2, <1>3, <1>4 DEF Flags, h

\* A token's flag is the control byte's top bit, and shifting it out leaves the rest.
LEMMA FlagsAreCode ==
  ASSUME NEW c \in Nat, NEW t \in Nat, t <= 7
  PROVE  /\ Flags(c, t) # <<>> /\ Head(Flags(c, t)) = Field(c, 7, 1)
         /\ Tail(Flags(c, t)) = Flags(Shifted(c), t + 1)
<1> DEFINE f == Flags(c, t)
           g == Flags(Shifted(c), t + 1)
<1>1. /\ f \in Queues /\ Len(f) = 8 - t
      /\ \A k \in 1..8 - t : f[k] = Bit(c, 8 - k)
  BY FlagPlaces
<1>2. /\ g \in Queues /\ Len(g) = 7 - t
      /\ \A k \in 1..7 - t : g[k] = Bit(Shifted(c), 8 - k)
  <2>1. t + 1 \in Nat /\ t + 1 <= 8 /\ 8 - (t + 1) = 7 - t
    OBVIOUS
  <2>2. Shifted(c) \in Nat
    BY ShiftedBits
  <2>3. /\ g \in Queues /\ Len(g) = 8 - (t + 1)
        /\ \A k \in 1..8 - (t + 1) : g[k] = Bit(Shifted(c), 8 - k)
    BY <2>1, <2>2, FlagPlaces
  <2>4. QED
    BY <2>1, <2>3
<1> HIDE DEF f, g
<1>3. f # <<>>
  BY <1>1
<1>4. f \in Seq(Binary01)
  BY <1>1 DEF Queues
<1>5. Head(f) = f[1]
  BY <1>3, <1>4
<1>6. Field(c, 7, 1) = Bit(c, 7)
  BY WeightTable DEF Field, Bit
<1>7. Head(f) = Field(c, 7, 1)
  <2>1. 1 \in 1..8 - t /\ 8 - 1 = 7
    OBVIOUS
  <2>2. f[1] = Bit(c, 7)
    BY <1>1, <2>1
  <2>3. QED
    BY <1>5, <1>6, <2>2
<1>8. /\ Tail(f) \in Seq(Binary01) /\ Len(Tail(f)) = Len(f) - 1
      /\ \A k \in 1..Len(Tail(f)) : Tail(f)[k] = f[k + 1]
  BY <1>3, <1>4, HeadTailProperties
<1>9. Len(Tail(f)) = 7 - t
  BY <1>1, <1>8
<1>10. ASSUME NEW k \in 1..7 - t
       PROVE  Tail(f)[k] = g[k]
  <2>1. k + 1 \in 1..8 - t /\ 8 - (k + 1) = 7 - k /\ 7 - k \in 0..6 /\ (7 - k) + 1 = 8 - k
    OBVIOUS
  <2>2. f[k + 1] = Bit(c, 7 - k)
    BY <1>1, <2>1
  <2>3. Bit(Shifted(c), 8 - k) = Bit(c, 7 - k)
    BY <2>1, ShiftedBits
  <2>4. Tail(f)[k] = f[k + 1]
    BY <1>8, <1>9
  <2>5. g[k] = Bit(Shifted(c), 8 - k)
    BY <1>2
  <2>6. QED
    BY <2>2, <2>3, <2>4, <2>5
<1>11. Tail(f) = g
  BY <1>2, <1>8, <1>9, <1>10, SameQueue DEF Queues
<1>12. QED
  BY <1>3, <1>7, <1>11 DEF f, g

\* A fresh control byte's flags are the code's own row, and none are left after eight.
LEMMA FlagsEnds ==
  ASSUME NEW c \in Nat
  PROVE  Flags(c, 0) = Code!Bits(c, 8) /\ Flags(c, 8) = <<>>
<1>1. c \div 1 = c
  OBVIOUS
<1>2. Weight[0] = 1 /\ 8 - 0 = 8
  BY WeightTable
<1>3. Flags(c, 0) = BitsOf(c, 8)
  BY <1>1, <1>2 DEF Flags
<1>4. Code!Bits(c, 8) = BitsOf(c, 8)
  BY BitsAreCode
<1>5. Flags(c, 8) \in Queues /\ Len(Flags(c, 8)) = 0
  BY FlagPlaces
<1>6. Flags(c, 8) = <<>>
  BY <1>5, EmptySeq DEF Queues
<1>7. QED
  BY <1>3, <1>4, <1>6

----------------------------------------------------------------------------
\* The output with k bytes more, that repeat its last distance + 1.
RepeatIndex(j, distance) == Len(dst) - distance + (j % (distance + 1))
Extended(k, distance) ==
  [i \in 1..Len(dst) + k |->
     IF i <= Len(dst) THEN dst[i] ELSE dst[RepeatIndex(i - Len(dst) - 1, distance)]]

\* Every byte repeated is one of the output's, and one round on it is the same.
LEMMA RepeatPlaces ==
  ASSUME NEW S, dst \in Seq(S), NEW distance \in Nat, distance < Len(dst), NEW j \in Nat
  PROVE  /\ RepeatIndex(j, distance) \in 1..Len(dst)
         /\ j <= distance => RepeatIndex(j, distance) = Len(dst) - distance + j
         /\ j > distance =>
              /\ j - (distance + 1) \in Nat
              /\ RepeatIndex(j - (distance + 1), distance) = RepeatIndex(j, distance)
<1> DEFINE m == distance + 1
           r == j % m
           q == j \div m
<1>1. m \in Nat \ {0} /\ Len(dst) \in Nat /\ j \in Int
  OBVIOUS
<1> HIDE DEF m
<1>2. q \in Int /\ r \in 0..m - 1 /\ j = q * m + r
  BY <1>1, DivMod
<1>3. RepeatIndex(j, distance) = Len(dst) - distance + r
  BY DEF RepeatIndex, m
<1> HIDE DEF q, r
<1>4. r \in Nat /\ r <= distance
  BY <1>1, <1>2 DEF m
<1>5. RepeatIndex(j, distance) \in 1..Len(dst)
  BY <1>1, <1>3, <1>4
<1>6. ASSUME j <= distance
      PROVE  RepeatIndex(j, distance) = Len(dst) - distance + j
  <2>1. j \in 0..m - 1 /\ j = 0 * m + j
    BY <1>1, <1>6 DEF m
  <2>2. j % m = j
    BY <1>1, <2>1, Divided
  <2>3. QED
    BY <1>3, <2>2 DEF r
<1>7. ASSUME j > distance
      PROVE  /\ j - m \in Nat
             /\ RepeatIndex(j - m, distance) = RepeatIndex(j, distance)
  <2>1. j - m \in Nat
    BY <1>1, <1>7 DEF m
  <2>2. (q - 1) * m = q * m - m
    BY <1>1, <1>2
  <2>3. j - m = (q - 1) * m + r /\ q - 1 \in Int
    BY <1>1, <1>2, <2>2
  <2>4. j - m \in Int /\ m \in Nat
    BY <1>1, <2>1
  <2>5. (j - m) % m = r
    BY <1>2, <2>3, <2>4, Divided
  <2>6. QED
    BY <1>3, <2>1, <2>5 DEF RepeatIndex, m
<1>8. QED
  BY <1>5, <1>6, <1>7 DEF m

\* The output extended is an output.
LEMMA ExtendedTypes ==
  ASSUME NEW S, dst \in Seq(S), NEW distance \in Nat, distance < Len(dst), NEW k \in Nat
  PROVE  /\ Extended(k, distance) \in Seq(S) /\ Len(Extended(k, distance)) = Len(dst) + k
         /\ \A i \in 1..Len(dst) + k : Extended(k, distance)[i] =
              IF i <= Len(dst) THEN dst[i] ELSE dst[RepeatIndex(i - Len(dst) - 1, distance)]
<1> DEFINE e(i) ==
             IF i <= Len(dst) THEN dst[i] ELSE dst[RepeatIndex(i - Len(dst) - 1, distance)]
<1>1. Len(dst) \in Nat /\ \A i \in 1..Len(dst) : dst[i] \in S
  BY LenProperties, ElementOfSeq
<1>2. ASSUME NEW i \in 1..Len(dst) + k
      PROVE  e(i) \in S
  <2>1. CASE i <= Len(dst)
    BY <1>1, <2>1
  <2>2. CASE ~(i <= Len(dst))
    <3>1. i - Len(dst) - 1 \in Nat
      BY <1>1, <2>2
    <3>2. RepeatIndex(i - Len(dst) - 1, distance) \in 1..Len(dst)
      BY <3>1, RepeatPlaces
    <3>3. QED
      BY <1>1, <2>2, <3>2
  <2>3. QED
    BY <2>1, <2>2
<1>3. Extended(k, distance) = [i \in 1..Len(dst) + k |-> e(i)]
  BY DEF Extended
<1> HIDE DEF e
<1>4. Len(dst) + k \in Nat
  BY <1>1
<1>5. Extended(k, distance) \in [1..Len(dst) + k -> S]
  BY <1>2, <1>3
<1>6. Extended(k, distance) \in Seq(S) /\ Len(Extended(k, distance)) = Len(dst) + k
  BY <1>4, <1>5
<1>7. \A i \in 1..Len(dst) + k : Extended(k, distance)[i] = e(i)
  BY <1>3
<1>8. QED
  BY <1>6, <1>7 DEF e

\* One byte more is a copy of the byte so far back.
LEMMA ExtendedStep ==
  ASSUME NEW S, dst \in Seq(S), NEW distance \in Nat, distance < Len(dst), NEW k \in Nat
  PROVE  LET text == Extended(k, distance)
         IN  Extended(k + 1, distance) = Append(text, text[Len(text) - distance])
<1> DEFINE text == Extended(k, distance)
           next == Extended(k + 1, distance)
           L == Len(dst)
           b == text[L + k - distance]
<1>1. L \in Nat /\ k + 1 \in Nat
  BY LenProperties
<1>2. /\ text \in Seq(S) /\ Len(text) = L + k
      /\ \A i \in 1..L + k : text[i] =
           IF i <= L THEN dst[i] ELSE dst[RepeatIndex(i - L - 1, distance)]
  BY ExtendedTypes
<1>3. /\ next \in Seq(S) /\ Len(next) = L + (k + 1)
      /\ \A i \in 1..L + (k + 1) : next[i] =
           IF i <= L THEN dst[i] ELSE dst[RepeatIndex(i - L - 1, distance)]
  BY <1>1, ExtendedTypes
<1> HIDE DEF text, next
<1>4. L + k - distance \in 1..L + k /\ distance < L
  BY <1>1
<1>5. b \in S
  <2>1. \A i \in 1..Len(text) : text[i] \in S
    BY <1>2, ElementOfSeq
  <2>2. QED
    BY <1>2, <1>4, <2>1
<1>6. b = dst[RepeatIndex(k, distance)]
  <2>1. CASE k <= distance
    <3>1. L + k - distance <= L
      BY <1>1, <2>1
    <3>2. b = dst[L + k - distance]
      BY <1>2, <1>4, <3>1
    <3>3. RepeatIndex(k, distance) = L - distance + k
      BY <2>1, RepeatPlaces
    <3>4. L - distance + k = L + k - distance
      BY <1>1
    <3>5. QED
      BY <3>2, <3>3, <3>4
  <2>2. CASE ~(k <= distance)
    <3>1. ~(L + k - distance <= L) /\ k > distance
      BY <1>1, <2>2
    <3>2. b = dst[RepeatIndex((L + k - distance) - L - 1, distance)]
      BY <1>2, <1>4, <3>1
    <3>3. (L + k - distance) - L - 1 = k - (distance + 1)
      BY <1>1
    <3>4. RepeatIndex(k - (distance + 1), distance) = RepeatIndex(k, distance)
      BY <3>1, RepeatPlaces
    <3>5. QED
      BY <3>2, <3>3, <3>4
  <2>3. QED
    BY <2>1, <2>2
<1> HIDE DEF b, L
<1>7. /\ Append(text, b) \in Seq(S) /\ Len(Append(text, b)) = Len(text) + 1
      /\ \A i \in 1..Len(text) : Append(text, b)[i] = text[i]
      /\ Append(text, b)[Len(text) + 1] = b
  BY <1>2, <1>5, AppendProperties
<1>8. ASSUME NEW i \in 1..L + (k + 1)
      PROVE  next[i] = Append(text, b)[i]
  <2>1. CASE i <= L + k
    <3>1. i \in 1..L + k
      BY <1>1, <2>1
    <3>2. next[i] = text[i]
      BY <1>2, <1>3, <3>1
    <3>3. QED
      BY <1>2, <1>7, <3>1, <3>2
  <2>2. CASE ~(i <= L + k)
    <3>1. i = L + k + 1 /\ ~(i <= L) /\ i - L - 1 = k
      BY <1>1, <2>2
    <3>2. next[i] = dst[RepeatIndex(k, distance)]
      BY <1>3, <3>1
    <3>3. QED
      BY <1>2, <1>6, <1>7, <3>1, <3>2
  <2>3. QED
    BY <2>1, <2>2
<1>9. Len(Append(text, b)) = L + (k + 1)
  BY <1>1, <1>2, <1>7
<1>10. next = Append(text, b)
  BY <1>3, <1>7, <1>8, <1>9, SeqEqual
<1>11. QED
  BY <1>2, <1>10 DEF text, next, b, L

\* Nothing more is the output itself.
LEMMA ExtendedNot ==
  ASSUME NEW S, dst \in Seq(S), NEW distance \in Nat, distance < Len(dst)
  PROVE  Extended(0, distance) = dst
<1> DEFINE text == Extended(0, distance)
<1>1. Len(dst) \in Nat /\ Len(dst) + 0 = Len(dst)
  BY LenProperties
<1>2. /\ text \in Seq(S) /\ Len(text) = Len(dst) + 0
      /\ \A i \in 1..Len(dst) + 0 : text[i] =
           IF i <= Len(dst) THEN dst[i] ELSE dst[RepeatIndex(i - Len(dst) - 1, distance)]
  BY ExtendedTypes
<1> HIDE DEF text
<1>3. \A i \in 1..Len(text) : text[i] = dst[i]
  BY <1>1, <1>2
<1>4. text = dst
  BY <1>1, <1>2, <1>3, SeqEqual
<1>5. QED
  BY <1>4 DEF text

\* The output and what the code repeats after it.
LEMMA ExtendedIsCode ==
  ASSUME NEW S, dst \in Seq(S), NEW distance \in Nat, distance < Len(dst), NEW length \in Nat
  PROVE  Extended(length + 1, distance) = dst \o Code!Repeated(length, distance)
<1> DEFINE r == Code!Repeated(length, distance)
           n == length + 1
           L == Len(dst)
           text == Extended(n, distance)
<1>1. L \in Nat /\ n \in Nat
  BY LenProperties
<1>2. /\ text \in Seq(S) /\ Len(text) = L + n
      /\ \A i \in 1..L + n : text[i] =
           IF i <= L THEN dst[i] ELSE dst[RepeatIndex(i - L - 1, distance)]
  BY <1>1, ExtendedTypes
<1>3. r = [j \in 1..n |-> dst[RepeatIndex(j - 1, distance)]]
  BY DEF Code!Repeated, RepeatIndex
<1>4. ASSUME NEW j \in 1..n
      PROVE  dst[RepeatIndex(j - 1, distance)] \in S
  <2>1. j - 1 \in Nat
    BY <1>1
  <2>2. RepeatIndex(j - 1, distance) \in 1..Len(dst)
    BY <2>1, RepeatPlaces
  <2>3. QED
    BY <2>2, ElementOfSeq
<1> HIDE DEF r, n, L, text
<1>5. r \in [1..n -> S]
  BY <1>3, <1>4
<1>6. r \in Seq(S) /\ Len(r) = n
  BY <1>1, <1>5
<1>7. /\ dst \o r \in Seq(S) /\ Len(dst \o r) = Len(dst) + Len(r)
      /\ \A i \in 1..Len(dst) + Len(r) : (dst \o r)[i] =
           IF i <= Len(dst) THEN dst[i] ELSE r[i - Len(dst)]
  BY <1>6, ConcatProperties
<1>8. Len(dst \o r) = L + n
  BY <1>6, <1>7 DEF L
<1>9. ASSUME NEW i \in 1..L + n
      PROVE  text[i] = (dst \o r)[i]
  <2>1. (dst \o r)[i] = IF i <= L THEN dst[i] ELSE r[i - L]
    BY <1>6, <1>7 DEF L
  <2>2. CASE i <= L
    BY <1>2, <2>1, <2>2
  <2>3. CASE ~(i <= L)
    <3>1. i - L \in 1..n
      BY <1>1, <2>3
    <3>2. r[i - L] = dst[RepeatIndex((i - L) - 1, distance)]
      BY <1>3, <3>1
    <3>3. QED
      BY <1>2, <2>1, <2>3, <3>2
  <2>4. QED
    BY <2>2, <2>3
<1>10. text = dst \o r
  BY <1>2, <1>7, <1>8, <1>9, SeqEqual
<1>11. QED
  BY <1>10 DEF text, r, n

\* lz_decompress's copy, a byte at a time and forwards, writes what the code repeats.
LEMMA CopyIsCode ==
  ASSUME NEW S, dst \in Seq(S), NEW distance \in Nat, distance < Len(dst), NEW length \in Nat
  PROVE  /\ Copied(length, distance) = dst \o Code!Repeated(length, distance)
         /\ Copied(length, distance) \in Seq(S)
         /\ Len(Copied(length, distance)) = Len(dst) + length + 1
<1> DEFINE n == length + 1
           More1(text) == Append(text, text[Len(text) - distance])
           Step(g) == [k \in 0..n |-> IF k = 0 THEN dst ELSE More1(g[k - 1])]
           u == [k \in 0..n |-> Extended(k, distance)]
<1>1. n \in Nat /\ n \in 0..n
  OBVIOUS
<1>2. Copied(length, distance) = (CHOOSE g : g = Step(g))[n]
  BY DEF Copied
<1>3. \A k \in Nat : Extended(k + 1, distance) = More1(Extended(k, distance))
  BY ExtendedStep
<1>4. Extended(0, distance) = dst
  BY ExtendedNot
<1> HIDE DEF n, More1
<1>5. u = Step(u)
  <2>1. ASSUME NEW k \in 0..n
        PROVE  Extended(k, distance) = IF k = 0 THEN dst ELSE More1(u[k - 1])
    <3>1. CASE k = 0
      BY <1>4, <3>1
    <3>2. CASE k # 0
      <4>1. k - 1 \in 0..n /\ k - 1 \in Nat /\ (k - 1) + 1 = k
        BY <1>1, <3>2
      <4>2. u[k - 1] = Extended(k - 1, distance)
        BY <4>1
      <4>3. QED
        BY <1>3, <3>2, <4>1, <4>2
    <3>3. QED
      BY <3>1, <3>2
  <2> DEFINE e(k) == IF k = 0 THEN dst ELSE More1(u[k - 1])
  <2>2. \A k \in 0..n : Extended(k, distance) = e(k)
    BY <2>1
  <2> HIDE DEF e
  <2>3. u = [k \in 0..n |-> e(k)]
    BY <2>2
  <2>4. QED
    BY <2>3 DEF e
<1>6. u[n] = Extended(n, distance)
  BY <1>1
<1>7. ASSUME NEW g, g = Step(g)
      PROVE  g[n] = u[n]
  <2> DEFINE T == {k \in Nat : k <= n => g[k] = u[k]}
  <2>1. \A k \in 0..n : g[k] = IF k = 0 THEN dst ELSE More1(g[k - 1])
    BY <1>7
  <2>2. \A k \in 0..n : u[k] = IF k = 0 THEN dst ELSE More1(u[k - 1])
    BY <1>5
  <2> HIDE DEF u
  <2>3. 0 \in T
    BY <1>1, <2>1, <2>2
  <2>4. ASSUME NEW k \in Nat, k \in T
        PROVE  k + 1 \in T
    <3>1. ASSUME k + 1 <= n
          PROVE  g[k + 1] = u[k + 1]
      <4>1. k + 1 \in 0..n /\ k + 1 # 0 /\ (k + 1) - 1 = k /\ k <= n
        BY <1>1, <3>1
      <4>2. g[k] = u[k]
        BY <2>4, <4>1
      <4>3. QED
        BY <2>1, <2>2, <4>1, <4>2
    <3>2. QED
      BY <3>1
  <2>5. \A k \in Nat : k \in T
    BY <2>3, <2>4, Induction
  <2>6. QED
    BY <1>1, <2>5
<1>8. (CHOOSE g : g = Step(g))[n] = u[n]
  <2>1. (CHOOSE g : g = Step(g)) = Step(CHOOSE g : g = Step(g))
    <3> HIDE DEF u
    <3>1. QED
      BY <1>5
  <2>2. QED
    BY <1>7, <2>1
<1>9. Copied(length, distance) = Extended(n, distance)
  BY <1>2, <1>6, <1>8
<1>10. /\ Extended(n, distance) \in Seq(S) /\ Len(Extended(n, distance)) = Len(dst) + n
       /\ Extended(n, distance) = dst \o Code!Repeated(length, distance)
  BY <1>1, ExtendedTypes, ExtendedIsCode DEF n
<1>11. Len(dst) + n = Len(dst) + length + 1
  BY LenProperties DEF n
<1>12. QED
  BY <1>9, <1>10, <1>11

----------------------------------------------------------------------------
\* Every distance is a number and takes six to fourteen bits.
LEMMA DistanceBounds ==
  ASSUME NEW v \in Nat, v < 32768, NEW t \in Seq(Binary01)
  PROVE  LET code == Code!DistanceCode(Then(BitsOf(v, 15), t))
         IN  /\ code.used \in Nat /\ 6 <= code.used /\ code.used <= 14
             /\ code.value \in Nat
<1>1. PICK c \in Code!Classes : Takes(c, v)
  BY OneClass
<1>2. c.bits \in 6..14 /\ c.first \in Nat /\ c.base \in Nat /\ c.count \in Nat \ {0}
  BY ClassTypes
<1> DEFINE m == 15 - c.bits
           x == v \div Weight[m] - c.first
<1>3. m \in Nat
  BY <1>2
<1>4. Code!DistanceCode(Then(BitsOf(v, 15), t)) = [value |-> c.base + x, used |-> c.bits]
  BY <1>1, DistanceOfClass
<1>5. c.first * Weight[m] <= v /\ v < (c.first + c.count) * Weight[m]
  BY <1>1 DEF Takes
<1> HIDE DEF m
<1>6. x \in 0..c.count - 1
  BY <1>2, <1>3, <1>5, ClassTest
<1> HIDE DEF x
<1>7. x \in Nat
  BY <1>2, <1>6, Below
<1>8. c.base + x \in Nat
  <2>1. \A b \in Nat, k \in Nat : b + k \in Nat
    OBVIOUS
  <2>2. QED
    BY <1>2, <1>7, <2>1
<1>9. c.bits \in Nat /\ 6 <= c.bits /\ c.bits <= 14
  <2>1. \A b \in 6..14 : b \in Nat /\ 6 <= b /\ b <= 14
    OBVIOUS
  <2>2. QED
    BY <1>2, <2>1
<1>10. QED
  BY <1>4, <1>8, <1>9

----------------------------------------------------------------------------
\* The inductive invariant: the reader's sizes, where in the loop which of them
\* hold, and room for what is written.
Bytes == Literals \cup Int
ReaderOK == window \in Words /\ word \in Words /\ avail \in Nat /\ avail <= 15
GroupOK ==
  /\ ctrl \in Nat /\ ctrl < 256 /\ tokens \in Nat /\ tokens <= 8
  /\ lzpc = "token" => tokens <= 7
PlaceOK == lzpc \in {"prime", "control", "token", "done", "overrun"}
PrimeOK == lzpc = "prime" => window = 0 /\ word = 0 /\ avail = 0 /\ src = <<>>
OutputOK == src \in Seq(Bytes) /\ dst \in Seq(Literals) /\ Len(dst) <= Limit
DecoderInv == ReaderOK /\ GroupOK /\ PlaceOK /\ PrimeOK /\ OutputOK

\* It holds at the start.
LEMMA InvStarts == DecoderInit => DecoderInv
<1> SUFFICES ASSUME DecoderInit
             PROVE  DecoderInv
  OBVIOUS
<1>1. ReaderOK /\ GroupOK /\ PlaceOK /\ PrimeOK
  BY DEF DecoderInit, ReaderOK, GroupOK, PlaceOK, PrimeOK, Words
<1>2. OutputOK
  <2>1. src \in Seq(Bytes) /\ dst \in Seq(Literals) /\ Len(dst) = 0
    BY EmptySeq DEF DecoderInit
  <2>2. Limit \in Nat
    BY StreamAssumption
  <2>3. QED
    BY <2>1, <2>2 DEF OutputOK
<1>3. QED
  BY <1>1, <1>2 DEF DecoderInv

\* What was fetched is a stream's.
LEMMA FetchedBytes ==
  ASSUME NEW p \in BitWords \cup {<<>>}
  PROVE  p \in Seq(Bytes)
<1>1. p \in Seq(Int)
  BY FetchedJoins
<1>2. Int \subseteq Bytes
  BY DEF Bytes
<1>3. QED
  BY <1>1, <1>2, SeqMonotonic

\* One more byte, read or written.
LEMMA OneMore ==
  ASSUME NEW S, NEW s \in Seq(S), NEW e \in S
  PROVE  /\ s \o <<e>> \in Seq(S) /\ Append(s, e) \in Seq(S)
         /\ s \o <<e>> = Append(s, e) /\ Len(Append(s, e)) = Len(s) + 1
<1>1. Append(s, e) \in Seq(S) /\ Len(Append(s, e)) = Len(s) + 1
  BY AppendProperties
<1>2. s \o <<e>> = Append(s, e)
  OBVIOUS
<1>3. QED
  BY <1>1, <1>2

\* Priming: the first word of the stream fills the window.
LEMMA PrimeReads ==
  ASSUME DecoderInv, Prime
  PROVE  /\ DecoderInv'
         /\ \E pair \in BitWords :
              /\ src' = pair
              /\ Queue(window', word', avail') = Code!Bits(Code!WordOf(pair), 16)
<1>1. /\ lzpc = "prime" /\ lzpc' = "control" /\ ctrl' = ctrl /\ tokens' = tokens /\ dst' = dst
      /\ window = 0 /\ word = 0 /\ avail = 0 /\ src = <<>>
  BY DEF DecoderInv, PrimeOK, Prime
<1>2. Reader = Rd(0, 0, 0, <<>>)
  BY <1>1 DEF Reader, Rd
<1>3. PICK pair \in Pairs(Rd(0, 0, 0, <<>>), 16) : Take(ReadBits(Rd(0, 0, 0, <<>>), 16, pair))
  BY <1>2 DEF Prime
<1>4. pair \in BitWords
  BY <1>3, PairsFetched
<1>5. 0 \in Words /\ 0 \in Nat /\ 16 \in Nat /\ 0 < 16 /\ 16 <= 16
  BY DEF Words
<1>6. PICK u \in Words :
        /\ ReadBits(Rd(0, 0, 0, <<>>), 16, pair) = Rd(u, WordOf(pair), 16 - (16 - 0), <<>> \o pair)
        /\ Queue(u, WordOf(pair), 16 - (16 - 0))
             = Then(Then(BitsOf(0, 16 - 16), BitsOf(0, 0)), BitsOf(WordOf(pair), 16))
  <2> DEFINE e == <<>>
  <2> HIDE DEF e
  <2>1. \E u \in Words :
        /\ ReadBits(Rd(0, 0, 0, e), 16, pair) = Rd(u, WordOf(pair), 16 - (16 - 0), e \o pair)
        /\ Queue(u, WordOf(pair), 16 - (16 - 0))
             = Then(Then(BitsOf(0, 16 - 16), BitsOf(0, 0)), BitsOf(WordOf(pair), 16))
    BY <1>4, <1>5, LongRead
  <2>2. QED
    BY <2>1 DEF e
<1>7. <<>> \o pair = pair /\ WordOf(pair) \in Words /\ WordOf(pair) \in Int
  BY <1>4, FetchedJoins, PairIsWord, WordsAreNumbers
<1>8. 16 - (16 - 0) = 0 /\ 16 - 16 = 0
  OBVIOUS
<1>9. ReadBits(Rd(0, 0, 0, <<>>), 16, pair) = Rd(u, WordOf(pair), 0, pair)
  BY <1>6, <1>7, <1>8
<1>10. window' = u /\ word' = WordOf(pair) /\ avail' = 0 /\ src' = src \o pair
  BY <1>3, <1>9 DEF Take, Rd
<1>11. src' = pair
  BY <1>1, <1>7, <1>10
<1>12. Queue(u, WordOf(pair), 0) = BitsOf(WordOf(pair), 16)
  <2>1. BitsOf(0, 0) \in Queues /\ Len(BitsOf(0, 0)) = 0
    BY <1>5, RowQueue
  <2>2. BitsOf(0, 0) = <<>>
    BY <2>1, EmptySeq DEF Queues
  <2>3. BitsOf(WordOf(pair), 16) \in Queues
    BY <1>5, <1>7, RowQueue
  <2>4. Then(<<>>, <<>>) = <<>>
    BY DEF Then
  <2>5. QED
    BY <1>6, <1>8, <2>2, <2>3, <2>4, ThenNothing
<1>13. Code!Bits(Code!WordOf(pair), 16) = BitsOf(WordOf(pair), 16)
  <2>1. Code!WordOf(pair) = WordOf(pair)
    BY DEF Code!WordOf, WordOf
  <2>2. QED
    BY <1>5, <1>7, <2>1, BitsAreCode
<1>14. DecoderInv'
  <2>1. ReaderOK'
    BY <1>7, <1>10 DEF ReaderOK
  <2>2. GroupOK' /\ PlaceOK' /\ PrimeOK'
    BY <1>1 DEF DecoderInv, GroupOK, PlaceOK, PrimeOK
  <2>3. src' \in Seq(Bytes)
    BY <1>4, <1>11, FetchedBytes
  <2>4. OutputOK'
    BY <1>1, <2>3 DEF DecoderInv, OutputOK
  <2>5. QED
    BY <2>1, <2>2, <2>4 DEF DecoderInv
<1>15. QED
  BY <1>4, <1>10, <1>11, <1>12, <1>13, <1>14

----------------------------------------------------------------------------
\* Each of the decoder's steps is one of the code's, and keeps the invariant.
LEMMA PrimeStep ==
  ASSUME DecoderInv, Prime
  PROVE  DecoderInv' /\ Code!Prime
<1>1. DecoderInv'
  BY PrimeReads
<1>2. PICK pair \in BitWords :
        src' = pair /\ Queue(window', word', avail') = Code!Bits(Code!WordOf(pair), 16)
  BY PrimeReads
<1>3. lzpc = "prime" /\ lzpc' = "control" /\ dst' = dst
  BY DEF Prime
<1>4. BitsOf(window', 16) \o BitsOf(word', avail') = Code!Bits(Code!WordOf(pair), 16)
  BY <1>2 DEF Queue, Then
<1>5. QED
  BY <1>1, <1>2, <1>3, <1>4 DEF Code!Prime

\* A control byte starts a group of eight flags.
LEMMA ControlStep ==
  ASSUME DecoderInv, Control
  PROVE  DecoderInv' /\ Code!NextGroup
<1>1. /\ lzpc = "control" /\ lzpc' = "token" /\ tokens' = 0
      /\ window' = window /\ word' = word /\ avail' = avail /\ dst' = dst
  BY DEF Control
<1>2. PICK c \in Controls : ctrl' = c /\ src' = src \o <<c>>
  BY DEF Control
<1>3. c \in Nat /\ c < 256 /\ c \in Bytes
  BY StreamAssumption DEF Bytes
<1>4. Flags(ctrl', tokens') = Code!Bits(c, 8)
  BY <1>1, <1>2, <1>3, FlagsEnds
<1>5. DecoderInv'
  <2>1. ReaderOK'
    BY <1>1 DEF DecoderInv, ReaderOK
  <2>2. GroupOK' /\ PlaceOK' /\ PrimeOK'
    BY <1>1, <1>2, <1>3 DEF GroupOK, PlaceOK, PrimeOK
  <2>3. src' \in Seq(Bytes)
    BY <1>2, <1>3, OneMore DEF DecoderInv, OutputOK
  <2>4. OutputOK'
    BY <1>1, <2>3 DEF DecoderInv, OutputOK
  <2>5. QED
    BY <2>1, <2>2, <2>4 DEF DecoderInv
<1>6. BitsOf(ctrl' \div Weight[tokens'], 8 - tokens') = Code!Bits(c, 8)
  BY <1>4 DEF Flags
<1>7. Code!NextGroup
  BY <1>1, <1>2, <1>6 DEF Code!NextGroup
<1>8. QED
  BY <1>5, <1>7

\* Room for a token is what the code asks too.
LEMMA RoomIsCode ==
  ASSUME DecoderInv
  PROVE  Code!Fits <=> ~Overrun
<1> DEFINE n == Len(dst)
<1>1. n \in Nat /\ Limit \in Nat
  BY LenProperties, StreamAssumption DEF DecoderInv, OutputOK
<1> HIDE DEF n
<1>2. n + 256 <= Limit <=> ~(n + 256 > Limit)
  BY <1>1
<1>3. QED
  BY <1>2 DEF n, Code!Fits, Overrun, TokenRoom

\* After a token its flag is used.
LEMMA TokenFlags ==
  ASSUME DecoderInv, lzpc = "token"
  PROVE  /\ Flags(ctrl, tokens) # <<>>
         /\ Head(Flags(ctrl, tokens)) = Field(ctrl, 7, 1)
         /\ NextToken =>
              /\ GroupOK' /\ PlaceOK' /\ PrimeOK'
              /\ (IF lzpc' \in {"prime", "control"} THEN <<>> ELSE Flags(ctrl', tokens'))
                   = Tail(Flags(ctrl, tokens))
              /\ lzpc' \in {"control", "token"}
<1>1. ctrl \in Nat /\ ctrl < 256 /\ tokens \in Nat /\ tokens <= 7
  BY DEF DecoderInv, GroupOK
<1>2. /\ Flags(ctrl, tokens) # <<>> /\ Head(Flags(ctrl, tokens)) = Field(ctrl, 7, 1)
      /\ Tail(Flags(ctrl, tokens)) = Flags(Shifted(ctrl), tokens + 1)
  BY <1>1, FlagsAreCode
<1>3. ASSUME NextToken
      PROVE  /\ GroupOK' /\ PlaceOK' /\ PrimeOK'
             /\ (IF lzpc' \in {"prime", "control"} THEN <<>> ELSE Flags(ctrl', tokens'))
                  = Tail(Flags(ctrl, tokens))
             /\ lzpc' \in {"control", "token"}
  <2>1. /\ ctrl' = Shifted(ctrl) /\ tokens' = tokens + 1
        /\ lzpc' = IF tokens = 7 THEN "control" ELSE "token"
    BY <1>3 DEF NextToken, Shifted
  <2>2. Shifted(ctrl) \in Nat /\ Shifted(ctrl) < 256
    BY <1>1, ShiftedBits
  <2>3. tokens + 1 \in Nat /\ tokens + 1 <= 8 /\ (tokens # 7 => tokens + 1 <= 7)
    BY <1>1
  <2>4. GroupOK' /\ PlaceOK' /\ PrimeOK'
    BY <2>1, <2>2, <2>3 DEF GroupOK, PlaceOK, PrimeOK
  <2>5. (IF lzpc' \in {"prime", "control"} THEN <<>> ELSE Flags(ctrl', tokens'))
          = Tail(Flags(ctrl, tokens))
    <3>1. CASE tokens = 7
      <4>1. Flags(Shifted(ctrl), 8) = <<>>
        BY <2>2, FlagsEnds
      <4>2. tokens + 1 = 8
        BY <3>1
      <4>3. QED
        BY <1>2, <2>1, <3>1, <4>1, <4>2
    <3>2. CASE tokens # 7
      BY <1>2, <2>1, <3>2
    <3>3. QED
      BY <3>1, <3>2
  <2>6. QED
    BY <2>1, <2>4, <2>5
<1>4. QED
  BY <1>2, <1>3

\* Without room the decoder gives up.
LEMMA RefusedStep ==
  ASSUME DecoderInv, TokenRefused
  PROVE  DecoderInv' /\ Code!Refuse
<1>1. lzpc = "token" /\ Overrun /\ lzpc' = "overrun"
  BY DEF TokenRefused
<1>2. /\ src' = src /\ window' = window /\ word' = word /\ avail' = avail
      /\ ctrl' = ctrl /\ tokens' = tokens /\ dst' = dst
  BY DEF TokenRefused, bitstream
<1>3. DecoderInv'
  BY <1>1, <1>2 DEF DecoderInv, ReaderOK, GroupOK, PlaceOK, PrimeOK, OutputOK
<1>4. BitsOf(ctrl \div Weight[tokens], 8 - tokens) # <<>>
  BY <1>1, TokenFlags DEF Flags
<1>5. ~Code!Fits
  BY <1>1, RoomIsCode
<1>6. Code!Refuse
  BY <1>1, <1>2, <1>4, <1>5 DEF Code!Refuse
<1>7. QED
  BY <1>3, <1>6

\* A set flag copies one byte.
LEMMA LiteralStep ==
  ASSUME DecoderInv, TokenLiteral
  PROVE  DecoderInv' /\ Code!Literal
<1>1. /\ lzpc = "token" /\ ~Overrun /\ Field(ctrl, 7, 1) = 1 /\ NextToken
      /\ window' = window /\ word' = word /\ avail' = avail
  BY DEF TokenLiteral
<1>2. PICK b \in Literals : dst' = Append(dst, b) /\ src' = src \o <<b>>
  BY DEF TokenLiteral
<1>3. /\ Flags(ctrl, tokens) # <<>> /\ Head(Flags(ctrl, tokens)) = 1
      /\ GroupOK' /\ PlaceOK' /\ PrimeOK'
      /\ (IF lzpc' \in {"prime", "control"} THEN <<>> ELSE Flags(ctrl', tokens'))
           = Tail(Flags(ctrl, tokens))
      /\ lzpc' \in {"control", "token"}
  BY <1>1, TokenFlags
<1>4. dst \in Seq(Literals) /\ src \in Seq(Bytes) /\ b \in Bytes
  BY DEF DecoderInv, OutputOK, Bytes
<1>5. /\ src' \in Seq(Bytes) /\ dst' \in Seq(Literals)
      /\ dst' = dst \o <<b>> /\ Len(dst') = Len(dst) + 1
  BY <1>2, <1>4, OneMore
<1>6. Len(dst') <= Limit
  <2>1. ~(Len(dst) + 256 > Limit)
    BY <1>1 DEF Overrun, TokenRoom
  <2>2. Len(dst) \in Nat /\ Limit \in Nat
    BY <1>4, LenProperties, StreamAssumption
  <2>3. QED
    BY <1>5, <2>1, <2>2
<1>7. DecoderInv'
  BY <1>1, <1>3, <1>5, <1>6 DEF DecoderInv, ReaderOK, OutputOK
<1>8. Code!Fits
  BY <1>1, RoomIsCode
<1>9. Code!Literal
  <2>1. /\ BitsOf(ctrl \div Weight[tokens], 8 - tokens) # <<>>
        /\ Head(BitsOf(ctrl \div Weight[tokens], 8 - tokens)) = 1
        /\ (IF lzpc' \in {"prime", "control"} THEN <<>>
            ELSE BitsOf(ctrl' \div Weight[tokens'], 8 - tokens'))
             = Tail(BitsOf(ctrl \div Weight[tokens], 8 - tokens))
    BY <1>3 DEF Flags
  <2>2. QED
    BY <1>1, <1>2, <1>3, <1>5, <1>8, <2>1 DEF Code!Literal
<1>10. QED
  BY <1>7, <1>9

\* The length that the window shows is the queue's.
LEMMA WindowLength ==
  ASSUME DecoderInv
  PROVE  LET code == Code!LengthCode(Queue(window, word, avail))
         IN  /\ LengthAt(window) = <<code.value, code.used - 1>>
             /\ code.used \in Nat /\ 1 <= code.used /\ code.used <= 14
             /\ code.value \in Nat /\ code.value < 256
<1>1. window \in Words /\ word \in Int /\ avail \in Nat
  BY WordsAreNumbers DEF DecoderInv, ReaderOK
<1>2. BitsOf(word, avail) \in Seq(Binary01)
  BY <1>1, RowQueue DEF Queues
<1>3. QED
  BY <1>1, <1>2, LengthIsCode DEF Queue

\* The end mark ends both.
LEMMA EndStep ==
  ASSUME DecoderInv, TokenEnd
  PROVE  DecoderInv' /\ Code!End
<1>1. /\ lzpc = "token" /\ ~Overrun /\ Field(ctrl, 7, 1) = 0 /\ LengthAt(window)[1] = EndMark
      /\ lzpc' = "done"
  BY DEF TokenEnd
<1>2. /\ src' = src /\ window' = window /\ word' = word /\ avail' = avail
      /\ ctrl' = ctrl /\ tokens' = tokens /\ dst' = dst
  BY DEF TokenEnd, bitstream
<1>3. DecoderInv'
  BY <1>1, <1>2 DEF DecoderInv, ReaderOK, GroupOK, PlaceOK, PrimeOK, OutputOK
<1>4. /\ BitsOf(ctrl \div Weight[tokens], 8 - tokens) # <<>>
      /\ Head(BitsOf(ctrl \div Weight[tokens], 8 - tokens)) = 0
  BY <1>1, TokenFlags DEF Flags
<1>5. Code!Fits
  BY <1>1, RoomIsCode
<1>6. Code!LengthCode(BitsOf(window, 16) \o BitsOf(word, avail)).value = Code!EndMark
  BY <1>1, WindowLength DEF Queue, Then, EndMark, Code!EndMark
<1>7. Code!End
  BY <1>1, <1>2, <1>4, <1>5, <1>6 DEF Code!End
<1>8. QED
  BY <1>3, <1>7

\* What a match does to the reader and the output, in the code's terms.
MatchBits(w1, w2) ==
  LET q        == Queue(window, word, avail)
      length   == Code!LengthCode(q)
      rest     == Code!After(q, length.used, w1)
      distance == Code!DistanceCode(rest)
  IN /\ w1 \in Code!Supply(q, length.used)
     /\ distance.value \in Nat /\ distance.value < Len(dst)
     /\ dst' = Copied(length.value, distance.value)
     /\ w2 \in Code!Supply(rest, distance.used)
     /\ Queue(window', word', avail') = Code!After(rest, distance.used, w2)
     /\ src' = src \o (w1 \o w2)

\* A match takes the length's bits and the distance's.
LEMMA MatchReads ==
  ASSUME DecoderInv, TokenMatch
  PROVE  ReaderOK' /\ \E w1, w2 \in BitWords \cup {<<>>} : MatchBits(w1, w2)
<1> DEFINE q == Queue(window, word, avail)
           code == Code!LengthCode(q)
           n == code.used - 1
           s == Rd(window, word, avail, <<>>)
<1>1. /\ LengthAt(window) = <<code.value, n>>
      /\ code.used \in Nat /\ 1 <= code.used /\ code.used <= 14 /\ code.value \in Nat
  BY WindowLength
<1>2. window \in Words /\ word \in Words /\ avail \in Nat /\ avail <= 15
  BY DEF DecoderInv, ReaderOK
<1>3. Reader = s
  BY DEF Reader, Rd
<1> HIDE DEF s
<1>4. PICK p \in IF n = 0 THEN {<<>>} ELSE Pairs(s, n) :
        LET s1 == IF n = 0 THEN s ELSE ReadBits(s, n, p)
            s2 == [s1 EXCEPT !.w = Field(@, 0, 15)]
            distance == DistanceAt(s2.w)
        IN /\ distance[1] < Len(dst)
           /\ \E p2 \in Pairs(s2, distance[2]) : Take(ReadBits(s2, distance[2], p2))
           /\ dst' = Copied(code.value, distance[1])
  <2> HIDE DEF code, n
  <2>1. LengthAt(window)[1] = code.value /\ LengthAt(window)[2] = n
    BY <1>1
  <2>2. QED
    BY <1>3, <2>1, Zenon DEF TokenMatch
<1>5. n \in Nat /\ n <= 13 /\ n <= 16 /\ n + 1 = code.used
  <2> HIDE DEF code
  <2>1. QED
    BY <1>1
<1> HIDE DEF code, n, q
<1>6. p \in IF n = 0 THEN {<<>>} ELSE Pairs(Rd(window, word, avail, <<>>), n)
  BY <1>4 DEF s
<1>7. /\ p \in Code!Supply(q, n) /\ p \in BitWords \cup {<<>>}
      /\ n <= avail => p = <<>>
      /\ \E u, v \in Words : \E b \in Nat :
           /\ b <= 15
           /\ (IF n = 0 THEN s ELSE ReadBits(s, n, p)) = Rd(u, v, b, p)
           /\ Queue(u, v, b) = Then(Drop(q, n), Refill(p))
  BY <1>2, <1>5, <1>6, LengthRead DEF q, s
<1>8. PICK u \in Words, v \in Words, b \in Nat :
        /\ b <= 15
        /\ (IF n = 0 THEN s ELSE ReadBits(s, n, p)) = Rd(u, v, b, p)
        /\ Queue(u, v, b) = Then(Drop(q, n), Refill(p))
  BY <1>7
<1> DEFINE f == Field(u, 0, 15)
<1>9. [Rd(u, v, b, p) EXCEPT !.w = Field(@, 0, 15)] = Rd(f, v, b, p) /\ Rd(f, v, b, p).w = f
  BY DEF Rd
<1>10. f \in Words /\ f < 32768 /\ f \in Nat
  BY Cleared, WordsAreNumbers
<1> HIDE DEF f
<1>11. /\ DistanceAt(f)[1] < Len(dst)
       /\ \E p2 \in Pairs(Rd(f, v, b, p), DistanceAt(f)[2]) :
            Take(ReadBits(Rd(f, v, b, p), DistanceAt(f)[2], p2))
       /\ dst' = Copied(code.value, DistanceAt(f)[1])
  BY <1>4, <1>8, <1>9, Zenon
<1>12. ASSUME NEW t \in Queues
       PROVE  LET distance == Code!DistanceCode(Then(BitsOf(f, 15), t))
              IN  /\ DistanceAt(f)[1] = distance.value /\ DistanceAt(f)[2] = distance.used + 1
                  /\ distance.value \in Nat /\ distance.used \in Nat
                  /\ 6 <= distance.used /\ distance.used <= 14
  <2> DEFINE distance == Code!DistanceCode(Then(BitsOf(f, 15), t))
  <2>1. /\ DistanceAt(f) = <<distance.value, distance.used + 1>>
        /\ distance.used \in Nat /\ 6 <= distance.used /\ distance.used <= 14
        /\ distance.value \in Nat
    BY <1>10, DistanceIsCode, DistanceBounds DEF Queues
  <2> HIDE DEF distance
  <2>2. DistanceAt(f)[1] = distance.value /\ DistanceAt(f)[2] = distance.used + 1
    BY <2>1
  <2>3. QED
    BY <2>1, <2>2 DEF distance
<1> DEFINE d == DistanceAt(f)[2]
<1>13. d \in Nat /\ 1 <= d /\ d <= 15
  <2>1. <<>> \in Queues
    BY RefillQueue
  <2> DEFINE used == Code!DistanceCode(Then(BitsOf(f, 15), <<>>)).used
  <2>2. d = used + 1 /\ used \in Nat /\ 6 <= used /\ used <= 14
    BY <1>12, <2>1
  <2> HIDE DEF used, d
  <2>3. QED
    BY <2>2
<1>14. PICK p2 \in Pairs(Rd(f, v, b, p), d) : Take(ReadBits(Rd(f, v, b, p), d, p2))
  BY <1>11
<1> HIDE DEF d
<1>15. FetchedAs(q, n, f, v, b, p, d, p2)
  <2>1. /\ window \in Words /\ word \in Words /\ avail \in Nat /\ avail <= 15
        /\ n \in Nat /\ n <= 13 /\ u \in Words /\ v \in Words /\ b \in Nat /\ b <= 15
        /\ d \in Nat /\ 1 <= d /\ d <= 15
    BY <1>2, <1>5, <1>8, <1>13
  <2>2. /\ p \in BitWords \cup {<<>>} /\ p \in Code!Supply(Queue(window, word, avail), n)
        /\ n <= avail => p = <<>>
        /\ Queue(u, v, b) = Then(Drop(Queue(window, word, avail), n), Refill(p))
        /\ p2 \in Pairs(Rd(Field(u, 0, 15), v, b, p), d)
    BY <1>7, <1>8, <1>14 DEF q, f
  <2>3. FetchedAs(Queue(window, word, avail), n, Field(u, 0, 15), v, b, p, d, p2)
    BY <2>1, <2>2, MatchRead
  <2>4. QED
    BY <2>3 DEF q, f
<1>16. PICK w1 \in BitWords \cup {<<>>}, w2 \in BitWords \cup {<<>>}, t \in Queues,
            x \in Words, y \in Words, c \in Nat :
         /\ w1 \in Code!Supply(q, n + 1)
         /\ Code!After(q, n + 1, w1) = Then(BitsOf(f, 15), t)
         /\ w2 \in Code!Supply(Then(BitsOf(f, 15), t), d - 1)
         /\ w1 \o w2 = p \o p2
         /\ ReadBits(Rd(f, v, b, p), d, p2) = Rd(x, y, c, p \o p2)
         /\ Queue(x, y, c) = Code!After(Then(BitsOf(f, 15), t), d - 1, w2)
         /\ c <= 15
  BY <1>15 DEF FetchedAs
<1>17. window' = x /\ word' = y /\ avail' = c /\ src' = src \o (p \o p2)
  <2>1. Take(Rd(x, y, c, p \o p2))
    BY <1>14, <1>16
  <2>2. QED
    BY <2>1 DEF Take, Rd
<1> DEFINE rest == Code!After(q, code.used, w1)
           distance == Code!DistanceCode(rest)
<1>18. rest = Then(BitsOf(f, 15), t)
  BY <1>5, <1>16
<1>19. /\ DistanceAt(f)[1] = distance.value /\ distance.value \in Nat
       /\ d - 1 = distance.used
  <2>1. /\ DistanceAt(f)[1] = distance.value /\ d = distance.used + 1
        /\ distance.value \in Nat /\ distance.used \in Nat
    BY <1>12, <1>18 DEF d
  <2> HIDE DEF distance
  <2>2. QED
    BY <2>1
<1> HIDE DEF rest, distance
<1>20. MatchBits(w1, w2)
  <2>1. w1 \in Code!Supply(q, code.used)
    BY <1>5, <1>16
  <2>2. distance.value < Len(dst) /\ dst' = Copied(code.value, distance.value)
    BY <1>11, <1>19
  <2>3. w2 \in Code!Supply(rest, distance.used)
    BY <1>16, <1>18, <1>19
  <2>4. Queue(window', word', avail') = Code!After(rest, distance.used, w2)
    BY <1>16, <1>17, <1>18, <1>19
  <2>5. src' = src \o (w1 \o w2)
    BY <1>16, <1>17
  <2>6. QED
    BY <1>19, <2>1, <2>2, <2>3, <2>4, <2>5 DEF MatchBits, q, code, rest, distance
<1>21. ReaderOK'
  BY <1>16, <1>17 DEF ReaderOK
<1>22. QED
  BY <1>20, <1>21

\* A cleared flag expands a match.
LEMMA MatchStep ==
  ASSUME DecoderInv, TokenMatch
  PROVE  DecoderInv' /\ Code!Match
<1> DEFINE q == Queue(window, word, avail)
           length == Code!LengthCode(q)
<1>1. /\ lzpc = "token" /\ ~Overrun /\ Field(ctrl, 7, 1) = 0 /\ LengthAt(window)[1] # EndMark
      /\ NextToken
  BY DEF TokenMatch
<1>2. ReaderOK'
  BY MatchReads
<1>3. PICK w1 \in BitWords \cup {<<>>}, w2 \in BitWords \cup {<<>>} : MatchBits(w1, w2)
  BY MatchReads
<1>4. /\ Flags(ctrl, tokens) # <<>> /\ Head(Flags(ctrl, tokens)) = 0
      /\ GroupOK' /\ PlaceOK' /\ PrimeOK'
      /\ (IF lzpc' \in {"prime", "control"} THEN <<>> ELSE Flags(ctrl', tokens'))
           = Tail(Flags(ctrl, tokens))
      /\ lzpc' \in {"control", "token"}
  BY <1>1, TokenFlags
<1>5. length.value \in Nat /\ length.value < 256 /\ length.value # 255
  <2>1. /\ LengthAt(window) = <<length.value, length.used - 1>>
        /\ length.value \in Nat /\ length.value < 256
    BY WindowLength
  <2> HIDE DEF length
  <2>2. QED
    BY <1>1, <2>1 DEF EndMark
<1> DEFINE rest == Code!After(q, length.used, w1)
           distance == Code!DistanceCode(rest)
<1>6. /\ w1 \in Code!Supply(q, length.used)
      /\ distance.value \in Nat /\ distance.value < Len(dst)
      /\ dst' = Copied(length.value, distance.value)
      /\ w2 \in Code!Supply(rest, distance.used)
      /\ Queue(window', word', avail') = Code!After(rest, distance.used, w2)
      /\ src' = src \o (w1 \o w2)
  BY <1>3 DEF MatchBits
<1>7. src \in Seq(Bytes) /\ dst \in Seq(Literals)
  BY DEF DecoderInv, OutputOK
<1>8. w1 \in Seq(Bytes) /\ w2 \in Seq(Bytes)
  BY FetchedBytes
<1> HIDE DEF length, rest, distance
<1>9. /\ dst' = dst \o Code!Repeated(length.value, distance.value)
      /\ dst' \in Seq(Literals) /\ Len(dst') = Len(dst) + length.value + 1
  BY <1>5, <1>6, <1>7, CopyIsCode
<1>10. Len(dst') <= Limit
  <2>1. ~(Len(dst) + 256 > Limit)
    BY <1>1 DEF Overrun, TokenRoom
  <2>2. Len(dst) \in Nat /\ Limit \in Nat
    BY <1>7, LenProperties, StreamAssumption
  <2>3. QED
    BY <1>5, <1>9, <2>1, <2>2
<1>11. src' \in Seq(Bytes) /\ src' = (src \o w1) \o w2
  <2>1. w1 \o w2 \in Seq(Bytes)
    BY <1>8, ConcatProperties
  <2>2. src \o (w1 \o w2) \in Seq(Bytes)
    BY <1>7, <2>1, ConcatProperties
  <2>3. (src \o w1) \o w2 = src \o (w1 \o w2)
    BY <1>7, <1>8, ConcatAssociative
  <2>4. QED
    BY <1>6, <2>2, <2>3
<1>12. DecoderInv'
  BY <1>2, <1>4, <1>9, <1>10, <1>11 DEF DecoderInv, OutputOK
<1>13. Code!Fits
  BY <1>1, RoomIsCode
<1>14. Code!Match
  <2>1. /\ BitsOf(ctrl \div Weight[tokens], 8 - tokens) # <<>>
        /\ Head(BitsOf(ctrl \div Weight[tokens], 8 - tokens)) = 0
        /\ (IF lzpc' \in {"prime", "control"} THEN <<>>
            ELSE BitsOf(ctrl' \div Weight[tokens'], 8 - tokens'))
             = Tail(BitsOf(ctrl \div Weight[tokens], 8 - tokens))
    BY <1>4 DEF Flags
  <2>2. q = BitsOf(window, 16) \o BitsOf(word, avail)
    BY DEF Queue, Then
  <2>3. BitsOf(window', 16) \o BitsOf(word', avail') = Code!After(rest, distance.used, w2)
    BY <1>6 DEF Queue, Then
  <2> HIDE DEF q
  <2>4. Code!LengthCode(q).value # Code!EndMark
    BY <1>5 DEF length, Code!EndMark
  <2>5. QED
    BY <1>1, <1>4, <1>6, <1>9, <1>11, <1>13, <2>1, <2>2, <2>3, <2>4, ZenonT(60)
       DEF Code!Match, length, rest, distance
<1>15. QED
  BY <1>12, <1>14

----------------------------------------------------------------------------
\* The decoder starts where the code does.
LEMMA CodeStarts == DecoderInit => Code!Init
BY DEF DecoderInit, Code!Init

\* Every step keeps the invariant and is the code's, or nothing of the code's.
LEMMA CodeSteps ==
  ASSUME DecoderInv, [DecoderNext]_decoder
  PROVE  DecoderInv' /\ [Code!Next]_(Code!vars)
<1>1. CASE Prime
  BY <1>1, PrimeStep DEF Code!Next
<1>2. CASE Control
  BY <1>2, ControlStep DEF Code!Next
<1>3. CASE TokenRefused
  BY <1>3, RefusedStep DEF Code!Next
<1>4. CASE TokenLiteral
  BY <1>4, LiteralStep DEF Code!Next
<1>5. CASE TokenEnd
  BY <1>5, EndStep DEF Code!Next
<1>6. CASE TokenMatch
  BY <1>6, MatchStep DEF Code!Next
<1>7. CASE UNCHANGED decoder
  <2>1. /\ src' = src /\ window' = window /\ word' = word /\ avail' = avail
        /\ ctrl' = ctrl /\ tokens' = tokens /\ dst' = dst /\ lzpc' = lzpc
    BY <1>7 DEF decoder, bitstream
  <2>2. DecoderInv'
    BY <2>1 DEF DecoderInv, ReaderOK, GroupOK, PlaceOK, PrimeOK, OutputOK
  <2>3. UNCHANGED Code!vars
    BY <2>1 DEF Code!vars
  <2>4. QED
    BY <2>2, <2>3
<1>8. QED
  BY <1>1, <1>2, <1>3, <1>4, <1>5, <1>6, <1>7 DEF DecoderNext

\* For every stream and every size of output the decoder does what the code says: it
\* takes the same bytes off the stream in the same order, writes the same bytes, ends
\* where the code ends and gives up where the code does.
THEOREM DecodesTheCode == DecoderSpec => CodeSpec
<1>1. DecoderInit => Code!Init
  BY CodeStarts
<1>2. DecoderInit => DecoderInv
  BY InvStarts
<1>3. DecoderInv /\ [DecoderNext]_decoder => DecoderInv' /\ [Code!Next]_(Code!vars)
  BY CodeSteps
<1>4. QED
  BY <1>1, <1>2, <1>3, PTL DEF DecoderSpec, CodeSpec, Code!Spec

\* The decoder's tables agree with the code on a window: the length, and the
\* distance behind a length's last bit.
LEMMA TablesAgree ==
  ASSUME NEW w \in Words
  PROVE  LET bits     == BitsOf(w, 16)
             length   == Code!LengthCode(bits)
             distance == Code!DistanceCode(Tail(bits))
         IN  /\ LengthAt(w) = <<length.value, length.used - 1>>
             /\ DistanceAt(Field(w, 0, 15)) = <<distance.value, distance.used + 1>>
<1> DEFINE bits == BitsOf(w, 16)
           none == BitsOf(0, 0)
           f == Field(w, 0, 15)
<1>1. 0 \in Words /\ w \in Int /\ 0 \in Int /\ 0 \in Nat /\ 16 \in Nat
  BY WordsAreNumbers DEF Words
<1>2. bits \in Queues /\ Len(bits) = 16 /\ none \in Queues /\ none = <<>>
  <2>1. bits \in Queues /\ Len(bits) = 16
    BY <1>1, RowQueue
  <2>2. none \in Queues /\ Len(none) = 0
    BY <1>1, RowQueue
  <2> HIDE DEF bits, none
  <2>3. none = <<>>
    BY <2>2, EmptySeq DEF Queues
  <2>4. QED
    BY <2>1, <2>2, <2>3
<1>3. Queue(w, 0, 0) = Then(bits, none)
  BY DEF Queue
<1>4. /\ f \in Words /\ f < 32768 /\ f \in Nat
      /\ Drop(Queue(w, 0, 0), 1) = Then(BitsOf(f, 15), none)
  <2>1. /\ Field(w, 0, 15) \in Words /\ Field(w, 0, 15) < 32768
        /\ Drop(Queue(w, 0, 0), 1) = Then(BitsOf(Field(w, 0, 15), 15), BitsOf(0, 0))
    BY <1>1, Cleared
  <2>2. Field(w, 0, 15) \in Nat
    BY <2>1, WordsAreNumbers
  <2>3. QED
    BY <2>1, <2>2
<1> HIDE DEF bits, none, f
<1>5. Then(bits, none) = bits
  BY <1>2, ThenNothing
<1>6. Tail(bits) = Then(BitsOf(f, 15), none)
  <2>1. bits # <<>> /\ bits \in Seq(Binary01)
    BY <1>2 DEF Queues
  <2>2. Tail(bits) = SubSeq(bits, 2, Len(bits))
    BY <2>1, TailIsSubSeq
  <2>3. Drop(bits, 1) = SubSeq(bits, 2, Len(bits))
    BY DEF Drop
  <2>4. QED
    BY <1>3, <1>4, <1>5, <2>2, <2>3
<1>7. LengthAt(w) = <<Code!LengthCode(bits).value, Code!LengthCode(bits).used - 1>>
  <2>1. none \in Seq(Binary01)
    BY <1>2 DEF Queues
  <2>2. LET code == Code!LengthCode(Then(bits, none))
        IN  LengthAt(w) = <<code.value, code.used - 1>>
    BY <1>1, <2>1, LengthIsCode DEF bits
  <2>3. QED
    BY <1>5, <2>2
<1>8. DistanceAt(f)
        = <<Code!DistanceCode(Tail(bits)).value, Code!DistanceCode(Tail(bits)).used + 1>>
  <2>1. none \in Seq(Binary01)
    BY <1>2 DEF Queues
  <2>2. LET code == Code!DistanceCode(Then(BitsOf(f, 15), none))
        IN  DistanceAt(f) = <<code.value, code.used + 1>>
    BY <1>4, <2>1, DistanceIsCode
  <2>3. QED
    BY <1>6, <2>2
<1>9. QED
  BY <1>7, <1>8 DEF bits, f

\* The words are the numbers up to the largest.
LEMMA WordRange == \A w : w \in 0..WordMax <=> w \in Words
<1>1. WordMax \in Nat /\ \A w \in Nat : w <= WordMax <=> w < 65536
  BY DEF WordMax
<1>2. \A w : w \in 0..WordMax <=> w \in Nat /\ w <= WordMax
  BY <1>1
<1>3. QED
  BY <1>1, <1>2 DEF Words

\* And so on all of them.
LEMMA TablesAreCode == TokenIsCode
BY WordRange, TablesAgree DEF TokenIsCode

\* For every stream and every size of output: nothing is written past the end of the
\* buffer, the reader keeps its widths, and the tables are the code's.
THEOREM DecoderIsRight == DecoderSpec => []DecoderRight
<1>1. DecoderInv => DecoderRight
  <2> SUFFICES ASSUME DecoderInv
               PROVE  DecoderRight
    OBVIOUS
  <2>1. WritesInBounds
    BY DEF DecoderInv, OutputOK, WritesInBounds
  <2>2. DecoderTypeOK
    <3>1. window \in Words /\ word \in Words
      BY DEF DecoderInv, ReaderOK
    <3>2. window \in 0..WordMax /\ word \in 0..WordMax
      BY <3>1, WordRange
    <3>3. avail \in 0..15
      BY DEF DecoderInv, ReaderOK
    <3>4. ctrl \in 0..255
      BY DEF DecoderInv, GroupOK
    <3>5. tokens \in 0..8
      BY DEF DecoderInv, GroupOK
    <3>6. QED
      BY <3>2, <3>3, <3>4, <3>5 DEF DecoderInv, PlaceOK, DecoderTypeOK
  <2>3. QED
    BY <2>1, <2>2, TablesAreCode DEF DecoderRight
<1>2. DecoderInit => DecoderInv
  BY InvStarts
<1>3. DecoderInv /\ [DecoderNext]_decoder => DecoderInv'
  BY CodeSteps
<1>4. QED
  BY <1>1, <1>2, <1>3, PTL DEF DecoderSpec
=============================================================================
