---------------------------- MODULE BinaryProofs ----------------------------
(***************************************************************************)
(* Facts that the other proofs share: induction over numbers and the       *)
(* values of a recursion; of numbers, the weights of bits (whose recursive *)
(* definition is unfolded by that induction), quotients and remainders.    *)
(***************************************************************************)
EXTENDS Binary, WellFoundedInduction, TLAPS

\* A set of numbers with 0 in it and the successor of each has all of them.
LEMMA Induction ==
  ASSUME NEW S, 0 \in S, \A n \in Nat : n \in S => n + 1 \in S
  PROVE  \A n \in Nat : n \in S
<1> SUFFICES ASSUME Nat \ S # {}
             PROVE  FALSE
  OBVIOUS
<1>1. PICK x \in Nat \ S : \A y \in Nat \ S : ~(<<y, x>> \in OpToRel(<, Nat))
  BY WFMin, NatLessThanWellFounded
<1>2. x - 1 \in Nat \ S
  <2>1. x # 0
    OBVIOUS
  <2>2. x - 1 \in Nat
    BY <2>1
  <2>3. x - 1 \notin S
    BY <2>2
  <2>4. QED
    BY <2>2, <2>3
<1>3. <<x - 1, x>> \in OpToRel(<, Nat)
  BY <1>2 DEF OpToRel
<1>4. QED
  BY <1>1, <1>2, <1>3

\* The first N values of a recursion from a in which the step k is F[k].
Recursive(N, T, a, F) == {g \in [0..N -> T] : g[0] = a /\ \A k \in 1..N : g[k] = F[k][g[k - 1]]}

\* The values of a recursion exist.
LEMMA Recursion ==
  ASSUME NEW N \in Nat, NEW T, NEW a \in T, NEW F \in [1..N -> [T -> T]]
  PROVE  Recursive(N, T, a, F) # {}
<1> DEFINE First(n) == {g \in [0..n -> T] : g[0] = a /\ \A k \in 1..n : g[k] = F[k][g[k - 1]]}
           S == {n \in Nat : n <= N => First(n) # {}}
<1>1. 0 \in S
  <2>1. [k \in 0..0 |-> a] \in First(0)
    OBVIOUS
  <2>2. QED
    BY <2>1
<1>2. ASSUME NEW n \in Nat, n \in S
      PROVE  n + 1 \in S
  <2>1. SUFFICES ASSUME n + 1 <= N
                 PROVE  First(n + 1) # {}
    OBVIOUS
  <2>2. PICK g : g \in First(n)
    BY <1>2, <2>1
  <2>3. g \in [0..n -> T] /\ g[0] = a /\ \A k \in 1..n : g[k] = F[k][g[k - 1]]
    BY <2>2
  <2> DEFINE last == F[n + 1][g[n]]
             h == [k \in 0..n + 1 |-> IF k = n + 1 THEN last ELSE g[k]]
  <2>4. last \in T
    <3>1. n + 1 \in 1..N /\ g[n] \in T
      BY <2>1, <2>3
    <3>2. F[n + 1] \in [T -> T]
      BY <3>1
    <3>3. QED
      BY <3>1, <3>2
  <2> HIDE DEF last
  <2>5. h \in [0..n + 1 -> T] /\ h[0] = a
    BY <2>3, <2>4
  <2>6. ASSUME NEW k \in 1..n + 1
        PROVE  h[k] = F[k][h[k - 1]]
    <3>1. h[k - 1] = g[k - 1]
      OBVIOUS
    <3>2. CASE k = n + 1
      BY <3>1, <3>2 DEF last
    <3>3. CASE k # n + 1
      BY <3>1, <3>3, <2>3
    <3>4. QED
      BY <3>2, <3>3
  <2>7. h \in First(n + 1)
    <3> HIDE DEF h
    <3> QED
      BY <2>5, <2>6
  <2>8. QED
    BY <2>7
<1>3. \A n \in Nat : n \in S
  <2> HIDE DEF S
  <2> QED
    BY <1>1, <1>2, Induction
<1>4. First(N) # {}
  BY <1>3
<1>5. QED
  BY <1>4 DEF Recursive

\* The first n weights.
Weights(n) == {w \in [0..n -> Nat] : w[0] = 1 /\ \A i \in 1..n : w[i] = 2 * w[i - 1]}

\* There are such weights for every n.
LEMMA WeightsExist == \A n \in Nat : Weights(n) # {}
<1> DEFINE S == {n \in Nat : Weights(n) # {}}
<1>1. [i \in 0..0 |-> 1] \in Weights(0)
  BY DEF Weights
<1>2. ASSUME NEW n \in Nat, NEW w \in Weights(n)
      PROVE  [i \in 0..n + 1 |-> IF i = n + 1 THEN 2 * w[n] ELSE w[i]] \in Weights(n + 1)
  <2> DEFINE v == [i \in 0..n + 1 |-> IF i = n + 1 THEN 2 * w[n] ELSE w[i]]
  <2>1. w \in [0..n -> Nat] /\ w[0] = 1 /\ \A i \in 1..n : w[i] = 2 * w[i - 1]
    BY DEF Weights
  <2>2. v \in [0..n + 1 -> Nat] /\ v[0] = 1
    BY <2>1
  <2>3. ASSUME NEW i \in 1..n + 1
        PROVE  v[i] = 2 * v[i - 1]
    <3>1. CASE i = n + 1
      BY <3>1, <2>1
    <3>2. CASE i # n + 1
      BY <3>2, <2>1
    <3>3. QED
      BY <3>1, <3>2
  <2>4. QED
    BY <2>2, <2>3 DEF Weights
<1>3. ASSUME NEW n \in Nat, n \in S
      PROVE  n + 1 \in S
  <2>1. PICK w : w \in Weights(n)
    BY <1>3
  <2>2. Weights(n + 1) # {}
    BY <1>2, <2>1
  <2>3. QED
    BY <2>2
<1>4. \A n \in Nat : n \in S
  BY <1>1, <1>3, Induction
<1>5. QED
  BY <1>4

\* Any two agree where both are defined.
LEMMA WeightsAgree ==
  \A i \in Nat : \A m, n \in Nat : \A v \in Weights(m), w \in Weights(n) :
    i <= m /\ i <= n => v[i] = w[i]
<1> DEFINE S == {i \in Nat : \A m, n \in Nat : \A v \in Weights(m), w \in Weights(n) :
                               i <= m /\ i <= n => v[i] = w[i]}
<1>1. 0 \in S
  BY DEF Weights
<1>2. ASSUME NEW i \in Nat, i \in S
      PROVE  i + 1 \in S
  <2>1. ASSUME NEW m \in Nat, NEW n \in Nat, NEW v \in Weights(m), NEW w \in Weights(n),
               i + 1 <= m, i + 1 <= n
        PROVE  v[i + 1] = w[i + 1]
    <3>1. i + 1 \in 1..m /\ i + 1 \in 1..n /\ i <= m /\ i <= n
      BY <2>1
    <3>2. v[i + 1] = 2 * v[i] /\ w[i + 1] = 2 * w[i]
      BY <3>1 DEF Weights
    <3>3. v[i] = w[i]
      BY <1>2, <3>1
    <3>4. QED
      BY <3>2, <3>3
  <2>2. QED
    BY <2>1
<1>3. \A i \in Nat : i \in S
  BY <1>1, <1>2, Induction
<1>4. QED
  BY <1>3

\* So the recursive definition defines a function.
LEMMA WeightDefined == Weight = [n \in Nat |-> IF n = 0 THEN 1 ELSE 2 * Weight[n - 1]]
<1> DEFINE First(n) == CHOOSE w \in Weights(n) : TRUE
           v == [n \in Nat |-> First(n)[n]]
<1>1. \A n \in Nat : First(n) \in Weights(n)
  BY WeightsExist
<1>2. ASSUME NEW n \in Nat
      PROVE  v[n] = IF n = 0 THEN 1 ELSE 2 * v[n - 1]
  <2>1. CASE n = 0
    BY <1>1, <2>1 DEF Weights
  <2>2. CASE n # 0
    <3>1. n - 1 \in Nat /\ n \in 1..n /\ v[n] = First(n)[n] /\ v[n - 1] = First(n - 1)[n - 1]
      BY <2>2
    <3>2. First(n)[n] = 2 * First(n)[n - 1]
      BY <1>1, <3>1 DEF Weights
    <3>3. First(n)[n - 1] = First(n - 1)[n - 1]
      BY <1>1, <3>1, WeightsAgree
    <3>4. QED
      BY <2>2, <3>1, <3>2, <3>3
  <2>3. QED
    BY <2>1, <2>2
<1>3. v = [n \in Nat |-> v[n]]
  OBVIOUS
<1>4. v = [n \in Nat |-> IF n = 0 THEN 1 ELSE 2 * v[n - 1]]
  <2> HIDE DEF v
  <2>1. QED
    BY <1>2, <1>3
<1>5. QED
  BY <1>4 DEF Weight

\* Each weight is twice the one before.
LEMMA WeightDoubles ==
  /\ Weight[0] = 1
  /\ \A n \in Nat : Weight[n] \in Nat \ {0} /\ Weight[n + 1] = 2 * Weight[n]
<1> DEFINE S == {n \in Nat : Weight[n] \in Nat \ {0}}
<1>1. Weight[0] = 1
  BY WeightDefined
<1>2. ASSUME NEW n \in Nat
      PROVE  Weight[n + 1] = 2 * Weight[n]
  BY WeightDefined
<1>3. 0 \in S /\ \A n \in Nat : n \in S => n + 1 \in S
  BY <1>1, <1>2
<1>4. \A n \in Nat : n \in S
  BY <1>3, Induction
<1>5. QED
  BY <1>1, <1>2, <1>4

----------------------------------------------------------------------------
\* Division by a positive number leaves a remainder below it.
LEMMA DivMod ==
  ASSUME NEW x \in Int, NEW y \in Nat \ {0}
  PROVE  x \div y \in Int /\ x % y \in 0..y - 1 /\ x = (x \div y) * y + (x % y)
OBVIOUS

\* There is one quotient.
LEMMA QuotientUnique ==
  ASSUME NEW y \in Nat, NEW p \in Int, NEW q \in Int, NEW r \in 0..y - 1, NEW s \in 0..y - 1,
         p * y + r = q * y + s
  PROVE  p = q
<1>1. ASSUME NEW m \in Int, NEW n \in Int, m > n
      PROVE  m * y >= n * y + y
  <2>1. m - n - 1 \in Nat
    BY <1>1
  <2>2. (m - n - 1) * y >= 0
    BY <2>1
  <2>3. QED
    BY <2>2
<1>2. ~(p > q)
  <2>1. p > q => p * y >= q * y + y
    BY <1>1
  <2>2. QED
    BY <2>1
<1>3. ~(q > p)
  <2>1. q > p => q * y >= p * y + y
    BY <1>1
  <2>2. QED
    BY <2>1
<1>4. QED
  BY <1>2, <1>3

\* What a quotient and a remainder are recognised by.
LEMMA Divided ==
  ASSUME NEW x \in Int, NEW y \in Nat, NEW q \in Int, NEW r \in 0..y - 1, x = q * y + r
  PROVE  x \div y = q /\ x % y = r
<1>1. y \in Nat \ {0}
  OBVIOUS
<1>2. x \div y \in Int /\ x % y \in 0..y - 1 /\ x = (x \div y) * y + (x % y)
  BY <1>1, DivMod
<1>3. x \div y = q
  BY <1>2, QuotientUnique
<1>4. QED
  BY <1>2, <1>3

\* A product of a factor below one bound and a number below another, in order.
LEMMA PlaceValue ==
  ASSUME NEW y \in Nat \ {0}, NEW n \in Nat, NEW h \in Int, NEW l \in 0..y - 1
  PROVE  /\ h < n => h * y + l < n * y
         /\ h >= n => h * y + l >= n * y
<1>1. ASSUME h < n
      PROVE  h * y + l < n * y
  <2>1. n - h - 1 \in Nat
    BY <1>1
  <2>2. (n - h - 1) * y >= 0
    BY <2>1
  <2>3. QED
    BY <2>2
<1>2. ASSUME h >= n
      PROVE  h * y + l >= n * y
  <2>1. h - n \in Nat
    BY <1>2
  <2>2. (h - n) * y >= 0
    BY <2>1
  <2>3. QED
    BY <2>2
<1>3. QED
  BY <1>1, <1>2

----------------------------------------------------------------------------
\* Shifting twice is shifting by the sum.
LEMMA WeightsMultiply ==
  \A m, n \in Nat : Weight[m + n] = Weight[m] * Weight[n]
<1> SUFFICES ASSUME NEW m \in Nat
             PROVE  \A n \in Nat : Weight[m + n] = Weight[m] * Weight[n]
  OBVIOUS
<1> DEFINE S == {n \in Nat : Weight[m + n] = Weight[m] * Weight[n]}
<1>1. 0 \in S
  BY WeightDoubles
<1>2. ASSUME NEW n \in Nat, n \in S
      PROVE  n + 1 \in S
  <2>1. Weight[(m + n) + 1] = 2 * Weight[m + n] /\ Weight[n + 1] = 2 * Weight[n]
    BY WeightDoubles
  <2>2. Weight[m + n] = Weight[m] * Weight[n] /\ m + (n + 1) = (m + n) + 1
    BY <1>2
  <2>3. Weight[m] \in Nat /\ Weight[n] \in Nat
    BY WeightDoubles
  <2>4. 2 * (Weight[m] * Weight[n]) = Weight[m] * (2 * Weight[n])
    BY <2>3
  <2>5. QED
    BY <2>1, <2>2, <2>4
<1>3. \A n \in Nat : n \in S
  BY <1>1, <1>2, Induction
<1>4. QED
  BY <1>3

\* Two places together.
LEMMA WeightProduct ==
  ASSUME NEW m \in Nat, NEW n \in Nat
  PROVE  Weight[m + n] = Weight[m] * Weight[n]
BY WeightsMultiply

\* The same where their sum has a name.
LEMMA WeightSum ==
  ASSUME NEW m \in Nat, NEW n \in Nat, NEW k, m + n = k
  PROVE  Weight[m] * Weight[n] = Weight[k]
<1>1. Weight[m + n] = Weight[m] * Weight[n]
  BY WeightProduct
<1>2. Weight[m + n] = Weight[k]
  OBVIOUS
<1>3. QED
  BY <1>1, <1>2, Zenon

\* The weights within two bytes.
LEMMA WeightTable ==
  /\ Weight[0] = 1 /\ Weight[1] = 2 /\ Weight[2] = 4 /\ Weight[3] = 8 /\ Weight[4] = 16
  /\ Weight[5] = 32 /\ Weight[6] = 64 /\ Weight[7] = 128 /\ Weight[8] = 256
  /\ Weight[9] = 512 /\ Weight[10] = 1024 /\ Weight[11] = 2048 /\ Weight[12] = 4096
  /\ Weight[13] = 8192 /\ Weight[14] = 16384 /\ Weight[15] = 32768 /\ Weight[16] = 65536
<1>1. Weight[0] = 1 /\ Weight[0 + 1] = 2 /\ Weight[1 + 1] = 4 /\ Weight[2 + 1] = 8
  BY WeightDoubles
<1>2. Weight[3 + 1] = 16 /\ Weight[4 + 1] = 32 /\ Weight[5 + 1] = 64 /\ Weight[6 + 1] = 128
  BY <1>1, WeightDoubles
<1>3. Weight[7 + 1] = 256 /\ Weight[8 + 1] = 512 /\ Weight[9 + 1] = 1024
      /\ Weight[10 + 1] = 2048
  BY <1>2, WeightDoubles
<1>4. Weight[11 + 1] = 4096 /\ Weight[12 + 1] = 8192 /\ Weight[13 + 1] = 16384
      /\ Weight[14 + 1] = 32768 /\ Weight[15 + 1] = 65536
  BY <1>3, WeightDoubles
<1>5. QED
  BY <1>1, <1>2, <1>3, <1>4

\* As is dividing twice dividing by the product.
LEMMA DividedTwice ==
  ASSUME NEW v \in Int, NEW x \in Nat \ {0}, NEW y \in Nat \ {0}
  PROVE  (v \div x) \div y = v \div (x * y)
<1> DEFINE q == v \div x
           r == v % x
           p == q \div y
           s == q % y
<1>1. q \in Int /\ r \in 0..x - 1 /\ v = q * x + r
  BY DivMod
<1>2. p \in Int /\ s \in 0..y - 1 /\ q = p * y + s
  BY <1>1, DivMod
<1> HIDE DEF q, r, p, s
<1>3. x * y \in Nat /\ s * x + r \in 0..x * y - 1
  <2>1. s * x + r < y * x
    BY <1>1, <1>2, PlaceValue
  <2>2. s * x \in Nat /\ x * y \in Nat /\ y * x = x * y
    BY <1>2
  <2>3. QED
    BY <1>1, <2>1, <2>2
<1>4. v = p * (x * y) + (s * x + r)
  <2>1. (p * y + s) * x = p * (x * y) + s * x
    BY <1>2
  <2>2. QED
    BY <1>1, <1>2, <2>1, <1>3
<1>5. v \div (x * y) = p
  BY <1>2, <1>3, <1>4, Divided
<1>6. QED
  BY <1>5 DEF p, q

\* Bit j of a number.
Bit(v, j) == (v \div Weight[j]) % 2

\* The bits of a quotient are those above it in the dividend.
LEMMA BitOfQuotient ==
  ASSUME NEW v \in Int, NEW b \in Nat, NEW j \in Nat
  PROVE  Bit(v \div Weight[b], j) = Bit(v, b + j)
<1>1. Weight[b] \in Nat \ {0} /\ Weight[j] \in Nat \ {0}
  BY WeightDoubles
<1>2. (v \div Weight[b]) \div Weight[j] = v \div (Weight[b] * Weight[j])
  BY <1>1, DividedTwice
<1>3. Weight[b + j] = Weight[b] * Weight[j]
  BY WeightsMultiply
<1>4. QED
  BY <1>2, <1>3 DEF Bit

\* Those of a remainder are the dividend's own.
LEMMA BitOfRemainder ==
  ASSUME NEW v \in Int, NEW n \in Nat, NEW j \in 0..n - 1
  PROVE  Bit(v % Weight[n], j) = Bit(v, j)
<1> DEFINE y == Weight[j]
           h == Weight[n - j - 1]
           q == v \div Weight[n]
           r == v % Weight[n]
           t == r \div y
           u == r % y
<1>1. n - j - 1 \in Nat /\ j \in Nat /\ n = j + ((n - j - 1) + 1)
  OBVIOUS
<1>2. y \in Nat \ {0} /\ h \in Nat \ {0} /\ Weight[n] \in Nat \ {0}
  BY <1>1, WeightDoubles
<1>3. Weight[n] = y * (2 * h)
  <2>1. Weight[(n - j - 1) + 1] = 2 * h
    BY <1>1, WeightDoubles
  <2>2. Weight[j + ((n - j - 1) + 1)] = Weight[j] * Weight[(n - j - 1) + 1]
    BY <1>1, WeightsMultiply
  <2>3. QED
    BY <1>1, <2>1, <2>2
<1>4. q \in Int /\ r \in 0..Weight[n] - 1 /\ v = q * Weight[n] + r
  BY <1>2, DivMod
<1>5. r \in Int /\ t \in Int /\ u \in 0..y - 1 /\ r = t * y + u
  <2>1. r \in Int
    BY <1>2, <1>4
  <2> HIDE DEF y, r
  <2>2. QED
    BY <1>2, <2>1, DivMod
<1>6. v \div y = 2 * (q * h) + t
  <2> HIDE DEF y, h, q, r, t, u
  <2>1. q * (y * (2 * h)) = (2 * (q * h)) * y
    BY <1>2, <1>4
  <2>2. (2 * (q * h) + t) * y = (2 * (q * h)) * y + t * y
    BY <1>2, <1>4, <1>5
  <2>3. v = (2 * (q * h) + t) * y + u
    <3>1. v = q * (y * (2 * h)) + (t * y + u)
      BY <1>3, <1>4, <1>5, Zenon
    <3>2. v = ((2 * (q * h)) * y) + (t * y + u)
      BY <2>1, <3>1, Zenon
    <3> DEFINE a == (2 * (q * h)) * y
               b == t * y
    <3>3. a \in Int /\ b \in Int /\ u \in Int
      BY <1>2, <1>4, <1>5
    <3> HIDE DEF a, b
    <3>4. a + (b + u) = (a + b) + u
      BY <3>3
    <3>5. QED
      BY <2>2, <3>2, <3>4, Zenon DEF a, b
  <2>4. y \in Nat /\ q * h \in Int /\ 2 * (q * h) + t \in Int
    BY <1>2, <1>4, <1>5
  <2>5. QED
    BY <1>5, <2>3, <2>4, Divided
<1>7. (2 * (q * h) + t) % 2 = t % 2
  <2> DEFINE z == q * h
  <2> HIDE DEF y, h, q, r, t, u
  <2>1. z \in Int
    BY <1>2, <1>4
  <2>2. t \in Int
    BY <1>5
  <2> HIDE DEF z
  <2>3. (2 * z + t) % 2 = t % 2
    BY <2>1, <2>2
  <2>4. QED
    BY <2>3 DEF z
<1>8. Bit(r, j) = t % 2 /\ Bit(v, j) = (v \div y) % 2
  BY DEF Bit
<1>9. QED
  BY <1>6, <1>7, <1>8

\* What a left shift in a register of n + c bits leaves of a number are its c bits.
LEMMA ShiftedLeftBy ==
  ASSUME NEW v \in Int, NEW n \in Nat, NEW c \in Nat
  PROVE  (v * Weight[n]) % Weight[n + c] = (v % Weight[c]) * Weight[n]
<1> DEFINE x == Weight[n]
           y == Weight[c]
           q == v \div y
           r == v % y
<1>1. x \in Nat \ {0} /\ y \in Nat \ {0} /\ Weight[n + c] = x * y
  BY WeightDoubles, WeightsMultiply
<1>2. q \in Int /\ r \in 0..y - 1 /\ v = q * y + r
  BY <1>1, DivMod
<1> HIDE DEF x, y, q, r
<1>3. v * x = q * (x * y) + r * x
  BY <1>1, <1>2
<1>4. x * y \in Nat /\ r * x \in 0..x * y - 1
  <2>1. r * x + 0 < y * x
    BY <1>1, <1>2, PlaceValue
  <2>2. r * x \in Nat /\ x * y \in Nat /\ y * x = x * y
    BY <1>1, <1>2
  <2>3. QED
    BY <2>1, <2>2
<1>5. (v * x) % (x * y) = r * x
  <2>1. v * x \in Int
    BY <1>1
  <2>2. QED
    BY <1>2, <1>3, <1>4, <2>1, Divided
<1>6. QED
  BY <1>1, <1>5 DEF x, r, y
=============================================================================
