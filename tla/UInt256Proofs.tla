--------------------------- MODULE UInt256Proofs ---------------------------
(***************************************************************************)
(* Proofs about the 256-bit integers, for every width of a word and of a   *)
(* digit: sums, differences, products and shifts are those of the integers *)
(* modulo 2^256, and the text of a value is its numeral.                    *)
(*                                                                         *)
(* First induction, iteration and powers; then quotients and remainders;   *)
(* then the words one by one: carries, bits, shifts; then values.          *)
(***************************************************************************)
EXTENDS UInt256, SequenceTheorems, NaturalsInduction, WellFoundedInduction, TLAPS

-----------------------------------------------------------------------------
(* Induction and iteration *)

\* A set of natural numbers that is not empty has a least element: the form in
\* which induction on naturals is used below.
LEMMA LeastElement ==
  ASSUME NEW T \in SUBSET Nat, T # {}
  PROVE  \E m \in T : \A k \in T : m <= k
<1>1. IsWellFoundedOn(OpToRel(<, Nat), Nat)
  BY NatLessThanWellFounded
<1>2. \E m \in T : \A k \in T : ~(<<k, m>> \in OpToRel(<, Nat))
  BY <1>1, WFMin
<1>3. \E m \in T : \A k \in T : ~(k < m)
  BY <1>2 DEF OpToRel
<1> QED BY <1>3

\* Induction, for the members of a set.
LEMMA Induction ==
  ASSUME NEW T, 0 \in T, \A k \in Nat : k \in T => k + 1 \in T
  PROVE  \A k \in Nat : k \in T
<1> DEFINE F == {k \in Nat : k \notin T}
<1>1. SUFFICES ASSUME F # {} PROVE FALSE
  OBVIOUS
<1>2. F \in SUBSET Nat
  OBVIOUS
<1> HIDE DEF F
<1>3. PICK m \in F : \A k \in F : m <= k
  BY <1>1, <1>2, LeastElement
<1>4. m \in Nat /\ m \notin T
  BY <1>3 DEF F
<1>5. m # 0
  BY <1>4
<1>6. m - 1 \in Nat /\ m - 1 \notin F /\ (m - 1) + 1 = m
  BY <1>3, <1>4, <1>5
<1>7. m - 1 \in T
  BY <1>6 DEF F
<1>8. m \in T
  BY <1>6, <1>7
<1> QED BY <1>4, <1>8

\* f is the table that begins with a and goes on by g, within S.
IsTable(f, S, a, len, g) ==
  /\ f \in [0..len -> S]
  /\ f[0] = a
  /\ \A k \in 1..len : f[k] = g[k][f[k - 1]]

\* A table that is filled from one entry to the next exists: what the recursive
\* functions of the model stand on.
LEMMA Iteration ==
  ASSUME NEW S, NEW a \in S, NEW len \in Nat, NEW g,
         \A k \in 1..len : \A s \in S : g[k][s] \in S
  PROVE  \E f : IsTable(f, S, a, len, g)
<1> DEFINE Filled(m, f) == /\ f \in [0..m -> S]
                           /\ f[0] = a
                           /\ \A k \in 1..m : f[k] = g[k][f[k - 1]]
           T == {m \in Nat : m <= len => \E f : Filled(m, f)}
<1>1. 0 \in T
  <2> DEFINE f0 == [k \in 0..0 |-> a]
  <2>1. Filled(0, f0)
    OBVIOUS
  <2> QED BY <2>1
<1>2. ASSUME NEW m \in Nat, m \in T PROVE m + 1 \in T
  <2>1. SUFFICES ASSUME m + 1 <= len PROVE \E f : Filled(m + 1, f)
    OBVIOUS
  <2>2. PICK f : Filled(m, f)
    BY <1>2, <2>1
  <2> DEFINE h == [k \in 0..m + 1 |-> IF k <= m THEN f[k] ELSE g[k][f[m]]]
  <2>3. m \in 0..m /\ m + 1 \in 1..len
    BY <2>1
  <2>4. f[m] \in S /\ g[m + 1][f[m]] \in S
    BY <2>2, <2>3
  <2>5. h \in [0..m + 1 -> S]
    <3>1. ASSUME NEW k \in 0..m + 1
          PROVE  (IF k <= m THEN f[k] ELSE g[k][f[m]]) \in S
      <4>1. CASE k <= m
        BY <4>1, <2>2
      <4>2. CASE ~(k <= m)
        <5>1. k = m + 1
          BY <4>2
        <5> QED BY <5>1, <4>2, <2>4
      <4> QED BY <4>1, <4>2
    <3> QED BY <3>1
  <2>6. h[0] = a
    BY <2>2
  <2>7. ASSUME NEW k \in 1..m + 1 PROVE h[k] = g[k][h[k - 1]]
    <3>1. k - 1 \in 0..m /\ k \in 0..m + 1
      OBVIOUS
    <3>2. h[k - 1] = f[k - 1]
      BY <3>1
    <3>3. CASE k <= m
      BY <3>1, <3>2, <3>3, <2>2
    <3>4. CASE ~(k <= m)
      <4>1. k = m + 1 /\ k - 1 = m
        BY <3>4
      <4> QED BY <3>1, <3>2, <3>4, <4>1
    <3> QED BY <3>3, <3>4
  <2>8. Filled(m + 1, h)
    BY <2>5, <2>6, <2>7
  <2> QED BY <2>8
<1> HIDE DEF T
<1>3. len \in T
  BY <1>1, <1>2, Induction
<1>4. PICK f : Filled(len, f)
  BY <1>3 DEF T
<1> QED BY <1>4 DEF IsTable

-----------------------------------------------------------------------------
(* Powers *)

\* p holds the powers of b up to m.
ArePowers(p, b, m) == p = [k \in 0..m |-> IF k = 0 THEN 1 ELSE b * p[k - 1]]

\* There are powers up to every exponent.
LEMMA PowersExist ==
  ASSUME NEW b \in Nat, NEW e \in Nat
  PROVE  \E p : ArePowers(p, b, e)
<1> DEFINE T == {m \in Nat : ~\E p : ArePowers(p, b, m)}
<1>1. SUFFICES ASSUME T # {} PROVE FALSE
  OBVIOUS
<1>2. PICK m \in T : \A k \in T : m <= k
  BY <1>1, LeastElement
<1>3. m # 0
  <2>1. ArePowers([k \in 0..0 |-> 1], b, 0)
    BY DEF ArePowers
  <2> QED BY <2>1, <1>2
<1>4. m \in Nat /\ m - 1 \in Nat /\ m - 1 \notin T
  BY <1>2, <1>3
<1>5. PICK p : ArePowers(p, b, m - 1)
  BY <1>4
<1> DEFINE q == [k \in 0..m |-> IF k < m THEN p[k] ELSE b * p[m - 1]]
<1>6. ArePowers(q, b, m)
  <2>1. ASSUME NEW k \in 0..m
        PROVE  q[k] = IF k = 0 THEN 1 ELSE b * q[k - 1]
    <3>1. k # 0 => q[k - 1] = p[k - 1]
      BY <1>4
    <3>2. CASE k < m
      <4>1. q[k] = p[k]
        BY <3>2
      <4>2. p[k] = IF k = 0 THEN 1 ELSE b * p[k - 1]
        <5>1. k \in 0..m - 1
          BY <3>2, <1>4
        <5> QED BY <5>1, <1>5 DEF ArePowers
      <4> QED BY <4>1, <4>2, <3>1
    <3>3. CASE k = m
      BY <3>3, <3>1, <1>3
    <3> QED BY <3>2, <3>3, <1>4
  <2> QED BY <2>1 DEF ArePowers
<1> QED BY <1>6, <1>2

\* Two tables of the powers of a number agree where both have an entry.
LEMMA PowersAgree ==
  ASSUME NEW b \in Nat, NEW c \in Nat, NEW d \in Nat, c <= d,
         NEW p, NEW q, ArePowers(p, b, c), ArePowers(q, b, d)
  PROVE  \A k \in 0..c : p[k] = q[k]
<1> DEFINE T == {k \in 0..c : p[k] # q[k]}
<1>1. SUFFICES ASSUME T # {} PROVE FALSE
  OBVIOUS
<1>2. T \in SUBSET Nat
  OBVIOUS
<1> HIDE DEF T
<1>3. PICK k \in T : \A j \in T : k <= j
  BY <1>1, <1>2, LeastElement
<1>4. k \in 0..c /\ p[k] # q[k]
  BY <1>3 DEF T
<1>5. p[k] = IF k = 0 THEN 1 ELSE b * p[k - 1]
  BY <1>4 DEF ArePowers
<1>6. q[k] = IF k = 0 THEN 1 ELSE b * q[k - 1]
  <2>1. k \in 0..d
    BY <1>4
  <2> QED BY <2>1 DEF ArePowers
<1>7. k # 0
  BY <1>4, <1>5, <1>6
<1>8. k - 1 \in 0..c /\ k - 1 \notin T
  BY <1>3, <1>4, <1>7
<1>9. p[k - 1] = q[k - 1]
  BY <1>8 DEF T
<1> QED BY <1>4, <1>5, <1>6, <1>7, <1>9

\* Pow(b, e) is the last entry of the table of its powers.
LEMMA PowTable ==
  ASSUME NEW b \in Nat, NEW e \in Nat
  PROVE  \E p : ArePowers(p, b, e) /\ Pow(b, e) = p[e]
<1> DEFINE t == CHOOSE p : ArePowers(p, b, e)
<1>1. ArePowers(t, b, e)
  BY PowersExist
<1>2. Pow(b, e) = t[e]
  BY DEF Pow, ArePowers
<1> QED BY <1>1, <1>2

\* Powers one exponent at a time.
LEMMA PowStep ==
  ASSUME NEW b \in Nat, NEW e \in Nat
  PROVE  Pow(b, 0) = 1 /\ Pow(b, e + 1) = b * Pow(b, e)
<1>1. PICK o : ArePowers(o, b, 0) /\ Pow(b, 0) = o[0]
  BY PowTable
<1>2. PICK p : ArePowers(p, b, e) /\ Pow(b, e) = p[e]
  BY PowTable
<1>3. PICK q : ArePowers(q, b, e + 1) /\ Pow(b, e + 1) = q[e + 1]
  <2>1. e + 1 \in Nat
    OBVIOUS
  <2> QED BY <2>1, PowTable
<1>4. o[0] = 1
  BY <1>1 DEF ArePowers
<1>5. q[e + 1] = b * q[e]
  BY <1>3 DEF ArePowers
<1>6. q[e] = p[e]
  BY <1>2, <1>3, PowersAgree
<1> QED BY <1>1, <1>2, <1>3, <1>4, <1>5, <1>6

\* The powers of a positive number are positive.
LEMMA PowPositive ==
  ASSUME NEW b \in Nat \ {0}, NEW e \in Nat
  PROVE  Pow(b, e) \in Nat \ {0}
<1> DEFINE T == {k \in Nat : Pow(b, k) \notin Nat \ {0}}
<1>1. SUFFICES ASSUME T # {} PROVE FALSE
  OBVIOUS
<1>2. T \in SUBSET Nat
  OBVIOUS
<1> HIDE DEF T
<1>3. PICK m \in T : \A k \in T : m <= k
  BY <1>1, <1>2, LeastElement
<1>4. m \in Nat /\ Pow(b, m) \notin Nat \ {0}
  BY <1>3 DEF T
<1>5. m # 0
  <2>1. Pow(b, 0) = 1
    BY PowStep
  <2> QED BY <1>4, <2>1
<1>6. m - 1 \in Nat /\ m - 1 \notin T
  BY <1>3, <1>4, <1>5
<1> DEFINE c == m - 1
<1>7. c \in Nat /\ Pow(b, c) \in Nat \ {0} /\ m = c + 1
  BY <1>4, <1>6 DEF T
<1> HIDE DEF c
<1>8. Pow(b, c + 1) = b * Pow(b, c)
  BY <1>7, PowStep
<1>9. b * Pow(b, c) \in Nat \ {0}
  BY <1>7
<1> QED BY <1>4, <1>7, <1>8, <1>9

\* Shifting by two distances is shifting by their sum.
LEMMA PowSum ==
  ASSUME NEW b \in Nat \ {0}, NEW c \in Nat, NEW d \in Nat
  PROVE  Pow(b, c + d) = Pow(b, c) * Pow(b, d)
<1> DEFINE T == {k \in Nat : Pow(b, c + k) # Pow(b, c) * Pow(b, k)}
<1>1. SUFFICES ASSUME T # {} PROVE FALSE
  OBVIOUS
<1>2. T \in SUBSET Nat
  OBVIOUS
<1> HIDE DEF T
<1>3. PICK m \in T : \A k \in T : m <= k
  BY <1>1, <1>2, LeastElement
<1>4. m \in Nat /\ Pow(b, c + m) # Pow(b, c) * Pow(b, m)
  BY <1>3 DEF T
<1>5. Pow(b, c) \in Nat
  BY PowPositive
<1>6. m # 0
  <2>1. SUFFICES ASSUME m = 0 PROVE FALSE
    OBVIOUS
  <2>2. c + m = c /\ Pow(b, m) = 1
    BY <2>1, PowStep
  <2> QED BY <2>2, <1>4, <1>5
<1>7. PICK l \in Nat : m = l + 1
  <2>1. m - 1 \in Nat /\ m = (m - 1) + 1
    BY <1>4, <1>6
  <2> QED BY <2>1
<1>8. l \notin T
  BY <1>3, <1>7
<1>9. Pow(b, c + l) = Pow(b, c) * Pow(b, l)
  BY <1>7, <1>8 DEF T
<1>10. Pow(b, l) \in Nat /\ Pow(b, m) = b * Pow(b, l)
  BY <1>7, PowStep, PowPositive
<1>11. Pow(b, c + m) = b * Pow(b, c + l)
  <2>1. c + l \in Nat /\ c + m = (c + l) + 1
    BY <1>7
  <2> QED BY <2>1, PowStep
<1>12. \A x, y \in Nat : x * (b * y) = b * (x * y)
  OBVIOUS
<1> QED BY <1>4, <1>5, <1>9, <1>10, <1>11, <1>12

-----------------------------------------------------------------------------
(* Quotients and remainders *)

\* What quotient and remainder are.
LEMMA Division ==
  ASSUME NEW x \in Int, NEW d \in Nat \ {0}
  PROVE  /\ x \div d \in Int /\ x % d \in Int
         /\ x = d * (x \div d) + (x % d)
         /\ 0 <= x % d /\ x % d < d
<1>1. x \div d \in Int
  OBVIOUS
<1>2. x % d \in 0..d - 1
  OBVIOUS
<1>3. x = d * (x \div d) + (x % d)
  OBVIOUS
<1> QED BY <1>1, <1>2, <1>3

\* They are the only numbers of which that is true.
LEMMA DivisionUnique ==
  ASSUME NEW x \in Int, NEW d \in Nat \ {0}, NEW q \in Int, NEW r \in 0..d - 1,
         x = d * q + r
  PROVE  x \div d = q /\ x % d = r
<1> DEFINE p == x \div d
           s == x % d
<1>1. p \in Int /\ s \in Int /\ x = d * p + s /\ 0 <= s /\ s < d
  BY Division
<1>2. r \in Int /\ 0 <= r /\ r < d
  OBVIOUS
<1> HIDE DEF p, s
<1> DEFINE e == p - q
<1>3. e \in Int /\ d * e = r - s
  BY <1>1, <1>2
<1>4. ~(e > 0)
  <2>1. e > 0 => d * e >= d
    BY <1>3
  <2> QED BY <2>1, <1>1, <1>2, <1>3
<1>5. ~(e < 0)
  <2>1. e < 0 => d * e <= -d
    BY <1>3
  <2> QED BY <2>1, <1>1, <1>2, <1>3
<1>6. p = q
  BY <1>1, <1>3, <1>4, <1>5
<1>7. s = r
  BY <1>1, <1>2, <1>6
<1> QED BY <1>6, <1>7 DEF p, s

\* A sum of a low part and a multiple of the width of that part is in range.
LEMMA PartsInRange ==
  ASSUME NEW d \in Nat \ {0}, NEW m \in Nat \ {0}, NEW a \in 0..d - 1, NEW x \in 0..m - 1
  PROVE  a + d * x \in 0..d * m - 1 /\ d * m \in Nat \ {0}
<1>1. d * x \in Nat /\ d * (x + 1) = d * x + d
  OBVIOUS
<1>2. d * (x + 1) <= d * m
  <2>1. x + 1 <= m /\ x + 1 \in Nat
    OBVIOUS
  <2> QED BY <2>1
<1>3. d * m \in Nat \ {0}
  OBVIOUS
<1>4. d * (x + 1) \in Nat
  OBVIOUS
<1> QED BY <1>1, <1>2, <1>3, <1>4

-----------------------------------------------------------------------------
(* Words and values *)

\* A word has at least the values 0 and 1.
LEMMA BaseIsTwoOrMore == Base \in Nat /\ Base >= 2 /\ WordBits \in Nat /\ WordBits > 0
<1>1. WordBits \in Nat /\ WordBits > 0
  BY WidthAssumption
<1>2. PICK w \in Nat : WordBits = w + 1
  <2>1. WordBits - 1 \in Nat /\ WordBits = (WordBits - 1) + 1
    BY <1>1
  <2> QED BY <2>1
<1>3. PICK b \in Nat \ {0} : b = Pow(2, w)
  BY <1>2, PowPositive
<1>4. Base = 2 * b
  BY <1>2, <1>3, PowStep DEF Base
<1> QED BY <1>1, <1>3, <1>4

\* The values are the functions that give each of four indices a word.
LEMMA ValuesAreFunctions == Values = [0..3 -> Words]
<1>1. ASSUME NEW data \in [0..3 -> Words] PROVE uint256_create(data) = data
  BY DEF uint256_create
<1> QED BY <1>1 DEF Values

\* The modulus is four words wide.
LEMMA ModulusIsFourWords == Modulus = Base * (Base * (Base * Base)) /\ Modulus \in Nat \ {0}
<1>1. PICK w \in Nat : w = WordBits
  BY WidthAssumption
<1>2. PICK b \in Nat \ {0} : b = Base
  BY BaseIsTwoOrMore
<1>3. b = Pow(2, w)
  BY <1>1, <1>2 DEF Base
<1>4. Pow(2, w + w) = b * b
  BY <1>1, <1>3, PowSum
<1>5. Pow(2, w + (w + w)) = b * (b * b)
  <2>1. w + w \in Nat
    OBVIOUS
  <2> QED BY <2>1, <1>3, <1>4, PowSum
<1>6. Pow(2, w + (w + (w + w))) = b * (b * (b * b))
  <2>1. w + (w + w) \in Nat
    OBVIOUS
  <2> QED BY <2>1, <1>3, <1>5, PowSum
<1>7. 4 * w = w + (w + (w + w))
  OBVIOUS
<1>8. Pow(2, 4 * w) \in Nat \ {0}
  BY PowPositive
<1> QED BY <1>1, <1>2, <1>6, <1>7, <1>8 DEF Modulus

\* A value stands for a number below the modulus.
LEMMA ValueInRange ==
  ASSUME NEW v \in Values
  PROVE  Value(v) \in 0..Modulus - 1
<1>1. PICK b \in Nat \ {0} : b = Base
  BY BaseIsTwoOrMore
<1>2. v[0] \in 0..b - 1 /\ v[1] \in 0..b - 1 /\ v[2] \in 0..b - 1 /\ v[3] \in 0..b - 1
  BY <1>1, ValuesAreFunctions DEF Words
<1>3. PICK x2 \in 0..b * b - 1 : x2 = v[2] + b * v[3]
  BY <1>2, PartsInRange
<1>4. b * b \in Nat \ {0}
  BY <1>2, PartsInRange
<1>5. PICK x1 \in 0..b * (b * b) - 1 : x1 = v[1] + b * x2
  BY <1>2, <1>4, PartsInRange
<1>6. b * (b * b) \in Nat \ {0}
  BY <1>2, <1>4, PartsInRange
<1>7. v[0] + b * x1 \in 0..b * (b * (b * b)) - 1
  BY <1>2, <1>6, PartsInRange
<1> QED BY <1>1, <1>3, <1>5, <1>7, ModulusIsFourWords DEF Value, uint256_get_bits

\* A value that differs from a number by a multiple of the modulus is its residue.
LEMMA Residue ==
  ASSUME NEW v \in Values, NEW x \in Int, NEW k \in Int, x = Value(v) + Modulus * k
  PROVE  Value(v) = x % Modulus
<1>1. PICK m \in Nat \ {0} : m = Modulus
  BY ModulusIsFourWords
<1>2. PICK r \in 0..m - 1 : r = Value(v)
  BY <1>1, ValueInRange
<1>3. x = m * k + r
  BY <1>1, <1>2
<1>4. x % m = r
  BY <1>3, DivisionUnique
<1> QED BY <1>1, <1>2, <1>4

-----------------------------------------------------------------------------
(* Sums *)

\* The remainder of a number less than twice the divisor.
LEMMA Once ==
  ASSUME NEW b \in Nat, b >= 2, NEW e \in Nat, e < b + b
  PROVE  e % b \in 0..b - 1 /\ (e % b) = IF e < b THEN e ELSE e - b
<1>1. CASE e < b
  <2>1. e \in 0..b - 1 /\ e = b * 0 + e /\ e \in Int
    BY <1>1
  <2>2. e % b = e
    BY <2>1, DivisionUnique
  <2> QED BY <1>1, <2>1, <2>2
<1>2. CASE ~(e < b)
  <2>1. e - b \in 0..b - 1 /\ e = b * 1 + (e - b) /\ e \in Int /\ b \in Nat \ {0}
    BY <1>2
  <2>2. e % b = e - b
    BY <2>1, DivisionUnique
  <2> QED BY <1>2, <2>1, <2>2
<1> QED BY <1>1, <1>2

\* The tests for overflow find the carry, whatever carry comes in.
LEMMA Carries ==
  ASSUME NEW l \in Words, NEW r \in Words, NEW c \in {0, 1}
  PROVE  /\ CarryOut(l, r, c) \in {0, 1}
         /\ (l + r + c) % Base \in Words
         /\ l + r + c = ((l + r + c) % Base) + Base * CarryOut(l, r, c)
<1>1. PICK b \in Nat : b = Base /\ b >= 2
  BY BaseIsTwoOrMore
<1>2. l \in Nat /\ r \in Nat /\ l < b /\ r < b /\ b # 0
  BY <1>1 DEF Words
<1>3. PICK without \in 0..b - 1 :
        /\ without = (l + r) % b
        /\ without = IF l + r < b THEN l + r ELSE l + r - b
  <2>1. l + r \in Nat /\ l + r < b + b
    BY <1>2
  <2>2. PICK e \in Nat : e = l + r
    BY <2>1
  <2>3. e < b + b
    BY <2>1, <2>2
  <2>4. e % b \in 0..b - 1 /\ (e % b) = IF e < b THEN e ELSE e - b
    BY <2>3, <1>1, Once
  <2>5. PICK w \in 0..b - 1 : w = e % b /\ w = IF e < b THEN e ELSE e - b
    BY <2>4
  <2>6. w = (l + r) % b
    BY <2>2, <2>5, Zenon
  <2>7. w = IF l + r < b THEN l + r ELSE l + r - b
    BY <2>2, <2>5, <1>2
  <2> QED BY <2>6, <2>7
<1>4. PICK with \in 0..b - 1 :
        /\ with = (l + r + c) % b
        /\ with = IF l + r + c < b THEN l + r + c ELSE l + r + c - b
  <2>0. c \in Nat /\ c <= 1
    OBVIOUS
  <2>1. l + r + c \in Nat /\ l + r + c < b + b
    BY <2>0, <1>2
  <2>2. PICK e \in Nat : e = l + r + c
    BY <2>1
  <2>3. e < b + b
    BY <2>1, <2>2
  <2>4. e % b \in 0..b - 1 /\ (e % b) = IF e < b THEN e ELSE e - b
    BY <2>3, <1>1, Once
  <2>5. PICK w \in 0..b - 1 : w = e % b /\ w = IF e < b THEN e ELSE e - b
    BY <2>4
  <2>6. w = (l + r + c) % b
    BY <2>2, <2>5, Zenon
  <2>7. w = IF l + r + c < b THEN l + r + c ELSE l + r + c - b
    BY <2>0, <2>2, <2>5, <1>2
  <2> QED BY <2>6, <2>7
<1>5. CarryOut(l, r, c) = IF without < l \/ without < r \/ with < l \/ with < r THEN 1 ELSE 0
  BY <1>1, <1>3, <1>4 DEF CarryOut
<1>6. CarryOut(l, r, c) = IF l + r + c < b THEN 0 ELSE 1
  BY <1>1, <1>2, <1>3, <1>4, <1>5
<1>7. l + r + c = with + b * CarryOut(l, r, c)
  BY <1>2, <1>4, <1>6
<1> QED BY <1>1, <1>4, <1>6, <1>7 DEF Words

\* A carry from the lower word goes on into the rest.
LEMMA CarryOn ==
  ASSUME NEW b \in Int, NEW m \in Int, NEW e \in Int, NEW s \in Int, NEW c \in Int, NEW d \in Int,
         NEW E \in Int, NEW S \in Int, NEW k \in Int,
         e + c = s + b * d, E + d = S + m * k
  PROVE  (e + b * E) + c = (s + b * S) + (b * m) * k
<1>1. b * (E + d) = b * E + b * d
  OBVIOUS
<1>2. b * (S + m * k) = b * S + (b * m) * k
  OBVIOUS
<1>3. b * E + b * d = b * S + (b * m) * k
  BY <1>1, <1>2
<1> QED BY <1>3

\* uint256_add adds modulo 2^256, by its carries.
LEMMA Sums ==
  ASSUME NEW x \in Values, NEW y \in Values
  PROVE  /\ uint256_add(x, y) \in Values
         /\ \E k \in Int : Value(x) + Value(y) = Value(uint256_add(x, y)) + Modulus * k
<1> DEFINE IsCarry(f) ==
             f = [i \in 0..3 |-> IF i = 0 THEN 0 ELSE CarryOut(x[i - 1], y[i - 1], f[i - 1])]
           carry == CHOOSE f : IsCarry(f)
<1>1. \A i \in 0..3 : x[i] \in Words /\ y[i] \in Words
  BY ValuesAreFunctions
<1>2. \E f : IsCarry(f)
  <2>1. PICK c0, c1, c2, c3 :
          /\ c0 = 0
          /\ c1 = CarryOut(x[0], y[0], c0)
          /\ c2 = CarryOut(x[1], y[1], c1)
          /\ c3 = CarryOut(x[2], y[2], c2)
    OBVIOUS
  <2> DEFINE f == [i \in 0..3 |-> IF i = 0 THEN c0 ELSE IF i = 1 THEN c1 ELSE IF i = 2 THEN c2 ELSE c3]
  <2>2. f[0] = c0 /\ f[1] = c1 /\ f[2] = c2 /\ f[3] = c3
    OBVIOUS
  <2>3. f = [i \in 0..3 |-> f[i]]
    OBVIOUS
  <2> HIDE DEF f
  <2>4. ASSUME NEW i \in 0..3
        PROVE  f[i] = IF i = 0 THEN 0 ELSE CarryOut(x[i - 1], y[i - 1], f[i - 1])
    <3>1. i \in {0, 1, 2, 3}
      OBVIOUS
    <3> QED BY <3>1, <2>1, <2>2
  <2>5. f = [i \in 0..3 |-> IF i = 0 THEN 0 ELSE CarryOut(x[i - 1], y[i - 1], f[i - 1])]
    BY <2>3, <2>4
  <2> QED BY <2>5
<1>3. IsCarry(carry)
  BY <1>2
<1>4. uint256_add(x, y) = [i \in 0..3 |-> (x[i] + y[i] + carry[i]) % Base]
  BY DEF uint256_add
<1> HIDE DEF carry
<1>5. /\ carry[0] = 0
      /\ carry[1] = CarryOut(x[0], y[0], carry[0])
      /\ carry[2] = CarryOut(x[1], y[1], carry[1])
      /\ carry[3] = CarryOut(x[2], y[2], carry[2])
  BY <1>3
<1> HIDE DEF IsCarry
<1>6. PICK c0, c1, c2, c3, c4 :
        /\ c0 = carry[0] /\ c1 = carry[1] /\ c2 = carry[2] /\ c3 = carry[3]
        /\ c4 = CarryOut(x[3], y[3], carry[3])
  OBVIOUS
<1>7. PICK b \in Nat : b = Base
  BY BaseIsTwoOrMore
<1>8. PICK s \in [0..3 -> Int] : s = uint256_add(x, y) /\ s = [i \in 0..3 |-> (x[i] + y[i] + carry[i]) % Base]
  <2>1. ASSUME NEW i \in 0..3 PROVE (x[i] + y[i] + carry[i]) % Base \in Int
    <3>1. i \in {0, 1, 2, 3}
      OBVIOUS
    <3>2. c0 \in {0, 1} /\ c1 \in {0, 1} /\ c2 \in {0, 1} /\ c3 \in {0, 1}
      BY <1>1, <1>5, <1>6, Carries
    <3>3. carry[i] \in {0, 1}
      BY <3>1, <3>2, <1>6
    <3>4. x[i] \in Words /\ y[i] \in Words
      BY <1>1
    <3>5. (x[i] + y[i] + carry[i]) % Base \in Words
      BY <3>3, <3>4, Carries
    <3> QED BY <3>5, <1>7 DEF Words
  <2> QED BY <2>1, <1>4
<1>9. s[0] \in Words /\ s[1] \in Words /\ s[2] \in Words /\ s[3] \in Words
      /\ c0 = 0 /\ c1 \in {0, 1} /\ c2 \in {0, 1} /\ c3 \in {0, 1} /\ c4 \in {0, 1}
      /\ x[0] + y[0] + c0 = s[0] + b * c1
      /\ x[1] + y[1] + c1 = s[1] + b * c2
      /\ x[2] + y[2] + c2 = s[2] + b * c3
      /\ x[3] + y[3] + c3 = s[3] + b * c4
  <2>1. /\ s[0] = (x[0] + y[0] + c0) % Base /\ s[1] = (x[1] + y[1] + c1) % Base
        /\ s[2] = (x[2] + y[2] + c2) % Base /\ s[3] = (x[3] + y[3] + c3) % Base
    BY <1>6, <1>8
  <2>2. /\ x[0] \in Words /\ x[1] \in Words /\ x[2] \in Words /\ x[3] \in Words
        /\ y[0] \in Words /\ y[1] \in Words /\ y[2] \in Words /\ y[3] \in Words
    BY <1>1
  <2>3. /\ c0 = 0 /\ c1 = CarryOut(x[0], y[0], c0) /\ c2 = CarryOut(x[1], y[1], c1)
        /\ c3 = CarryOut(x[2], y[2], c2) /\ c4 = CarryOut(x[3], y[3], c3)
    BY <1>5, <1>6
  <2>4. ASSUME NEW l \in Words, NEW r \in Words, NEW c \in {0, 1}
        PROVE  /\ (l + r + c) % Base \in Words /\ CarryOut(l, r, c) \in {0, 1}
               /\ l + r + c = ((l + r + c) % Base) + b * CarryOut(l, r, c)
    BY <1>7, Carries
  <2>5. s[0] \in Words /\ c1 \in {0, 1} /\ x[0] + y[0] + c0 = s[0] + b * c1
    <3>1. x[0] \in Words /\ y[0] \in Words /\ c0 \in {0, 1}
      BY <2>2, <2>3
    <3>2. /\ (x[0] + y[0] + c0) % Base \in Words /\ CarryOut(x[0], y[0], c0) \in {0, 1}
          /\ x[0] + y[0] + c0 = ((x[0] + y[0] + c0) % Base) + b * CarryOut(x[0], y[0], c0)
      BY <3>1, <2>4, Zenon
    <3> QED BY <3>2, <2>1, <2>3, Zenon
  <2>6. s[1] \in Words /\ c2 \in {0, 1} /\ x[1] + y[1] + c1 = s[1] + b * c2
    <3>1. x[1] \in Words /\ y[1] \in Words /\ c1 \in {0, 1}
      BY <2>2, <2>5
    <3>2. /\ (x[1] + y[1] + c1) % Base \in Words /\ CarryOut(x[1], y[1], c1) \in {0, 1}
          /\ x[1] + y[1] + c1 = ((x[1] + y[1] + c1) % Base) + b * CarryOut(x[1], y[1], c1)
      BY <3>1, <2>4, Zenon
    <3> QED BY <3>2, <2>1, <2>3, Zenon
  <2>7. s[2] \in Words /\ c3 \in {0, 1} /\ x[2] + y[2] + c2 = s[2] + b * c3
    <3>1. x[2] \in Words /\ y[2] \in Words /\ c2 \in {0, 1}
      BY <2>2, <2>6
    <3>2. /\ (x[2] + y[2] + c2) % Base \in Words /\ CarryOut(x[2], y[2], c2) \in {0, 1}
          /\ x[2] + y[2] + c2 = ((x[2] + y[2] + c2) % Base) + b * CarryOut(x[2], y[2], c2)
      BY <3>1, <2>4, Zenon
    <3> QED BY <3>2, <2>1, <2>3, Zenon
  <2>8. s[3] \in Words /\ c4 \in {0, 1} /\ x[3] + y[3] + c3 = s[3] + b * c4
    <3>1. x[3] \in Words /\ y[3] \in Words /\ c3 \in {0, 1}
      BY <2>2, <2>7
    <3>2. /\ (x[3] + y[3] + c3) % Base \in Words /\ CarryOut(x[3], y[3], c3) \in {0, 1}
          /\ x[3] + y[3] + c3 = ((x[3] + y[3] + c3) % Base) + b * CarryOut(x[3], y[3], c3)
      BY <3>1, <2>4, Zenon
    <3> QED BY <3>2, <2>1, <2>3, Zenon
  <2> QED BY <2>3, <2>5, <2>6, <2>7, <2>8
<1>10. uint256_add(x, y) \in Values
  <2>1. ASSUME NEW i \in 0..3 PROVE s[i] \in Words
    <3>1. i \in {0, 1, 2, 3}
      OBVIOUS
    <3> QED BY <3>1, <1>9
  <2>2. s = [i \in 0..3 |-> s[i]]
    OBVIOUS
  <2> QED BY <2>1, <2>2, <1>8, ValuesAreFunctions
<1>11. PICK x0 \in Int, x1 \in Int, x2 \in Int, x3 \in Int, y0 \in Int, y1 \in Int, y2 \in Int, y3 \in Int,
            s0 \in Int, s1 \in Int, s2 \in Int, s3 \in Int :
         /\ x0 = x[0] /\ x1 = x[1] /\ x2 = x[2] /\ x3 = x[3]
         /\ y0 = y[0] /\ y1 = y[1] /\ y2 = y[2] /\ y3 = y[3]
         /\ s0 = s[0] /\ s1 = s[1] /\ s2 = s[2] /\ s3 = s[3]
  <2>1. /\ x[0] \in Words /\ x[1] \in Words /\ x[2] \in Words /\ x[3] \in Words
        /\ y[0] \in Words /\ y[1] \in Words /\ y[2] \in Words /\ y[3] \in Words
    BY <1>1
  <2>2. \A z \in Words : z \in Int
    BY <1>7 DEF Words
  <2> QED BY <2>1, <2>2, <1>9, Zenon
<1>12. c0 \in Int /\ c1 \in Int /\ c2 \in Int /\ c3 \in Int /\ c4 \in Int
  BY <1>9
<1>13. (x3 + y3) + c3 = s3 + b * c4
  BY <1>9, <1>11
<1>14. ((x2 + y2) + b * (x3 + y3)) + c2 = (s2 + b * s3) + (b * b) * c4
  <2>1. (x2 + y2) + c2 = s2 + b * c3
    BY <1>9, <1>11
  <2>2. x2 + y2 \in Int /\ x3 + y3 \in Int
    OBVIOUS
  <2> QED BY <2>1, <2>2, <1>12, <1>13, CarryOn
<1>15. PICK E2 \in Int, S2 \in Int : E2 = (x2 + y2) + b * (x3 + y3) /\ S2 = s2 + b * s3
  OBVIOUS
<1>16. ((x1 + y1) + b * E2) + c1 = (s1 + b * S2) + (b * (b * b)) * c4
  <2>1. (x1 + y1) + c1 = s1 + b * c2
    BY <1>9, <1>11
  <2>2. x1 + y1 \in Int /\ b * b \in Int
    OBVIOUS
  <2>3. E2 + c2 = S2 + (b * b) * c4
    BY <1>14, <1>15
  <2> QED BY <2>1, <2>2, <2>3, <1>12, CarryOn
<1>17. PICK E1 \in Int, S1 \in Int : E1 = (x1 + y1) + b * E2 /\ S1 = s1 + b * S2
  OBVIOUS
<1>18. ((x0 + y0) + b * E1) + c0 = (s0 + b * S1) + (b * (b * (b * b))) * c4
  <2>1. (x0 + y0) + c0 = s0 + b * c1
    BY <1>9, <1>11
  <2>2. x0 + y0 \in Int /\ b * (b * b) \in Int
    OBVIOUS
  <2>3. E1 + c1 = S1 + (b * (b * b)) * c4
    BY <1>16, <1>17
  <2> QED BY <2>1, <2>2, <2>3, <1>12, CarryOn
<1>19. Value(x) = x0 + b * (x1 + b * (x2 + b * x3)) /\ Value(y) = y0 + b * (y1 + b * (y2 + b * y3))
       /\ Value(s) = s0 + b * (s1 + b * (s2 + b * s3))
  BY <1>7, <1>11 DEF Value, uint256_get_bits
<1>20. Value(x) + Value(y) = (x0 + y0) + b * E1
  <2>1. E2 = (x2 + b * x3) + (y2 + b * y3)
    BY <1>15
  <2>2. PICK X2 \in Int, Y2 \in Int : X2 = x2 + b * x3 /\ Y2 = y2 + b * y3
    OBVIOUS
  <2>3. E1 = (x1 + b * X2) + (y1 + b * Y2)
    BY <2>1, <2>2, <1>17
  <2>4. PICK X1 \in Int, Y1 \in Int : X1 = x1 + b * X2 /\ Y1 = y1 + b * Y2
    OBVIOUS
  <2>5. (x0 + y0) + b * E1 = (x0 + b * X1) + (y0 + b * Y1)
    BY <2>3, <2>4
  <2> QED BY <2>2, <2>4, <2>5, <1>19
<1>21. Value(s) = s0 + b * S1
  BY <1>15, <1>17, <1>19
<1>22. PICK m : m = b * (b * (b * b)) /\ m = Modulus
  BY <1>7, ModulusIsFourWords
<1>23. Value(x) + Value(y) = Value(s) + Modulus * c4
  <2>1. ((x0 + y0) + b * E1) + 0 = (s0 + b * S1) + m * c4
    BY <1>9, <1>18, <1>22
  <2>2. (x0 + y0) + b * E1 \in Int
    OBVIOUS
  <2> QED BY <2>1, <2>2, <1>20, <1>21, <1>22
<1> QED BY <1>8, <1>10, <1>12, <1>23

\* The values of the numbers 0 and 1.
LEMMA SmallValues ==
  ASSUME NEW n \in {0, 1}
  PROVE  uint256_create_from_u64(n) \in Values /\ Value(uint256_create_from_u64(n)) = n
<1>1. PICK b \in Nat : b = Base /\ b >= 2
  BY BaseIsTwoOrMore
<1>2. n \in 0..b - 1 /\ 0 \in 0..b - 1
  BY <1>1
<1>3. PICK v : v = [i \in 0..3 |-> IF i = 0 THEN n ELSE 0]
  OBVIOUS
<1>4. v \in [0..3 -> 0..b - 1]
  BY <1>2, <1>3
<1>5. v[0] = n /\ v[1] = 0 /\ v[2] = 0 /\ v[3] = 0
  BY <1>3
<1>6. n + b * (0 + b * (0 + b * 0)) = n
  BY <1>2
<1>7. v = uint256_create_from_u64(n)
  BY <1>3 DEF uint256_create_from_u64
<1>8. Value(v) = n + b * (0 + b * (0 + b * 0))
  BY <1>1, <1>5 DEF Value, uint256_get_bits
<1>9. v \in Values
  BY <1>1, <1>4, ValuesAreFunctions DEF Words
<1> QED BY <1>6, <1>7, <1>8, <1>9

\* The complement of a value is what it lacks to the greatest value.
LEMMA Complement ==
  ASSUME NEW v \in Values
  PROVE  /\ [i \in 0..3 |-> Base - 1 - v[i]] \in Values
         /\ Value([i \in 0..3 |-> Base - 1 - v[i]]) = Modulus - 1 - Value(v)
<1>1. PICK b \in Nat : b = Base /\ b >= 2
  BY BaseIsTwoOrMore
<1>2. \A i \in 0..3 : v[i] \in 0..b - 1
  BY <1>1, ValuesAreFunctions DEF Words
<1>3. PICK w : w = [i \in 0..3 |-> Base - 1 - v[i]]
  OBVIOUS
<1>4. w \in [0..3 -> 0..b - 1]
  <2>1. ASSUME NEW i \in 0..3 PROVE b - 1 - v[i] \in 0..b - 1
    BY <1>1, <1>2
  <2>2. w = [i \in 0..3 |-> b - 1 - v[i]]
    BY <1>1, <1>3
  <2> QED BY <2>1, <2>2
<1>5. w \in Values
  BY <1>1, <1>4, ValuesAreFunctions DEF Words
<1>6. PICK v0 \in Int, v1 \in Int, v2 \in Int, v3 \in Int : v0 = v[0] /\ v1 = v[1] /\ v2 = v[2] /\ v3 = v[3]
  BY <1>2
<1>7. w[0] = b - 1 - v0 /\ w[1] = b - 1 - v1 /\ w[2] = b - 1 - v2 /\ w[3] = b - 1 - v3
  BY <1>1, <1>3, <1>6
<1>8. ASSUME NEW x \in Int, NEW y \in Int, NEW m \in Int
      PROVE  (b - 1 - x) + b * (m - 1 - y) = b * m - 1 - (x + b * y)
  <2>1. b * (m - 1 - y) = b * m - b - b * y
    BY <1>1
  <2> QED BY <2>1
<1>9. (b - 1 - v2) + b * (b - 1 - v3) = b * b - 1 - (v2 + b * v3)
  BY <1>8
<1>10. PICK y2 \in Int, m2 \in Int : y2 = v2 + b * v3 /\ m2 = b * b
  OBVIOUS
<1>11. (b - 1 - v1) + b * (m2 - 1 - y2) = b * m2 - 1 - (v1 + b * y2)
  BY <1>8
<1>12. PICK y1 \in Int, m1 \in Int : y1 = v1 + b * y2 /\ m1 = b * m2
  OBVIOUS
<1>13. (b - 1 - v0) + b * (m1 - 1 - y1) = b * m1 - 1 - (v0 + b * y1)
  BY <1>8
<1>14. Value(w) = (b - 1 - v0) + b * ((b - 1 - v1) + b * ((b - 1 - v2) + b * (b - 1 - v3)))
  BY <1>1, <1>7 DEF Value, uint256_get_bits
<1>15. Value(w) = (b - 1 - v0) + b * (m1 - 1 - y1)
  BY <1>9, <1>10, <1>11, <1>12, <1>14, Zenon
<1>16. Value(v) = v0 + b * y1
  BY <1>1, <1>6, <1>10, <1>12 DEF Value, uint256_get_bits
<1>17. Modulus = b * m1
  BY <1>1, <1>10, <1>12, ModulusIsFourWords
<1>18. Value(w) = Modulus - 1 - Value(v)
  BY <1>13, <1>15, <1>16, <1>17, Zenon
<1> QED BY <1>3, <1>5, <1>18, Zenon

\* Sums and differences of all values are those modulo 2^256.
LEMMA SumsAndDifferences ==
  ASSUME NEW x \in Values, NEW y \in Values
  PROVE  /\ Value(uint256_add(x, y)) = (Value(x) + Value(y)) % Modulus
         /\ Value(uint256_sub(x, y)) = (Value(x) - Value(y)) % Modulus
<1>1. PICK m \in Nat : m = Modulus
  BY ModulusIsFourWords
<1>2. PICK X \in Int, Y \in Int : X = Value(x) /\ Y = Value(y)
  BY <1>1, ValueInRange
<1>3. Value(uint256_add(x, y)) = (Value(x) + Value(y)) % Modulus
  <2>1. PICK s \in Values : s = uint256_add(x, y)
    BY Sums
  <2>2. PICK k \in Int : Value(x) + Value(y) = Value(s) + Modulus * k
    BY <2>1, Sums
  <2>3. PICK e \in Int : e = Value(x) + Value(y)
    BY <1>2
  <2>4. e = Value(s) + Modulus * k
    BY <2>2, <2>3
  <2>5. Value(s) = e % Modulus
    BY <2>4, Residue
  <2> QED BY <2>1, <2>3, <2>5, Zenon
<1>4. Value(uint256_sub(x, y)) = (Value(x) - Value(y)) % Modulus
  <2>1. PICK one \in Values : one = uint256_create_from_u64(1) /\ Value(one) = 1
    BY SmallValues
  <2>2. PICK c \in Values : c = [i \in 0..3 |-> Base - 1 - y[i]] /\ Value(c) = Modulus - 1 - Value(y)
    BY Complement
  <2>3. PICK n \in Values : n = uint256_add(c, one)
    BY Sums
  <2>4. PICK k \in Int : Value(c) + Value(one) = Value(n) + Modulus * k
    BY <2>3, Sums
  <2>5. PICK d \in Values : d = uint256_add(x, n)
    BY Sums
  <2>6. PICK j \in Int : Value(x) + Value(n) = Value(d) + Modulus * j
    BY <2>5, Sums
  <2>7. d = uint256_sub(x, y)
    BY <2>1, <2>2, <2>3, <2>5 DEF uint256_sub
  <2>8. PICK C \in Int, N \in Int, D \in Int : C = Value(c) /\ N = Value(n) /\ D = Value(d)
    <3>1. \A v \in Values : Value(v) \in Int
      BY <1>1, ValueInRange
    <3> QED BY <3>1
  <2>9. X - Y = D + m * (k + j - 1)
    <3>1. C = m - 1 - Y /\ C + 1 = N + m * k /\ X + N = D + m * j
      BY <1>1, <1>2, <2>1, <2>2, <2>4, <2>6, <2>8
    <3>2. m * (k + j - 1) = m * k + m * j - m
      OBVIOUS
    <3> QED BY <3>1, <3>2
  <2>10. PICK e \in Int, i \in Int : e = X - Y /\ i = k + j - 1
    OBVIOUS
  <2>11. e = Value(d) + Modulus * i
    BY <1>1, <2>8, <2>9, <2>10
  <2>12. Value(d) = e % Modulus
    BY <2>11, Residue
  <2> QED BY <1>2, <2>7, <2>10, <2>12, Zenon
<1> QED BY <1>3, <1>4

-----------------------------------------------------------------------------
(* The operands *)

\* The inductive invariant.
Operands == left \in Values /\ right \in Values

\* Both operands are values: the next one is a sum.
LEMMA OperandsAreValues == Spec => []Operands
<1>1. Init => Operands
  BY SmallValues DEF Init, Zero, Operands
<1>2. Operands /\ [Next]_vars => Operands'
  <2>1. ASSUME NEW v \in Values PROVE uint256_add(v, uint256_create_from_u64(1)) \in Values
    BY SmallValues, Sums
  <2>2. Operands /\ Next => Operands'
    BY <2>1 DEF Next, Operands
  <2>3. Operands /\ UNCHANGED vars => Operands'
    BY DEF vars, Operands
  <2> QED BY <2>2, <2>3
<1> QED BY <1>1, <1>2, PTL DEF Spec

\* Sums and differences of the operands are those of the integers modulo the
\* modulus: every carry is found and passed on, for every width of a word.
THEOREM Additive == Spec => []SumsAreModular
<1>1. Operands => SumsAreModular
  BY SumsAndDifferences DEF SumsAreModular, Operands
<1> QED BY <1>1, OperandsAreValues, PTL

-----------------------------------------------------------------------------
(* The bits of a word *)

\* The powers of two.
LEMMA PowersOfTwo ==
  ASSUME NEW n \in Nat
  PROVE  Pow(2, n) \in Nat \ {0} /\ Pow(2, 0) = 1 /\ Pow(2, n + 1) = 2 * Pow(2, n)
BY PowPositive, PowStep

\* The greater of two powers is a multiple of the other.
LEMMA PowersApart ==
  ASSUME NEW a \in Nat, NEW c \in Nat, a <= c
  PROVE  c - a \in Nat /\ Pow(2, c) = Pow(2, a) * Pow(2, c - a)
<1>1. PICK d \in Nat : d = c - a
  OBVIOUS
<1>2. c = a + d
  BY <1>1
<1>3. Pow(2, a + d) = Pow(2, a) * Pow(2, d)
  BY PowSum
<1> QED BY <1>1, <1>2, <1>3, Zenon

\* What is left of a number without its n low bits, and a bit.
LEMMA BitRange ==
  ASSUME NEW x \in Nat, NEW n \in Nat
  PROVE  x \div Pow(2, n) \in Nat /\ Bit(x, n) \in {0, 1}
<1>1. PICK d \in Nat \ {0} : d = Pow(2, n)
  BY PowersOfTwo
<1>2. PICK u \in Nat : u = x \div d
  OBVIOUS
<1>3. u % 2 \in {0, 1}
  OBVIOUS
<1> QED BY <1>1, <1>2, <1>3 DEF Bit

\* A number as its upper bits, one bit and its lower bits.
LEMMA AtBit ==
  ASSUME NEW x \in Nat, NEW n \in Nat
  PROVE  \E h \in Nat, c \in {0, 1}, r \in 0..Pow(2, n) - 1 :
           /\ c = Bit(x, n)
           /\ r = x % Pow(2, n)
           /\ x = Pow(2, n) * (2 * h + c) + r
<1>1. PICK d \in Nat \ {0} : d = Pow(2, n)
  BY PowersOfTwo
<1>2. PICK u \in Nat, r \in 0..d - 1 : u = x \div d /\ r = x % d /\ x = d * u + r
  <2>1. x \div d \in Nat /\ x % d \in 0..d - 1
    OBVIOUS
  <2>2. x = d * (x \div d) + (x % d)
    BY Division
  <2> QED BY <2>1, <2>2
<1>3. PICK h \in Nat, c \in {0, 1} : c = u % 2 /\ u = 2 * h + c
  <2>1. u \div 2 \in Nat /\ u % 2 \in {0, 1} /\ u = 2 * (u \div 2) + (u % 2)
    OBVIOUS
  <2> QED BY <2>1
<1>4. c = Bit(x, n)
  BY <1>1, <1>2, <1>3 DEF Bit
<1>5. x = d * (2 * h + c) + r
  BY <1>2, <1>3, Zenon
<1> QED BY <1>1, <1>2, <1>4, <1>5

\* The other way round.
LEMMA FromBit ==
  ASSUME NEW n \in Nat, NEW h \in Nat, NEW c \in {0, 1}, NEW r \in 0..Pow(2, n) - 1, NEW x,
         x = Pow(2, n) * (2 * h + c) + r
  PROVE  x \in Nat /\ Bit(x, n) = c /\ x % Pow(2, n) = r
<1>1. PICK d \in Nat \ {0} : d = Pow(2, n)
  BY PowersOfTwo
<1>2. c \in Nat /\ r \in 0..d - 1
  BY <1>1
<1>3. PICK u \in Nat : u = 2 * h + c
  BY <1>2
<1>4. x = d * u + r
  BY <1>1, <1>3
<1>5. x \in Nat
  BY <1>2, <1>4
<1>6. x \div d = u /\ x % d = r
  BY <1>2, <1>4, <1>5, DivisionUnique
<1>7. u % 2 = c
  BY <1>3
<1> QED BY <1>1, <1>5, <1>6, <1>7 DEF Bit

\* One more of the lower bits.
LEMMA OneMoreBit ==
  ASSUME NEW x \in Nat, NEW n \in Nat
  PROVE  x % Pow(2, n + 1) = (x % Pow(2, n)) + Pow(2, n) * Bit(x, n)
<1>1. PICK d \in Nat \ {0} : d = Pow(2, n) /\ Pow(2, n + 1) = 2 * d
  BY PowersOfTwo
<1>2. PICK h \in Nat, c \in {0, 1}, r \in 0..Pow(2, n) - 1 :
        /\ c = Bit(x, n)
        /\ r = x % Pow(2, n)
        /\ x = Pow(2, n) * (2 * h + c) + r
  BY AtBit
<1>3. r \in 0..d - 1 /\ c \in 0..2 - 1
  BY <1>1, <1>2
<1>4. r + d * c \in 0..d * 2 - 1 /\ d * 2 \in Nat \ {0}
  BY <1>3, PartsInRange
<1>5. PICK e \in Nat \ {0} : e = 2 * d /\ r + d * c \in 0..e - 1
  <2>1. d * 2 = 2 * d
    OBVIOUS
  <2> QED BY <2>1, <1>4
<1>6. PICK s \in 0..e - 1 : s = r + d * c
  BY <1>5
<1>7. x = e * h + s
  <2>1. d * (2 * h + c) = (2 * d) * h + d * c
    BY <1>3
  <2>2. x = d * (2 * h + c) + r
    BY <1>1, <1>2
  <2>3. d * c \in Int /\ (2 * d) * h \in Int
    BY <1>3
  <2> QED BY <2>1, <2>2, <2>3, <1>3, <1>5, <1>6
<1>8. x % e = s
  BY <1>7, DivisionUnique
<1> QED BY <1>1, <1>2, <1>5, <1>6, <1>8

\* Numbers that need no more than n bits.
LEMMA FewBits ==
  ASSUME NEW n \in Nat, NEW x \in 0..Pow(2, n) - 1, NEW k \in Nat, n <= k
  PROVE  Bit(x, k) = 0 /\ x % Pow(2, k) = x /\ x \div Pow(2, k) = 0 /\ x \in Nat
<1>1. PICK d \in Nat \ {0} : d = Pow(2, n)
  BY PowersOfTwo
<1>2. PICK m \in Nat \ {0} : m = Pow(2, k - n) /\ Pow(2, k) = d * m
  <2>1. k - n \in Nat /\ Pow(2, k) = Pow(2, n) * Pow(2, k - n)
    BY PowersApart
  <2>2. Pow(2, k - n) \in Nat \ {0}
    BY <2>1, PowersOfTwo
  <2> QED BY <2>1, <2>2, <1>1
<1>3. PICK e \in Nat \ {0} : e = Pow(2, k) /\ d <= e
  <2>1. d * m \in Nat \ {0} /\ d <= d * m
    OBVIOUS
  <2> QED BY <2>1, <1>2
<1>4. x \in 0..e - 1 /\ x = e * 0 + x /\ x \in Nat
  BY <1>1, <1>3
<1>5. x \div e = 0 /\ x % e = x
  BY <1>4, DivisionUnique
<1>6. 0 % 2 = 0
  OBVIOUS
<1> QED BY <1>3, <1>4, <1>5, <1>6 DEF Bit

\* A multiple of a power of two has no bits below.
LEMMA NoBitsBelow ==
  ASSUME NEW p \in Nat, NEW u \in Nat, NEW n \in Nat, n < p
  PROVE  Bit(Pow(2, p) * u, n) = 0
<1>1. PICK d \in Nat \ {0} : d = Pow(2, n)
  BY PowersOfTwo
<1>2. PICK m \in Nat \ {0} : m = Pow(2, p - (n + 1))
  <2>1. p - (n + 1) \in Nat
    OBVIOUS
  <2> QED BY <2>1, PowersOfTwo
<1>3. Pow(2, p) = (2 * d) * m
  BY <1>1, <1>2, PowersApart, PowersOfTwo
<1>4. PICK h \in Nat, x \in Nat : h = m * u /\ x = Pow(2, p) * u
  BY <1>3
<1>5. x = d * (2 * h + 0) + 0
  <2>1. ((2 * d) * m) * u = d * (2 * (m * u))
    OBVIOUS
  <2> QED BY <2>1, <1>3, <1>4
<1>6. \A z \in {0, 1} : z = 0 => x = Pow(2, n) * (2 * h + z) + z
  BY <1>1, <1>5
<1>7. 0 \in 0..Pow(2, n) - 1 /\ 0 \in {0, 1}
  BY <1>1
<1>8. Bit(x, n) = 0
  <2>1. x = Pow(2, n) * (2 * h + 0) + 0
    BY <1>6
  <2> QED BY <2>1, <1>7, FromBit
<1> QED BY <1>4, <1>8

-----------------------------------------------------------------------------
(* Masks *)

\* The table by which a word is put together from its bits.
LEMMA BitTable ==
  ASSUME NEW f \in [0..WordBits - 1 -> BOOLEAN]
  PROVE  \E low : /\ low[0] = 0
                  /\ \A n \in 1..WordBits :
                       low[n] = low[n - 1] + (IF f[n - 1] THEN Pow(2, n - 1) ELSE 0)
                  /\ OfBits(f) = low[WordBits]
<1> DEFINE IsLow(low) == low = [n \in 0..WordBits |->
             IF n = 0 THEN 0 ELSE low[n - 1] + (IF f[n - 1] THEN Pow(2, n - 1) ELSE 0)]
           low == CHOOSE low : IsLow(low)
<1>1. \E t : IsLow(t)
  <2> DEFINE g == [n \in 1..WordBits |-> [s \in Nat |-> s + (IF f[n - 1] THEN Pow(2, n - 1) ELSE 0)]]
  <2>1. ASSUME NEW n \in 1..WordBits, NEW s \in Nat
        PROVE  /\ g[n][s] = s + (IF f[n - 1] THEN Pow(2, n - 1) ELSE 0)
               /\ g[n][s] \in Nat
    <3>1. n - 1 \in Nat
      BY BaseIsTwoOrMore
    <3>2. Pow(2, n - 1) \in Nat
      BY <3>1, PowersOfTwo
    <3>3. g[n][s] = s + (IF f[n - 1] THEN Pow(2, n - 1) ELSE 0)
      OBVIOUS
    <3> QED BY <3>2, <3>3
  <2> HIDE DEF g
  <2>2. \E t : IsTable(t, Nat, 0, WordBits, g)
    <3>1. 0 \in Nat /\ WordBits \in Nat /\ \A n \in 1..WordBits : \A s \in Nat : g[n][s] \in Nat
      BY <2>1, BaseIsTwoOrMore
    <3> QED BY <3>1, Iteration
  <2>3. PICK t : /\ t \in [0..WordBits -> Nat]
                 /\ t[0] = 0
                 /\ \A n \in 1..WordBits : t[n] = g[n][t[n - 1]]
    BY <2>2 DEF IsTable
  <2>4. ASSUME NEW n \in 0..WordBits
        PROVE  t[n] = IF n = 0 THEN 0 ELSE t[n - 1] + (IF f[n - 1] THEN Pow(2, n - 1) ELSE 0)
    <3>1. CASE n = 0
      BY <3>1, <2>3
    <3>2. CASE n # 0
      <4>1. n \in 1..WordBits /\ n - 1 \in 0..WordBits
        BY <3>2, BaseIsTwoOrMore
      <4>2. t[n] = g[n][t[n - 1]] /\ t[n - 1] \in Nat
        BY <4>1, <2>3
      <4>3. g[n][t[n - 1]] = t[n - 1] + (IF f[n - 1] THEN Pow(2, n - 1) ELSE 0)
        BY <4>1, <4>2, <2>1
      <4> QED BY <3>2, <4>2, <4>3
    <3> QED BY <3>1, <3>2
  <2>5. t = [n \in 0..WordBits |-> t[n]]
    BY <2>3
  <2>6. t = [n \in 0..WordBits |->
               IF n = 0 THEN 0 ELSE t[n - 1] + (IF f[n - 1] THEN Pow(2, n - 1) ELSE 0)]
    BY <2>4, <2>5
  <2> QED BY <2>6
<1>2. IsLow(low)
  BY <1>1
<1>3. OfBits(f) = low[WordBits]
  BY DEF OfBits
<1> HIDE DEF low
<1>4. low[0] = 0
  BY <1>2, BaseIsTwoOrMore
<1>5. ASSUME NEW n \in 1..WordBits
      PROVE  low[n] = low[n - 1] + (IF f[n - 1] THEN Pow(2, n - 1) ELSE 0)
  <2>1. n \in 0..WordBits /\ n # 0
    BY BaseIsTwoOrMore
  <2> QED BY <1>2, <2>1
<1> QED BY <1>3, <1>4, <1>5

\* A word is the one put together from its bits; so is the sum of two words
\* that have no bit in common.
LEMMA Disjoint ==
  ASSUME NEW x \in Words, NEW y \in Words,
         \A n \in 0..WordBits - 1 : Bit(x, n) = 0 \/ Bit(y, n) = 0
  PROVE  x | y = x + y
<1>1. WordBits \in Nat /\ WordBits > 0 /\ Base = Pow(2, WordBits) /\ Base \in Nat
  BY BaseIsTwoOrMore DEF Base
<1>2. x \in Nat /\ y \in Nat /\ x \in 0..Pow(2, WordBits) - 1 /\ y \in 0..Pow(2, WordBits) - 1
  BY <1>1 DEF Words
<1>3. PICK f : f = [n \in 0..WordBits - 1 |-> Bit(x, n) = 1 \/ Bit(y, n) = 1]
  OBVIOUS
<1>4. f \in [0..WordBits - 1 -> BOOLEAN]
  BY <1>3
<1>5. x | y = OfBits(f)
  BY <1>3 DEF |
<1>6. PICK low : /\ low[0] = 0
                 /\ \A n \in 1..WordBits :
                      low[n] = low[n - 1] + (IF f[n - 1] THEN Pow(2, n - 1) ELSE 0)
                 /\ OfBits(f) = low[WordBits]
  BY <1>4, BitTable
<1> DEFINE T == {n \in Nat : n <= WordBits => low[n] = (x % Pow(2, n)) + (y % Pow(2, n))}
<1>7. 0 \in T
  <2>1. x % 1 = 0 /\ y % 1 = 0
    BY <1>2
  <2>2. Pow(2, 0) = 1
    BY PowersOfTwo
  <2>3. low[0] = (x % Pow(2, 0)) + (y % Pow(2, 0))
    BY <1>6, <2>1, <2>2
  <2> QED BY <2>3
<1>8. ASSUME NEW n \in Nat, n \in T PROVE n + 1 \in T
  <2>1. SUFFICES ASSUME n + 1 <= WordBits
                 PROVE  low[n + 1] = (x % Pow(2, n + 1)) + (y % Pow(2, n + 1))
    OBVIOUS
  <2>2. n \in 0..WordBits - 1 /\ n + 1 \in 1..WordBits /\ (n + 1) - 1 = n /\ n <= WordBits
    BY <1>1, <2>1
  <2>3. PICK d \in Nat : d = Pow(2, n)
    BY PowersOfTwo
  <2>4. low[n] = (x % d) + (y % d)
    BY <1>8, <2>2, <2>3
  <2>5. low[n + 1] = low[n] + (IF f[n] THEN d ELSE 0)
    BY <1>6, <2>2, <2>3
  <2>6. PICK c \in {0, 1}, e \in {0, 1} : c = Bit(x, n) /\ e = Bit(y, n)
    BY <1>2, BitRange
  <2>7. (c = 0 \/ e = 0) /\ (f[n] <=> (c = 1 \/ e = 1))
    BY <1>3, <2>2, <2>6
  <2>8. x % Pow(2, n + 1) = (x % d) + d * c /\ y % Pow(2, n + 1) = (y % d) + d * e
    BY <1>2, <2>3, <2>6, OneMoreBit
  <2>9. PICK r \in Int, s \in Int : r = x % d /\ s = y % d
    <3>1. d \in Nat \ {0}
      BY <2>3, PowersOfTwo
    <3> QED BY <3>1, <1>2
  <2>10. (IF f[n] THEN d ELSE 0) = d * c + d * e
    <3>1. CASE c = 0 /\ e = 0
      <4>1. ~f[n]
        BY <2>7, <3>1
      <4> QED BY <3>1, <4>1
    <3>2. CASE c = 1 /\ e = 0
      <4>1. f[n]
        BY <2>7, <3>2
      <4> QED BY <3>2, <4>1
    <3>3. CASE c = 0 /\ e = 1
      <4>1. f[n]
        BY <2>7, <3>3
      <4> QED BY <3>3, <4>1
    <3> QED BY <2>6, <2>7, <3>1, <3>2, <3>3
  <2>11. d * c \in Int /\ d * e \in Int
    BY <2>6
  <2>12. (r + s) + (d * c + d * e) = (r + d * c) + (s + d * e)
    BY <2>11
  <2> QED BY <2>4, <2>5, <2>8, <2>9, <2>10, <2>12, Zenon
<1> HIDE DEF T
<1>9. WordBits \in T
  BY <1>1, <1>7, <1>8, Induction
<1>10. low[WordBits] = (x % Pow(2, WordBits)) + (y % Pow(2, WordBits))
  BY <1>1, <1>9 DEF T
<1>11. x % Pow(2, WordBits) = x /\ y % Pow(2, WordBits) = y
  BY <1>1, <1>2, FewBits
<1> QED BY <1>5, <1>6, <1>10, <1>11, Zenon

\* The bits of a mask that has ones from bit p on.
LEMMA MaskBits ==
  ASSUME NEW p \in 0..WordBits, NEW n \in 0..WordBits - 1
  PROVE  /\ Base - Pow(2, p) \in Words
         /\ Bit(Base - Pow(2, p), n) = IF n < p THEN 0 ELSE 1
<1>1. WordBits \in Nat /\ p \in Nat /\ n \in Nat /\ p <= WordBits /\ n + 1 <= WordBits
  BY BaseIsTwoOrMore
<1>2. PICK q \in Nat \ {0} : q = Pow(2, p)
  BY <1>1, PowersOfTwo
<1>3. WordBits - p \in Nat /\ Base = Pow(2, p) * Pow(2, WordBits - p)
  BY <1>1, PowersApart DEF Base
<1>4. PICK m \in Nat \ {0} : m = Pow(2, WordBits - p)
  BY <1>3, PowersOfTwo
<1>5. PICK b \in Nat : b = Base /\ b = q * m
  BY <1>2, <1>3, <1>4
<1>6. b - q = q * (m - 1) /\ m - 1 \in Nat
  BY <1>5
<1>7. b - q \in Nat /\ b - q \in 0..b - 1
  <2>1. q * (m - 1) \in Nat
    BY <1>6
  <2> QED BY <2>1, <1>6
<1>8. CASE n < p
  <2>1. Bit(Pow(2, p) * (m - 1), n) = 0
    BY <1>1, <1>6, <1>8, NoBitsBelow
  <2>2. Bit(Base - Pow(2, p), n) = 0
    BY <1>2, <1>5, <1>6, <2>1
  <2> QED BY <1>2, <1>5, <1>7, <1>8, <2>2 DEF Words
<1>9. CASE ~(n < p)
  <2>1. PICK d \in Nat \ {0} : d = Pow(2, n)
    BY <1>1, PowersOfTwo
  <2>2. n - p \in Nat /\ Pow(2, n) = Pow(2, p) * Pow(2, n - p)
    BY <1>1, <1>9, PowersApart
  <2>3. q <= d
    <3>1. PICK k \in Nat \ {0} : k = Pow(2, n - p) /\ d = q * k
      BY <2>1, <2>2, <1>2, PowersOfTwo
    <3>2. q <= q * k
      OBVIOUS
    <3> QED BY <3>1, <3>2
  <2>4. WordBits - (n + 1) \in Nat /\ Base = Pow(2, n + 1) * Pow(2, WordBits - (n + 1))
    BY <1>1, PowersApart DEF Base
  <2>5. PICK k \in Nat \ {0} : k = Pow(2, WordBits - (n + 1))
    BY <2>4, PowersOfTwo
  <2>6. b = (2 * d) * k
    BY <2>1, <2>4, <2>5, <1>1, <1>5, PowersOfTwo
  <2>7. PICK h \in Nat, r \in 0..d - 1 : h = k - 1 /\ r = d - q
    BY <2>1, <2>3, <2>5
  <2>8. \A z \in {0, 1} : z = 1 => b - q = d * (2 * h + z) + r
    <3>1. (2 * d) * k = d * (2 * h + 1) + d
      BY <2>7
    <3> QED BY <3>1, <2>6, <2>7
  <2>9. r \in 0..Pow(2, n) - 1 /\ 1 \in {0, 1}
    BY <2>1, <2>7
  <2>10. b - q = Pow(2, n) * (2 * h + 1) + r
    BY <2>1, <2>8
  <2>11. Bit(b - q, n) = 1
    BY <2>9, <2>10, <1>1, FromBit
  <2>12. Bit(Base - Pow(2, p), n) = 1
    BY <2>11, <1>2, <1>5, Zenon
  <2> QED BY <1>2, <1>5, <1>7, <1>9, <2>12 DEF Words
<1> QED BY <1>8, <1>9

\* Such a mask takes the bits from p on.
LEMMA Masked ==
  ASSUME NEW x \in Words, NEW p \in 0..WordBits
  PROVE  x & (Base - Pow(2, p)) = x - (x % Pow(2, p))
<1>1. WordBits \in Nat /\ WordBits > 0 /\ Base = Pow(2, WordBits) /\ Base \in Nat /\ p \in Nat
  BY BaseIsTwoOrMore DEF Base
<1>2. x \in Nat /\ x \in 0..Pow(2, WordBits) - 1
  BY <1>1 DEF Words
<1>3. PICK mask : mask = Base - Pow(2, p)
  OBVIOUS
<1>4. PICK f : f = [n \in 0..WordBits - 1 |-> Bit(x, n) = 1 /\ Bit(mask, n) = 1]
  OBVIOUS
<1>5. f \in [0..WordBits - 1 -> BOOLEAN]
  BY <1>4
<1>6. x & mask = OfBits(f)
  BY <1>4 DEF &
<1>7. PICK low : /\ low[0] = 0
                 /\ \A n \in 1..WordBits :
                      low[n] = low[n - 1] + (IF f[n - 1] THEN Pow(2, n - 1) ELSE 0)
                 /\ OfBits(f) = low[WordBits]
  BY <1>5, BitTable
<1> DEFINE T == {n \in Nat : n <= WordBits =>
                   low[n] = IF n <= p THEN 0 ELSE (x % Pow(2, n)) - (x % Pow(2, p))}
<1>8. 0 \in T
  BY <1>1, <1>7
<1>9. ASSUME NEW n \in Nat, n \in T PROVE n + 1 \in T
  <2>1. SUFFICES ASSUME n + 1 <= WordBits
                 PROVE  low[n + 1] = IF n + 1 <= p THEN 0
                                     ELSE (x % Pow(2, n + 1)) - (x % Pow(2, p))
    OBVIOUS
  <2>2. n \in 0..WordBits - 1 /\ n + 1 \in 1..WordBits /\ (n + 1) - 1 = n /\ n <= WordBits
    BY <1>1, <2>1
  <2>3. PICK d \in Nat : d = Pow(2, n)
    BY PowersOfTwo
  <2>4. low[n] = IF n <= p THEN 0 ELSE (x % d) - (x % Pow(2, p))
    BY <1>9, <2>2, <2>3
  <2>5. low[n + 1] = low[n] + (IF f[n] THEN d ELSE 0)
    BY <1>7, <2>2, <2>3
  <2>6. PICK c \in {0, 1} : c = Bit(x, n)
    BY <1>2, BitRange
  <2>7. Bit(mask, n) = IF n < p THEN 0 ELSE 1
    BY <1>3, <2>2, MaskBits
  <2>8. f[n] <=> (c = 1 /\ ~(n < p))
    <3>1. f[n] <=> (Bit(x, n) = 1 /\ Bit(mask, n) = 1)
      BY <1>4, <2>2, Zenon
    <3>2. Bit(mask, n) = 1 <=> ~(n < p)
      BY <2>7
    <3> QED BY <2>6, <3>1, <3>2, Zenon
  <2>9. x % Pow(2, n + 1) = (x % d) + d * c
    BY <1>2, <2>3, <2>6, OneMoreBit
  <2>10. PICK r \in Int, s \in Int : r = x % d /\ s = x % Pow(2, p)
    <3>1. ASSUME NEW k \in Nat PROVE x % Pow(2, k) \in Int
      <4>1. PICK e \in Nat \ {0} : e = Pow(2, k)
        BY PowersOfTwo
      <4> QED BY <4>1, <1>2
    <3> QED BY <3>1, <1>1, <2>3
  <2>11. CASE n + 1 <= p
    <3>1. ~f[n]
      BY <1>1, <2>8, <2>11
    <3>2. low[n] = 0
      BY <1>1, <2>4, <2>11
    <3>3. low[n + 1] = low[n] + 0
      BY <2>5, <3>1
    <3> QED BY <2>11, <3>2, <3>3
  <2>12. CASE ~(n + 1 <= p)
    <3>0. ~(n < p)
      BY <1>1, <2>12
    <3>1. (IF f[n] THEN d ELSE 0) = d * c
      <4>1. CASE c = 0
        <5>1. ~f[n]
          BY <2>8, <4>1
        <5> QED BY <4>1, <5>1
      <4>2. CASE c = 1
        <5>1. f[n]
          BY <2>8, <3>0, <4>2
        <5> QED BY <4>2, <5>1
      <4> QED BY <2>6, <4>1, <4>2
    <3>2. low[n] = r - s
      BY <1>1, <2>3, <2>4, <2>10, <2>12
    <3>3. d * c \in Int /\ (r - s) + d * c = (r + d * c) - s
      BY <2>6
    <3> QED BY <3>1, <3>2, <3>3, <2>5, <2>9, <2>10, <2>12
  <2> QED BY <2>11, <2>12
<1> HIDE DEF T
<1>10. WordBits \in T
  BY <1>1, <1>8, <1>9, Induction
<1>11. x % Pow(2, WordBits) = x
  BY <1>1, <1>2, FewBits
<1>12. low[WordBits] = x - (x % Pow(2, p))
  <2>1. low[WordBits] = IF WordBits <= p THEN 0 ELSE (x % Pow(2, WordBits)) - (x % Pow(2, p))
    BY <1>1, <1>10 DEF T
  <2>2. CASE WordBits <= p
    <3>1. WordBits = p
      BY <2>2, <1>1
    <3> QED BY <2>1, <2>2, <3>1, <1>2, <1>11
  <2>3. CASE ~(WordBits <= p)
    BY <2>1, <2>3, <1>11
  <2> QED BY <2>2, <2>3
<1> QED BY <1>3, <1>6, <1>7, <1>12, Zenon

-----------------------------------------------------------------------------
(* The bits of a value *)

\* The bits of the lowest word are those of the value.
LEMMA BitsOfLowestWord ==
  ASSUME NEW x \in Words, NEW y \in Nat, NEW n \in 0..WordBits - 1
  PROVE  Bit(x + Base * y, n) = Bit(x, n)
<1>1. n \in Nat /\ WordBits \in Nat /\ n + 1 <= WordBits
  BY BaseIsTwoOrMore
<1>2. PICK b \in Nat : b = Base
  BY BaseIsTwoOrMore
<1>3. x \in Nat
  BY <1>2 DEF Words
<1>4. PICK d \in Nat \ {0} : d = Pow(2, n)
  BY <1>1, PowersOfTwo
<1>5. WordBits - (n + 1) \in Nat /\ Base = Pow(2, n + 1) * Pow(2, WordBits - (n + 1))
  BY <1>1, PowersApart DEF Base
<1>6. PICK k \in Nat : k = Pow(2, WordBits - (n + 1)) /\ b = (2 * d) * k
  <2>1. Pow(2, WordBits - (n + 1)) \in Nat
    BY <1>5, PowersOfTwo
  <2> QED BY <2>1, <1>1, <1>2, <1>4, <1>5, PowersOfTwo
<1>7. PICK h \in Nat, c \in {0, 1}, r \in 0..Pow(2, n) - 1 :
        /\ c = Bit(x, n)
        /\ r = x % Pow(2, n)
        /\ x = Pow(2, n) * (2 * h + c) + r
  BY <1>1, <1>3, AtBit
<1>8. PICK e \in Nat, z \in Nat : e = k * y /\ z = h + e
  OBVIOUS
<1>9. x + b * y = d * (2 * z + c) + r
  <2>1. ((2 * d) * k) * y = (2 * d) * (k * y)
    OBVIOUS
  <2>2. b * y = (2 * d) * e
    BY <1>6, <1>8, <2>1
  <2>3. d * (2 * (h + e) + c) = d * (2 * h + c) + (2 * d) * e
    BY <1>7
  <2>4. x = d * (2 * h + c) + r
    BY <1>4, <1>7
  <2>5. d * (2 * h + c) \in Int /\ (2 * d) * e \in Int /\ r \in Int
    BY <1>7, <1>4
  <2> QED BY <2>2, <2>3, <2>4, <2>5, <1>8
<1>10. Bit(x + b * y, n) = c
  <2>1. PICK v : v = x + b * y
    OBVIOUS
  <2>2. v = Pow(2, n) * (2 * z + c) + r
    BY <2>1, <1>4, <1>9
  <2>3. Bit(v, n) = c
    BY <2>2, <1>1, FromBit
  <2> QED BY <2>1, <2>3
<1> QED BY <1>2, <1>7, <1>10

\* The bits of the words above are those further up.
LEMMA BitsOfUpperWords ==
  ASSUME NEW x \in Words, NEW y \in Nat, NEW n \in Nat
  PROVE  Bit(x + Base * y, WordBits + n) = Bit(y, n)
<1>1. PICK b \in Nat \ {0} : b = Base
  BY BaseIsTwoOrMore
<1>2. x \in 0..b - 1
  BY <1>1 DEF Words
<1>3. PICK d \in Nat \ {0} : d = Pow(2, n)
  BY PowersOfTwo
<1>4. Pow(2, WordBits + n) = b * d
  BY <1>1, <1>3, BaseIsTwoOrMore, PowSum DEF Base
<1>5. PICK u \in Nat, r \in 0..d - 1 : u = y \div d /\ y = d * u + r
  <2>1. y \div d \in Nat /\ y % d \in 0..d - 1
    OBVIOUS
  <2>2. y = d * (y \div d) + (y % d)
    BY Division
  <2> QED BY <2>1, <2>2
<1>6. x + b * r \in 0..b * d - 1 /\ b * d \in Nat \ {0}
  BY <1>2, PartsInRange
<1>7. PICK s : s = x + b * r
  OBVIOUS
<1>8. PICK e \in Nat \ {0} : e = b * d
  BY <1>6
<1>9. s \in 0..e - 1
  BY <1>6, <1>7, <1>8
<1>10. PICK v \in Int : v = x + b * y
  BY <1>2
<1>11. v = e * u + s
  <2>1. b * (d * u + r) = (b * d) * u + b * r
    OBVIOUS
  <2>2. b * y = (b * d) * u + b * r
    BY <1>5, <2>1
  <2> QED BY <2>2, <1>2, <1>7, <1>8, <1>10
<1>12. v \div e = u
  BY <1>9, <1>11, DivisionUnique
<1>13. Bit(v, WordBits + n) = u % 2
  BY <1>4, <1>8, <1>12 DEF Bit
<1>14. Bit(y, n) = u % 2
  BY <1>3, <1>5 DEF Bit
<1> QED BY <1>1, <1>10, <1>13, <1>14

\* An index is found in its word.
LEMMA Indices ==
  ASSUME NEW i \in 0..3, NEW n \in 0..WordBits - 1
  PROVE  /\ (WordBits * i + n) \div WordBits = i
         /\ (IF i # 0 THEN (WordBits * i + n) % (WordBits * i) ELSE WordBits * i + n) = n
<1>1. PICK w \in Nat \ {0} : w = WordBits
  BY BaseIsTwoOrMore
<1>2. n \in 0..w - 1 /\ w * i + n \in Int
  BY <1>1
<1>3. (w * i + n) \div w = i
  <2>1. PICK x \in Int : x = w * i + n
    BY <1>2
  <2>2. x \div w = i
    BY <2>1, <1>2, DivisionUnique
  <2> QED BY <2>1, <2>2
<1>4. CASE i = 0
  BY <1>1, <1>2, <1>3, <1>4
<1>5. CASE i # 0
  <2>1. PICK d \in Nat \ {0} : d = w * i
    BY <1>5
  <2>2. w <= d
    BY <2>1, <1>5
  <2>3. PICK x \in Int : x = d * 1 + n
    BY <1>2
  <2>4. n \in 0..d - 1
    BY <2>2, <1>2
  <2>5. x % d = n
    BY <2>3, <2>4, DivisionUnique
  <2>6. x = w * i + n
    BY <2>1, <2>3
  <2>7. (w * i + n) % (w * i) = n
    BY <2>1, <2>5, <2>6
  <2> QED BY <1>1, <1>3, <1>5, <2>7
<1> QED BY <1>4, <1>5

\* The words of a value, as numbers.
LEMMA WordsOfValue ==
  ASSUME NEW v \in Values
  PROVE  /\ v[0] \in Words /\ v[1] \in Words /\ v[2] \in Words /\ v[3] \in Words
         /\ Words \subseteq Nat
         /\ Value(v) = v[0] + Base * (v[1] + Base * (v[2] + Base * v[3]))
<1>1. Words \subseteq Nat
  BY BaseIsTwoOrMore DEF Words
<1> QED BY <1>1, ValuesAreFunctions DEF Value, uint256_get_bits

\* uint256_bit_is_set looks at the bit of the value, for every index.
LEMMA BitIsSet ==
  ASSUME NEW v \in Values, NEW index \in 0..4 * WordBits - 1
  PROVE  uint256_bit_is_set(v, index) <=> Bit(Value(v), index) = 1
<1>1. PICK w \in Nat \ {0} : w = WordBits
  BY BaseIsTwoOrMore
<1>2. PICK i \in 0..3, n \in 0..w - 1 : index = w * i + n
  <2>1. index \in Int /\ 0 <= index /\ index < 4 * w
    BY <1>1
  <2>2. PICK i \in Int, n \in 0..w - 1 : index = w * i + n
    <3>1. index \div w \in Int /\ index % w \in 0..w - 1
      BY <2>1
    <3>2. index = w * (index \div w) + (index % w)
      BY <2>1, Division
    <3> QED BY <3>1, <3>2
  <2>3. ~(i < 0)
    <3>1. i < 0 => w * i <= -w
      BY <2>2
    <3>2. w * i \in Int
      BY <2>2
    <3> QED BY <3>1, <3>2, <2>1, <2>2
  <2>4. ~(i > 3)
    <3>1. i > 3 => w * i >= 4 * w
      BY <2>2
    <3>2. w * i \in Int
      BY <2>2
    <3> QED BY <3>1, <3>2, <2>1, <2>2
  <2> QED BY <2>2, <2>3, <2>4
<1>3. n \in 0..WordBits - 1
  BY <1>1, <1>2
<1>4. /\ index \div WordBits = i
      /\ (IF i # 0 THEN index % (WordBits * i) ELSE index) = n
  BY <1>1, <1>2, <1>3, Indices
<1>5. uint256_bit_is_set(v, index) <=> Bit(v[i], n) = 1
  BY <1>4 DEF uint256_bit_is_set
<1>6. PICK v0 \in Words, v1 \in Words, v2 \in Words, v3 \in Words :
        v0 = v[0] /\ v1 = v[1] /\ v2 = v[2] /\ v3 = v[3]
  BY WordsOfValue
<1>7. PICK y3 \in Nat, y2 \in Nat, y1 \in Nat :
        y3 = v3 /\ y2 = v2 + Base * y3 /\ y1 = v1 + Base * y2
  <2>1. PICK b \in Nat : b = Base
    BY BaseIsTwoOrMore
  <2>2. v1 \in Nat /\ v2 \in Nat /\ v3 \in Nat
    BY WordsOfValue
  <2>3. PICK y3 \in Nat : y3 = v3
    BY <2>2
  <2>4. PICK y2 \in Nat : y2 = v2 + b * y3
    BY <2>2
  <2>5. PICK y1 \in Nat : y1 = v1 + b * y2
    BY <2>2
  <2> QED BY <2>1, <2>3, <2>4, <2>5
<1>8. Value(v) = v0 + Base * y1
  BY <1>6, <1>7, WordsOfValue, Zenon
<1>9. Bit(y3, n) = Bit(v3, n) /\ Bit(y2, n) = Bit(v2, n) /\ Bit(y1, n) = Bit(v1, n)
      /\ Bit(Value(v), n) = Bit(v0, n)
  BY <1>3, <1>7, <1>8, BitsOfLowestWord
<1>10. ASSUME NEW m \in Nat
       PROVE  /\ Bit(y2, WordBits + m) = Bit(y3, m)
              /\ Bit(y1, WordBits + m) = Bit(y2, m)
              /\ Bit(Value(v), WordBits + m) = Bit(y1, m)
  BY <1>7, <1>8, BitsOfUpperWords
<1>11. PICK n1 \in Nat, n2 \in Nat, n3 \in Nat :
         n1 = WordBits + n /\ n2 = WordBits + n1 /\ n3 = WordBits + n2 /\ n \in Nat
  BY <1>1, <1>3
<1>12. CASE i = 0
  <2>1. index = n
    BY <1>1, <1>2, <1>11, <1>12
  <2> QED BY <2>1, <1>5, <1>6, <1>9, <1>12
<1>13. CASE i = 1
  <2>1. index = n1
    BY <1>1, <1>2, <1>11, <1>13
  <2>2. Bit(Value(v), n1) = Bit(y1, n)
    BY <1>10, <1>11
  <2> QED BY <2>1, <2>2, <1>5, <1>6, <1>9, <1>13
<1>14. CASE i = 2
  <2>1. index = n2
    BY <1>1, <1>2, <1>11, <1>14
  <2>2. Bit(Value(v), n2) = Bit(y1, n1) /\ Bit(y1, n1) = Bit(y2, n)
    BY <1>10, <1>11
  <2> QED BY <2>1, <2>2, <1>5, <1>6, <1>9, <1>14
<1>15. CASE i = 3
  <2>1. index = n3
    BY <1>1, <1>2, <1>11, <1>15
  <2>2. Bit(Value(v), n3) = Bit(y1, n2) /\ Bit(y1, n2) = Bit(y2, n1) /\ Bit(y2, n1) = Bit(y3, n)
    BY <1>10, <1>11
  <2> QED BY <2>1, <2>2, <1>5, <1>6, <1>9, <1>15
<1> QED BY <1>2, <1>12, <1>13, <1>14, <1>15

-----------------------------------------------------------------------------
(* Shifts *)

\* A word shifted by less than its width: what is moved out and what stays.
LEMMA ShiftedWord ==
  ASSUME NEW x \in Words, NEW p \in 1..WordBits - 1
  PROVE  \E h \in 0..Pow(2, p) - 1 :
           /\ h = x \div Pow(2, WordBits - p)
           /\ x - (x % Pow(2, WordBits - p)) = Pow(2, WordBits - p) * h
           /\ ShiftLeft(x, p) = Pow(2, p) * (x % Pow(2, WordBits - p))
           /\ x % Pow(2, WordBits - p) \in Nat
           /\ ShiftLeft(x, p) \in Words
           /\ ShiftLeft(x, p) + h \in Words
           /\ x * Pow(2, p) = ShiftLeft(x, p) + Base * h
<1>1. p \in Nat /\ WordBits - p \in Nat /\ WordBits \in Nat /\ p <= WordBits
  BY BaseIsTwoOrMore
<1>2. PICK P \in Nat \ {0}, q \in Nat \ {0} : P = Pow(2, p) /\ q = Pow(2, WordBits - p)
  BY <1>1, PowersOfTwo
<1>3. PICK b \in Nat \ {0} : b = Base /\ b = P * q
  <2>1. Base = Pow(2, p) * Pow(2, WordBits - p)
    BY <1>1, PowersApart DEF Base
  <2> QED BY <2>1, <1>2, BaseIsTwoOrMore
<1>4. x \in Nat /\ x \in 0..b - 1
  BY <1>3 DEF Words
<1>5. PICK h \in Nat, l \in 0..q - 1 : h = x \div q /\ l = x % q /\ x = q * h + l
  <2>1. x \div q \in Nat /\ x % q \in 0..q - 1
    BY <1>4
  <2>2. x = q * (x \div q) + (x % q)
    BY <1>4, Division
  <2> QED BY <2>1, <2>2
<1>6. h < P
  <2>1. h >= P => q * h >= q * P
    OBVIOUS
  <2>2. q * P = P * q /\ q * h \in Nat /\ q * P \in Nat
    OBVIOUS
  <2>3. q * h < q * P
    BY <2>2, <1>3, <1>4, <1>5
  <2> QED BY <2>1, <2>2, <2>3
<1>7. 0 + P * l \in 0..P * q - 1
  <2>1. 0 \in 0..P - 1
    OBVIOUS
  <2> QED BY <2>1, PartsInRange
<1>8. h + P * l \in 0..P * q - 1
  <2>1. h \in 0..P - 1
    BY <1>6
  <2> QED BY <2>1, PartsInRange
<1>9. PICK s \in 0..b - 1 : s = P * l
  BY <1>3, <1>7
<1>10. x * P = b * h + s
  <2>1. (q * h + l) * P = (P * q) * h + P * l
    OBVIOUS
  <2> QED BY <2>1, <1>3, <1>5, <1>9
<1>11. ShiftLeft(x, p) = s
  <2>1. PICK y \in Int : y = x * P
    BY <1>4
  <2>2. y = b * h + s
    BY <2>1, <1>10
  <2>3. y % b = s
    BY <2>2, DivisionUnique
  <2> QED BY <2>1, <2>3, <1>2, <1>3 DEF ShiftLeft
<1>12. s \in Words /\ s + h \in Words
  <2>1. s + h = h + P * l
    BY <1>9
  <2> QED BY <2>1, <1>3, <1>8 DEF Words
<1>13. x - (x % q) = q * h
  BY <1>5
<1>14. x * P = s + b * h
  BY <1>10
<1>15. h \in 0..P - 1 /\ l \in Nat
  BY <1>6
<1> QED BY <1>2, <1>3, <1>5, <1>9, <1>11, <1>12, <1>13, <1>14, <1>15

\* The mask is made of the ones that the loop has set, also when it has set
\* them all.
LEMMA Mask ==
  ASSUME NEW shift \in Nat, NEW p \in 1..WordBits - 1, p = shift % WordBits
  PROVE  ShiftLeft(Ones(shift), WordBits - p) = Base - Pow(2, WordBits - p)
<1>1. p \in Nat /\ WordBits - p \in Nat /\ WordBits \in Nat \ {0} /\ p <= WordBits
  BY BaseIsTwoOrMore
<1>2. PICK P \in Nat \ {0}, q \in Nat \ {0} : P = Pow(2, p) /\ q = Pow(2, WordBits - p)
  BY <1>1, PowersOfTwo
<1>3. PICK b \in Nat \ {0} : b = Base /\ b = P * q
  <2>1. Base = Pow(2, p) * Pow(2, WordBits - p)
    BY <1>1, PowersApart DEF Base
  <2> QED BY <2>1, <1>2, BaseIsTwoOrMore
<1>4. q <= b
  <2>1. q <= P * q
    OBVIOUS
  <2> QED BY <2>1, <1>3
<1>5. PICK r \in 0..b - 1 : r = b - q
  BY <1>4
<1>6. CASE shift >= WordBits
  <2>1. PICK x \in Int : x = (b - 1) * q
    OBVIOUS
  <2>2. x = b * (q - 1) + r
    <3>1. (b - 1) * q = b * (q - 1) + (b - q)
      OBVIOUS
    <3> QED BY <3>1, <2>1, <1>5
  <2>3. x % b = r
    <3>1. q - 1 \in Int
      OBVIOUS
    <3> QED BY <3>1, <2>2, DivisionUnique
  <2>4. Ones(shift) = b - 1
    BY <1>3, <1>6 DEF Ones
  <2>5. ((b - 1) * q) % b = b - q
    BY <2>1, <2>3, <1>5
  <2> QED BY <2>4, <2>5, <1>2, <1>3 DEF ShiftLeft
<1>7. CASE ~(shift >= WordBits)
  <2>1. p = shift
    <3>1. PICK w \in Nat \ {0} : w = WordBits
      BY <1>1
    <3>2. shift \in 0..w - 1 /\ shift = w * 0 + shift
      BY <3>1, <1>7
    <3>3. shift % w = shift
      BY <3>2, DivisionUnique
    <3> QED BY <3>1, <3>3
  <2>2. Ones(shift) = P - 1
    BY <2>1, <1>2, <1>7 DEF Ones
  <2>3. PICK x \in Int : x = (P - 1) * q
    OBVIOUS
  <2>4. x = b * 0 + r
    <3>1. (P - 1) * q = P * q - q
      OBVIOUS
    <3> QED BY <3>1, <2>3, <1>3, <1>5
  <2>5. x % b = r
    BY <2>4, DivisionUnique
  <2>6. ((P - 1) * q) % b = b - q
    BY <2>3, <2>5, <1>5
  <2> QED BY <2>2, <2>6, <1>2, <1>3 DEF ShiftLeft
<1> QED BY <1>6, <1>7

\* What the mask and the shift to the right take out of a word.
LEMMA MovedOut ==
  ASSUME NEW x \in Words, NEW p \in 1..WordBits - 1
  PROVE  ShiftRight(x & (Base - Pow(2, WordBits - p)), WordBits - p) = x \div Pow(2, WordBits - p)
<1>1. WordBits - p \in 0..WordBits /\ WordBits - p \in Nat
  BY BaseIsTwoOrMore
<1>2. PICK q \in Nat \ {0} : q = Pow(2, WordBits - p)
  BY <1>1, PowersOfTwo
<1>3. PICK h \in Nat : h = x \div q /\ x - (x % q) = q * h
  <2>1. PICK P \in Nat \ {0} : P = Pow(2, p)
    <3>1. p \in Nat
      OBVIOUS
    <3> QED BY <3>1, PowersOfTwo
  <2>2. PICK h \in 0..Pow(2, p) - 1 :
           /\ h = x \div Pow(2, WordBits - p)
           /\ x - (x % Pow(2, WordBits - p)) = Pow(2, WordBits - p) * h
    BY ShiftedWord
  <2>3. h \in Nat
    BY <2>1, <2>2
  <2> QED BY <2>2, <2>3, <1>2
<1>4. x & (Base - q) = q * h
  BY <1>1, <1>2, <1>3, Masked
<1>5. PICK y \in Int : y = q * h
  OBVIOUS
<1>6. y = q * h + 0 /\ 0 \in 0..q - 1
  BY <1>5
<1>7. y \div q = h
  BY <1>6, DivisionUnique
<1> QED BY <1>2, <1>3, <1>4, <1>5, <1>7 DEF ShiftRight

\* A shifted word takes the bits moved out of the one below.
LEMMA TakesIn ==
  ASSUME NEW x \in Words, NEW p \in 1..WordBits - 1, NEW h \in 0..Pow(2, p) - 1
  PROVE  /\ ShiftLeft(x, p) | h = ShiftLeft(x, p) + h
         /\ ShiftLeft(x, p) + h \in Words
<1>1. p \in Nat /\ WordBits \in Nat /\ p <= WordBits
  BY BaseIsTwoOrMore
<1>2. PICK l \in Nat : l = x % Pow(2, WordBits - p) /\ ShiftLeft(x, p) = Pow(2, p) * l /\ ShiftLeft(x, p) \in Words
  BY ShiftedWord
<1>3. h \in Words
  <2>1. PICK P \in Nat \ {0}, m \in Nat \ {0}, b \in Nat : P = Pow(2, p) /\ b = Base /\ b = P * m
    <3>1. WordBits - p \in Nat /\ Base = Pow(2, p) * Pow(2, WordBits - p)
      BY <1>1, PowersApart DEF Base
    <3>2. Pow(2, p) \in Nat \ {0} /\ Pow(2, WordBits - p) \in Nat \ {0}
      BY <1>1, <3>1, PowersOfTwo
    <3> QED BY <3>1, <3>2
  <2>2. P <= P * m
    OBVIOUS
  <2> QED BY <2>1, <2>2 DEF Words
<1>4. ASSUME NEW n \in 0..WordBits - 1
      PROVE  Bit(ShiftLeft(x, p), n) = 0 \/ Bit(h, n) = 0
  <2>1. n \in Nat
    BY <1>1
  <2>2. CASE n < p
    <3>1. Bit(Pow(2, p) * l, n) = 0
      BY <2>1, <2>2, <1>1, NoBitsBelow
    <3> QED BY <3>1, <1>2
  <2>3. CASE ~(n < p)
    BY <2>1, <2>3, <1>1, FewBits
  <2> QED BY <2>2, <2>3
<1>5. PICK s \in Words : s = ShiftLeft(x, p)
  BY <1>2
<1>6. s | h = s + h
  BY <1>3, <1>4, <1>5, Disjoint
<1>7. s + h \in Words
  <2>1. PICK P \in Nat \ {0}, q \in Nat \ {0}, b \in Nat : P = Pow(2, p) /\ q = Pow(2, WordBits - p) /\ b = Base /\ b = P * q
    <3>1. WordBits - p \in Nat /\ Base = Pow(2, p) * Pow(2, WordBits - p)
      BY <1>1, PowersApart DEF Base
    <3>2. Pow(2, p) \in Nat \ {0} /\ Pow(2, WordBits - p) \in Nat \ {0}
      BY <1>1, <3>1, PowersOfTwo
    <3> QED BY <3>1, <3>2
  <2>2. l \in 0..q - 1 /\ h \in 0..P - 1
    <3>1. x \in Nat
      BY <2>1 DEF Words
    <3>2. x % q \in 0..q - 1
      BY <3>1
    <3> QED BY <3>2, <2>1, <1>2
  <2>3. h + P * l \in 0..P * q - 1
    BY <2>2, PartsInRange
  <2>4. s + h = h + P * l
    BY <2>1, <2>2, <1>2, <1>5
  <2> QED BY <2>1, <2>3, <2>4 DEF Words
<1> QED BY <1>5, <1>6, <1>7

\* A value shifted by less than the width of a word.
PartialShift(v, p) ==
  [i \in 0..3 |-> IF i = 0 THEN ShiftLeft(v[0], p)
                  ELSE ShiftLeft(v[i], p) | (v[i - 1] \div Pow(2, WordBits - p))]

\* It is multiplied, modulo the modulus.
LEMMA PartialShifts ==
  ASSUME NEW v \in Values, NEW p \in 1..WordBits - 1
  PROVE  /\ PartialShift(v, p) \in Values
         /\ \E k \in Int : Value(v) * Pow(2, p) = Value(PartialShift(v, p)) + Modulus * k
<1>1. PICK P \in Nat \ {0}, q \in Nat \ {0} : P = Pow(2, p) /\ q = Pow(2, WordBits - p)
  <2>1. p \in Nat /\ WordBits - p \in Nat
    BY WidthAssumption
  <2> QED BY <2>1, PowersOfTwo
<1>2. PICK b \in Nat : b = Base
  BY BaseIsTwoOrMore
<1>3. ASSUME NEW x \in Words
      PROVE  /\ x \div q \in 0..P - 1
             /\ ShiftLeft(x, p) \in Words
             /\ x * P = ShiftLeft(x, p) + b * (x \div q)
  <2>1. PICK h \in 0..Pow(2, p) - 1 :
           /\ h = x \div Pow(2, WordBits - p)
           /\ ShiftLeft(x, p) \in Words
           /\ x * Pow(2, p) = ShiftLeft(x, p) + Base * h
    BY ShiftedWord
  <2> QED BY <2>1, <1>1, <1>2
<1>4. ASSUME NEW x \in Words, NEW y \in Words
      PROVE  /\ ShiftLeft(x, p) | (y \div q) = ShiftLeft(x, p) + (y \div q)
             /\ ShiftLeft(x, p) + (y \div q) \in Words
  <2>1. PICK h \in 0..Pow(2, p) - 1 : h = y \div q
    BY <1>1, <1>3
  <2>2. ShiftLeft(x, p) | h = ShiftLeft(x, p) + h /\ ShiftLeft(x, p) + h \in Words
    BY TakesIn
  <2> QED BY <2>1, <2>2
<1>5. PICK v0 \in Int, v1 \in Int, v2 \in Int, v3 \in Int :
        /\ v0 = v[0] /\ v1 = v[1] /\ v2 = v[2] /\ v3 = v[3]
        /\ v0 \in Words /\ v1 \in Words /\ v2 \in Words /\ v3 \in Words
        /\ Value(v) = v0 + b * (v1 + b * (v2 + b * v3))
  <2>1. Value(v) = v[0] + b * (v[1] + b * (v[2] + b * v[3]))
    BY <1>2, WordsOfValue, Zenon
  <2>2. v[0] \in Words /\ v[1] \in Words /\ v[2] \in Words /\ v[3] \in Words /\ \A z \in Words : z \in Int
    BY WordsOfValue
  <2> QED BY <2>1, <2>2, Zenon
<1>6. PICK s0 \in Words, s1 \in Words, s2 \in Words, s3 \in Words :
        /\ s0 = ShiftLeft(v0, p) /\ s1 = ShiftLeft(v1, p)
        /\ s2 = ShiftLeft(v2, p) /\ s3 = ShiftLeft(v3, p)
  BY <1>3, <1>5
<1>7. PICK h0 \in Int, h1 \in Int, h2 \in Int, h3 \in Int :
        h0 = v0 \div q /\ h1 = v1 \div q /\ h2 = v2 \div q /\ h3 = v3 \div q
  <2>1. ASSUME NEW x \in Words PROVE x \div q \in Int
    <3>1. x \div q \in 0..P - 1
      BY <1>3
    <3> QED BY <3>1
  <2> QED BY <2>1, <1>5
<1>8. /\ v0 * P = s0 + b * h0 /\ v1 * P = s1 + b * h1
      /\ v2 * P = s2 + b * h2 /\ v3 * P = s3 + b * h3
  BY <1>3, <1>5, <1>6, <1>7
<1>9. PICK w : w = PartialShift(v, p)
  OBVIOUS
<1>10. /\ w[0] = s0 /\ w[1] = s1 + h0 /\ w[2] = s2 + h1 /\ w[3] = s3 + h2
       /\ w[0] \in Words /\ w[1] \in Words /\ w[2] \in Words /\ w[3] \in Words
  <2>1. /\ w[0] = ShiftLeft(v0, p) /\ w[1] = ShiftLeft(v1, p) | (v0 \div q)
        /\ w[2] = ShiftLeft(v2, p) | (v1 \div q) /\ w[3] = ShiftLeft(v3, p) | (v2 \div q)
    BY <1>1, <1>5, <1>9 DEF PartialShift
  <2>2. /\ ShiftLeft(v1, p) | (v0 \div q) = ShiftLeft(v1, p) + (v0 \div q)
        /\ ShiftLeft(v1, p) + (v0 \div q) \in Words
        /\ ShiftLeft(v2, p) | (v1 \div q) = ShiftLeft(v2, p) + (v1 \div q)
        /\ ShiftLeft(v2, p) + (v1 \div q) \in Words
        /\ ShiftLeft(v3, p) | (v2 \div q) = ShiftLeft(v3, p) + (v2 \div q)
        /\ ShiftLeft(v3, p) + (v2 \div q) \in Words
    BY <1>4, <1>5
  <2> QED BY <2>1, <2>2, <1>6, <1>7, Zenon
<1>11. w \in Values
  <2>1. w = [i \in 0..3 |-> w[i]]
    BY <1>9 DEF PartialShift
  <2>2. ASSUME NEW i \in 0..3 PROVE w[i] \in Words
    <3>1. i \in {0, 1, 2, 3}
      OBVIOUS
    <3> QED BY <3>1, <1>10
  <2> QED BY <2>1, <2>2, ValuesAreFunctions
<1>12. PICK w0 \in Int, w1 \in Int, w2 \in Int, w3 \in Int :
         /\ w0 = w[0] /\ w1 = w[1] /\ w2 = w[2] /\ w3 = w[3]
         /\ w0 = s0 /\ w1 = s1 + h0 /\ w2 = s2 + h1 /\ w3 = s3 + h2
  <2>1. \A z \in Words : z \in Int
    BY WordsOfValue
  <2> QED BY <2>1, <1>10, Zenon
<1>13. PICK e0 \in Int, e1 \in Int, e2 \in Int, e3 \in Int :
         e0 = v0 * P /\ e1 = v1 * P /\ e2 = v2 * P /\ e3 = v3 * P
  OBVIOUS
<1>14. /\ s0 \in Int /\ s1 \in Int /\ s2 \in Int /\ s3 \in Int
  BY WordsOfValue
<1>15. e0 + 0 = w0 + b * h0 /\ e1 + h0 = w1 + b * h1 /\ e2 + h1 = w2 + b * h2 /\ e3 + h2 = w3 + b * h3
  <2>1. e0 + 0 = w0 + b * h0
    BY <1>8, <1>12, <1>13, <1>14
  <2>2. e1 + h0 = w1 + b * h1
    BY <1>8, <1>12, <1>13, <1>14
  <2>3. e2 + h1 = w2 + b * h2
    BY <1>8, <1>12, <1>13, <1>14
  <2>4. e3 + h2 = w3 + b * h3
    BY <1>8, <1>12, <1>13, <1>14
  <2> QED BY <2>1, <2>2, <2>3, <2>4
<1>16. (e2 + b * e3) + h1 = (w2 + b * w3) + (b * b) * h3
  BY <1>15, CarryOn
<1>17. PICK E2 \in Int, W2 \in Int, m2 \in Int : E2 = e2 + b * e3 /\ W2 = w2 + b * w3 /\ m2 = b * b
  OBVIOUS
<1>18. (e1 + b * E2) + h0 = (w1 + b * W2) + (b * m2) * h3
  <2>1. E2 + h1 = W2 + m2 * h3
    BY <1>16, <1>17
  <2> QED BY <2>1, <1>15, CarryOn
<1>19. PICK E1 \in Int, W1 \in Int, m1 \in Int : E1 = e1 + b * E2 /\ W1 = w1 + b * W2 /\ m1 = b * m2
  OBVIOUS
<1>20. (e0 + b * E1) + 0 = (w0 + b * W1) + (b * m1) * h3
  <2>1. E1 + h0 = W1 + m1 * h3
    BY <1>18, <1>19
  <2>2. PICK z \in Int : z = 0
    OBVIOUS
  <2>3. e0 + z = w0 + b * h0
    BY <2>2, <1>15
  <2>4. (e0 + b * E1) + z = (w0 + b * W1) + (b * m1) * h3
    BY <2>1, <2>3, CarryOn
  <2> QED BY <2>2, <2>4
<1>21. Value(w) = w0 + b * W1
  BY <1>2, <1>11, <1>12, <1>17, <1>19, WordsOfValue
<1>22. Value(v) * P = e0 + b * E1
  <2>1. PICK y2 \in Int : y2 = v2 + b * v3
    OBVIOUS
  <2>2. y2 * P = E2
    BY <2>1, <1>13, <1>17
  <2>3. PICK y1 \in Int : y1 = v1 + b * y2
    OBVIOUS
  <2>4. y1 * P = E1
    <3>1. (v1 + b * y2) * P = v1 * P + b * (y2 * P)
      OBVIOUS
    <3> QED BY <3>1, <2>2, <2>3, <1>13, <1>19
  <2>5. (v0 + b * y1) * P = v0 * P + b * (y1 * P)
    OBVIOUS
  <2>6. Value(v) = v0 + b * y1
    BY <2>1, <2>3, <1>5
  <2> QED BY <2>4, <2>5, <2>6, <1>13
<1>23. Modulus = b * m1
  BY <1>2, <1>17, <1>19, ModulusIsFourWords
<1>24. Value(v) * P = Value(w) + Modulus * h3
  <2>1. e0 + b * E1 \in Int
    OBVIOUS
  <2>2. e0 + b * E1 = (w0 + b * W1) + (b * m1) * h3
    BY <2>1, <1>20
  <2> QED BY <2>2, <1>21, <1>22, <1>23, Zenon
<1> QED BY <1>1, <1>9, <1>11, <1>24

\* Moving up by one word.
LEMMA OneWord ==
  ASSUME NEW v \in Values
  PROVE  /\ uint256_wholeshift(v, 1) \in Values
         /\ \E k \in Int : Value(v) * Base = Value(uint256_wholeshift(v, 1)) + Modulus * k
<1>1. PICK b \in Nat : b = Base
  BY BaseIsTwoOrMore
<1>2. PICK v0 \in Int, v1 \in Int, v2 \in Int, v3 \in Int :
        /\ v0 = v[0] /\ v1 = v[1] /\ v2 = v[2] /\ v3 = v[3]
        /\ v0 \in Words /\ v1 \in Words /\ v2 \in Words /\ v3 \in Words
        /\ Value(v) = v0 + b * (v1 + b * (v2 + b * v3))
  <2>1. Value(v) = v[0] + b * (v[1] + b * (v[2] + b * v[3]))
    BY <1>1, WordsOfValue, Zenon
  <2>2. v[0] \in Words /\ v[1] \in Words /\ v[2] \in Words /\ v[3] \in Words /\ \A z \in Words : z \in Int
    BY WordsOfValue
  <2> QED BY <2>1, <2>2, Zenon
<1>3. PICK w : w = [i \in 0..3 |-> IF i >= 1 THEN v[i - 1] ELSE 0]
  OBVIOUS
<1>4. w = uint256_wholeshift(v, 1)
  BY <1>3 DEF uint256_wholeshift
<1>5. w[0] = 0 /\ w[1] = v0 /\ w[2] = v1 /\ w[3] = v2
  BY <1>2, <1>3
<1>6. w \in Values
  <2>1. 0 \in Words
    BY BaseIsTwoOrMore DEF Words
  <2>2. ASSUME NEW i \in 0..3 PROVE w[i] \in Words
    <3>1. i \in {0, 1, 2, 3}
      OBVIOUS
    <3> QED BY <3>1, <2>1, <1>2, <1>5
  <2>3. w = [i \in 0..3 |-> w[i]]
    BY <1>3
  <2> QED BY <2>2, <2>3, ValuesAreFunctions
<1>7. Value(w) = 0 + b * (v0 + b * (v1 + b * v2))
  BY <1>1, <1>5, <1>6, WordsOfValue
<1>8. PICK x \in Int, m \in Int : x = v0 + b * (v1 + b * v2) /\ m = b * (b * b)
  OBVIOUS
<1>9. Value(v) = x + m * v3
  <2>1. b * (v2 + b * v3) = b * v2 + (b * b) * v3
    OBVIOUS
  <2>2. PICK c \in Int, d \in Int : c = b * v2 /\ d = b * b
    OBVIOUS
  <2>3. b * (v1 + (c + d * v3)) = b * (v1 + c) + (b * d) * v3
    OBVIOUS
  <2>4. b * (v1 + b * (v2 + b * v3)) = b * (v1 + b * v2) + m * v3
    BY <2>1, <2>2, <2>3, <1>8, Zenon
  <2>5. b * (v1 + b * v2) \in Int /\ m * v3 \in Int
    OBVIOUS
  <2> QED BY <2>4, <2>5, <1>2, <1>8
<1>10. Modulus = b * m
  BY <1>1, <1>8, ModulusIsFourWords
<1>11. Value(v) * b = Value(w) + Modulus * v3
  <2>1. (x + m * v3) * b = (0 + b * x) + (b * m) * v3
    OBVIOUS
  <2> QED BY <2>1, <1>7, <1>8, <1>9, <1>10, Zenon
<1> QED BY <1>1, <1>4, <1>6, <1>11

\* Congruence is kept by multiplying, and is transitive.
LEMMA Congruent ==
  ASSUME NEW m \in Int, NEW x \in Int, NEW y \in Int, NEW z \in Int, NEW c \in Int, NEW d \in Int,
         NEW i \in Int, NEW k \in Int, x * c = y + m * i, y * d = z + m * k
  PROVE  /\ i * d + k \in Int
         /\ x * (c * d) = z + m * (i * d + k)
<1>1. x * (c * d) = (x * c) * d
  OBVIOUS
<1>2. (y + m * i) * d = y * d + m * (i * d)
  OBVIOUS
<1>3. PICK e \in Int : e = i * d
  OBVIOUS
<1>4. x * (c * d) = (z + m * k) + m * e
  BY <1>1, <1>2, <1>3, Zenon
<1>5. (z + m * k) + m * e = z + m * (e + k)
  OBVIOUS
<1>6. x * (c * d) = z + m * (e + k)
  BY <1>4, <1>5, Zenon
<1>7. e + k \in Int
  OBVIOUS
<1> QED BY <1>3, <1>6, <1>7

\* Moving up by words multiplies by powers of the base, also past the last one.
LEMMA WholeShifts ==
  ASSUME NEW v \in Values, NEW whole \in Nat
  PROVE  /\ uint256_wholeshift(v, whole) \in Values
         /\ \E k \in Int :
              Value(v) * Pow(2, WordBits * whole) = Value(uint256_wholeshift(v, whole)) + Modulus * k
<1> DEFINE Shifted(n) ==
             /\ uint256_wholeshift(v, n) \in Values
             /\ \E k \in Int :
                  Value(v) * Pow(2, WordBits * n) = Value(uint256_wholeshift(v, n)) + Modulus * k
           T == {n \in Nat : Shifted(n)}
<1>1. PICK w \in Nat, b \in Nat, m \in Nat : w = WordBits /\ b = Base /\ m = Modulus
  BY BaseIsTwoOrMore, ModulusIsFourWords
<1>2. PICK x \in Int : x = Value(v)
  BY <1>1, ValueInRange
<1>3. 0 \in T
  <2>1. uint256_wholeshift(v, 0) = v
    <3>1. ASSUME NEW i \in 0..3 PROVE (IF i >= 0 THEN v[i - 0] ELSE 0) = v[i]
      OBVIOUS
    <3>2. v = [i \in 0..3 |-> v[i]]
      BY ValuesAreFunctions
    <3> QED BY <3>1, <3>2 DEF uint256_wholeshift
  <2>2. w * 0 = 0 /\ Pow(2, 0) = 1
    BY PowersOfTwo
  <2>3. x * 1 = x + m * 0 /\ 0 \in Int
    OBVIOUS
  <2>4. Value(v) * Pow(2, WordBits * 0) = Value(uint256_wholeshift(v, 0)) + Modulus * 0
    BY <2>1, <2>2, <2>3, <1>1, <1>2
  <2> QED BY <2>1, <2>3, <2>4
<1>4. ASSUME NEW n \in Nat, n \in T PROVE n + 1 \in T
  <2>1. PICK u \in Values : u = uint256_wholeshift(v, n)
    BY <1>4
  <2>2. PICK i \in Int : Value(v) * Pow(2, WordBits * n) = Value(u) + Modulus * i
    BY <1>4, <2>1
  <2>3. PICK t \in Values : t = uint256_wholeshift(u, 1)
    BY OneWord
  <2>4. PICK k \in Int : Value(u) * Base = Value(t) + Modulus * k
    BY <2>3, OneWord
  <2>5. t = uint256_wholeshift(v, n + 1)
    <3>1. ASSUME NEW j \in 0..3
          PROVE  (IF j >= 1 THEN u[j - 1] ELSE 0) = (IF j >= n + 1 THEN v[j - (n + 1)] ELSE 0)
      <4>1. CASE j >= 1
        <5>1. j - 1 \in 0..3 /\ (j - 1) - n = j - (n + 1)
          BY <4>1
        <5>2. u[j - 1] = IF j - 1 >= n THEN v[(j - 1) - n] ELSE 0
          BY <2>1, <5>1 DEF uint256_wholeshift
        <5>3. j - 1 >= n <=> j >= n + 1
          OBVIOUS
        <5> QED BY <4>1, <5>1, <5>2, <5>3
      <4>2. CASE ~(j >= 1)
        BY <4>2
      <4> QED BY <4>1, <4>2
    <3> QED BY <3>1, <2>3 DEF uint256_wholeshift
  <2>6. PICK c \in Int, y \in Int, z \in Int : c = Pow(2, w * n) /\ y = Value(u) /\ z = Value(t)
    <3>1. w * n \in Nat
      OBVIOUS
    <3>2. Pow(2, w * n) \in Int
      BY <3>1, PowersOfTwo
    <3>3. \A q \in Values : Value(q) \in Int
      BY <1>1, ValueInRange
    <3> QED BY <3>2, <3>3
  <2>7. x * (c * b) = z + m * (i * b + k) /\ i * b + k \in Int
    <3>1. x * c = y + m * i
      BY <2>2, <2>6, <1>1, <1>2
    <3>2. y * b = z + m * k
      BY <2>4, <2>6, <1>1
    <3> QED BY <3>1, <3>2, Congruent
  <2>8. Pow(2, w * (n + 1)) = c * b
    <3>1. w * n \in Nat /\ w * (n + 1) = w * n + w
      OBVIOUS
    <3>2. Pow(2, w * n + w) = Pow(2, w * n) * Pow(2, w)
      BY <3>1, PowSum
    <3> QED BY <3>1, <3>2, <2>6, <1>1 DEF Base
  <2>9. Value(v) * Pow(2, WordBits * (n + 1)) = Value(uint256_wholeshift(v, n + 1)) + Modulus * (i * b + k)
    BY <2>5, <2>6, <2>7, <2>8, <1>1, <1>2, Zenon
  <2> QED BY <2>3, <2>5, <2>7, <2>9
<1> HIDE DEF T
<1>5. whole \in T
  BY <1>3, <1>4, Induction
<1> QED BY <1>5 DEF T

\* uint256_leftshift multiplies by a power of two, modulo the modulus, for
\* every distance.
LEMMA LeftShifts ==
  ASSUME NEW v \in Values, NEW shift \in Nat
  PROVE  /\ uint256_leftshift(v, shift) \in Values
         /\ \E k \in Int :
              Value(v) * Pow(2, shift) = Value(uint256_leftshift(v, shift)) + Modulus * k
<1>1. PICK w \in Nat \ {0} : w = WordBits
  BY BaseIsTwoOrMore
<1>2. PICK whole \in Nat, p \in 0..w - 1 : whole = shift \div w /\ p = shift % w /\ shift = w * whole + p
  <2>1. shift \div w \in Nat /\ shift % w \in 0..w - 1
    OBVIOUS
  <2>2. shift = w * (shift \div w) + (shift % w)
    BY Division
  <2> QED BY <2>1, <2>2
<1>3. PICK u \in Values : u = uint256_wholeshift(v, whole)
  BY WholeShifts
<1>4. PICK i \in Int : Value(v) * Pow(2, WordBits * whole) = Value(u) + Modulus * i
  BY <1>3, WholeShifts
<1>5. CASE p = 0
  <2>1. uint256_leftshift(v, shift) = u
    BY <1>1, <1>2, <1>3, <1>5 DEF uint256_leftshift
  <2>2. shift = WordBits * whole
    BY <1>1, <1>2, <1>5
  <2> QED BY <2>1, <2>2, <1>4
<1>6. CASE p # 0
  <2>1. p \in 1..WordBits - 1 /\ p = shift % WordBits /\ shift # 0
    BY <1>1, <1>2, <1>6
  <2>2. PICK mask : mask = ShiftLeft(Ones(shift), WordBits - p) /\ mask = Base - Pow(2, WordBits - p)
    BY <2>1, Mask
  <2>3. uint256_leftshift(v, shift)
          = [n \in 0..3 |-> IF n = 0 THEN ShiftLeft(u[0], p)
                            ELSE ShiftLeft(u[n], p) | ShiftRight(u[n - 1] & mask, WordBits - p)]
    BY <2>1, <2>2, <1>1, <1>2, <1>3, <1>6 DEF uint256_leftshift
  <2>4. ASSUME NEW n \in 0..3, n # 0
        PROVE  ShiftRight(u[n - 1] & mask, WordBits - p) = u[n - 1] \div Pow(2, WordBits - p)
    <3>1. n - 1 \in 0..3
      BY <2>4
    <3>2. u[n - 1] \in Words
      BY <3>1, ValuesAreFunctions
    <3> QED BY <3>2, <2>1, <2>2, MovedOut
  <2>5. uint256_leftshift(v, shift) = PartialShift(u, p)
    BY <2>3, <2>4, Zenon DEF PartialShift
  <2>6. PICK t \in Values : t = PartialShift(u, p)
    BY <2>1, PartialShifts
  <2>7. PICK k \in Int : Value(u) * Pow(2, p) = Value(t) + Modulus * k
    BY <2>1, <2>6, PartialShifts
  <2>8. PICK m \in Int : m = Modulus
    BY ModulusIsFourWords
  <2>9. PICK x \in Int, y \in Int, z \in Int : x = Value(v) /\ y = Value(u) /\ z = Value(t)
    <3>1. \A q \in Values : Value(q) \in Int
      BY <2>8, ValueInRange
    <3> QED BY <3>1
  <2>10. PICK c \in Int, d \in Int : c = Pow(2, w * whole) /\ d = Pow(2, p) /\ Pow(2, w * whole + p) = c * d
    <3>1. w * whole \in Nat /\ p \in Nat
      OBVIOUS
    <3>2. Pow(2, w * whole) \in Int /\ Pow(2, p) \in Int
      BY <3>1, PowersOfTwo
    <3>3. Pow(2, w * whole + p) = Pow(2, w * whole) * Pow(2, p)
      BY <3>1, PowSum
    <3> QED BY <3>2, <3>3
  <2>11. i * d + k \in Int /\ x * (c * d) = z + m * (i * d + k)
    <3>1. x * c = y + m * i
      BY <1>1, <1>4, <2>8, <2>9, <2>10
    <3>2. y * d = z + m * k
      BY <2>7, <2>8, <2>9, <2>10
    <3> QED BY <3>1, <3>2, Congruent
  <2>12. Value(v) * Pow(2, shift) = Value(uint256_leftshift(v, shift)) + Modulus * (i * d + k)
    BY <1>2, <2>5, <2>6, <2>8, <2>9, <2>10, <2>11, Zenon
  <2> QED BY <2>5, <2>6, <2>11, <2>12
<1> QED BY <1>5, <1>6

-----------------------------------------------------------------------------
(* Products *)

\* The table of the partial products.
LEMMA ProductTable ==
  ASSUME NEW x \in Values, NEW y \in Values
  PROVE  \E product :
           /\ product[0] = uint256_create_from_u64(0)
           /\ \A i \in 1..4 * WordBits :
                product[i] = IF uint256_bit_is_set(x, i - 1)
                             THEN uint256_add(product[i - 1], uint256_leftshift(y, i - 1))
                             ELSE product[i - 1]
           /\ uint256_mul(x, y) = product[4 * WordBits]
<1> DEFINE IsProduct(t) == t = [i \in 0..4 * WordBits |->
             IF i = 0 THEN uint256_create_from_u64(0)
             ELSE IF uint256_bit_is_set(x, i - 1)
             THEN uint256_add(t[i - 1], uint256_leftshift(y, i - 1))
             ELSE t[i - 1]]
           product == CHOOSE t : IsProduct(t)
<1>1. PICK len \in Nat : len = 4 * WordBits
  BY BaseIsTwoOrMore
<1>2. PICK zero \in Values : zero = uint256_create_from_u64(0)
  BY SmallValues
<1>3. \E t : IsProduct(t)
  <2> DEFINE g == [i \in 1..len |-> [s \in Values |->
               IF uint256_bit_is_set(x, i - 1) THEN uint256_add(s, uint256_leftshift(y, i - 1)) ELSE s]]
  <2>1. ASSUME NEW i \in 1..len, NEW s \in Values
        PROVE  /\ g[i][s] = IF uint256_bit_is_set(x, i - 1)
                            THEN uint256_add(s, uint256_leftshift(y, i - 1)) ELSE s
               /\ g[i][s] \in Values
    <3>1. i - 1 \in Nat
      OBVIOUS
    <3>2. uint256_leftshift(y, i - 1) \in Values
      BY <3>1, LeftShifts
    <3>3. uint256_add(s, uint256_leftshift(y, i - 1)) \in Values
      BY <3>2, Sums
    <3>4. g[i][s] = IF uint256_bit_is_set(x, i - 1)
                    THEN uint256_add(s, uint256_leftshift(y, i - 1)) ELSE s
      OBVIOUS
    <3> QED BY <3>3, <3>4, Zenon
  <2> HIDE DEF g
  <2>2. \E t : IsTable(t, Values, zero, len, g)
    <3>1. \A i \in 1..len : \A s \in Values : g[i][s] \in Values
      BY <2>1
    <3> QED BY <3>1, Iteration
  <2>3. PICK t : /\ t \in [0..len -> Values]
                 /\ t[0] = zero
                 /\ \A i \in 1..len : t[i] = g[i][t[i - 1]]
    BY <2>2 DEF IsTable
  <2>4. ASSUME NEW i \in 0..len
        PROVE  t[i] = IF i = 0 THEN zero
                      ELSE IF uint256_bit_is_set(x, i - 1)
                      THEN uint256_add(t[i - 1], uint256_leftshift(y, i - 1))
                      ELSE t[i - 1]
    <3>1. CASE i = 0
      BY <3>1, <2>3
    <3>2. CASE i # 0
      <4>1. i \in 1..len /\ i - 1 \in 0..len
        BY <3>2
      <4>2. t[i] = g[i][t[i - 1]] /\ t[i - 1] \in Values
        BY <4>1, <2>3
      <4>3. g[i][t[i - 1]] = IF uint256_bit_is_set(x, i - 1)
                             THEN uint256_add(t[i - 1], uint256_leftshift(y, i - 1)) ELSE t[i - 1]
        BY <4>1, <4>2, <2>1
      <4> QED BY <3>2, <4>2, <4>3, Zenon
    <3> QED BY <3>1, <3>2
  <2>5. t = [i \in 0..len |-> t[i]]
    BY <2>3
  <2>6. IsProduct(t)
    BY <1>1, <1>2, <2>4, <2>5
  <2> QED BY <2>6
<1>4. IsProduct(product)
  BY <1>3
<1>5. uint256_mul(x, y) = product[4 * WordBits]
  BY DEF uint256_mul
<1> HIDE DEF product
<1>6. product[0] = uint256_create_from_u64(0)
  BY <1>1, <1>4
<1>7. ASSUME NEW i \in 1..4 * WordBits
      PROVE  product[i] = IF uint256_bit_is_set(x, i - 1)
                          THEN uint256_add(product[i - 1], uint256_leftshift(y, i - 1))
                          ELSE product[i - 1]
  <2>1. i \in 0..4 * WordBits /\ i # 0
    BY <1>1
  <2> QED BY <1>4, <2>1
<1> QED BY <1>5, <1>6, <1>7

\* uint256_mul multiplies modulo the modulus.
LEMMA Products ==
  ASSUME NEW x \in Values, NEW y \in Values
  PROVE  Value(uint256_mul(x, y)) = (Value(x) * Value(y)) % Modulus
<1>1. PICK len \in Nat : len = 4 * WordBits
  BY BaseIsTwoOrMore
<1>2. PICK m \in Nat \ {0} : m = Modulus /\ m = Pow(2, len)
  BY <1>1, ModulusIsFourWords DEF Modulus
<1>3. PICK X \in Nat, Y \in Nat : X = Value(x) /\ Y = Value(y) /\ X \in 0..m - 1
  BY <1>2, ValueInRange
<1>4. PICK product :
        /\ product[0] = uint256_create_from_u64(0)
        /\ \A i \in 1..4 * WordBits :
             product[i] = IF uint256_bit_is_set(x, i - 1)
                          THEN uint256_add(product[i - 1], uint256_leftshift(y, i - 1))
                          ELSE product[i - 1]
        /\ uint256_mul(x, y) = product[4 * WordBits]
  BY ProductTable
<1> DEFINE Partial(i) == /\ product[i] \in Values
                         /\ \E k \in Int : (X % Pow(2, i)) * Y = Value(product[i]) + m * k
           T == {i \in Nat : i <= len => Partial(i)}
<1>5. 0 \in T
  <2>1. product[0] \in Values /\ Value(product[0]) = 0
    BY <1>4, SmallValues
  <2>2. X % 1 = 0 /\ Pow(2, 0) = 1 /\ 0 * Y = 0 + m * 0 /\ 0 \in Int
    BY PowersOfTwo
  <2>3. (X % Pow(2, 0)) * Y = Value(product[0]) + m * 0
    BY <2>1, <2>2, Zenon
  <2> QED BY <2>1, <2>2, <2>3
<1>6. ASSUME NEW i \in Nat, i \in T PROVE i + 1 \in T
  <2>1. SUFFICES ASSUME i + 1 <= len PROVE Partial(i + 1)
    OBVIOUS
  <2>2. i + 1 \in 1..4 * WordBits /\ (i + 1) - 1 = i /\ i \in 0..4 * WordBits - 1 /\ i <= len
    BY <1>1, <2>1
  <2>3. PICK p \in Values : p = product[i]
    BY <1>6, <2>2
  <2>4. PICK k \in Int : (X % Pow(2, i)) * Y = Value(p) + m * k
    BY <1>6, <2>2, <2>3
  <2>5. PICK d \in Nat, r \in Int : d = Pow(2, i) /\ r = X % Pow(2, i)
    <3>1. PICK d \in Nat \ {0} : d = Pow(2, i)
      BY PowersOfTwo
    <3>2. X % d \in Int
      OBVIOUS
    <3> QED BY <3>1, <3>2
  <2>6. PICK c \in {0, 1} : c = Bit(X, i)
    BY BitRange
  <2>7. X % Pow(2, i + 1) = r + d * c
    BY <2>5, <2>6, OneMoreBit
  <2>8. uint256_bit_is_set(x, i) <=> c = 1
    BY <2>2, <2>6, <1>3, BitIsSet
  <2>9. product[i + 1] = IF uint256_bit_is_set(x, i) THEN uint256_add(p, uint256_leftshift(y, i)) ELSE p
    BY <1>4, <2>2, <2>3
  <2>10. CASE c = 0
    <3>1. product[i + 1] = p
      BY <2>8, <2>9, <2>10
    <3>2. X % Pow(2, i + 1) = r
      BY <2>7, <2>10
    <3>3. (X % Pow(2, i + 1)) * Y = Value(product[i + 1]) + m * k
      BY <3>1, <3>2, <2>4, <2>5, Zenon
    <3> QED BY <3>1, <3>3
  <2>11. CASE c = 1
    <3>1. PICK s \in Values : s = uint256_leftshift(y, i)
      BY LeftShifts
    <3>2. PICK j \in Int : Value(y) * Pow(2, i) = Value(s) + Modulus * j
      BY <3>1, LeftShifts
    <3>3. PICK t \in Values : t = uint256_add(p, s)
      BY Sums
    <3>4. PICK n \in Int : Value(p) + Value(s) = Value(t) + Modulus * n
      BY <3>3, Sums
    <3>5. product[i + 1] = t
      BY <2>8, <2>9, <2>11, <3>1, <3>3
    <3>6. PICK a \in Int, b \in Int, e \in Int : a = Value(p) /\ b = Value(s) /\ e = Value(t)
      <4>1. \A q \in Values : Value(q) \in Int
        BY <1>2, ValueInRange
      <4> QED BY <4>1
    <3>7. (X % Pow(2, i + 1)) * Y = e + m * (n + k + j)
      <4>1. r * Y = a + m * k /\ Y * d = b + m * j /\ a + b = e + m * n
        BY <1>2, <1>3, <2>4, <2>5, <3>2, <3>4, <3>6
      <4>2. (r + d * 1) * Y = r * Y + Y * d
        OBVIOUS
      <4>3. m * (n + k + j) = m * n + m * k + m * j
        OBVIOUS
      <4>4. (r + d * 1) * Y = (a + m * k) + (b + m * j)
        BY <4>1, <4>2, Zenon
      <4>5. (a + m * k) + (b + m * j) = e + m * (n + k + j)
        <5>1. m * k \in Int /\ m * j \in Int /\ m * n \in Int
          OBVIOUS
        <5> QED BY <5>1, <4>1, <4>3
      <4> QED BY <4>4, <4>5, <2>7, <2>11, Zenon
    <3>8. n + k + j \in Int
      OBVIOUS
    <3>9. (X % Pow(2, i + 1)) * Y = Value(product[i + 1]) + m * (n + k + j)
      BY <3>5, <3>6, <3>7, Zenon
    <3> QED BY <3>5, <3>8, <3>9
  <2> QED BY <2>6, <2>10, <2>11
<1> HIDE DEF T
<1>7. len \in T
  BY <1>5, <1>6, Induction
<1>8. PICK q \in Values : q = uint256_mul(x, y)
  BY <1>1, <1>4, <1>7 DEF T
<1>9. PICK k \in Int : (X % Pow(2, len)) * Y = Value(q) + m * k
  BY <1>1, <1>4, <1>7, <1>8 DEF T
<1>10. X % m = X
  <2>1. X = m * 0 + X
    OBVIOUS
  <2> QED BY <2>1, <1>3, DivisionUnique
<1>11. PICK e \in Int : e = X * Y
  OBVIOUS
<1>12. e = Value(q) + Modulus * k
  BY <1>2, <1>9, <1>10, <1>11, Zenon
<1>13. Value(q) = e % Modulus
  BY <1>12, Residue
<1> QED BY <1>3, <1>8, <1>11, <1>13, Zenon

\* Products of the operands are those of the integers modulo the modulus, and
\* a shift is a product with a power of two, for every width of a word.
THEOREM Multiplicative == Spec => []ProductsAreModular
<1>1. ASSUME NEW x \in Values, NEW n \in Nat
      PROVE  Value(uint256_leftshift(x, n)) = (Value(x) * Pow(2, n)) % Modulus
  <2>1. PICK s \in Values : s = uint256_leftshift(x, n)
    BY LeftShifts
  <2>2. PICK k \in Int : Value(x) * Pow(2, n) = Value(s) + Modulus * k
    BY <2>1, LeftShifts
  <2>3. PICK e \in Int : e = Value(x) * Pow(2, n)
    <3>1. PICK m \in Nat \ {0} : m = Modulus
      BY ModulusIsFourWords
    <3>2. Value(x) \in Int /\ Pow(2, n) \in Int
      BY <3>1, ValueInRange, PowersOfTwo
    <3> QED BY <3>2
  <2>4. e = Value(s) + Modulus * k
    BY <2>2, <2>3, Zenon
  <2>5. Value(s) = e % Modulus
    BY <2>4, Residue
  <2> QED BY <2>1, <2>3, <2>5, Zenon
<1>2. \A n \in 0..5 * WordBits : n \in Nat
  BY BaseIsTwoOrMore
<1>3. Operands => ProductsAreModular
  BY <1>1, <1>2, Products DEF ProductsAreModular, Operands
<1> QED BY <1>3, OperandsAreValues, PTL

-----------------------------------------------------------------------------
(* The digits of a word *)

\* Digit number j of a number, from the lowest on.
Digit(x, j) == (x \div Pow(2, DigitBits * j)) % Pow(2, DigitBits)

\* The digits of a word fill it.
LEMMA DigitWidths ==
  /\ DigitBits \in Nat \ {0}
  /\ DigitsPerWord \in Nat \ {0}
  /\ DigitBits * DigitsPerWord = WordBits
  /\ Base = Pow(2, DigitBits * DigitsPerWord)
  /\ Digits = 4 * DigitsPerWord
<1>1. PICK w \in Nat \ {0}, d \in Nat \ {0} : w = WordBits /\ d = DigitBits /\ w % d = 0
  BY WidthAssumption
<1>2. w \div d \in Nat /\ w = d * (w \div d) + (w % d)
  BY Division
<1>3. PICK c \in Nat : c = w \div d /\ w = d * c
  BY <1>1, <1>2
<1>4. c # 0
  BY <1>3
<1> QED BY <1>1, <1>3, <1>4 DEF DigitsPerWord, Digits, Base

\* Powers of two at the border of two digits.
LEMMA DigitPowers ==
  ASSUME NEW j \in Nat
  PROVE  /\ DigitBits * j \in Nat
         /\ Pow(2, DigitBits * j) \in Nat \ {0}
         /\ Pow(2, DigitBits) \in Nat \ {0}
         /\ Pow(2, DigitBits * (j + 1)) = Pow(2, DigitBits * j) * Pow(2, DigitBits)
<1>1. PICK d \in Nat \ {0} : d = DigitBits
  BY DigitWidths
<1>2. d * j \in Nat /\ d * (j + 1) = d * j + d
  OBVIOUS
<1>3. Pow(2, d * j + d) = Pow(2, d * j) * Pow(2, d)
  BY <1>2, PowSum
<1>4. Pow(2, d * j) \in Nat \ {0} /\ Pow(2, d) \in Nat \ {0}
  BY <1>2, PowersOfTwo
<1> QED BY <1>1, <1>2, <1>3, <1>4

\* A digit is a natural number, and 0 above those that a number needs.
LEMMA DigitRange ==
  ASSUME NEW x \in Nat, NEW j \in Nat
  PROVE  /\ Digit(x, j) \in Nat
         /\ \A n \in Nat : x < Pow(2, DigitBits * n) /\ n <= j => Digit(x, j) = 0
<1>1. PICK e \in Nat \ {0}, b \in Nat \ {0} : e = Pow(2, DigitBits * j) /\ b = Pow(2, DigitBits)
  BY DigitPowers
<1>2. Digit(x, j) \in Nat
  <2>1. PICK u \in Nat : u = x \div e
    OBVIOUS
  <2>2. u % b \in Nat
    OBVIOUS
  <2> QED BY <2>1, <2>2, <1>1 DEF Digit
<1>3. ASSUME NEW n \in Nat, x < Pow(2, DigitBits * n), n <= j
      PROVE  Digit(x, j) = 0
  <2>1. DigitBits * n \in Nat /\ DigitBits * j \in Nat /\ Pow(2, DigitBits * n) \in Nat
    BY DigitPowers
  <2>2. DigitBits * n <= DigitBits * j
    <3>1. PICK d \in Nat \ {0} : d = DigitBits
      BY DigitWidths
    <3>2. d * n <= d * j
      BY <1>3
    <3> QED BY <3>1, <3>2
  <2>3. x \in 0..Pow(2, DigitBits * n) - 1
    BY <1>3, <2>1
  <2>4. x \div Pow(2, DigitBits * j) = 0
    BY <2>1, <2>2, <2>3, FewBits
  <2>5. 0 % b = 0
    OBVIOUS
  <2> QED BY <1>1, <2>4, <2>5 DEF Digit
<1> QED BY <1>2, <1>3

\* The digits that are written.
LEMMA WrittenDigits ==
  ASSUME NEW x \in Nat, NEW n \in Nat
  PROVE  /\ WordDigits(x, n) \in Seq(Nat)
         /\ Len(WordDigits(x, n)) = n
         /\ \A k \in 1..n : WordDigits(x, n)[k] = Digit(x, n - k)
<1>1. WordDigits(x, n) = [k \in 1..n |-> Digit(x, n - k)]
  BY DEF WordDigits, ShiftRight, Digit
<1>2. PICK s : s = [k \in 1..n |-> Digit(x, n - k)]
  OBVIOUS
<1>3. \A k \in 1..n : Digit(x, n - k) \in Nat
  <2>1. \A k \in 1..n : n - k \in Nat
    OBVIOUS
  <2> QED BY <2>1, DigitRange
<1>4. s \in [1..n -> Nat]
  BY <1>2, <1>3
<1>5. s \in Seq(Nat) /\ Len(s) = n
  BY <1>4
<1> QED BY <1>1, <1>2, <1>5

\* A word that is not 0 is written from its highest digit that is not 0 on.
LEMMA HighestDigit ==
  ASSUME NEW x \in Words, x # 0
  PROVE  /\ NumberOfDigits(x) \in 1..DigitsPerWord
         /\ x < Pow(2, DigitBits * NumberOfDigits(x))
         /\ Digit(x, NumberOfDigits(x) - 1) # 0
<1>1. x \in Nat /\ x < Base /\ Base \in Nat
  BY BaseIsTwoOrMore DEF Words
<1>2. PICK c \in Nat \ {0} : c = DigitsPerWord /\ Base = Pow(2, DigitBits * c)
  BY DigitWidths
<1> DEFINE Fits(n) == x < Pow(2, DigitBits * n)
           T == {n \in Nat : n # 0 /\ Fits(n)}
           IsNumber(n) == x < Pow(2, DigitBits * n) /\ (n = 1 \/ x >= Pow(2, DigitBits * (n - 1)))
<1>3. c \in T
  BY <1>1, <1>2
<1>4. T \in SUBSET Nat
  OBVIOUS
<1> HIDE DEF T
<1>5. PICK m \in T : \A k \in T : m <= k
  BY <1>3, <1>4, LeastElement
<1>6. m \in Nat /\ m # 0 /\ Fits(m)
  BY <1>5 DEF T
<1>7. m \in 1..DigitsPerWord
  BY <1>2, <1>3, <1>5, <1>6
<1>8. m = 1 \/ x >= Pow(2, DigitBits * (m - 1))
  <2>1. SUFFICES ASSUME m # 1 PROVE x >= Pow(2, DigitBits * (m - 1))
    OBVIOUS
  <2>2. m - 1 \in Nat /\ m - 1 # 0 /\ ~(m <= m - 1)
    BY <2>1, <1>6
  <2>3. m - 1 \notin T
    BY <2>2, <1>5
  <2>4. ~Fits(m - 1)
    BY <2>2, <2>3 DEF T
  <2>5. Pow(2, DigitBits * (m - 1)) \in Nat
    BY <2>2, DigitPowers
  <2> QED BY <2>4, <2>5, <1>1
<1>9. IsNumber(m)
  BY <1>6, <1>8
<1>10. PICK n \in 1..DigitsPerWord : n = NumberOfDigits(x) /\ IsNumber(n)
  <2> DEFINE t == CHOOSE n \in 1..DigitsPerWord : IsNumber(n)
  <2>1. t \in 1..DigitsPerWord /\ IsNumber(t)
    BY <1>7, <1>9
  <2>2. t = NumberOfDigits(x)
    BY DEF NumberOfDigits
  <2> QED BY <2>1, <2>2
<1>11. PICK j \in Nat : j = n - 1 /\ n = j + 1
  <2>1. n - 1 \in Nat /\ n = (n - 1) + 1
    BY DigitWidths
  <2> QED BY <2>1
<1>12. PICK e \in Nat \ {0}, b \in Nat \ {0} :
         e = Pow(2, DigitBits * j) /\ b = Pow(2, DigitBits) /\ Pow(2, DigitBits * n) = e * b
  BY <1>11, DigitPowers
<1>13. x < e * b /\ (j = 0 \/ x >= e)
  <2>1. x < e * b
    BY <1>10, <1>12
  <2>2. n = 1 \/ x >= Pow(2, DigitBits * (n - 1))
    BY <1>10
  <2>3. Pow(2, DigitBits * (n - 1)) = e
    BY <1>11, <1>12
  <2>4. j = 0 \/ x >= e
    BY <2>2, <2>3, <1>11
  <2> QED BY <2>1, <2>4
<1>14. PICK u \in Nat : u = x \div e
  BY <1>1
<1>15. PICK r \in 0..e - 1 : x = e * u + r
  <2>1. x % e \in 0..e - 1 /\ x = e * (x \div e) + (x % e)
    BY <1>1, Division
  <2> QED BY <2>1, <1>14
<1>16. u < b
  <2>1. u >= b => e * u >= e * b
    OBVIOUS
  <2>2. e * u \in Nat /\ e * b \in Nat
    OBVIOUS
  <2> QED BY <2>1, <2>2, <1>13, <1>15
<1>17. u # 0
  <2>1. CASE j = 0
    <3>1. DigitBits * 0 = 0
      BY DigitWidths
    <3>2. e = 1
      BY <1>12, <2>1, <3>1, PowersOfTwo
    <3> QED BY <3>2, <1>15
  <2>2. CASE x >= e
    <3>1. u = 0 => e * u = 0
      OBVIOUS
    <3> QED BY <3>1, <2>2, <1>15
  <2> QED BY <2>1, <2>2, <1>13
<1>18. u % b = u
  <2>1. u = b * 0 + u /\ u \in 0..b - 1
    BY <1>16
  <2> QED BY <2>1, DivisionUnique
<1>19. Digit(x, j) # 0
  BY <1>12, <1>14, <1>17, <1>18 DEF Digit
<1> QED BY <1>10, <1>11, <1>19

-----------------------------------------------------------------------------
(* Reading digits *)

\* The table by which a number is read from its digits.
LEMMA NumberTable ==
  ASSUME NEW digits \in Seq(Nat)
  PROVE  \E n : /\ n[0] = 0
                /\ \A k \in 1..Len(digits) : n[k] = n[k - 1] * Pow(2, DigitBits) + digits[k]
                /\ Number(digits) = n[Len(digits)]
<1> DEFINE IsNumber(t) == t = [k \in 0..Len(digits) |->
             IF k = 0 THEN 0 ELSE t[k - 1] * Pow(2, DigitBits) + digits[k]]
           n == CHOOSE t : IsNumber(t)
<1>1. PICK len \in Nat : len = Len(digits)
  OBVIOUS
<1>2. PICK b \in Nat : b = Pow(2, DigitBits)
  <2>1. 0 \in Nat
    OBVIOUS
  <2> QED BY <2>1, DigitPowers
<1>3. \E t : IsNumber(t)
  <2> DEFINE g == [k \in 1..len |-> [s \in Nat |-> s * b + digits[k]]]
  <2>1. ASSUME NEW k \in 1..len, NEW s \in Nat
        PROVE  g[k][s] = s * b + digits[k] /\ g[k][s] \in Nat
    <3>1. digits[k] \in Nat
      BY <1>1
    <3>2. s * b + digits[k] \in Nat
      BY <3>1
    <3>3. g[k][s] = s * b + digits[k]
      OBVIOUS
    <3> QED BY <3>2, <3>3
  <2> HIDE DEF g
  <2>2. \E t : IsTable(t, Nat, 0, len, g)
    <3>1. 0 \in Nat /\ \A k \in 1..len : \A s \in Nat : g[k][s] \in Nat
      BY <2>1
    <3> QED BY <3>1, Iteration
  <2>3. PICK t : /\ t \in [0..len -> Nat]
                 /\ t[0] = 0
                 /\ \A k \in 1..len : t[k] = g[k][t[k - 1]]
    BY <2>2 DEF IsTable
  <2>4. ASSUME NEW k \in 0..len
        PROVE  t[k] = IF k = 0 THEN 0 ELSE t[k - 1] * b + digits[k]
    <3>1. CASE k = 0
      BY <3>1, <2>3
    <3>2. CASE k # 0
      <4>1. k \in 1..len /\ k - 1 \in 0..len
        BY <3>2
      <4>2. t[k] = g[k][t[k - 1]] /\ t[k - 1] \in Nat
        BY <4>1, <2>3
      <4>3. g[k][t[k - 1]] = t[k - 1] * b + digits[k]
        BY <4>1, <4>2, <2>1
      <4> QED BY <3>2, <4>2, <4>3, Zenon
    <3> QED BY <3>1, <3>2
  <2>5. t = [k \in 0..len |-> t[k]]
    BY <2>3
  <2>6. IsNumber(t)
    BY <1>1, <1>2, <2>4, <2>5
  <2> QED BY <2>6
<1>4. IsNumber(n)
  BY <1>3
<1>5. Number(digits) = n[Len(digits)]
  BY DEF Number
<1> HIDE DEF n
<1>6. n[0] = 0
  BY <1>1, <1>4
<1>7. ASSUME NEW k \in 1..Len(digits)
      PROVE  n[k] = n[k - 1] * Pow(2, DigitBits) + digits[k]
  <2>1. k \in 0..Len(digits) /\ k # 0
    BY <1>1
  <2> QED BY <1>4, <2>1
<1> QED BY <1>5, <1>6, <1>7

\* A number without its low digits, by one digit more.
LEMMA OneMoreDigit ==
  ASSUME NEW x \in Nat, NEW j \in Nat
  PROVE  x \div Pow(2, DigitBits * j)
           = (x \div Pow(2, DigitBits * (j + 1))) * Pow(2, DigitBits) + Digit(x, j)
<1>1. PICK e \in Nat \ {0}, b \in Nat \ {0} :
        e = Pow(2, DigitBits * j) /\ b = Pow(2, DigitBits) /\ Pow(2, DigitBits * (j + 1)) = e * b
  BY DigitPowers
<1>2. PICK u \in Nat, r \in 0..e - 1 : u = x \div e /\ x = e * u + r
  <2>1. x \div e \in Nat /\ x % e \in 0..e - 1 /\ x = e * (x \div e) + (x % e)
    BY Division
  <2> QED BY <2>1
<1>3. PICK h \in Nat, c \in 0..b - 1 : c = u % b /\ u = b * h + c
  <2>1. u \div b \in Nat /\ u % b \in 0..b - 1 /\ u = b * (u \div b) + (u % b)
    BY Division
  <2> QED BY <2>1
<1>4. c = Digit(x, j)
  BY <1>1, <1>2, <1>3 DEF Digit
<1>5. r + e * c \in 0..e * b - 1 /\ e * b \in Nat \ {0}
  BY PartsInRange
<1>6. PICK d \in Nat \ {0} : d = e * b
  BY <1>5
<1>7. PICK s \in 0..d - 1 : s = r + e * c
  BY <1>5, <1>6
<1>8. x = d * h + s
  <2>1. e * (b * h + c) = (e * b) * h + e * c
    OBVIOUS
  <2>2. x = ((e * b) * h + e * c) + r
    BY <2>1, <1>2, <1>3, Zenon
  <2>3. (e * b) * h \in Int /\ e * c \in Int /\ r \in Int
    OBVIOUS
  <2>4. ((e * b) * h + e * c) + r = (e * b) * h + (r + e * c)
    BY <2>3
  <2> QED BY <2>2, <2>4, <1>6, <1>7, Zenon
<1>9. x \div d = h
  BY <1>8, DivisionUnique
<1>10. u = h * b + c
  BY <1>3
<1> QED BY <1>1, <1>2, <1>4, <1>6, <1>9, <1>10, Zenon

\* As many digits as hold a number stand for it.
LEMMA DigitsAreNumeral ==
  ASSUME NEW x \in Nat, NEW c \in Nat, x < Pow(2, DigitBits * c)
  PROVE  Number(WordDigits(x, c)) = x
<1>3. PICK digits \in Seq(Nat) :
        /\ digits = WordDigits(x, c)
        /\ Len(digits) = c
        /\ \A k \in 1..c : digits[k] = Digit(x, c - k)
  BY WrittenDigits
<1>4. PICK n : /\ n[0] = 0
               /\ \A k \in 1..Len(digits) : n[k] = n[k - 1] * Pow(2, DigitBits) + digits[k]
               /\ Number(digits) = n[Len(digits)]
  BY NumberTable
<1> DEFINE T == {k \in Nat : k <= c => n[k] = x \div Pow(2, DigitBits * (c - k))}
<1>5. 0 \in T
  <2>1. DigitBits * c \in Nat /\ x \in 0..Pow(2, DigitBits * c) - 1
    BY DigitPowers
  <2>2. x \div Pow(2, DigitBits * c) = 0
    BY <2>1, FewBits
  <2>3. c - 0 = c
    OBVIOUS
  <2> QED BY <2>2, <2>3, <1>4
<1>6. ASSUME NEW k \in Nat, k \in T PROVE k + 1 \in T
  <2>1. SUFFICES ASSUME k + 1 <= c
                 PROVE  n[k + 1] = x \div Pow(2, DigitBits * (c - (k + 1)))
    OBVIOUS
  <2>2. PICK j \in Nat : j = c - (k + 1) /\ c - k = j + 1
    BY <2>1
  <2>3. n[k] = x \div Pow(2, DigitBits * (j + 1))
    BY <1>6, <2>1, <2>2
  <2>4. k + 1 \in 1..c /\ (k + 1) - 1 = k
    BY <2>1
  <2>5. n[k + 1] = n[k] * Pow(2, DigitBits) + digits[k + 1]
    BY <1>3, <1>4, <2>4
  <2>6. digits[k + 1] = Digit(x, j)
    BY <1>3, <2>2, <2>4
  <2>7. x \div Pow(2, DigitBits * j)
          = (x \div Pow(2, DigitBits * (j + 1))) * Pow(2, DigitBits) + Digit(x, j)
    BY OneMoreDigit
  <2> QED BY <2>2, <2>3, <2>5, <2>6, <2>7, Zenon
<1> HIDE DEF T
<1>7. c \in T
  BY <1>5, <1>6, Induction
<1>8. n[c] = x \div Pow(2, DigitBits * (c - c))
  BY <1>7 DEF T
<1>9. DigitBits * (c - c) = 0 /\ x \div 1 = x
  BY DigitWidths
<1>10. n[c] = x
  BY <1>8, <1>9, PowersOfTwo
<1> QED BY <1>3, <1>4, <1>10

------------------------------------------------------------------------\* The number of two sequences of digits written one after the other.
LEMMA Joined ==
  ASSUME NEW s \in Seq(Nat), NEW r \in Seq(Nat)
  PROVE  /\ Number(s) \in Nat /\ Number(r) \in Nat
         /\ Number(s \o r) = Number(s) * Pow(2, DigitBits * Len(r)) + Number(r)
<1>1. PICK l \in Nat, m \in Nat, b \in Nat :
        l = Len(s) /\ m = Len(r) /\ b = Pow(2, DigitBits)
  <2>1. 0 \in Nat
    OBVIOUS
  <2> QED BY <2>1, DigitPowers
<1>2. PICK a : a[0] = 0 /\ (\A k \in 1..l : a[k] = a[k - 1] * b + s[k]) /\ Number(s) = a[l]
  <2>1. PICK a : /\ a[0] = 0
                 /\ \A k \in 1..Len(s) : a[k] = a[k - 1] * Pow(2, DigitBits) + s[k]
                 /\ Number(s) = a[Len(s)]
    BY NumberTable
  <2> QED BY <2>1, <1>1
<1>3. PICK c : c[0] = 0 /\ (\A k \in 1..m : c[k] = c[k - 1] * b + r[k]) /\ Number(r) = c[m]
  <2>1. PICK c : /\ c[0] = 0
                 /\ \A k \in 1..Len(r) : c[k] = c[k - 1] * Pow(2, DigitBits) + r[k]
                 /\ Number(r) = c[Len(r)]
    BY NumberTable
  <2> QED BY <2>1, <1>1
<1>4. PICK t \in Seq(Nat) :
        /\ t = s \o r
        /\ Len(t) = l + m
        /\ \A k \in 1..l + m : t[k] = IF k <= l THEN s[k] ELSE r[k - l]
  <2>1. /\ s \o r \in Seq(Nat)
        /\ Len(s \o r) = Len(s) + Len(r)
        /\ \A k \in 1..Len(s) + Len(r) : (s \o r)[k] = IF k <= Len(s) THEN s[k] ELSE r[k - Len(s)]
    BY ConcatProperties
  <2> QED BY <2>1, <1>1
<1>5. PICK n : n[0] = 0 /\ (\A k \in 1..l + m : n[k] = n[k - 1] * b + t[k]) /\ Number(t) = n[l + m]
  <2>1. PICK n : /\ n[0] = 0
                 /\ \A k \in 1..Len(t) : n[k] = n[k - 1] * Pow(2, DigitBits) + t[k]
                 /\ Number(t) = n[Len(t)]
    BY NumberTable
  <2> QED BY <2>1, <1>1, <1>4
<1>6. a[l] \in Nat /\ n[l] = a[l]
  <2> DEFINE T == {k \in Nat : k <= l => a[k] \in Nat /\ n[k] = a[k]}
  <2>1. 0 \in T
    BY <1>2, <1>5
  <2>2. ASSUME NEW k \in Nat, k \in T PROVE k + 1 \in T
    <3>1. SUFFICES ASSUME k + 1 <= l PROVE a[k + 1] \in Nat /\ n[k + 1] = a[k + 1]
      OBVIOUS
    <3>2. a[k] \in Nat /\ n[k] = a[k]
      BY <2>2, <3>1
    <3>3. k + 1 \in 1..l /\ k + 1 \in 1..l + m /\ (k + 1) - 1 = k
      BY <3>1
    <3>4. t[k + 1] = s[k + 1] /\ s[k + 1] \in Nat
      BY <1>1, <1>4, <3>1, <3>3
    <3>5. a[k + 1] = a[k] * b + s[k + 1] /\ n[k + 1] = n[k] * b + t[k + 1]
      BY <1>2, <1>5, <3>3
    <3>6. PICK x \in Nat, d \in Nat : x = a[k] /\ x = n[k] /\ d = s[k + 1] /\ d = t[k + 1]
      BY <3>2, <3>4, Zenon
    <3>7. x * b + d \in Nat
      <4>1. PICK e \in Nat : e = x * b
        OBVIOUS
      <4>2. e + d \in Nat
        OBVIOUS
      <4> QED BY <4>1, <4>2, Zenon
    <3>8. a[k + 1] = x * b + d /\ n[k + 1] = x * b + d
      BY <3>5, <3>6, Zenon
    <3> QED BY <3>7, <3>8, Zenon
  <2> HIDE DEF T
  <2>3. l \in T
    BY <2>1, <2>2, Induction
  <2> QED BY <2>3 DEF T
<1>7. c[m] \in Nat /\ n[l + m] = a[l] * Pow(2, DigitBits * m) + c[m]
  <2> DEFINE T == {k \in Nat :
                     k <= m => c[k] \in Nat /\ n[l + k] = a[l] * Pow(2, DigitBits * k) + c[k]}
  <2>1. 0 \in T
    <3>1. DigitBits * 0 = 0 /\ Pow(2, 0) = 1
      BY DigitWidths, PowersOfTwo
    <3>2. l + 0 = l /\ a[l] * 1 + 0 = a[l]
      BY <1>6
    <3> QED BY <1>3, <1>6, <3>1, <3>2
  <2>2. ASSUME NEW k \in Nat, k \in T PROVE k + 1 \in T
    <3>1. SUFFICES ASSUME k + 1 <= m
                   PROVE  /\ c[k + 1] \in Nat
                          /\ n[l + (k + 1)] = a[l] * Pow(2, DigitBits * (k + 1)) + c[k + 1]
      OBVIOUS
    <3>2. PICK p \in Nat : p = Pow(2, DigitBits * k) /\ Pow(2, DigitBits * (k + 1)) = p * b
      BY <1>1, DigitPowers
    <3>3. PICK x \in Nat, y \in Nat : x = a[l] /\ y = c[k] /\ n[l + k] = x * p + y
      BY <1>6, <2>2, <3>1, <3>2
    <3>4. /\ k + 1 \in 1..m /\ (k + 1) - 1 = k
          /\ l + (k + 1) \in 1..l + m /\ (l + (k + 1)) - 1 = l + k
          /\ ~(l + (k + 1) <= l) /\ (l + (k + 1)) - l = k + 1
      BY <3>1
    <3>5. PICK d \in Nat : d = r[k + 1] /\ d = t[l + (k + 1)]
      BY <1>1, <1>4, <3>4
    <3>6. c[k + 1] = y * b + d
      BY <1>3, <3>3, <3>4, <3>5
    <3>7. n[l + (k + 1)] = (x * p + y) * b + d
      BY <1>5, <3>3, <3>4, <3>5
    <3>8. (x * p + y) * b + d = x * (p * b) + (y * b + d) /\ y * b + d \in Nat
      <4>1. (x * p + y) * b = x * (p * b) + y * b
        OBVIOUS
      <4>2. PICK e \in Nat, f \in Nat : e = x * (p * b) /\ f = y * b
        OBVIOUS
      <4>3. (e + f) + d = e + (f + d) /\ f + d \in Nat
        OBVIOUS
      <4> QED BY <4>1, <4>2, <4>3, Zenon
    <3> QED BY <3>2, <3>3, <3>6, <3>7, <3>8
  <2> HIDE DEF T
  <2>3. m \in T
    BY <2>1, <2>2, Induction
  <2> QED BY <2>3 DEF T
<1> QED BY <1>1, <1>2, <1>3, <1>4, <1>5, <1>6, <1>7

-----------------------------------------------------------------------------
(* The text *)

\* The number that the i lowest words of v make up.
LowWords(v, i) ==
  IF i = 0 THEN 0
  ELSE IF i = 1 THEN v[0]
  ELSE IF i = 2 THEN v[0] + Base * v[1]
  ELSE v[0] + Base * (v[1] + Base * v[2])

\* A text is that of the i lowest words of v, in full.
IsLowText(text, i, v) ==
  /\ text \in Seq(Nat)
  /\ Len(text) = DigitsPerWord * i
  /\ Number(text) = LowWords(v, i)

\* Powers of two at the border of two words.
LEMMA WordPowers ==
  /\ Pow(2, DigitBits * (DigitsPerWord * 0)) = 1
  /\ Pow(2, DigitBits * (DigitsPerWord * 1)) = Base
  /\ Pow(2, DigitBits * (DigitsPerWord * 2)) = Base * Base
  /\ Pow(2, DigitBits * (DigitsPerWord * 3)) = Base * (Base * Base)
<1>1. PICK d \in Nat \ {0}, c \in Nat \ {0}, w \in Nat \ {0} :
        d = DigitBits /\ c = DigitsPerWord /\ w = WordBits /\ d * c = w /\ Base = Pow(2, w)
  <2>1. DigitBits * DigitsPerWord = WordBits /\ WordBits \in Nat \ {0}
    BY DigitWidths, BaseIsTwoOrMore
  <2> QED BY <2>1, DigitWidths DEF Base
<1>2. d * (c * 0) = 0 /\ d * (c * 1) = w /\ d * (c * 2) = w + w /\ d * (c * 3) = w + (w + w)
  <2>1. d * (c * 2) = (d * c) + (d * c) /\ d * (c * 3) = (d * c) + ((d * c) + (d * c))
    OBVIOUS
  <2>2. d * (c * 0) = 0 /\ d * (c * 1) = d * c
    OBVIOUS
  <2> QED BY <2>1, <2>2, <1>1
<1>3. Pow(2, w + w) = Pow(2, w) * Pow(2, w) /\ w + w \in Nat
  BY PowSum
<1>4. Pow(2, w + (w + w)) = Pow(2, w) * Pow(2, w + w)
  BY <1>3, PowSum
<1>5. Pow(2, 0) = 1
  BY PowersOfTwo
<1> QED BY <1>1, <1>2, <1>3, <1>4, <1>5

\* Word i written before the text of the lower ones.
LEMMA WordBefore ==
  ASSUME NEW v \in Values, NEW i \in 0..3, NEW text, IsLowText(text, i, v),
         NEW n \in Nat, v[i] < Pow(2, DigitBits * n)
  PROVE  /\ WordDigits(v[i], n) \o text \in Seq(Nat)
         /\ Len(WordDigits(v[i], n) \o text) = n + DigitsPerWord * i
         /\ Number(WordDigits(v[i], n) \o text)
              = v[i] * Pow(2, DigitBits * (DigitsPerWord * i)) + LowWords(v, i)
<1>1. v[i] \in Nat
  <2>1. i \in {0, 1, 2, 3}
    OBVIOUS
  <2> QED BY <2>1, WordsOfValue
<1>2. PICK s \in Seq(Nat) : s = WordDigits(v[i], n) /\ Len(s) = n /\ Number(s) = v[i]
  BY <1>1, WrittenDigits, DigitsAreNumeral
<1>3. text \in Seq(Nat) /\ Len(text) = DigitsPerWord * i /\ Number(text) = LowWords(v, i)
  BY DEF IsLowText
<1>4. s \o text \in Seq(Nat) /\ Len(s \o text) = Len(s) + Len(text)
  BY <1>3, ConcatProperties
<1>5. Number(s \o text) = Number(s) * Pow(2, DigitBits * Len(text)) + Number(text)
  BY <1>3, Joined
<1> QED BY <1>2, <1>3, <1>4, <1>5, Zenon

\* One more word in full.
LEMMA OneMoreWord ==
  ASSUME NEW v \in Values, NEW i \in 0..2, NEW text, IsLowText(text, i, v)
  PROVE  IsLowText(WordDigits(v[i], DigitsPerWord) \o text, i + 1, v)
<1>1. PICK c \in Nat \ {0} : c = DigitsPerWord /\ Base = Pow(2, DigitBits * c)
  BY DigitWidths
<1>2. PICK b \in Nat, v0 \in Nat, v1 \in Nat, v2 \in Nat :
        /\ b = Base /\ v0 = v[0] /\ v1 = v[1] /\ v2 = v[2]
        /\ v0 < b /\ v1 < b /\ v2 < b
  <2>1. PICK b \in Nat : b = Base
    BY BaseIsTwoOrMore
  <2>2. v[0] \in 0..b - 1 /\ v[1] \in 0..b - 1 /\ v[2] \in 0..b - 1
    BY <2>1, WordsOfValue DEF Words
  <2>3. PICK v0 \in 0..b - 1, v1 \in 0..b - 1, v2 \in 0..b - 1 : v0 = v[0] /\ v1 = v[1] /\ v2 = v[2]
    BY <2>2, Zenon
  <2>4. v0 \in Nat /\ v1 \in Nat /\ v2 \in Nat /\ v0 < b /\ v1 < b /\ v2 < b
    OBVIOUS
  <2> QED BY <2>1, <2>3, <2>4, Zenon
<1>3. i \in {0, 1, 2} /\ i \in 0..3
  OBVIOUS
<1>4. v[i] < Pow(2, DigitBits * c)
  BY <1>1, <1>2, <1>3
<1>5. /\ WordDigits(v[i], c) \o text \in Seq(Nat)
      /\ Len(WordDigits(v[i], c) \o text) = c + c * i
      /\ Number(WordDigits(v[i], c) \o text)
           = v[i] * Pow(2, DigitBits * (c * i)) + LowWords(v, i)
  <2>1. DigitsPerWord \in Nat /\ v[i] < Pow(2, DigitBits * DigitsPerWord)
    BY <1>1, <1>4
  <2>2. /\ WordDigits(v[i], DigitsPerWord) \o text \in Seq(Nat)
        /\ Len(WordDigits(v[i], DigitsPerWord) \o text) = DigitsPerWord + DigitsPerWord * i
        /\ Number(WordDigits(v[i], DigitsPerWord) \o text)
             = v[i] * Pow(2, DigitBits * (DigitsPerWord * i)) + LowWords(v, i)
    BY <1>3, <2>1, WordBefore, Zenon
  <2> QED BY <1>1, <2>2, Zenon
<1>6. c + c * i = c * (i + 1)
  OBVIOUS
<1>7. v[i] * Pow(2, DigitBits * (c * i)) + LowWords(v, i) = LowWords(v, i + 1)
  <2>1. CASE i = 0
    <3>1. v0 * 1 + 0 = v0
      OBVIOUS
    <3> QED BY <2>1, <3>1, <1>1, <1>2, WordPowers DEF LowWords
  <2>2. CASE i = 1
    <3>1. v1 * b + v0 = v0 + b * v1
      OBVIOUS
    <3> QED BY <2>2, <3>1, <1>1, <1>2, WordPowers DEF LowWords
  <2>3. CASE i = 2
    <3>1. v2 * (b * b) + (v0 + b * v1) = v0 + b * (v1 + b * v2)
      OBVIOUS
    <3> QED BY <2>3, <3>1, <1>1, <1>2, WordPowers DEF LowWords
  <2> QED BY <2>1, <2>2, <2>3, <1>3
<1> QED BY <1>1, <1>5, <1>6, <1>7 DEF IsLowText

\* The table of the words below the most significant one.
LEMMA BelowTable ==
  ASSUME NEW v \in Values, NEW below,
         below = [i \in -1..3 |->
                    IF i = -1 THEN <<>> ELSE WordDigits(v[i], DigitsPerWord) \o below[i - 1]]
  PROVE  \A i \in 0..3 : IsLowText(below[i - 1], i, v)
<1>1. /\ below[-1] = <<>>
      /\ below[0] = WordDigits(v[0], DigitsPerWord) \o below[-1]
      /\ below[1] = WordDigits(v[1], DigitsPerWord) \o below[0]
      /\ below[2] = WordDigits(v[2], DigitsPerWord) \o below[1]
  <2>1. ASSUME NEW i \in 0..3
        PROVE  below[i] = WordDigits(v[i], DigitsPerWord) \o below[i - 1]
    <3>1. i \in -1..3 /\ i # -1
      OBVIOUS
    <3> QED BY <3>1
  <2>2. below[-1] = <<>>
    <3>1. -1 \in -1..3
      OBVIOUS
    <3> QED BY <3>1
  <2>3. below[0] = WordDigits(v[0], DigitsPerWord) \o below[-1]
    <3>1. 0 \in 0..3 /\ 0 - 1 = -1
      OBVIOUS
    <3> QED BY <2>1, <3>1
  <2>4. below[1] = WordDigits(v[1], DigitsPerWord) \o below[0]
    <3>1. 1 \in 0..3 /\ 1 - 1 = 0
      OBVIOUS
    <3> QED BY <2>1, <3>1
  <2>5. below[2] = WordDigits(v[2], DigitsPerWord) \o below[1]
    <3>1. 2 \in 0..3 /\ 2 - 1 = 1
      OBVIOUS
    <3> QED BY <2>1, <3>1
  <2> QED BY <2>2, <2>3, <2>4, <2>5
<1>2. ASSUME NEW i \in 0..2, NEW text, IsLowText(text, i, v)
      PROVE  IsLowText(WordDigits(v[i], DigitsPerWord) \o text, i + 1, v)
  BY <1>2, OneMoreWord
<1>3. IsLowText(below[-1], 0, v)
  <2>1. <<>> \in Seq(Nat) /\ Len(<<>>) = 0 /\ DigitsPerWord * 0 = 0
    BY DigitWidths
  <2>2. Number(<<>>) = 0
    BY <2>1, NumberTable
  <2> QED BY <2>1, <2>2, <1>1 DEF IsLowText, LowWords
<1>4. IsLowText(below[0], 1, v)
  <2>1. 0 \in 0..2 /\ 0 + 1 = 1
    OBVIOUS
  <2> QED BY <2>1, <1>1, <1>2, <1>3
<1>5. IsLowText(below[1], 2, v)
  <2>1. 1 \in 0..2 /\ 1 + 1 = 2
    OBVIOUS
  <2> QED BY <2>1, <1>1, <1>2, <1>4
<1>6. IsLowText(below[2], 3, v)
  <2>1. 2 \in 0..2 /\ 2 + 1 = 3
    OBVIOUS
  <2> QED BY <2>1, <1>1, <1>2, <1>5
<1>7. ASSUME NEW i \in 0..3 PROVE IsLowText(below[i - 1], i, v)
  <2>1. CASE i = 0
    <3>1. i - 1 = -1
      BY <2>1
    <3> QED BY <2>1, <3>1, <1>3
  <2>2. CASE i = 1
    <3>1. i - 1 = 0
      BY <2>2
    <3> QED BY <2>2, <3>1, <1>4
  <2>3. CASE i = 2
    <3>1. i - 1 = 1
      BY <2>3
    <3> QED BY <2>3, <3>1, <1>5
  <2>4. CASE i = 3
    <3>1. i - 1 = 2
      BY <2>4
    <3> QED BY <2>4, <3>1, <1>6
  <2>5. i \in {0, 1, 2, 3}
    OBVIOUS
  <2> QED BY <2>1, <2>2, <2>3, <2>4, <2>5
<1> QED BY <1>7

\* There is such a table.
LEMMA BelowExists ==
  ASSUME NEW v
  PROVE  \E below : below = [i \in -1..3 |->
                      IF i = -1 THEN <<>> ELSE WordDigits(v[i], DigitsPerWord) \o below[i - 1]]
<1>1. PICK b0, b1, b2, b3 :
        /\ b0 = WordDigits(v[0], DigitsPerWord) \o <<>>
        /\ b1 = WordDigits(v[1], DigitsPerWord) \o b0
        /\ b2 = WordDigits(v[2], DigitsPerWord) \o b1
        /\ b3 = WordDigits(v[3], DigitsPerWord) \o b2
  OBVIOUS
<1>2. PICK below : below = [i \in -1..3 |->
         IF i = -1 THEN <<>> ELSE IF i = 0 THEN b0 ELSE IF i = 1 THEN b1 ELSE IF i = 2 THEN b2 ELSE b3]
  OBVIOUS
<1>3. ASSUME NEW i \in -1..3
      PROVE  below[i] = IF i = -1 THEN <<>> ELSE WordDigits(v[i], DigitsPerWord) \o below[i - 1]
  <2>1. below[-1] = <<>> /\ below[0] = b0 /\ below[1] = b1 /\ below[2] = b2 /\ below[3] = b3
    BY <1>2
  <2>2. i \in {-1, 0, 1, 2, 3}
    OBVIOUS
  <2>3. CASE i = -1
    BY <2>1, <2>3
  <2>4. CASE i = 0
    <3>1. i - 1 = -1 /\ i # -1
      BY <2>4
    <3> QED BY <2>1, <2>4, <3>1, <1>1
  <2>5. CASE i = 1
    <3>1. i - 1 = 0 /\ i # -1
      BY <2>5
    <3> QED BY <2>1, <2>5, <3>1, <1>1
  <2>6. CASE i = 2
    <3>1. i - 1 = 1 /\ i # -1
      BY <2>6
    <3> QED BY <2>1, <2>6, <3>1, <1>1
  <2>7. CASE i = 3
    <3>1. i - 1 = 2 /\ i # -1
      BY <2>7
    <3> QED BY <2>1, <2>7, <3>1, <1>1
  <2> QED BY <2>2, <2>3, <2>4, <2>5, <2>6, <2>7
<1>4. below = [i \in -1..3 |-> below[i]]
  BY <1>2
<1> QED BY <1>3, <1>4

\* The index of the most significant word that is not 0, and the text.
LEMMA Text ==
  ASSUME NEW v \in Values
  PROVE  \/ uint256_format_as_hex(v) = <<0>> /\ \A w \in 0..3 : v[w] = 0
         \/ \E sig \in 0..3 : \E t :
              /\ v[sig] # 0
              /\ \A w \in 0..3 : w > sig => v[w] = 0
              /\ IsLowText(t, sig, v)
              /\ uint256_format_as_hex(v) = WordDigits(v[sig], NumberOfDigits(v[sig])) \o t
<1> DEFINE IsSig(i) == (i = -1 \/ v[i] # 0) /\ \A j \in 0..3 : j > i => v[j] = 0
           sig == CHOOSE i \in -1..3 : (i = -1 \/ v[i] # 0) /\ \A j \in 0..3 : j > i => v[j] = 0
           IsBelow(t) == t = [i \in -1..3 |->
             IF i = -1 THEN <<>> ELSE WordDigits(v[i], DigitsPerWord) \o t[i - 1]]
           below == CHOOSE t : IsBelow(t)
<1>1. \E i \in -1..3 : IsSig(i)
  <2>0. \A j \in 0..3 : j \in {0, 1, 2, 3}
    OBVIOUS
  <2>1. CASE v[3] # 0
    <3>1. IsSig(3) /\ 3 \in -1..3
      BY <2>1
    <3> QED BY <3>1
  <2>2. CASE v[3] = 0 /\ v[2] # 0
    <3>1. IsSig(2) /\ 2 \in -1..3
      BY <2>0, <2>2
    <3> QED BY <3>1
  <2>3. CASE v[3] = 0 /\ v[2] = 0 /\ v[1] # 0
    <3>1. IsSig(1) /\ 1 \in -1..3
      BY <2>0, <2>3
    <3> QED BY <3>1
  <2>4. CASE v[3] = 0 /\ v[2] = 0 /\ v[1] = 0 /\ v[0] # 0
    <3>1. IsSig(0) /\ 0 \in -1..3
      BY <2>0, <2>4
    <3> QED BY <3>1
  <2>5. CASE v[3] = 0 /\ v[2] = 0 /\ v[1] = 0 /\ v[0] = 0
    <3>1. IsSig(-1) /\ -1 \in -1..3
      BY <2>0, <2>5
    <3> QED BY <3>1
  <2> QED BY <2>1, <2>2, <2>3, <2>4, <2>5
<1>2. sig \in -1..3 /\ IsSig(sig)
  BY <1>1
<1>3. IsBelow(below)
  BY BelowExists
<1>4. uint256_format_as_hex(v)
        = IF sig = -1 THEN <<0>>
          ELSE WordDigits(v[sig], NumberOfDigits(v[sig])) \o below[sig - 1]
  BY DEF uint256_format_as_hex
<1> HIDE DEF sig, below
<1>5. CASE sig = -1
  <2>1. \A w \in 0..3 : w > sig
    BY <1>5
  <2> QED BY <2>1, <1>2, <1>4, <1>5
<1>6. CASE sig # -1
  <2>1. sig \in 0..3
    BY <1>2, <1>6
  <2>2. IsLowText(below[sig - 1], sig, v)
    BY <2>1, <1>3, BelowTable
  <2>3. uint256_format_as_hex(v) = WordDigits(v[sig], NumberOfDigits(v[sig])) \o below[sig - 1]
    BY <1>4, <1>6
  <2>4. v[sig] # 0 /\ \A w \in 0..3 : w > sig => v[w] = 0
    BY <1>2, <1>6
  <2> QED BY <2>1, <2>2, <2>3, <2>4, Zenon
<1> QED BY <1>5, <1>6

\* The text of a value has no leading zero.
LEMMA NoLeadingZero ==
  ASSUME NEW v \in Values, Len(uint256_format_as_hex(v)) > 1
  PROVE  uint256_format_as_hex(v)[1] # 0
<1>1. uint256_format_as_hex(v) # <<0>>
  <2>1. Len(<<0>>) = 1
    OBVIOUS
  <2>2. CASE uint256_format_as_hex(v) = <<0>>
    <3>1. Len(uint256_format_as_hex(v)) = 1
      BY <2>1, <2>2
    <3> QED BY <3>1
  <2> QED BY <2>2
<1>2. PICK sig \in 0..3 :
        /\ v[sig] # 0
        /\ \E t :
             /\ IsLowText(t, sig, v)
             /\ uint256_format_as_hex(v) = WordDigits(v[sig], NumberOfDigits(v[sig])) \o t
  BY <1>1, Text
<1> PICK t :
      /\ IsLowText(t, sig, v)
      /\ uint256_format_as_hex(v) = WordDigits(v[sig], NumberOfDigits(v[sig])) \o t
  BY <1>2
<1>3. v[sig] \in Words /\ v[sig] \in Nat
  <2>1. sig \in {0, 1, 2, 3}
    OBVIOUS
  <2> QED BY <2>1, WordsOfValue
<1>4. PICK n \in Nat \ {0} : n = NumberOfDigits(v[sig]) /\ Digit(v[sig], n - 1) # 0
  <2>1. DigitsPerWord \in Nat
    BY DigitWidths
  <2> QED BY <2>1, <1>2, <1>3, HighestDigit
<1>5. PICK s \in Seq(Nat) : s = WordDigits(v[sig], n) /\ Len(s) = n /\ s[1] = Digit(v[sig], n - 1)
  <2>1. /\ WordDigits(v[sig], n) \in Seq(Nat)
        /\ Len(WordDigits(v[sig], n)) = n
        /\ \A k \in 1..n : WordDigits(v[sig], n)[k] = Digit(v[sig], n - k)
    BY <1>3, WrittenDigits
  <2> QED BY <2>1
<1>6. t \in Seq(Nat)
  BY <1>2 DEF IsLowText
<1>7. (s \o t)[1] = s[1]
  <2>1. \A i \in 1..Len(s) + Len(t) : (s \o t)[i] = IF i <= Len(s) THEN s[i] ELSE t[i - Len(s)]
    BY <1>6, ConcatProperties
  <2>2. 1 \in 1..Len(s) + Len(t) /\ 1 <= Len(s)
    BY <1>5, <1>6
  <2> QED BY <2>1, <2>2
<1> QED BY <1>2, <1>4, <1>5, <1>7, Zenon

\* The text of a value is a numeral of it.
LEMMA NumeralOfValue ==
  ASSUME NEW v \in Values
  PROVE  Number(uint256_format_as_hex(v)) = Value(v)
<1>1. PICK b \in Nat, v0 \in Nat, v1 \in Nat, v2 \in Nat, v3 \in Nat :
        /\ b = Base /\ v0 = v[0] /\ v1 = v[1] /\ v2 = v[2] /\ v3 = v[3]
        /\ Value(v) = v0 + b * (v1 + b * (v2 + b * v3))
  BY WordsOfValue, BaseIsTwoOrMore
<1>2. CASE uint256_format_as_hex(v) = <<0>> /\ \A w \in 0..3 : v[w] = 0
  <2>1. <<0>> \in Seq(Nat) /\ Len(<<0>>) = 1 /\ <<0>>[1] = 0 /\ 1 - 1 = 0 /\ 1 \in 1..1
    OBVIOUS
  <2>2. PICK p \in Nat : p = Pow(2, DigitBits)
    <3>1. 0 \in Nat
      OBVIOUS
    <3> QED BY <3>1, DigitPowers
  <2>3. Number(<<0>>) = 0 * p + 0
    BY <2>1, <2>2, NumberTable
  <2>4. v0 = 0 /\ v1 = 0 /\ v2 = 0 /\ v3 = 0
    BY <1>1, <1>2
  <2>5. 0 * p + 0 = 0 /\ 0 + b * (0 + b * (0 + b * 0)) = 0
    OBVIOUS
  <2> QED BY <2>3, <2>4, <2>5, <1>1, <1>2
<1>3. ASSUME NEW sig \in 0..3, NEW t,
             v[sig] # 0,
             \A w \in 0..3 : w > sig => v[w] = 0,
             IsLowText(t, sig, v),
             uint256_format_as_hex(v) = WordDigits(v[sig], NumberOfDigits(v[sig])) \o t
      PROVE  Number(uint256_format_as_hex(v)) = Value(v)
  <2>1. sig \in {0, 1, 2, 3}
    OBVIOUS
  <2>2. v[sig] \in Words
    BY <2>1, WordsOfValue
  <2>3. PICK n \in Nat : n = NumberOfDigits(v[sig]) /\ v[sig] < Pow(2, DigitBits * n)
    <3>1. DigitsPerWord \in Nat
      BY DigitWidths
    <3> QED BY <3>1, <2>2, <1>3, HighestDigit
  <2>4. Number(WordDigits(v[sig], n) \o t)
          = v[sig] * Pow(2, DigitBits * (DigitsPerWord * sig)) + LowWords(v, sig)
    BY <1>3, <2>3, WordBefore
  <2>5. v[sig] * Pow(2, DigitBits * (DigitsPerWord * sig)) + LowWords(v, sig) = Value(v)
    <3>1. CASE sig = 0
      <4>1. v1 = 0 /\ v2 = 0 /\ v3 = 0
        BY <3>1, <1>1, <1>3
      <4>2. v0 * 1 + 0 = v0 + b * (0 + b * (0 + b * 0))
        OBVIOUS
      <4> QED BY <3>1, <4>1, <4>2, <1>1, WordPowers DEF LowWords
    <3>2. CASE sig = 1
      <4>1. v2 = 0 /\ v3 = 0
        BY <3>2, <1>1, <1>3
      <4>2. v1 * b + v0 = v0 + b * (v1 + b * (0 + b * 0))
        OBVIOUS
      <4> QED BY <3>2, <4>1, <4>2, <1>1, WordPowers DEF LowWords
    <3>3. CASE sig = 2
      <4>1. v3 = 0
        BY <3>3, <1>1, <1>3
      <4>2. v2 * (b * b) + (v0 + b * v1) = v0 + b * (v1 + b * (v2 + b * 0))
        OBVIOUS
      <4> QED BY <3>3, <4>1, <4>2, <1>1, WordPowers DEF LowWords
    <3>4. CASE sig = 3
      <4>1. v3 * (b * (b * b)) + (v0 + b * (v1 + b * v2)) = v0 + b * (v1 + b * (v2 + b * v3))
        OBVIOUS
      <4> QED BY <3>4, <4>1, <1>1, WordPowers DEF LowWords
    <3> QED BY <3>1, <3>2, <3>3, <3>4, <2>1
  <2> QED BY <1>3, <2>3, <2>4, <2>5, Zenon
<1> QED BY <1>2, <1>3, Text

\* The text of an operand has no leading zero, and the number its digits stand
\* for is the operand, whichever of the words are 0 and however many digits the
\* highest of the others has.
THEOREM Numerals == Spec => []TextIsNumeral
<1>1. Operands => TextIsNumeral
  <2>1. SUFFICES ASSUME left \in Values
                 PROVE  /\ Len(uint256_format_as_hex(left)) > 1 => uint256_format_as_hex(left)[1] # 0
                        /\ Number(uint256_format_as_hex(left)) = Value(left)
    BY DEF TextIsNumeral, Operands
  <2> QED BY <2>1, NoLeadingZero, NumeralOfValue
<1> QED BY <1>1, OperandsAreValues, PTL
=============================================================================
