--------------------------- MODULE CacheSimProofs ---------------------------
(***************************************************************************)
(* Proofs about the cache simulator, for every configuration main accepts, *)
(* every width of an address and every trace: its map, blocks and stamps   *)
(* agree, no store is lost, and it evicts and counts as the policy does.   *)
(*                                                                         *)
(* First the powers of two, by least counterexample, and what the shifts   *)
(* of simulate make of an address.  Then the invariant, set by set.  Then  *)
(* the order of the blocks of a set by their stamps, its ranks, which      *)
(* turns the stamps into the line of blocks of ReplacementPolicy.          *)
(***************************************************************************)
EXTENDS CacheSim, FiniteSetTheorems, FunctionTheorems, TLAPS

-----------------------------------------------------------------------------
(* Powers of two *)

\* A set of natural numbers that is not empty has a least element: the form in
\* which induction on naturals is used below.
LEMMA LeastElement ==
  ASSUME NEW T \in SUBSET Nat, T # {}
  PROVE  \E m \in T : \A n \in T : m <= n
<1>1. IsWellFoundedOn(OpToRel(<, Nat), Nat)
  BY NatLessThanWellFounded
<1>2. \E m \in T : \A n \in T : ~(<<n, m>> \in OpToRel(<, Nat))
  BY <1>1, WFMin
<1>3. \E m \in T : \A n \in T : ~(n < m)
  BY <1>2 DEF OpToRel
<1> QED BY <1>3

\* t holds the powers of two up to m.
ArePowers(t, m) == t = [n \in 0..m |-> IF n = 0 THEN 1 ELSE 2 * t[n - 1]]

\* There are powers of two up to every exponent.
LEMMA PowersExist ==
  ASSUME NEW k \in Nat
  PROVE  \E t : ArePowers(t, k)
<1> DEFINE T == {m \in Nat : ~\E t : ArePowers(t, m)}
<1>1. SUFFICES ASSUME T # {} PROVE FALSE
  OBVIOUS
<1>2. PICK m \in T : \A n \in T : m <= n
  BY <1>1, LeastElement
<1>3. m # 0
  <2>1. ArePowers([n \in 0..0 |-> 1], 0)
    BY DEF ArePowers
  <2> QED BY <2>1, <1>2
<1>4. m \in Nat /\ m - 1 \in Nat /\ m - 1 \notin T
  BY <1>2, <1>3
<1>5. PICK t : ArePowers(t, m - 1)
  BY <1>4
<1> DEFINE u == [n \in 0..m |-> IF n < m THEN t[n] ELSE 2 * t[m - 1]]
<1>6. ArePowers(u, m)
  <2>1. ASSUME NEW n \in 0..m
        PROVE  u[n] = IF n = 0 THEN 1 ELSE 2 * u[n - 1]
    <3>1. n # 0 => u[n - 1] = t[n - 1]
      BY <1>4
    <3>2. CASE n < m
      <4>1. u[n] = t[n]
        BY <3>2
      <4>2. t[n] = IF n = 0 THEN 1 ELSE 2 * t[n - 1]
        <5>1. n \in 0..m - 1
          BY <3>2, <1>4
        <5> QED BY <5>1, <1>5 DEF ArePowers
      <4> QED BY <4>1, <4>2, <3>1
    <3>3. CASE n = m
      BY <3>3, <3>1, <1>3
    <3> QED BY <3>2, <3>3, <1>4
  <2> QED BY <2>1 DEF ArePowers
<1> QED BY <1>6, <1>2

\* The exponents an address can need.
Exponents == 0..AddressBits + 1

\* pow2 one exponent at a time.
LEMMA Pow2Step ==
  /\ pow2[0] = 1
  /\ \A n \in Exponents : n > 0 => pow2[n] = 2 * pow2[n - 1]
<1> DEFINE t == pow2
<1>1. AddressBits \in Nat /\ AddressBits + 1 \in Nat
  BY AddressAssumption
<1>2. PICK u : ArePowers(u, AddressBits + 1)
  BY <1>1, PowersExist
<1>3. ArePowers(pow2, AddressBits + 1)
  BY <1>2 DEF ArePowers, pow2
<1>4. t = [n \in Exponents |-> IF n = 0 THEN 1 ELSE 2 * t[n - 1]]
  BY <1>3 DEF ArePowers, Exponents
<1> HIDE DEF t
<1>5. t[0] = 1
  BY <1>1, <1>4 DEF Exponents
<1>6. \A n \in Exponents : n > 0 => t[n] = 2 * t[n - 1]
  BY <1>1, <1>4 DEF Exponents
<1> QED BY <1>5, <1>6 DEF t

\* Powers of two are positive.
LEMMA Pow2Positive ==
  \A n \in Exponents : pow2[n] \in Nat \ {0}
<1> DEFINE T == {n \in Exponents : pow2[n] \notin Nat \ {0}}
<1>1. SUFFICES ASSUME T # {} PROVE FALSE
  OBVIOUS
<1>2. AddressBits \in Nat /\ T \in SUBSET Nat
  BY AddressAssumption DEF Exponents
<1> HIDE DEF T
<1>3. PICK m \in T : \A n \in T : m <= n
  BY <1>1, <1>2, LeastElement
<1>4. m \in Exponents /\ pow2[m] \notin Nat \ {0}
  BY <1>3 DEF T
<1>5. m # 0
  BY <1>4, Pow2Step
<1>6. m - 1 \in Exponents /\ m - 1 \notin T /\ m > 0
  BY <1>2, <1>3, <1>4, <1>5 DEF Exponents
<1>7. pow2[m - 1] \in Nat \ {0}
  BY <1>6 DEF T
<1>8. pow2[m] = 2 * pow2[m - 1]
  BY <1>4, <1>6, Pow2Step
<1> QED BY <1>4, <1>7, <1>8

\* Shifting by two distances is shifting by their sum.
LEMMA Pow2Sum ==
  ASSUME NEW m \in Nat, NEW n \in Nat, m + n \in Exponents
  PROVE  pow2[m + n] = pow2[m] * pow2[n]
<1> DEFINE T == {k \in 0..n : pow2[m + k] # pow2[m] * pow2[k]}
<1>1. SUFFICES ASSUME T # {} PROVE FALSE
  BY DEF Exponents
<1>2. AddressBits \in Nat /\ T \in SUBSET Nat
  BY AddressAssumption DEF Exponents
<1> HIDE DEF T
<1>3. PICK l \in T : \A k \in T : l <= k
  BY <1>1, <1>2, LeastElement
<1>4. l \in 0..n /\ pow2[m + l] # pow2[m] * pow2[l]
  BY <1>3 DEF T
<1>5. m \in Exponents /\ l \in Exponents /\ m + l \in Exponents
  BY <1>2, <1>4 DEF Exponents
<1>6. pow2[m] \in Nat /\ pow2[l] \in Nat
  BY <1>5, Pow2Positive
<1>7. l # 0
  <2>1. SUFFICES ASSUME l = 0 PROVE FALSE
    OBVIOUS
  <2>2. pow2[m + l] = pow2[m] /\ pow2[l] = 1
    BY <2>1, Pow2Step
  <2> QED BY <2>2, <1>4, <1>6
<1>8. l - 1 \in 0..n /\ l - 1 \notin T /\ l > 0 /\ l - 1 \in Exponents
  BY <1>2, <1>3, <1>4, <1>5, <1>7 DEF Exponents
<1>9. pow2[m + (l - 1)] = pow2[m] * pow2[l - 1]
  BY <1>8 DEF T
<1>10. pow2[l] = 2 * pow2[l - 1]
  BY <1>5, <1>8, Pow2Step
<1>11. pow2[m + l] = 2 * pow2[m + (l - 1)]
  <2>1. m + l > 0 /\ (m + l) - 1 = m + (l - 1)
    BY <1>4, <1>8
  <2> QED BY <2>1, <1>5, Pow2Step
<1>12. pow2[l - 1] \in Nat
  BY <1>8, Pow2Positive
<1>13. pow2[m] * (2 * pow2[l - 1]) = 2 * (pow2[m] * pow2[l - 1])
  BY <1>6, <1>12
<1> QED BY <1>4, <1>9, <1>10, <1>11, <1>13

\* Powers of two grow with the exponent.
LEMMA Pow2Grows ==
  ASSUME NEW m \in Exponents, NEW n \in Exponents, m < n
  PROVE  pow2[m] < pow2[n]
<1>1. AddressBits \in Nat /\ m \in Nat /\ n \in Nat
  BY AddressAssumption DEF Exponents
<1>2. n - 1 \in Exponents /\ n - 1 - m \in Exponents /\ m + (n - 1 - m) = n - 1 /\ n > 0
      /\ n - 1 - m \in Nat
  BY <1>1 DEF Exponents
<1>3. pow2[n - 1] = pow2[m] * pow2[n - 1 - m]
  BY <1>1, <1>2, Pow2Sum
<1>4. pow2[n] = 2 * pow2[n - 1]
  BY <1>2, Pow2Step
<1>5. /\ pow2[m] \in Nat \ {0} /\ pow2[n - 1] \in Nat \ {0}
      /\ pow2[n - 1 - m] \in Nat \ {0}
  BY <1>2, Pow2Positive
<1>6. pow2[m] <= pow2[m] * pow2[n - 1 - m]
  BY <1>5
<1> QED BY <1>3, <1>4, <1>5, <1>6

\* log2 finds the exponent of a power of two: what the library
\* function log2 returns (functions.cpp:43-44).
LEMMA Log2OfPower ==
  ASSUME NEW k \in 0..AddressBits
  PROVE  log2(pow2[k]) = k
<1>1. AddressBits \in Nat /\ k \in Nat
  BY AddressAssumption
<1>2. k \in Exponents /\ k + 1 \in Exponents
  BY <1>1 DEF Exponents
<1>3. pow2[k] \in Nat /\ pow2[k + 1] \in Nat
  BY <1>2, Pow2Positive
<1>4. pow2[k] <= pow2[k] /\ pow2[k] < pow2[k + 1]
  BY <1>1, <1>2, <1>3, Pow2Grows
<1>5. ASSUME NEW j \in 0..AddressBits, pow2[j] <= pow2[k], pow2[k] < pow2[j + 1]
      PROVE  j = k
  <2>1. j \in Exponents /\ j + 1 \in Exponents /\ j \in Nat
    BY <1>1 DEF Exponents
  <2>2. pow2[j] \in Nat /\ pow2[j + 1] \in Nat
    BY <2>1, Pow2Positive
  <2>3. ~(k < j)
    BY <2>1, <2>2, <1>2, <1>3, <1>5, Pow2Grows
  <2>4. ~(j + 1 <= k)
    <3>1. SUFFICES ASSUME j + 1 <= k PROVE FALSE
      OBVIOUS
    <3>2. j + 1 = k \/ j + 1 < k
      BY <3>1, <2>1, <1>1
    <3>3. pow2[j + 1] <= pow2[k]
      BY <3>2, <2>1, <2>2, <1>2, <1>3, Pow2Grows
    <3> QED BY <3>3, <2>2, <1>3, <1>5
  <2> QED BY <2>3, <2>4, <2>1, <1>1
<1> QED BY <1>4, <1>5 DEF log2

-----------------------------------------------------------------------------
(* The parts of an address *)

Address == 0..pow2[AddressBits] - 1

\* The configuration is one of powers of two, which an address has room for.
LEMMA Geometry ==
  ASSUME vals \in Configurations
  PROVE  \E i, o \in 0..AddressBits :
           /\ vals.num_sets = pow2[i] /\ vals.bytes = pow2[o]
           /\ i + o < AddressBits
           /\ index_size = i /\ offset_size = o
<1>1. PICK i \in 0..AddressBits : vals.num_sets = pow2[i]
  BY DEF Configurations, check_num_sets, isPowOfTwo
<1>2. PICK o \in 0..AddressBits : vals.bytes = pow2[o]
  BY DEF Configurations, check_num_bytes, isPowOfTwo
<1>3. index_size = i /\ offset_size = o
  BY <1>1, <1>2, Log2OfPower DEF index_size, offset_size
<1>4. pow2[i] * pow2[o] < pow2[AddressBits]
  BY <1>1, <1>2, TagAssumption DEF Configurations, Args
<1>5. i + o < AddressBits
  <2>1. SUFFICES ASSUME ~(i + o < AddressBits) PROVE FALSE
    OBVIOUS
  <2> DEFINE r == AddressBits - i
  <2>2. /\ AddressBits \in Nat /\ i \in Nat /\ o \in Nat /\ r \in Nat
        /\ i + r = AddressBits /\ r <= o
    BY <2>1, AddressAssumption
  <2> HIDE DEF r
  <2>3. /\ i \in Exponents /\ o \in Exponents /\ r \in Exponents /\ AddressBits \in Exponents
    BY <2>2 DEF Exponents
  <2>4. /\ pow2[i] \in Nat \ {0} /\ pow2[o] \in Nat \ {0} /\ pow2[r] \in Nat \ {0}
    BY <2>3, Pow2Positive
  <2>5. pow2[AddressBits] = pow2[i] * pow2[r]
    BY <2>2, <2>3, Pow2Sum
  <2>6. pow2[r] <= pow2[o]
    <3>1. CASE r = o
      BY <3>1, <2>4
    <3>2. CASE r < o
      BY <3>2, <2>3, <2>4, Pow2Grows
    <3> QED BY <3>1, <3>2, <2>2
  <2>7. pow2[i] * pow2[r] <= pow2[i] * pow2[o]
    BY <2>4, <2>6
  <2>8. pow2[i] * pow2[r] \in Nat /\ pow2[i] * pow2[o] \in Nat
    BY <2>4
  <2> QED BY <1>4, <2>5, <2>7, <2>8
<1> QED BY <1>1, <1>2, <1>3, <1>5

\* A number below a product, divided by one factor, is below the other.
LEMMA Quotient ==
  ASSUME NEW b \in Nat \ {0}, NEW c \in Nat \ {0}, NEW a \in 0..b * c - 1
  PROVE  a \div b \in 0..c - 1
<1>1. a \in Nat /\ a < b * c
  BY SMT
<1>2. a \div b \in Nat /\ b * (a \div b) <= a
  BY <1>1
<1>3. SUFFICES ASSUME ~(a \div b < c) PROVE FALSE
  BY <1>2
<1> DEFINE q == a \div b
<1>4. q \in Nat /\ b * q <= a /\ c <= q
  BY <1>2, <1>3
<1> HIDE DEF q
<1>5. b * c <= b * q
  BY <1>4
<1>6. b * c \in Nat /\ b * q \in Nat
  BY <1>4
<1> QED BY <1>1, <1>4, <1>5, <1>6

\* Dividing a product by a factor leaves the other.
LEMMA ProductDivided ==
  ASSUME NEW b \in Nat \ {0}, NEW c \in Nat
  PROVE  (b * c) \div b = c
  OBVIOUS

\* The index of an address is the number of a set, its tag one of the tags.
LEMMA AddressParts ==
  ASSUME vals \in Configurations, NEW a \in Address
  PROVE  Index(a) \in Sets /\ Tag(a) \in Tags
<1>1. PICK i \in 0..AddressBits, o \in 0..AddressBits :
        /\ vals.num_sets = pow2[i] /\ vals.bytes = pow2[o]
        /\ i + o < AddressBits
        /\ index_size = i /\ offset_size = o
  BY Geometry
<1> DEFINE s == i + o
           r == AddressBits - s
           t == AddressBits - i
<1>2. /\ AddressBits \in Nat /\ i \in Nat /\ o \in Nat /\ s \in Nat /\ r \in Nat /\ t \in Nat
      /\ s + r = AddressBits /\ t + i = AddressBits
      /\ tag_size = r /\ i + o = s /\ AddressBits - i = t /\ index_size + offset_size = s
      /\ AddressBits - index_size = t
  BY <1>1, AddressAssumption DEF tag_size
<1> HIDE DEF s, r, t
<1>3. /\ i \in Exponents /\ o \in Exponents /\ s \in Exponents /\ r \in Exponents
      /\ t \in Exponents /\ AddressBits \in Exponents
  BY <1>2 DEF Exponents
<1>4. /\ pow2[i] \in Nat \ {0} /\ pow2[o] \in Nat \ {0} /\ pow2[s] \in Nat \ {0}
      /\ pow2[r] \in Nat \ {0} /\ pow2[t] \in Nat \ {0} /\ pow2[AddressBits] \in Nat \ {0}
  BY <1>3, Pow2Positive
<1>5. /\ pow2[AddressBits] = pow2[s] * pow2[r]
      /\ pow2[AddressBits] = pow2[t] * pow2[i]
      /\ pow2[s] = pow2[i] * pow2[o]
  BY <1>2, <1>3, Pow2Sum
<1>6. Tag(a) \in Tags
  <2>1. Tag(a) = a \div pow2[s]
    BY <1>2 DEF Tag, ShiftRight
  <2>2. a \in 0..pow2[s] * pow2[r] - 1
    BY <1>5 DEF Address
  <2>3. a \div pow2[s] \in 0..pow2[r] - 1
    BY <2>2, <1>4, Quotient
  <2>4. (pow2[s] * pow2[r]) \div pow2[s] = pow2[r]
    BY <1>4, ProductDivided
  <2>5. Tags = 0..pow2[r] - 1
    <3>1. vals.num_sets * vals.bytes = pow2[s]
      BY <1>1, <1>5
    <3>2. pow2[AddressBits] \div (vals.num_sets * vals.bytes) = pow2[r]
      BY <3>1, <2>4, <1>5
    <3> QED BY <3>2 DEF Tags
  <2> QED BY <2>1, <2>3, <2>5
<1>7. Index(a) \in Sets
  <2>1. CASE i = 0
    <3>1. vals.num_sets = 1
      BY <2>1, <1>1, Pow2Step
    <3>2. Index(a) = 0
      BY <2>1, <1>1 DEF Index
    <3> QED BY <3>1, <3>2 DEF Sets
  <2>2. CASE i # 0
    <3> DEFINE x == (a * pow2[r]) % pow2[AddressBits]
    <3>1. Index(a) = x \div pow2[t]
      BY <2>2, <1>1, <1>2 DEF Index, ShiftLeft, ShiftRight
    <3>2. x \in 0..pow2[AddressBits] - 1
      <4>1. a \in Int
        BY DEF Address
      <4>2. a * pow2[r] \in Int
        BY <4>1, <1>4
      <4> QED BY <4>2, <1>4
    <3> HIDE DEF x
    <3>3. x \in 0..pow2[t] * pow2[i] - 1
      BY <3>2, <1>5
    <3>4. x \div pow2[t] \in 0..pow2[i] - 1
      BY <3>3, <1>4, Quotient
    <3> QED BY <3>1, <3>4, <1>1 DEF Sets
  <2> QED BY <2>1, <2>2
<1> QED BY <1>6, <1>7

\* The slots of a set: there is one.
LEMMA SlotsExist ==
  ASSUME vals \in Configurations
  PROVE  /\ vals.num_blocks_in_set \in Nat \ {0}
         /\ Slots \in SUBSET Nat /\ 0 \in Slots
<1>1. PICK k \in 0..AddressBits : vals.num_blocks_in_set = pow2[k]
  BY DEF Configurations, check_num_blocks, isPowOfTwo
<1>2. k \in Exponents
  BY AddressAssumption DEF Exponents
<1>3. vals.num_blocks_in_set \in Nat \ {0}
  BY <1>1, <1>2, Pow2Positive
<1> QED BY <1>3 DEF Slots

-----------------------------------------------------------------------------
(* Blocks and slots *)

\* The stamp of a block is a moment of the trace.
LEMMA TimeType ==
  ASSUME NEW b \in BlockType
  PROVE  time(b) \in Stamps /\ time(b) \in Nat
  BY AddressAssumption DEF BlockType, Stamps, time

\* Stamping a block sets the time it is compared by and nothing else.
LEMMA StampedBlock ==
  ASSUME NEW b \in BlockType, cycle_count \in Stamps
  PROVE  /\ Stamped(b) \in BlockType
         /\ Stamped(b).tag = b.tag
         /\ Stamped(b).valid = b.valid
         /\ Stamped(b).dirty = b.dirty
         /\ time(Stamped(b)) = cycle_count
<1>1. CASE vals.lru_state
  BY <1>1 DEF Stamped, BlockType, time
<1>2. CASE ~vals.lru_state
  BY <1>2 DEF Stamped, BlockType, time
<1> QED BY <1>1, <1>2

\* A block that is used is stamped, or its stamp is left.
LEMMA TouchedBlock ==
  ASSUME NEW b \in BlockType, cycle_count \in Stamps
  PROVE  /\ Touched(b) \in BlockType
         /\ Touched(b).tag = b.tag
         /\ Touched(b).valid = b.valid
         /\ Touched(b).dirty = b.dirty
         /\ time(Touched(b)) \in {cycle_count, time(b)}
<1>1. CASE vals.lru_state
  BY <1>1, StampedBlock DEF Touched
<1>2. CASE ~vals.lru_state
  BY <1>2 DEF Touched
<1> QED BY <1>1, <1>2

\* load_miss finds a slot, a free one while there is one.
LEMMA NewSlotFound ==
  ASSUME TypeOK, NEW i \in Sets
  PROVE  /\ NewSlot(i) \in Slots
         /\ ~Full(i) => ~blocks[i][NewSlot(i)].valid
         /\ Full(i) => /\ blocks[i][NewSlot(i)].valid
                       /\ \A j \in Slots : time(blocks[i][NewSlot(i)]) <= time(blocks[i][j])
<1>1. Slots \in SUBSET Nat /\ 0 \in Slots
  BY SlotsExist DEF TypeOK
<1>2. CASE Full(i)
  <2> DEFINE T == {time(blocks[i][k]) : k \in Slots}
  <2>1. \A k \in Slots : blocks[i][k] \in BlockType
    BY DEF TypeOK
  <2>2. \A k \in Slots : time(blocks[i][k]) \in Nat
    BY <2>1, TimeType
  <2>3. T \in SUBSET Nat /\ T # {}
    BY <2>2, <1>1
  <2>4. PICK m \in T : \A n \in T : m <= n
    <3> HIDE DEF T
    <3> QED BY <2>3, LeastElement
  <2> DEFINE U == {k \in Slots : time(blocks[i][k]) = m}
  <2>5. U \in SUBSET Nat /\ U # {}
    BY <2>4, <1>1
  <2>6. PICK k \in U : \A j \in U : k <= j
    <3> HIDE DEF U, T
    <3> QED BY <2>5, LeastElement
  <2>7. k \in Slots /\ time(blocks[i][k]) = m
    BY <2>6
  <2>8. ASSUME NEW j \in Slots
        PROVE  \/ time(blocks[i][k]) < time(blocks[i][j])
               \/ time(blocks[i][k]) = time(blocks[i][j]) /\ k <= j
    <3>1. m <= time(blocks[i][j])
      BY <2>4
    <3>2. m \in Nat /\ time(blocks[i][j]) \in Nat
      BY <2>2, <2>7
    <3>3. CASE m = time(blocks[i][j])
      BY <3>3, <2>6, <2>7
    <3>4. CASE m < time(blocks[i][j])
      BY <3>4, <2>7
    <3> QED BY <3>1, <3>2, <3>3, <3>4
  <2>9. /\ evict_block(i) \in Slots
        /\ \A j \in Slots :
             \/ time(blocks[i][evict_block(i)]) < time(blocks[i][j])
             \/ time(blocks[i][evict_block(i)]) = time(blocks[i][j]) /\ evict_block(i) <= j
    <3> HIDE DEF T, U
    <3> QED BY <2>7, <2>8 DEF evict_block
  <2>10. NewSlot(i) = evict_block(i)
    BY <1>2 DEF NewSlot
  <2>11. \A k_1 \in Slots : blocks[i][k_1].valid
    BY <1>2 DEF Full, FreeSlots
  <2>12. \A j \in Slots : time(blocks[i][evict_block(i)]) <= time(blocks[i][j])
    <3> HIDE DEF T, U
    <3> QED BY <2>2, <2>9
  <2> QED BY <2>9, <2>10, <2>11, <2>12, <1>2
<1>3. CASE ~Full(i)
  <2>1. FreeSlots(i) \in SUBSET Nat /\ FreeSlots(i) # {}
    BY <1>1, <1>3 DEF Full, FreeSlots
  <2>2. PICK k \in FreeSlots(i) : \A j \in FreeSlots(i) : k <= j
    BY <2>1, LeastElement
  <2>3. NewSlot(i) \in FreeSlots(i)
    BY <1>3, <2>2 DEF NewSlot
  <2> QED BY <2>3, <1>3 DEF FreeSlots
<1> QED BY <1>2, <1>3

-----------------------------------------------------------------------------
(* One set: s are its blocks, p its map, m the tags of its blocks that hold  *)
(* data memory does not, now is the time.                                    *)

ValidIn(s) == {k \in Slots : s[k].valid}

SetTypes(s, p) ==
  /\ s \in [Slots -> BlockType]
  /\ p \in [DOMAIN p -> Slots]
  /\ DOMAIN p \subseteq Tags

PointersRight(s, p) ==
  /\ \A t \in DOMAIN p : p[t] \in ValidIn(s) /\ s[p[t]].tag = t
  /\ \A k \in ValidIn(s) : s[k].tag \in DOMAIN p /\ p[s[k].tag] = k

StampsApart(s, now) ==
  \A k, j \in ValidIn(s) :
    /\ time(s[k]) < now
    /\ k # j => time(s[k]) # time(s[j])

StoresKept(s, p, m) == \A t \in m : t \in DOMAIN p /\ s[p[t]].dirty

SetOK(s, p, m, now) ==
  /\ SetTypes(s, p)
  /\ PointersRight(s, p)
  /\ StampsApart(s, now)
  /\ StoresKept(s, p, m)

\* The time passes: the stamps stay in the past.
LEMMA SetLater ==
  ASSUME NEW s, NEW p, NEW m, NEW now \in Nat, SetOK(s, p, m, now)
  PROVE  SetOK(s, p, m, now + 1)
<1>1. \A k \in ValidIn(s) : time(s[k]) \in Nat
  BY TimeType DEF SetOK, SetTypes, ValidIn
<1>2. StampsApart(s, now + 1)
  BY <1>1 DEF SetOK, StampsApart
<1> QED BY <1>2 DEF SetOK

\* A hit: one block is marked, its stamp set to the present or left.
LEMMA SetHit ==
  ASSUME NEW s, NEW p, NEW m, NEW now \in Nat, SetOK(s, p, m, now),
         NEW t \in DOMAIN p, NEW b \in BlockType,
         b.tag = s[p[t]].tag, b.valid = s[p[t]].valid,
         s[p[t]].dirty => b.dirty,
         time(b) \in {now, time(s[p[t]])},
         NEW m2, m2 = m \/ (m2 = m \cup {t} /\ b.dirty)
  PROVE  SetOK([s EXCEPT ![p[t]] = b], p, m2, now + 1)
<1> DEFINE k == p[t]
           s2 == [s EXCEPT ![k] = b]
<1>1. k \in ValidIn(s) /\ k \in Slots /\ s[k].tag = t
  BY DEF SetOK, PointersRight, ValidIn
<1>2. s2 \in [Slots -> BlockType] /\ s2[k] = b /\ \A j \in Slots : j # k => s2[j] = s[j]
  BY <1>1 DEF SetOK, SetTypes
<1>3. b.tag = s[k].tag /\ b.valid = s[k].valid /\ (s[k].dirty => b.dirty)
      /\ time(b) \in {now, time(s[k])}
  OBVIOUS
<1> HIDE DEF s2, k
<1>4. ValidIn(s2) = ValidIn(s)
  BY <1>1, <1>2, <1>3 DEF ValidIn
<1>5. \A j \in Slots : s2[j].tag = s[j].tag /\ (s[j].dirty => s2[j].dirty)
  BY <1>2, <1>3
<1>6. \A j \in ValidIn(s) : j \in Slots
  BY DEF ValidIn
<1>7. SetTypes(s2, p)
  BY <1>2 DEF SetOK, SetTypes
<1>8. PointersRight(s2, p)
  BY <1>4, <1>5, <1>6 DEF SetOK, PointersRight
<1>9. StampsApart(s2, now + 1)
  <2>1. \A j \in ValidIn(s) : time(s[j]) \in Nat /\ time(s[j]) < now
    BY TimeType, <1>6 DEF SetOK, SetTypes, StampsApart
  <2>2. \A j, l \in ValidIn(s) : j # l => time(s[j]) # time(s[l])
    BY DEF SetOK, StampsApart
  <2>3. \A j \in ValidIn(s) : j # k => time(s2[j]) = time(s[j])
    BY <1>2, <1>6
  <2>4. time(s2[k]) \in {now, time(s[k])}
    BY <1>2, <1>3
  <2>5. \A j \in ValidIn(s) : time(s2[j]) < now + 1
    BY <2>1, <2>3, <2>4, <1>1
  <2>6. ASSUME NEW j \in ValidIn(s), NEW l \in ValidIn(s), j # l
        PROVE  time(s2[j]) # time(s2[l])
    <3>1. CASE j # k /\ l # k
      BY <3>1, <2>2, <2>3, <2>6
    <3>2. CASE j = k
      BY <3>2, <2>1, <2>2, <2>3, <2>4, <2>6
    <3>3. CASE l = k
      BY <3>3, <2>1, <2>2, <2>3, <2>4, <2>6
    <3> QED BY <3>1, <3>2, <3>3
  <2> QED BY <2>5, <2>6, <1>4 DEF StampsApart
<1>10. StoresKept(s2, p, m2)
  <2>1. ASSUME NEW u \in m
        PROVE  u \in DOMAIN p /\ s2[p[u]].dirty
    <3>1. u \in DOMAIN p /\ s[p[u]].dirty /\ p[u] \in Slots
      BY <1>6 DEF SetOK, StoresKept, SetTypes
    <3> QED BY <3>1, <1>5
  <2>2. b.dirty => t \in DOMAIN p /\ s2[p[t]].dirty
    BY <1>2 DEF k
  <2> QED BY <2>1, <2>2 DEF StoresKept
<1> QED BY <1>7, <1>8, <1>9, <1>10 DEF SetOK, s2, k

\* A fill: a block that was in no slot takes one, whose former block leaves the
\* map with it.
LEMMA SetFill ==
  ASSUME vals \in Configurations,
         NEW s, NEW p, NEW m, NEW now \in Nat, SetOK(s, p, m, now),
         NEW k \in Slots, NEW t \in Tags, t \notin DOMAIN p,
         NEW b \in BlockType, b.tag = t, b.valid, time(b) = now,
         NEW E, E = IF s[k].valid THEN {s[k].tag} ELSE {},
         NEW m2, m2 \subseteq (m \ E) \cup {t}, b.dirty \/ t \notin m2
  PROVE  SetOK([s EXCEPT ![k] = b],
               [u \in (DOMAIN p \ E) \cup {t} |-> IF u = t THEN k ELSE p[u]], m2, now + 1)
<1> DEFINE s2 == [s EXCEPT ![k] = b]
           p2 == [u \in (DOMAIN p \ E) \cup {t} |-> IF u = t THEN k ELSE p[u]]
<1>1. s2 \in [Slots -> BlockType] /\ s2[k] = b /\ \A j \in Slots : j # k => s2[j] = s[j]
  BY DEF SetOK, SetTypes
<1>2. /\ DOMAIN p2 = (DOMAIN p \ E) \cup {t}
      /\ p2[t] = k
      /\ \A u \in DOMAIN p : u \notin E => p2[u] = p[u]
  OBVIOUS
<1>3. SetTypes(s2, p2)
  BY <1>1 DEF SetOK, SetTypes
<1> HIDE DEF s2, p2
<1>4. /\ \A j \in Slots : j # k => (j \in ValidIn(s2) <=> j \in ValidIn(s))
      /\ k \in ValidIn(s2)
      /\ \A j : j \in ValidIn(s2) => j \in Slots
      /\ \A j : j \in ValidIn(s) => j \in Slots
  BY <1>1 DEF ValidIn
<1>5. \A u \in DOMAIN p : u \notin E <=> p[u] # k
  <2>1. TAKE u \in DOMAIN p
  <2>2. p[u] \in ValidIn(s) /\ s[p[u]].tag = u /\ s[p[u]].valid
    BY DEF SetOK, PointersRight, ValidIn
  <2>3. CASE s[k].valid
    <3>1. E = {s[k].tag} /\ k \in ValidIn(s)
      BY <2>3 DEF ValidIn
    <3>2. p[s[k].tag] = k
      BY <3>1 DEF SetOK, PointersRight
    <3> QED BY <3>1, <3>2, <2>2
  <2>4. CASE ~s[k].valid
    BY <2>4, <2>2
  <2> QED BY <2>3, <2>4
<1>6. PointersRight(s2, p2)
  <2>1. ASSUME NEW u \in DOMAIN p2
        PROVE  p2[u] \in ValidIn(s2) /\ s2[p2[u]].tag = u
    <3>1. CASE u = t
      BY <3>1, <1>1, <1>2, <1>4
    <3>2. CASE u # t
      <4>1. u \in DOMAIN p /\ u \notin E
        BY <3>2, <1>2
      <4>2. p2[u] = p[u] /\ p[u] # k
        BY <4>1, <1>2, <1>5
      <4>3. p[u] \in ValidIn(s) /\ s[p[u]].tag = u
        BY <4>1 DEF SetOK, PointersRight
      <4> QED BY <4>2, <4>3, <1>1, <1>4
    <3> QED BY <3>1, <3>2
  <2>2. ASSUME NEW j \in ValidIn(s2)
        PROVE  s2[j].tag \in DOMAIN p2 /\ p2[s2[j].tag] = j
    <3>1. CASE j = k
      BY <3>1, <1>1, <1>2
    <3>2. CASE j # k
      <4>1. j \in ValidIn(s) /\ s2[j] = s[j]
        BY <3>2, <1>1, <1>4
      <4>2. s[j].tag \in DOMAIN p /\ p[s[j].tag] = j
        BY <4>1 DEF SetOK, PointersRight
      <4> QED BY <4>1, <4>2, <3>2, <1>2, <1>5
    <3> QED BY <3>1, <3>2
  <2> QED BY <2>1, <2>2 DEF PointersRight
<1>7. StampsApart(s2, now + 1)
  <2>1. \A j \in ValidIn(s) : time(s[j]) \in Nat /\ time(s[j]) < now
    BY TimeType, <1>4 DEF SetOK, SetTypes, StampsApart
  <2>2. \A j, l \in ValidIn(s) : j # l => time(s[j]) # time(s[l])
    BY DEF SetOK, StampsApart
  <2>3. \A j \in ValidIn(s2) : j # k => j \in ValidIn(s) /\ time(s2[j]) = time(s[j])
    BY <1>1, <1>4
  <2>4. time(s2[k]) = now
    BY <1>1
  <2>5. \A j \in ValidIn(s2) : time(s2[j]) < now + 1
    BY <2>1, <2>3, <2>4
  <2>6. ASSUME NEW j \in ValidIn(s2), NEW l \in ValidIn(s2), j # l
        PROVE  time(s2[j]) # time(s2[l])
    <3>1. CASE j # k /\ l # k
      BY <3>1, <2>2, <2>3, <2>6
    <3>2. CASE j = k
      BY <3>2, <2>1, <2>3, <2>4, <2>6
    <3>3. CASE l = k
      BY <3>3, <2>1, <2>3, <2>4, <2>6
    <3> QED BY <3>1, <3>2, <3>3
  <2> QED BY <2>5, <2>6 DEF StampsApart
<1>8. StoresKept(s2, p2, m2)
  <2>1. ASSUME NEW u \in m2
        PROVE  u \in DOMAIN p2 /\ s2[p2[u]].dirty
    <3>1. CASE u = t
      BY <3>1, <2>1, <1>1, <1>2
    <3>2. CASE u # t
      <4>1. u \in m /\ u \notin E
        BY <3>2
      <4>2. u \in DOMAIN p /\ s[p[u]].dirty /\ p[u] \in Slots
        BY <4>1 DEF SetOK, StoresKept, SetTypes
      <4>3. p2[u] = p[u] /\ p[u] # k
        BY <4>1, <4>2, <1>2, <1>5
      <4> QED BY <4>1, <4>2, <4>3, <1>1, <1>2
    <3> QED BY <3>1, <3>2
  <2> QED BY <2>1 DEF StoresKept
<1> QED BY <1>3, <1>6, <1>7, <1>8 DEF SetOK, s2, p2

-----------------------------------------------------------------------------
(* The invariant, set by set *)

CacheInv ==
  /\ TypeOK
  /\ PointersFindBlocks
  /\ StampsAreDistinct
  /\ StoredIsDirty

\* The tags of a set whose data memory does not have, among pairs m.
StoredAt(m, i) == {t \in Tags : <<t, i>> \in m}

Lines == {"none", "other", "l", "s"} \X Address

\* The invariant says of each set that it is in order.
LEMMA InvOfSets ==
  ASSUME CacheInv, NEW i \in Sets
  PROVE  SetOK(blocks[i], block_pointer[i], StoredAt(modified, i), cycle_count)
<1>1. SetTypes(blocks[i], block_pointer[i])
  BY DEF CacheInv, TypeOK, SetTypes
<1>2. ValidIn(blocks[i]) = Valid(i)
  BY DEF Valid, ValidIn
<1>3. PointersRight(blocks[i], block_pointer[i])
  BY <1>2 DEF CacheInv, PointersFindBlocks, PointersRight
<1>4. StampsApart(blocks[i], cycle_count)
  BY <1>2 DEF CacheInv, StampsAreDistinct, StampsApart
<1>5. StoresKept(blocks[i], block_pointer[i], StoredAt(modified, i))
  <2>1. SUFFICES ASSUME NEW t \in StoredAt(modified, i)
                 PROVE  /\ t \in DOMAIN block_pointer[i]
                        /\ blocks[i][block_pointer[i][t]].dirty
    BY DEF StoresKept
  <2>2. <<t, i>> \in modified
    BY DEF StoredAt
  <2> QED BY <2>2 DEF CacheInv, StoredIsDirty
<1> QED BY <1>1, <1>3, <1>4, <1>5 DEF SetOK

\* The converse, after a step: what has to be shown of each set.
LEMMA InvFromSets ==
  ASSUME vals \in Configurations, UNCHANGED vals,
         line' \in Lines, cycle_count' \in Stamps,
         blocks' \in [Sets -> [Slots -> BlockType]],
         DOMAIN block_pointer' = Sets,
         stat' \in [Counters -> Nat],
         modified' \subseteq Tags \X Sets,
         \A i \in Sets :
           SetOK(blocks'[i], block_pointer'[i], StoredAt(modified', i), cycle_count')
  PROVE  CacheInv'
<1>1. Sets' = Sets /\ Slots' = Slots /\ Tags' = Tags /\ Stamps' = Stamps
  BY DEF Sets, Slots, Tags, Stamps
<1>2. BlockType' = BlockType
  BY <1>1 DEF BlockType
<1>3. \A i \in Sets : Valid(i)' = ValidIn(blocks'[i])
  BY <1>1 DEF Valid, ValidIn
<1>4. TypeOK'
  <2>1. \A i \in Sets :
          /\ block_pointer'[i] \in [DOMAIN block_pointer'[i] -> Slots]
          /\ DOMAIN block_pointer'[i] \subseteq Tags
    BY DEF SetOK, SetTypes
  <2> QED BY <1>1, <1>2, <2>1 DEF TypeOK, Lines, Address
<1>5. PointersFindBlocks'
  <2>1. \A i \in Sets : PointersRight(blocks'[i], block_pointer'[i])
    BY DEF SetOK
  <2> QED BY <1>1, <1>3, <2>1 DEF PointersFindBlocks, PointersRight
<1>6. StampsAreDistinct'
  <2>1. \A i \in Sets : StampsApart(blocks'[i], cycle_count')
    BY DEF SetOK
  <2>2. ASSUME NEW i \in Sets, NEW k \in Valid(i)', NEW j \in Valid(i)'
        PROVE  /\ time(blocks[i][k])' < cycle_count'
               /\ k # j => time(blocks[i][k])' # time(blocks[i][j])'
    <3>1. /\ time(blocks'[i][k]) < cycle_count'
          /\ k # j => time(blocks'[i][k]) # time(blocks'[i][j])
      BY <1>3, <2>1, <2>2 DEF StampsApart
    <3>2. /\ time(blocks[i][k])' = time(blocks'[i][k])
          /\ time(blocks[i][j])' = time(blocks'[i][j])
      BY DEF time
    <3> QED BY <3>1, <3>2
  <2> QED BY <1>1, <2>2 DEF StampsAreDistinct
<1>7. StoredIsDirty'
  <2>1. ASSUME NEW m \in modified'
        PROVE  /\ m[1] \in DOMAIN block_pointer'[m[2]]
               /\ blocks'[m[2]][block_pointer'[m[2]][m[1]]].dirty
    <3>1. m[1] \in Tags /\ m[2] \in Sets /\ m = <<m[1], m[2]>>
      OBVIOUS
    <3>2. m[1] \in StoredAt(modified', m[2])
      BY <3>1 DEF StoredAt
    <3>3. StoresKept(blocks'[m[2]], block_pointer'[m[2]], StoredAt(modified', m[2]))
      BY <3>1 DEF SetOK
    <3> QED BY <3>2, <3>3 DEF StoresKept
  <2> QED BY <2>1 DEF StoredIsDirty
<1> QED BY <1>4, <1>5, <1>6, <1>7 DEF CacheInv

\* What NextLine leaves to show.
LEMMA LineRead ==
  ASSUME TypeOK, NEW c \in {"other", "l", "s"}, NEW a \in Address, NextLine(c, a)
  PROVE  /\ vals \in Configurations /\ UNCHANGED vals
         /\ line' \in Lines
         /\ cycle_count \in Nat /\ cycle_count \in Stamps
         /\ cycle_count' = cycle_count + 1 /\ cycle_count' \in Stamps
  BY AddressAssumption DEF TypeOK, NextLine, Lines, Stamps

\* A command that touches no block.
LEMMA IdleStep ==
  ASSUME CacheInv, NEW c \in {"other", "l", "s"}, NEW a \in Address, NextLine(c, a),
         UNCHANGED <<blocks, block_pointer, modified>>,
         stat' \in [Counters -> Nat]
  PROVE  CacheInv'
<1>1. /\ vals \in Configurations /\ UNCHANGED vals
      /\ line' \in Lines
      /\ cycle_count \in Nat
      /\ cycle_count' = cycle_count + 1 /\ cycle_count' \in Stamps
  BY LineRead DEF CacheInv
<1>2. ASSUME NEW i \in Sets
      PROVE  SetOK(blocks'[i], block_pointer'[i], StoredAt(modified', i), cycle_count')
  BY <1>1, InvOfSets, SetLater
<1>3. /\ blocks' \in [Sets -> [Slots -> BlockType]]
      /\ DOMAIN block_pointer' = Sets
      /\ modified' \subseteq Tags \X Sets
  BY DEF CacheInv, TypeOK
<1> QED BY <1>1, <1>2, <1>3, InvFromSets

\* A command that finds its block.
LEMMA HitStep ==
  ASSUME CacheInv, NEW c \in {"l", "s"}, NEW a \in Address, NextLine(c, a),
         block_exists(a), UNCHANGED block_pointer,
         stat' \in [Counters -> Nat],
         NEW b \in BlockType,
         b.tag = blocks[Index(a)][Where(a)].tag,
         b.valid = blocks[Index(a)][Where(a)].valid,
         blocks[Index(a)][Where(a)].dirty => b.dirty,
         time(b) \in {cycle_count, time(blocks[Index(a)][Where(a)])},
         blocks' = [blocks EXCEPT ![Index(a)][Where(a)] = b],
         \/ modified' = modified
         \/ modified' = modified \cup {<<Tag(a), Index(a)>>} /\ b.dirty
  PROVE  CacheInv'
<1> DEFINE i == Index(a)
           t == Tag(a)
           k == Where(a)
<1>1. /\ vals \in Configurations /\ UNCHANGED vals
      /\ line' \in Lines
      /\ cycle_count \in Nat
      /\ cycle_count' = cycle_count + 1 /\ cycle_count' \in Stamps
  BY LineRead DEF CacheInv
<1>2. i \in Sets /\ t \in Tags
  BY <1>1, AddressParts
<1>3. t \in DOMAIN block_pointer[i] /\ k = block_pointer[i][t]
  BY DEF block_exists, Where
<1>4. /\ b.tag = blocks[i][k].tag /\ b.valid = blocks[i][k].valid
      /\ blocks[i][k].dirty => b.dirty
      /\ time(b) \in {cycle_count, time(blocks[i][k])}
      /\ blocks' = [blocks EXCEPT ![i][k] = b]
      /\ modified' = modified \/ (modified' = modified \cup {<<t, i>>} /\ b.dirty)
  OBVIOUS
<1> HIDE DEF i, t, k
<1>5. /\ blocks \in [Sets -> [Slots -> BlockType]]
      /\ block_pointer[i] \in [DOMAIN block_pointer[i] -> Slots]
      /\ DOMAIN block_pointer = Sets
      /\ modified \subseteq Tags \X Sets
  BY <1>2 DEF CacheInv, TypeOK
<1>6. /\ blocks'[i] = [blocks[i] EXCEPT ![k] = b]
      /\ \A j \in Sets : j # i => blocks'[j] = blocks[j]
      /\ blocks' \in [Sets -> [Slots -> BlockType]]
  <2>1. k \in Slots
    BY <1>3, <1>5
  <2> DEFINE s2 == [blocks[i] EXCEPT ![k] = b]
  <2>2. blocks' = [blocks EXCEPT ![i] = s2]
    BY <1>4
  <2>3. s2 \in [Slots -> BlockType]
    BY <1>2, <1>5, <2>1
  <2>4. SUFFICES /\ blocks'[i] = s2
                 /\ \A j \in Sets : j # i => blocks'[j] = blocks[j]
                 /\ blocks' \in [Sets -> [Slots -> BlockType]]
    OBVIOUS
  <2> HIDE DEF s2
  <2> QED BY <1>2, <1>5, <2>2, <2>3
<1>7. SetOK(blocks[i], block_pointer[i], StoredAt(modified, i), cycle_count)
  BY <1>2, InvOfSets
<1>8. \/ StoredAt(modified', i) = StoredAt(modified, i)
      \/ StoredAt(modified', i) = StoredAt(modified, i) \cup {t} /\ b.dirty
  BY <1>2, <1>4 DEF StoredAt
<1>9. SetOK(blocks'[i], block_pointer'[i], StoredAt(modified', i), cycle_count')
  <2> DEFINE m2 == StoredAt(modified', i)
             m == StoredAt(modified, i)
  <2>1. m2 = m \/ (m2 = m \cup {t} /\ b.dirty)
    BY <1>8
  <2>2. SetOK(blocks[i], block_pointer[i], m, cycle_count)
    BY <1>7
  <2> HIDE DEF m2, m
  <2>3. SetOK([blocks[i] EXCEPT ![block_pointer[i][t]] = b], block_pointer[i], m2, cycle_count + 1)
    BY <1>1, <1>3, <1>4, <2>1, <2>2, SetHit
  <2> QED BY <1>1, <1>3, <1>6, <2>3 DEF m2
<1>10. ASSUME NEW j \in Sets, j # i
       PROVE  SetOK(blocks'[j], block_pointer'[j], StoredAt(modified', j), cycle_count')
  <2>1. StoredAt(modified', j) = StoredAt(modified, j)
    BY <1>4, <1>10 DEF StoredAt
  <2>2. SetOK(blocks[j], block_pointer[j], StoredAt(modified, j), cycle_count + 1)
    BY <1>1, InvOfSets, SetLater
  <2> QED BY <1>1, <1>6, <1>10, <2>1, <2>2
<1>11. \A j \in Sets :
         SetOK(blocks'[j], block_pointer'[j], StoredAt(modified', j), cycle_count')
  BY <1>9, <1>10
<1>12. DOMAIN block_pointer' = Sets /\ modified' \subseteq Tags \X Sets
  BY <1>2, <1>4, <1>5
<1> QED BY <1>1, <1>6, <1>11, <1>12, InvFromSets

\* A command that brings its block in.
LEMMA FillStep ==
  ASSUME CacheInv, NEW c \in {"l", "s"}, NEW a \in Address, NextLine(c, a),
         ~block_exists(a), NEW d \in BOOLEAN, Fill(a, d),
         stat' \in [Counters -> Nat]
  PROVE  CacheInv'
<1> DEFINE i == Index(a)
           t == Tag(a)
           k == NewSlot(i)
           s == blocks[i]
           p == block_pointer[i]
           E == Evicted(i)
           b0 == Loaded(s[k], t, d)
           b == Stamped(b0)
           p2 == [u \in (DOMAIN p \ E) \cup {t} |-> IF u = t THEN k ELSE p[u]]
           m == StoredAt(modified, i)
           m2 == StoredAt(modified', i)
<1>1. /\ vals \in Configurations /\ UNCHANGED vals
      /\ line' \in Lines
      /\ cycle_count \in Nat /\ cycle_count \in Stamps
      /\ cycle_count' = cycle_count + 1 /\ cycle_count' \in Stamps
  BY LineRead DEF CacheInv
<1>2. i \in Sets /\ t \in Tags
  BY <1>1, AddressParts
<1>3. t \notin DOMAIN p
  BY DEF block_exists
<1>4. /\ k \in Slots
      /\ ~Full(i) => ~s[k].valid
      /\ Full(i) => s[k].valid
  BY <1>2, NewSlotFound DEF CacheInv
<1>5. E = IF s[k].valid THEN {s[k].tag} ELSE {}
  BY <1>4 DEF Evicted
<1>6. /\ blocks' = [blocks EXCEPT ![i][k] = b]
      /\ block_pointer' = [block_pointer EXCEPT ![i] = p2]
      /\ modified' = (modified \ (E \X {i})) \cup (IF d THEN {<<t, i>>} ELSE {})
  BY DEF Fill
<1>7. /\ blocks \in [Sets -> [Slots -> BlockType]]
      /\ s \in [Slots -> BlockType]
      /\ p \in [DOMAIN p -> Slots]
      /\ DOMAIN block_pointer = Sets
      /\ modified \subseteq Tags \X Sets
  BY <1>2 DEF CacheInv, TypeOK
<1>8. b0 \in BlockType /\ b0.tag = t /\ b0.valid /\ (d => b0.dirty)
  <2>1. s[k] \in BlockType
    BY <1>4, <1>7
  <2> QED BY <2>1, <1>2 DEF BlockType, Loaded
<1>9. b \in BlockType /\ b.tag = t /\ b.valid /\ (d => b.dirty) /\ time(b) = cycle_count
  <2> HIDE DEF b0
  <2>1. /\ Stamped(b0) \in BlockType
        /\ Stamped(b0).tag = b0.tag
        /\ Stamped(b0).valid = b0.valid
        /\ Stamped(b0).dirty = b0.dirty
        /\ time(Stamped(b0)) = cycle_count
    BY <1>1, <1>8, StampedBlock
  <2> QED BY <2>1, <1>8
<1>10. SetOK(s, p, m, cycle_count)
  BY <1>2, InvOfSets
<1> HIDE DEF i, t, k, b0, b, E
<1>11. m2 \subseteq (m \ E) \cup {t} /\ (b.dirty \/ t \notin m2)
  <2>1. t \notin m
    BY <1>3, <1>10 DEF SetOK, StoresKept
  <2>2. \A u \in m2 : u \in m \/ u = t
    BY <1>2, <1>6 DEF StoredAt
  <2>3. \A u \in m2 : u \in E => u = t
    BY <1>2, <1>6 DEF StoredAt
  <2>4. ~d => m2 \subseteq m
    BY <1>2, <1>6 DEF StoredAt
  <2> HIDE DEF m, m2
  <2> QED BY <2>1, <2>2, <2>3, <2>4, <1>9
<1>12. /\ blocks'[i] = [s EXCEPT ![k] = b]
       /\ \A j \in Sets : j # i => blocks'[j] = blocks[j]
       /\ blocks' \in [Sets -> [Slots -> BlockType]]
  <2> DEFINE s2 == [s EXCEPT ![k] = b]
  <2>1. blocks' = [blocks EXCEPT ![i] = s2]
    BY <1>6
  <2>2. s2 \in [Slots -> BlockType]
    BY <1>4, <1>7, <1>9
  <2>3. SUFFICES /\ blocks'[i] = s2
                 /\ \A j \in Sets : j # i => blocks'[j] = blocks[j]
                 /\ blocks' \in [Sets -> [Slots -> BlockType]]
    OBVIOUS
  <2> HIDE DEF s, s2
  <2> QED BY <1>2, <1>7, <2>1, <2>2
<1>13. /\ block_pointer'[i] = p2
       /\ \A j \in Sets : j # i => block_pointer'[j] = block_pointer[j]
       /\ DOMAIN block_pointer' = Sets
  <2> HIDE DEF p2
  <2> QED BY <1>2, <1>6, <1>7
<1>14. SetOK(blocks'[i], block_pointer'[i], m2, cycle_count')
  <2> HIDE DEF s, p, m, m2
  <2>1. SetOK([s EXCEPT ![k] = b], p2, m2, cycle_count + 1)
    BY <1>1, <1>2, <1>3, <1>4, <1>5, <1>9, <1>10, <1>11, SetFill
  <2> QED BY <1>1, <1>12, <1>13, <2>1
<1>15. ASSUME NEW j \in Sets, j # i
       PROVE  SetOK(blocks'[j], block_pointer'[j], StoredAt(modified', j), cycle_count')
  <2>1. StoredAt(modified', j) = StoredAt(modified, j)
    BY <1>6, <1>15 DEF StoredAt
  <2>2. SetOK(blocks[j], block_pointer[j], StoredAt(modified, j), cycle_count + 1)
    BY <1>1, InvOfSets, SetLater
  <2> QED BY <1>1, <1>12, <1>13, <1>15, <2>1, <2>2
<1>16. \A j \in Sets :
         SetOK(blocks'[j], block_pointer'[j], StoredAt(modified', j), cycle_count')
  BY <1>14, <1>15
<1>17. modified' \subseteq Tags \X Sets
  BY <1>2, <1>6, <1>7
<1> QED BY <1>1, <1>12, <1>13, <1>16, <1>17, InvFromSets

-----------------------------------------------------------------------------
(* The steps *)

\* At the start all blocks are empty, and so is every map.
LEMMA InitInv == Init => CacheInv
<1> SUFFICES ASSUME Init PROVE CacheInv
  OBVIOUS
<1>2. vals \in Configurations /\ cycle_count = 0
  BY DEF Init
<1>3. pow2[AddressBits] \in Nat \ {0}
  BY AddressAssumption, Pow2Positive DEF Exponents
<1>4. 0 \in Tags
  <2>1. 0 \in Address
    BY <1>3 DEF Address
  <2>2. Tag(0) \in Tags
    BY <1>2, <2>1, AddressParts
  <2>3. PICK i \in 0..AddressBits, o \in 0..AddressBits :
          vals.num_sets = pow2[i] /\ vals.bytes = pow2[o]
    BY <1>2, Geometry
  <2>4. pow2[i] \in Nat \ {0} /\ pow2[o] \in Nat \ {0}
    BY AddressAssumption, Pow2Positive DEF Exponents
  <2>5. pow2[i] * pow2[o] \in Nat \ {0}
    BY <2>4
  <2>6. pow2[AddressBits] \div (vals.num_sets * vals.bytes) \in Int
    BY <1>3, <2>3, <2>5
  <2> QED BY <2>2, <2>6 DEF Tags
<1>5. Empty \in BlockType
  BY <1>4, AddressAssumption DEF Empty, BlockType, Stamps
<1>6. blocks = [i \in Sets |-> [k \in Slots |-> Empty]]
  BY DEF Init
<1>7. \A i \in Sets : block_pointer[i] = <<>> /\ DOMAIN block_pointer[i] = {}
  BY DEF Init
<1>8. TypeOK
  <2>1. line \in {"none", "other", "l", "s"} \X (0..pow2[AddressBits] - 1)
    BY <1>3 DEF Init
  <2>2. cycle_count \in Stamps
    BY <1>2, AddressAssumption DEF Stamps
  <2>3. blocks \in [Sets -> [Slots -> BlockType]]
    BY <1>5, <1>6
  <2>4. DOMAIN block_pointer = Sets
    BY DEF Init
  <2>5. \A i \in Sets : /\ block_pointer[i] \in [DOMAIN block_pointer[i] -> Slots]
                        /\ DOMAIN block_pointer[i] \subseteq Tags
    <3>1. <<>> \in [{} -> Slots]
      OBVIOUS
    <3>2. ASSUME NEW i \in Sets
          PROVE  block_pointer[i] \in [DOMAIN block_pointer[i] -> Slots]
      BY <1>7, <3>1, Zenon
    <3> QED BY <1>7, <3>2
  <2>6. stat \in [Counters -> Nat]
    BY DEF Init, NoStats, Counters
  <2>7. modified \subseteq Tags \X Sets
    BY DEF Init
  <2> QED BY <1>2, <2>1, <2>2, <2>3, <2>4, <2>5, <2>6, <2>7 DEF TypeOK
<1>9. \A i \in Sets : Valid(i) = {}
  BY <1>6 DEF Valid, Empty
<1>10. PointersFindBlocks
  BY <1>7, <1>9 DEF PointersFindBlocks
<1>11. StampsAreDistinct
  BY <1>9 DEF StampsAreDistinct
<1>12. StoredIsDirty
  BY DEF Init, StoredIsDirty
<1> QED BY <1>8, <1>10, <1>11, <1>12 DEF CacheInv

\* The cycles a command costs are a number.
LEMMA CyclesType ==
  ASSUME TypeOK, NEW i
  PROVE  MissCycles(i) \in Nat /\ ThroughCycles \in Nat
<1>1. PICK o \in 0..AddressBits : vals.bytes = pow2[o]
  BY DEF TypeOK, Configurations, check_num_bytes, isPowOfTwo
<1>2. vals.bytes \in Nat
  BY <1>1, Pow2Positive, AddressAssumption DEF Exponents
<1>3. Transfer \in Nat
  BY <1>2 DEF Transfer
<1> QED BY <1>3 DEF MissCycles, ThroughCycles

\* Every command counts in three counters.
LEMMA ThreeCounted ==
  ASSUME NEW C, NEW f \in [C -> Nat], NEW c \in C, NEW d \in C, NEW e \in C,
         NEW x \in Nat, NEW y \in Nat, NEW z \in Nat
  PROVE  /\ [f EXCEPT ![c] = x, ![d] = y, ![e] = z] \in [C -> Nat]
         /\ \A u \in C :
              [f EXCEPT ![c] = x, ![d] = y, ![e] = z][u]
                = IF u = e THEN z ELSE IF u = d THEN y ELSE IF u = c THEN x ELSE f[u]
<1> DEFINE f1 == [f EXCEPT ![c] = x]
           f2 == [f1 EXCEPT ![d] = y]
           f3 == [f2 EXCEPT ![e] = z]
<1>1. f1 \in [C -> Nat] /\ \A u \in C : f1[u] = IF u = c THEN x ELSE f[u]
  OBVIOUS
<1> HIDE DEF f1
<1>2. f2 \in [C -> Nat] /\ \A u \in C : f2[u] = IF u = d THEN y ELSE f1[u]
  BY <1>1
<1> HIDE DEF f2
<1>3. f3 \in [C -> Nat] /\ \A u \in C : f3[u] = IF u = e THEN z ELSE f2[u]
  BY <1>2
<1> HIDE DEF f3
<1>4. /\ f3 \in [C -> Nat]
      /\ \A u \in C :
           f3[u] = IF u = e THEN z ELSE IF u = d THEN y ELSE IF u = c THEN x ELSE f[u]
  BY <1>1, <1>2, <1>3
<1> QED BY <1>4 DEF f3, f2, f1

\* What a command that counts in t, h and tot_cycles does to the statistics.
LEMMA CountersStep ==
  ASSUME TypeOK, NEW t \in {"tot_loads", "tot_stores"},
         NEW h \in {"load_hit", "store_hit", "load_miss", "store_miss"}, NEW z \in Nat,
         stat' = [stat EXCEPT ![t] = stat[t] + 1, ![h] = stat[h] + 1, !["tot_cycles"] = z]
  PROVE  /\ stat' \in [Counters -> Nat]
         /\ \A u \in {"load_hit", "store_hit", "load_miss", "store_miss"} :
              stat[u] \in Nat /\ stat'[u] = IF u = h THEN stat[u] + 1 ELSE stat[u]
<1>1. stat \in [Counters -> Nat]
  BY DEF TypeOK
<1>2. /\ t \in Counters /\ h \in Counters /\ "tot_cycles" \in Counters
      /\ \A u \in {"load_hit", "store_hit", "load_miss", "store_miss"} :
           u \in Counters /\ u # t /\ u # "tot_cycles"
  BY DEF Counters
<1>3. stat[t] + 1 \in Nat /\ stat[h] + 1 \in Nat
  BY <1>1, <1>2
<1>4. /\ stat' \in [Counters -> Nat]
      /\ \A u \in Counters :
           stat'[u] = IF u = "tot_cycles" THEN z
                      ELSE IF u = h THEN stat[h] + 1 ELSE IF u = t THEN stat[t] + 1 ELSE stat[u]
  BY <1>1, <1>2, <1>3, ThreeCounted
<1> QED BY <1>1, <1>2, <1>4

CountsHit ==
  /\ stat'.load_hit + stat'.store_hit = stat.load_hit + stat.store_hit + 1
  /\ stat'.load_miss + stat'.store_miss = stat.load_miss + stat.store_miss

CountsMiss ==
  /\ stat'.load_hit + stat'.store_hit = stat.load_hit + stat.store_hit
  /\ stat'.load_miss + stat'.store_miss = stat.load_miss + stat.store_miss + 1

\* The statistics stay numbers, and a command is a hit or a miss.
LEMMA StatStep ==
  ASSUME TypeOK, NEW a,
         LoadHit(a) \/ LoadMiss(a) \/ StoreHit(a) \/ StoreMiss(a) \/ StoreAround(a)
  PROVE  /\ stat' \in [Counters -> Nat]
         /\ LoadHit(a) \/ StoreHit(a) => CountsHit
         /\ LoadMiss(a) \/ StoreMiss(a) \/ StoreAround(a) => CountsMiss
<1> DEFINE Four == {"load_hit", "store_hit", "load_miss", "store_miss"}
           Counts(h) == /\ stat' \in [Counters -> Nat]
                        /\ \A u \in Four :
                             stat[u] \in Nat /\ stat'[u] = IF u = h THEN stat[u] + 1 ELSE stat[u]
<1>1. stat.tot_cycles \in Nat
  BY DEF TypeOK, Counters
<1>2. MissCycles(Index(a)) \in Nat /\ ThroughCycles \in Nat
  BY CyclesType
<1>3. LoadHit(a) => Counts("load_hit")
  <2>1. stat.tot_cycles + 1 \in Nat
    BY <1>1
  <2> QED BY <2>1, CountersStep DEF LoadHit
<1>4. LoadMiss(a) => Counts("load_miss")
  <2>1. stat.tot_cycles + MissCycles(Index(a)) \in Nat
    BY <1>1, <1>2
  <2> QED BY <2>1, CountersStep DEF LoadMiss
<1>5. StoreHit(a) => Counts("store_hit")
  <2>1. stat.tot_cycles + ThroughCycles + 1 \in Nat
    BY <1>1, <1>2
  <2> QED BY <2>1, CountersStep DEF StoreHit
<1>6. StoreMiss(a) => Counts("store_miss")
  <2>1. stat.tot_cycles + ThroughCycles + MissCycles(Index(a)) \in Nat
    BY <1>1, <1>2
  <2> QED BY <2>1, CountersStep DEF StoreMiss
<1>7. StoreAround(a) => Counts("store_miss")
  <2>1. stat.tot_cycles + ThroughCycles \in Nat
    BY <1>1, <1>2
  <2> QED BY <2>1, CountersStep DEF StoreAround
<1>8. Counts("load_hit") \/ Counts("store_hit") => CountsHit
  BY DEF CountsHit
<1>9. Counts("load_miss") \/ Counts("store_miss") => CountsMiss
  BY DEF CountsMiss
<1>10. \A h : Counts(h) => stat' \in [Counters -> Nat]
  OBVIOUS
<1> HIDE DEF Counts
<1> QED BY <1>3, <1>4, <1>5, <1>6, <1>7, <1>8, <1>9, <1>10

\* Traces hold addresses.
LEMMA AddressesType == \A a \in Addresses : a \in Address
  BY AddressAssumption DEF Address

\* Every command keeps the invariant: a hit, a fill, or no block at all.
LEMMA NextInv == CacheInv /\ [Next]_vars => CacheInv'
<1>1. SUFFICES ASSUME CacheInv, [Next]_vars PROVE CacheInv'
  OBVIOUS
<1>2. TypeOK /\ vals \in Configurations /\ stat \in [Counters -> Nat]
  <2>1. TypeOK
    BY <1>1 DEF CacheInv
  <2> QED BY <2>1 DEF TypeOK
<1>3. ASSUME NEW a \in Address, block_exists(a), NEW c \in {"l", "s"}, NextLine(c, a)
      PROVE  /\ blocks[Index(a)][Where(a)] \in BlockType
             /\ cycle_count \in Stamps
  <2>1. Index(a) \in Sets
    BY <1>2, AddressParts
  <2>2. Where(a) \in Slots
    BY <2>1, <1>2, <1>3 DEF TypeOK, block_exists, Where
  <2> QED BY <2>1, <2>2, <1>2 DEF TypeOK
<1>4. ASSUME NEW a \in Address, LoadHit(a)
      PROVE  CacheInv'
  <2> DEFINE b0 == blocks[Index(a)][Where(a)]
             b == Touched(b0)
  <2>1. /\ block_exists(a) /\ NextLine("l", a)
        /\ blocks' = [blocks EXCEPT ![Index(a)][Where(a)] = b]
        /\ UNCHANGED block_pointer /\ modified' = modified
    BY <1>4 DEF LoadHit
  <2>2. stat' \in [Counters -> Nat]
    BY <1>2, <1>4, StatStep
  <2>3. b0 \in BlockType /\ cycle_count \in Stamps
    BY <1>3, <2>1
  <2>4. /\ b \in BlockType /\ b.tag = b0.tag /\ b.valid = b0.valid /\ b.dirty = b0.dirty
        /\ time(b) \in {cycle_count, time(b0)}
    <3> HIDE DEF b0
    <3> QED BY <2>3, TouchedBlock
  <2> HIDE DEF b
  <2> QED BY <1>1, <2>1, <2>2, <2>4, HitStep
<1>5. ASSUME NEW a \in Address, LoadMiss(a)
      PROVE  CacheInv'
  <2>1. ~block_exists(a) /\ NextLine("l", a) /\ Fill(a, FALSE)
    BY <1>5 DEF LoadMiss
  <2>4. stat' \in [Counters -> Nat]
    BY <1>2, <1>5, StatStep
  <2> QED BY <1>1, <2>1, <2>4, FillStep
<1>6. ASSUME NEW a \in Address, StoreHit(a)
      PROVE  CacheInv'
  <2> DEFINE b0 == blocks[Index(a)][Where(a)]
             b1 == Written(b0)
             b == Touched(b1)
  <2>1. /\ block_exists(a) /\ NextLine("s", a)
        /\ blocks' = [blocks EXCEPT ![Index(a)][Where(a)] = b]
        /\ modified' = IF vals.write_thru THEN modified
                                          ELSE modified \cup {<<Tag(a), Index(a)>>}
        /\ UNCHANGED block_pointer
    BY <1>6 DEF StoreHit
  <2>4. stat' \in [Counters -> Nat]
    BY <1>2, <1>6, StatStep
  <2>5. b0 \in BlockType /\ cycle_count \in Stamps
    BY <1>3, <2>1
  <2>6. /\ b1 \in BlockType /\ b1.tag = b0.tag /\ b1.valid = b0.valid
        /\ b0.dirty => b1.dirty
        /\ ~vals.write_thru => b1.dirty
        /\ time(b1) = time(b0)
    <3>1. vals.write_thru \in BOOLEAN
      BY <1>2 DEF Configurations, Args
    <3> HIDE DEF b0
    <3> QED BY <2>5, <3>1 DEF Written, BlockType, time
  <2>7. /\ b \in BlockType /\ b.tag = b1.tag /\ b.valid = b1.valid /\ b.dirty = b1.dirty
        /\ time(b) \in {cycle_count, time(b1)}
    <3> HIDE DEF b1
    <3> QED BY <2>5, <2>6, TouchedBlock
  <2>8. \/ modified' = modified
        \/ modified' = modified \cup {<<Tag(a), Index(a)>>} /\ b.dirty
    <3> HIDE DEF b, b1
    <3> QED BY <2>1, <2>6, <2>7
  <2>9. /\ b \in BlockType
        /\ b.tag = blocks[Index(a)][Where(a)].tag
        /\ b.valid = blocks[Index(a)][Where(a)].valid
        /\ blocks[Index(a)][Where(a)].dirty => b.dirty
        /\ time(b) \in {cycle_count, time(blocks[Index(a)][Where(a)])}
    <3> HIDE DEF b, b1
    <3> QED BY <2>6, <2>7
  <2> HIDE DEF b, b1, b0
  <2> QED BY <1>1, <2>1, <2>4, <2>8, <2>9, HitStep
<1>7. ASSUME NEW a \in Address, StoreMiss(a)
      PROVE  CacheInv'
  <2>1. ~block_exists(a) /\ NextLine("s", a) /\ Fill(a, ~vals.write_thru)
    BY <1>7 DEF StoreMiss
  <2>4. stat' \in [Counters -> Nat]
    BY <1>2, <1>7, StatStep
  <2> QED BY <1>1, <2>1, <2>4, FillStep
<1>8. ASSUME NEW a \in Address, StoreAround(a)
      PROVE  CacheInv'
  <2>1. NextLine("s", a) /\ UNCHANGED <<blocks, block_pointer, modified>>
    BY <1>8 DEF StoreAround
  <2>4. stat' \in [Counters -> Nat]
    BY <1>2, <1>8, StatStep
  <2> QED BY <1>1, <2>1, <2>4, IdleStep
<1>9. CASE OtherCommand
  <2>1. 0 \in Address
    BY AddressAssumption, Pow2Positive DEF Address, Exponents
  <2>2. NextLine("other", 0) /\ UNCHANGED <<blocks, block_pointer, modified>> /\ stat' = stat
    BY <1>9 DEF OtherCommand
  <2>3. stat' \in [Counters -> Nat]
    BY <1>2, <2>2
  <2> QED BY <1>1, <2>1, <2>2, <2>3, IdleStep
<1>10. CASE UNCHANGED vars
  <2>1. /\ UNCHANGED vals /\ UNCHANGED <<blocks, block_pointer, modified>>
        /\ line' = line /\ cycle_count' = cycle_count /\ stat' = stat
    BY <1>10 DEF vars
  <2>2. ASSUME NEW i \in Sets
        PROVE  SetOK(blocks'[i], block_pointer'[i], StoredAt(modified', i), cycle_count')
    BY <1>1, <2>1, InvOfSets
  <2>3. /\ line' \in Lines /\ cycle_count' \in Stamps
        /\ blocks' \in [Sets -> [Slots -> BlockType]]
        /\ DOMAIN block_pointer' = Sets
        /\ stat' \in [Counters -> Nat]
        /\ modified' \subseteq Tags \X Sets
    BY <1>2, <2>1 DEF TypeOK, Lines, Address
  <2> QED BY <1>2, <2>1, <2>2, <2>3, InvFromSets
<1>11. CASE Next
  BY <1>4, <1>5, <1>6, <1>7, <1>8, <1>9, <1>11, AddressesType DEF Next
<1> QED BY <1>1, <1>10, <1>11

-----------------------------------------------------------------------------
(* The theorems *)

\* The invariant holds in every state of the simulator
\* (functions.cpp:39-195).
THEOREM CacheAlways == Spec => []CacheInv
  BY InitInv, NextInv, PTL DEF Spec

\* Whatever the configuration and the trace, tags, slots and stamps stay in
\* range, and sets and maps have the shape the simulator gave them
\* (functions.cpp:16-62).
THEOREM CacheTypes == Spec => []TypeOK
<1>1. CacheInv => TypeOK
  BY DEF CacheInv
<1> QED BY <1>1, CacheAlways, PTL

\* A tag is in the map of its set exactly if a valid block has it, and the map
\* points to that block, through any sequence of hits, fills and evictions
\* (functions.cpp:106-195).
THEOREM PointersFindBlocksAlways == Spec => []PointersFindBlocks
<1>1. CacheInv => PointersFindBlocks
  BY DEF CacheInv
<1> QED BY <1>1, CacheAlways, PTL

\* No two valid blocks of a set ever have the same stamp, and all stamps are in
\* the past: evict_block never has to break a tie (functions.cpp:142-176).
THEOREM StampsAreDistinctAlways == Spec => []StampsAreDistinct
<1>1. CacheInv => StampsAreDistinct
  BY DEF CacheInv
<1> QED BY <1>1, CacheAlways, PTL

\* A store that memory has not got stays in the cache in a dirty block until
\* that block is evicted (functions.cpp:84-140).
THEOREM StoredIsDirtyAlways == Spec => []StoredIsDirty
<1>1. CacheInv => StoredIsDirty
  BY DEF CacheInv
<1> QED BY <1>1, CacheAlways, PTL

-----------------------------------------------------------------------------
(* Blocks of memory *)

\* A quotient and a remainder below the divisor are what \div and % yield.
LEMMA DivisionIs ==
  ASSUME NEW a \in Nat, NEW b \in Nat \ {0}, NEW q \in Nat, NEW r \in Nat,
         a = b * q + r, r < b
  PROVE  a \div b = q /\ a % b = r
<1> DEFINE d == a \div b
           e == a % b
<1>1. d \in Nat /\ e \in Nat /\ a = b * d + e /\ e < b
  OBVIOUS
<1> HIDE DEF d, e
<1>2. ~(q < d)
  <2>1. SUFFICES ASSUME q < d PROVE FALSE
    OBVIOUS
  <2>2. q + 1 <= d
    BY <1>1, <2>1
  <2>3. b * (q + 1) <= b * d
    BY <1>1, <2>2
  <2>4. b * (q + 1) = b * q + b
    OBVIOUS
  <2>5. b * q \in Nat /\ b * d \in Nat
    BY <1>1
  <2> QED BY <1>1, <2>3, <2>4, <2>5
<1>3. ~(d < q)
  <2>1. SUFFICES ASSUME d < q PROVE FALSE
    OBVIOUS
  <2>2. d + 1 <= q
    BY <1>1, <2>1
  <2>3. b * (d + 1) <= b * q
    BY <1>1, <2>2
  <2>4. b * (d + 1) = b * d + b
    BY <1>1
  <2>5. b * q \in Nat /\ b * d \in Nat
    BY <1>1
  <2> QED BY <1>1, <2>3, <2>4, <2>5
<1>4. d = q
  BY <1>1, <1>2, <1>3
<1>5. b * q \in Nat
  OBVIOUS
<1>6. e = r
  BY <1>1, <1>4, <1>5
<1> QED BY <1>4, <1>6 DEF d, e

\* The simulator cuts a memory block's number in two: its index is the
\* remainder and its tag the quotient by the number of sets.  So no two blocks
\* have both in common.
THEOREM BlockNumber ==
  ASSUME vals \in Configurations, NEW a \in Address
  PROVE  /\ a \div vals.bytes \in Address
         /\ a \div vals.bytes = Tag(a) * vals.num_sets + Index(a)
         /\ (a \div vals.bytes) % vals.num_sets = Index(a)
<1>1. PICK i \in 0..AddressBits, o \in 0..AddressBits :
        /\ vals.num_sets = pow2[i] /\ vals.bytes = pow2[o]
        /\ i + o < AddressBits
        /\ index_size = i /\ offset_size = o
  BY Geometry
<1> DEFINE s == i + o
           r == AddressBits - s
           t == AddressBits - i
<1>2. /\ AddressBits \in Nat /\ i \in Nat /\ o \in Nat /\ s \in Nat /\ r \in Nat /\ t \in Nat
      /\ s + r = AddressBits /\ t = o + r
      /\ tag_size = r /\ i + o = s /\ index_size + offset_size = s
      /\ AddressBits - index_size = t
  BY <1>1, AddressAssumption DEF tag_size
<1> HIDE DEF s, r, t
<1>3. /\ i \in Exponents /\ o \in Exponents /\ s \in Exponents /\ r \in Exponents
      /\ t \in Exponents /\ AddressBits \in Exponents
  BY <1>1, <1>2 DEF Exponents
<1> DEFINE I == pow2[i]
           O == pow2[o]
           R == pow2[r]
<1>4. I \in Nat \ {0} /\ O \in Nat \ {0} /\ R \in Nat \ {0}
  BY <1>3, Pow2Positive
<1>5. pow2[s] = I * O
  BY <1>2, <1>3, Pow2Sum
<1>6. pow2[t] = O * R
  BY <1>2, <1>3, Pow2Sum
<1>7. pow2[AddressBits] = (I * O) * R
  BY <1>2, <1>3, <1>5, Pow2Sum
<1>8. /\ vals.num_sets = I /\ vals.bytes = O
      /\ index_size = i
      /\ Tag(a) = a \div (I * O)
      /\ i # 0 => Index(a) = ((a * R) % ((I * O) * R)) \div (O * R)
      /\ i = 0 => Index(a) = 0 /\ I = 1
  BY <1>1, <1>2, <1>5, <1>6, <1>7, Pow2Step DEF Tag, Index, ShiftLeft, ShiftRight
<1>9. a \in Nat /\ a < (I * O) * R
  <2>1. a \in Nat /\ a < pow2[AddressBits]
    BY <1>3, Pow2Positive DEF Address
  <2> HIDE DEF I, O, R
  <2> QED BY <2>1, <1>7
<1> HIDE DEF I, O, R
<1> DEFINE B == I * O
<1>10. B \in Nat \ {0}
  BY <1>4
<1> DEFINE T == a \div B
           m == a % B
<1>11. T \in Nat /\ m \in Nat /\ a = B * T + m /\ m < B
  <2> HIDE DEF B
  <2> QED BY <1>9, <1>10
<1> HIDE DEF T, m
<1> DEFINE x == m \div O
           y == m % O
<1>12. x \in Nat /\ y \in Nat /\ m = O * x + y /\ y < O
  BY <1>4, <1>11
<1>13. x < I
  <2>1. m \in 0..O * I - 1
    BY <1>4, <1>11
  <2> QED BY <2>1, <1>4, Quotient
<1> HIDE DEF x, y
<1> DEFINE n == T * I + x
<1>14. n \in Nat /\ a = O * n + y
  <2>1. T * I \in Nat /\ O * x \in Nat /\ B * T \in Nat
    BY <1>4, <1>10, <1>11, <1>12
  <2>2. O * (T * I + x) = O * (T * I) + O * x
    BY <2>1, <1>4, <1>12
  <2>3. O * (T * I) = B * T
    BY <1>4, <1>11
  <2>4. O * (T * I) \in Nat
    BY <2>1, <2>3
  <2> HIDE DEF B
  <2> QED BY <2>1, <2>2, <2>3, <2>4, <1>11, <1>12
<1>15. a \div O = n
  <2> HIDE DEF n
  <2> QED BY <1>4, <1>9, <1>12, <1>14, DivisionIs
<1>16. n % I = x
  <2>1. n = I * T + x
    BY <1>4, <1>11, <1>12
  <2> HIDE DEF n
  <2> QED BY <2>1, <1>4, <1>11, <1>12, <1>13, <1>14, DivisionIs
<1>17. Index(a) = x
  <2>1. CASE i = 0
    BY <2>1, <1>8, <1>12, <1>13
  <2>2. CASE i # 0
    <3>1. a * R = (B * R) * T + m * R
      <4>1. (B * T + m) * R = (B * T) * R + m * R
        BY <1>4, <1>10, <1>11
      <4>2. (B * T) * R = (B * R) * T
        <5> HIDE DEF B
        <5> QED BY <1>4, <1>10, <1>11
      <4> HIDE DEF B
      <4> QED BY <4>1, <4>2, <1>11
    <3>2. m * R < B * R
      <4> HIDE DEF B
      <4> QED BY <1>4, <1>10, <1>11
    <3>3. /\ a * R \in Nat /\ B * R \in Nat \ {0} /\ m * R \in Nat /\ O * R \in Nat \ {0}
          /\ y * R \in Nat /\ (O * R) * x \in Nat
      <4> HIDE DEF B
      <4> QED BY <1>4, <1>9, <1>10, <1>11, <1>12
    <3> DEFINE BR == B * R
               mR == m * R
               OR == O * R
               yR == y * R
               aR == a * R
    <3>4. aR % BR = mR
      <4>1. aR = BR * T + mR /\ mR < BR /\ aR \in Nat /\ BR \in Nat \ {0} /\ mR \in Nat
        BY <3>1, <3>2, <3>3
      <4> HIDE DEF aR, BR, mR
      <4> QED BY <4>1, <1>11, DivisionIs
    <3>5. mR = OR * x + yR
      <4>1. (O * x + y) * R = (O * x) * R + y * R
        BY <1>4, <1>12
      <4>2. (O * x) * R = (O * R) * x
        BY <1>4, <1>12
      <4> QED BY <4>1, <4>2, <1>12
    <3>6. yR < OR
      BY <1>4, <1>12
    <3>7. mR \div OR = x
      <4>1. mR \in Nat /\ OR \in Nat \ {0} /\ yR \in Nat
        BY <3>3
      <4> HIDE DEF mR, OR, yR
      <4> QED BY <4>1, <3>5, <3>6, <1>12, DivisionIs
    <3>8. Index(a) = (aR % BR) \div OR
      BY <2>2, <1>8
    <3> HIDE DEF aR, BR, OR, mR
    <3> QED BY <3>4, <3>7, <3>8
  <2> QED BY <2>1, <2>2
<1>18. a \div O \in Address
  <2>1. n <= a
    <3>1. n <= O * n
      <4> HIDE DEF n
      <4> QED BY <1>4, <1>14
    <3>2. O * n \in Nat
      <4> HIDE DEF n
      <4> QED BY <1>4, <1>14
    <3> HIDE DEF n
    <3> QED BY <3>1, <3>2, <1>12, <1>14
  <2>2. pow2[AddressBits] \in Nat
    BY <1>3, Pow2Positive
  <2> HIDE DEF n
  <2> QED BY <2>1, <2>2, <1>15, <1>14, <1>9 DEF Address
<1>19. Tag(a) = T
  BY <1>8 DEF T
<1> HIDE DEF n
<1> QED BY <1>8, <1>15, <1>16, <1>17, <1>18, <1>19 DEF n

-----------------------------------------------------------------------------
(* Ranks: the order of the blocks of a set by their stamps.  V is a finite   *)
(* set, f a number for each of its elements, all different.                  *)

Below(V, f, k) == {j \in V : f[j] < f[k]}
Rank(V, f, k) == Cardinality(Below(V, f, k))

Keyed(V, f) ==
  /\ IsFiniteSet(V)
  /\ \A k \in V : f[k] \in Nat
  /\ \A j, k \in V : f[j] = f[k] => j = k

\* Ranks are numbers.
LEMMA BelowFinite ==
  ASSUME NEW V, NEW f, Keyed(V, f), NEW k
  PROVE  IsFiniteSet(Below(V, f, k)) /\ Rank(V, f, k) \in Nat /\ Cardinality(V) \in Nat
<1>1. Below(V, f, k) \in SUBSET V
  BY DEF Below
<1> QED BY <1>1, FS_Subset, FS_CardinalityType DEF Keyed, Rank

\* Ranks are below the number of elements and ordered as the elements are.
LEMMA RankOrder ==
  ASSUME NEW V, NEW f, Keyed(V, f), NEW k \in V
  PROVE  /\ Rank(V, f, k) < Cardinality(V)
         /\ \A j \in V : f[j] < f[k] => Rank(V, f, j) < Rank(V, f, k)
<1> DEFINE U(x) == Below(V, f, x) \cup {x}
<1>1. ASSUME NEW x \in V
      PROVE  /\ IsFiniteSet(U(x))
             /\ Cardinality(U(x)) = Rank(V, f, x) + 1
             /\ U(x) \in SUBSET V
  <2>1. x \notin Below(V, f, x)
    BY DEF Below, Keyed
  <2>2. IsFiniteSet(Below(V, f, x)) /\ Below(V, f, x) \in SUBSET V
    BY BelowFinite DEF Below
  <2> QED BY <2>1, <2>2, FS_AddElement DEF Rank
<1>2. Rank(V, f, k) < Cardinality(V)
  <2>1. Cardinality(U(k)) <= Cardinality(V)
    BY <1>1, FS_Subset DEF Keyed
  <2>2. Cardinality(U(k)) = Rank(V, f, k) + 1
    BY <1>1
  <2>3. Rank(V, f, k) \in Nat /\ Cardinality(V) \in Nat
    BY BelowFinite
  <2> HIDE DEF U
  <2> QED BY <2>1, <2>2, <2>3
<1>3. ASSUME NEW j \in V, f[j] < f[k]
      PROVE  Rank(V, f, j) < Rank(V, f, k)
  <2>1. U(j) \in SUBSET Below(V, f, k)
    BY <1>3 DEF Below, Keyed
  <2>2. Cardinality(U(j)) <= Cardinality(Below(V, f, k))
    BY <2>1, BelowFinite, FS_Subset
  <2> QED BY <2>2, <1>1, BelowFinite DEF Rank
<1> QED BY <1>2, <1>3

\* Different elements have different ranks.
LEMMA RankInjective ==
  ASSUME NEW V, NEW f, Keyed(V, f), NEW j \in V, NEW k \in V,
         Rank(V, f, j) = Rank(V, f, k)
  PROVE  j = k
<1>1. ~(f[j] < f[k]) /\ ~(f[k] < f[j])
  BY RankOrder, BelowFinite
<1>2. f[j] = f[k]
  BY <1>1 DEF Keyed
<1> QED BY <1>2 DEF Keyed

\* There is an element of every rank.
LEMMA RankOnto ==
  ASSUME NEW V, NEW f, Keyed(V, f), NEW r \in 0..Cardinality(V) - 1
  PROVE  \E k \in V : Rank(V, f, k) = r
<1> DEFINE n == Cardinality(V)
           g == [k \in V |-> Rank(V, f, k)]
<1>1. n \in Nat
  BY BelowFinite
<1>2. g \in Injection(V, 0..n - 1)
  <2>1. g \in [V -> 0..n - 1]
    BY <1>1, RankOrder, BelowFinite
  <2>2. \A j, k \in V : g[j] = g[k] => j = k
    BY RankInjective
  <2> HIDE DEF g
  <2> QED BY <2>1, <2>2, Fun_IsInj
<1>3. IsFiniteSet(0..n - 1) /\ Cardinality(0..n - 1) = n
  <2>1. 0 \in Int /\ n - 1 \in Int
    BY <1>1
  <2> HIDE DEF n
  <2>2. /\ IsFiniteSet(0..n - 1)
        /\ Cardinality(0..n - 1) = IF 0 > n - 1 THEN 0 ELSE (n - 1) - 0 + 1
    BY <2>1, FS_Interval
  <2> QED BY <2>2, <1>1
<1>4. g \in Surjection(V, 0..n - 1)
  <2> HIDE DEF g
  <2> QED BY <1>2, <1>3, FS_Injection
<1>5. \E k \in V : g[k] = r
  <2>1. \A x \in 0..n - 1 : \E k \in V : g[k] = x
    <3> HIDE DEF g, n
    <3> QED BY <1>4, Fun_SurjectionProperties
  <2> QED BY <2>1
<1> QED BY <1>5

\* The element of a rank: what CHOOSE finds in Line.
LEMMA RankChosen ==
  ASSUME NEW V, NEW f, Keyed(V, f), NEW k \in V, NEW r, r = Rank(V, f, k)
  PROVE  (CHOOSE j \in V : Rank(V, f, j) = r) = k
  BY RankInjective

\* A new element above all others takes the last rank.
LEMMA RankAdded ==
  ASSUME NEW V, NEW f, Keyed(V, f), NEW k, k \notin V, NEW now \in Nat,
         \A j \in V : f[j] < now,
         NEW g, \A j \in V : g[j] = f[j], g[k] = now
  PROVE  /\ Keyed(V \cup {k}, g)
         /\ Rank(V \cup {k}, g, k) = Cardinality(V)
         /\ Cardinality(V \cup {k}) = Cardinality(V) + 1
         /\ \A j \in V : Rank(V \cup {k}, g, j) = Rank(V, f, j)
<1>1. IsFiniteSet(V \cup {k}) /\ Cardinality(V \cup {k}) = Cardinality(V) + 1
  BY FS_AddElement DEF Keyed
<1>2. Keyed(V \cup {k}, g)
  BY <1>1 DEF Keyed
<1>3. Below(V \cup {k}, g, k) = V
  BY DEF Below, Keyed
<1>4. ASSUME NEW j \in V
      PROVE  Below(V \cup {k}, g, j) = Below(V, f, j)
  BY DEF Below, Keyed
<1> QED BY <1>1, <1>2, <1>3, <1>4 DEF Rank

\* An element that is moved above all others takes the last rank, and those
\* that were above it move down by one.
LEMMA RankMoved ==
  ASSUME NEW V, NEW f, Keyed(V, f), NEW k \in V, NEW now \in Nat,
         \A j \in V : f[j] < now,
         NEW g, \A j \in V : j # k => g[j] = f[j], g[k] = now
  PROVE  /\ Keyed(V, g)
         /\ Rank(V, g, k) = Cardinality(V) - 1
         /\ \A j \in V : j # k =>
              Rank(V, g, j) = IF Rank(V, f, j) < Rank(V, f, k) THEN Rank(V, f, j)
                                                               ELSE Rank(V, f, j) - 1
<1>1. Keyed(V, g)
  BY DEF Keyed
<1>2. Rank(V, g, k) = Cardinality(V) - 1
  <2>1. Below(V, g, k) = V \ {k}
    BY DEF Below, Keyed
  <2> QED BY <2>1, FS_RemoveElement DEF Rank, Keyed
<1>3. ASSUME NEW j \in V, j # k
      PROVE  Rank(V, g, j) = IF Rank(V, f, j) < Rank(V, f, k) THEN Rank(V, f, j)
                                                              ELSE Rank(V, f, j) - 1
  <2>1. Below(V, g, j) = Below(V, f, j) \ {k}
    BY <1>3 DEF Below, Keyed
  <2>2. CASE f[j] < f[k]
    <3>1. k \notin Below(V, f, j)
      BY <2>2 DEF Below, Keyed
    <3>2. Rank(V, g, j) = Rank(V, f, j)
      BY <2>1, <3>1 DEF Rank
    <3> QED BY <2>2, <3>2, RankOrder
  <2>3. CASE f[k] < f[j]
    <3>1. k \in Below(V, f, j)
      BY <2>3 DEF Below
    <3>2. Rank(V, g, j) = Rank(V, f, j) - 1
      BY <2>1, <3>1, BelowFinite, FS_RemoveElement DEF Rank
    <3>3. Rank(V, f, k) < Rank(V, f, j)
      BY <2>3, RankOrder
    <3> QED BY <3>2, <3>3, BelowFinite
  <2> QED BY <1>3, <2>2, <2>3 DEF Keyed
<1> QED BY <1>1, <1>2, <1>3

-----------------------------------------------------------------------------
(* Lines: l holds the numbers of the blocks in V, of set i among N, by their *)
(* rank; s holds the tags.                                                   *)

Number(s, k, i, N) == s[k].tag * N + i

IsLine(l, V, f, s, i, N) ==
  /\ l = [n \in 1..Cardinality(V) |-> l[n]]
  /\ \A k \in V : l[Rank(V, f, k) + 1] = Number(s, k, i, N)

Times(i) == [k \in Slots |-> time(blocks[i][k])]

\* The blocks of a set have stamps to order them by.
LEMMA TimesKeyed ==
  ASSUME CacheInv, NEW i \in Sets
  PROVE  /\ Keyed(Valid(i), Times(i))
         /\ Valid(i) \in SUBSET Slots
         /\ \A k \in Valid(i) : Times(i)[k] < cycle_count
<1>1. IsFiniteSet(Slots)
  <2>1. vals.num_blocks_in_set \in Nat \ {0}
    BY SlotsExist DEF CacheInv, TypeOK
  <2>2. vals.num_blocks_in_set - 1 \in Int /\ 0 \in Int
    BY <2>1
  <2> QED BY <2>2, FS_Interval DEF Slots
<1>2. Valid(i) \in SUBSET Slots
  BY DEF Valid
<1>3. IsFiniteSet(Valid(i))
  BY <1>1, <1>2, FS_Subset
<1>4. \A k \in Valid(i) : Times(i)[k] = time(blocks[i][k])
  BY <1>2 DEF Times
<1>5. \A k \in Slots : time(blocks[i][k]) \in Nat
  <2>1. \A k \in Slots : blocks[i][k] \in BlockType
    BY DEF CacheInv, TypeOK
  <2> QED BY <2>1, TimeType
<1>6. \A k, j \in Valid(i) :
        /\ time(blocks[i][k]) < cycle_count
        /\ k # j => time(blocks[i][k]) # time(blocks[i][j])
  BY DEF CacheInv, StampsAreDistinct
<1>7. Keyed(Valid(i), Times(i))
  BY <1>2, <1>3, <1>4, <1>5, <1>6 DEF Keyed
<1> QED BY <1>2, <1>4, <1>6, <1>7

LinesRight ==
  \A i \in Sets : IsLine(Line(i), Valid(i), Times(i), blocks[i], i, vals.num_sets)

\* Line lists the blocks of a set by rank.
LEMMA LineByRank == CacheInv => LinesRight
<1> SUFFICES ASSUME CacheInv, NEW i \in Sets
             PROVE  IsLine(Line(i), Valid(i), Times(i), blocks[i], i, vals.num_sets)
  BY DEF LinesRight
<1> DEFINE V == Valid(i)
           f == Times(i)
           L == Line(i)
           C(k) == Cardinality({j \in V : time(blocks[i][j]) < time(blocks[i][k])})
<1>1. Keyed(V, f) /\ V \in SUBSET Slots
  BY TimesKeyed
<1>2. \A k \in V : C(k) = Rank(V, f, k)
  <2>1. ASSUME NEW k \in V
        PROVE  {j \in V : time(blocks[i][j]) < time(blocks[i][k])} = Below(V, f, k)
    BY <1>1 DEF Below, Times
  <2> QED BY <2>1 DEF Rank
<1>3. L = [n \in 1..Cardinality(V) |-> NumberOf(i, CHOOSE k \in V : C(k) = n - 1)]
  BY DEF Line
<1>4. L = [n \in 1..Cardinality(V) |-> L[n]]
  BY <1>3
<1>5. ASSUME NEW k \in V
      PROVE  L[Rank(V, f, k) + 1] = Number(blocks[i], k, i, vals.num_sets)
  <2> DEFINE n == Rank(V, f, k) + 1
  <2>1. n \in 1..Cardinality(V) /\ n - 1 = Rank(V, f, k)
    <3> HIDE DEF V, f
    <3> QED BY <1>1, RankOrder, BelowFinite
  <2>2. L[n] = NumberOf(i, CHOOSE j \in V : C(j) = n - 1)
    <3> HIDE DEF n, V, L, C
    <3> QED BY <1>3, <2>1
  <2>3. (CHOOSE j \in V : C(j) = n - 1) = k
    <3>1. ASSUME NEW j \in V, C(j) = n - 1
          PROVE  j = k
      <4>1. Rank(V, f, j) = Rank(V, f, k)
        <5> HIDE DEF V, f, n, C
        <5> QED BY <3>1, <2>1, <1>2
      <4> HIDE DEF V, f, n, C
      <4> QED BY <4>1, <1>1, RankInjective
    <3>2. C(k) = n - 1
      <4> HIDE DEF V, f, n, C
      <4> QED BY <2>1, <1>2
    <3> HIDE DEF V, f, n, C
    <3> QED BY <3>1, <3>2
  <2> QED BY <2>2, <2>3 DEF NumberOf, Number
<1> HIDE DEF V, f, L, C
<1>6. IsLine(L, V, f, blocks[i], i, vals.num_sets)
  BY <1>4, <1>5 DEF IsLine
<1> QED BY <1>6 DEF L, V, f

\* The same after a step.
LEMMA LineByRankNext == (CacheInv => LinesRight)'
  BY LineByRank, PTL

\* Two lines of blocks with the same tags in the same order are the same line.
LEMMA SameLine ==
  ASSUME NEW V, NEW f, Keyed(V, f), NEW s, NEW s2, NEW i, NEW N, NEW l, NEW l2,
         IsLine(l, V, f, s, i, N), IsLine(l2, V, f, s2, i, N),
         \A k \in V : s2[k].tag = s[k].tag
  PROVE  l2 = l
<1>1. Cardinality(V) \in Nat
  BY BelowFinite
<1>2. ASSUME NEW n \in 1..Cardinality(V)
      PROVE  l2[n] = l[n]
  <2>1. n - 1 \in 0..Cardinality(V) - 1 /\ (n - 1) + 1 = n
    BY <1>1
  <2>2. PICK k \in V : Rank(V, f, k) = n - 1
    BY <2>1, RankOnto
  <2>3. l[n] = Number(s, k, i, N) /\ l2[n] = Number(s2, k, i, N)
    BY <2>1, <2>2 DEF IsLine
  <2> QED BY <2>3 DEF Number
<1>3. /\ l = [n \in 1..Cardinality(V) |-> l[n]]
      /\ l2 = [n \in 1..Cardinality(V) |-> l2[n]]
  BY DEF IsLine
<1> QED BY <1>2, <1>3

\* A block stamped with the present goes to the end of its line, whatever tag
\* it has then.
LEMMA LineMoved ==
  ASSUME NEW V, NEW f, Keyed(V, f), NEW k \in V, NEW now \in Nat,
         \A j \in V : f[j] < now,
         NEW g, \A j \in V : j # k => g[j] = f[j], g[k] = now,
         NEW s, NEW s2, NEW i, NEW N, NEW l, NEW l2,
         IsLine(l, V, f, s, i, N), IsLine(l2, V, g, s2, i, N),
         \A j \in V : j # k => s2[j].tag = s[j].tag
  PROVE  l2 = [n \in 1..Cardinality(V) |->
                 IF n < Rank(V, f, k) + 1 THEN l[n]
                 ELSE IF n < Cardinality(V) THEN l[n + 1] ELSE Number(s2, k, i, N)]
<1> DEFINE c == Cardinality(V)
           p == Rank(V, f, k) + 1
           m == Number(s2, k, i, N)
<1>1. c \in Nat /\ p \in 1..c /\ Rank(V, f, k) \in Nat
  BY BelowFinite, RankOrder
<1>2. /\ Keyed(V, g)
      /\ Rank(V, g, k) = c - 1
      /\ \A j \in V : j # k =>
           Rank(V, g, j) = IF Rank(V, f, j) < Rank(V, f, k) THEN Rank(V, f, j)
                                                            ELSE Rank(V, f, j) - 1
  BY RankMoved
<1>3. ASSUME NEW n \in 1..c
      PROVE  l2[n] = IF n < p THEN l[n] ELSE IF n < c THEN l[n + 1] ELSE m
  <2>1. n - 1 \in 0..c - 1 /\ (n - 1) + 1 = n
    BY <1>1
  <2>2. PICK j \in V : Rank(V, g, j) = n - 1
    BY <2>1, <1>2, RankOnto
  <2>3. l2[n] = Number(s2, j, i, N)
    BY <2>1, <2>2 DEF IsLine
  <2>4. CASE j = k
    <3>1. n = c
      BY <2>1, <2>2, <2>4, <1>1, <1>2
    <3>2. ~(n < p) /\ ~(n < c)
      BY <3>1, <1>1
    <3> QED BY <3>2, <2>3, <2>4
  <2>5. CASE j # k
    <3>1. /\ l[Rank(V, f, j) + 1] = Number(s, j, i, N)
          /\ Number(s2, j, i, N) = Number(s, j, i, N)
      BY <2>5 DEF IsLine, Number
    <3>2. Rank(V, f, j) \in Nat /\ Rank(V, f, j) < c /\ Rank(V, f, j) # Rank(V, f, k)
      BY <2>5, RankInjective, RankOrder, BelowFinite
    <3>3. CASE Rank(V, f, j) < Rank(V, f, k)
      <4>1. Rank(V, f, j) = n - 1
        BY <1>2, <2>2, <2>5, <3>3
      <4>2. Rank(V, f, j) + 1 = n /\ n < p
        BY <4>1, <2>1, <3>3, <1>1
      <4> QED BY <4>2, <3>1, <2>3
    <3>4. CASE ~(Rank(V, f, j) < Rank(V, f, k))
      <4>1. Rank(V, f, j) - 1 = n - 1
        BY <1>2, <2>2, <2>5, <3>4
      <4>2. Rank(V, f, j) + 1 = n + 1 /\ ~(n < p) /\ n < c
        BY <4>1, <3>2, <3>4, <1>1
      <4> QED BY <4>2, <3>1, <2>3
    <3> QED BY <3>3, <3>4
  <2> QED BY <2>4, <2>5
<1>4. l2 = [n \in 1..c |-> l2[n]]
  BY DEF IsLine
<1> HIDE DEF c, p, m
<1>5. l2 = [n \in 1..c |-> IF n < p THEN l[n] ELSE IF n < c THEN l[n + 1] ELSE m]
  BY <1>3, <1>4
<1> QED BY <1>5 DEF c, p, m

\* A block in a slot that was free joins its line at the end.
LEMMA LineJoined ==
  ASSUME NEW V, NEW f, Keyed(V, f), NEW k, k \notin V, NEW now \in Nat,
         \A j \in V : f[j] < now,
         NEW g, \A j \in V : g[j] = f[j], g[k] = now,
         NEW s, NEW s2, NEW i, NEW N, NEW l, NEW l2,
         IsLine(l, V, f, s, i, N), IsLine(l2, V \cup {k}, g, s2, i, N),
         \A j \in V : s2[j].tag = s[j].tag
  PROVE  l2 = [n \in 1..Cardinality(V) + 1 |->
                 IF n <= Cardinality(V) THEN l[n] ELSE Number(s2, k, i, N)]
<1> DEFINE W == V \cup {k}
           c == Cardinality(V)
           m == Number(s2, k, i, N)
<1>1. c \in Nat
  BY BelowFinite
<1>2. /\ Keyed(W, g)
      /\ Rank(W, g, k) = c
      /\ Cardinality(W) = c + 1
      /\ \A j \in V : Rank(W, g, j) = Rank(V, f, j)
  BY RankAdded
<1>3. IsLine(l2, W, g, s2, i, N)
  OBVIOUS
<1>4. \A j \in W : j = k \/ j \in V
  OBVIOUS
<1> HIDE DEF W
<1>5. ASSUME NEW n \in 1..c + 1
      PROVE  l2[n] = IF n <= c THEN l[n] ELSE m
  <2>1. n - 1 \in 0..Cardinality(W) - 1 /\ (n - 1) + 1 = n
    BY <1>1, <1>2
  <2>2. PICK j \in W : Rank(W, g, j) = n - 1
    BY <2>1, <1>2, RankOnto
  <2>3. l2[n] = Number(s2, j, i, N)
    BY <2>1, <2>2, <1>3 DEF IsLine
  <2>4. CASE j = k
    <3>1. ~(n <= c)
      BY <2>1, <2>2, <2>4, <1>1, <1>2
    <3> QED BY <3>1, <2>3, <2>4
  <2>5. CASE j \in V
    <3>1. /\ l[Rank(V, f, j) + 1] = Number(s, j, i, N)
          /\ Number(s2, j, i, N) = Number(s, j, i, N)
      BY <2>5 DEF IsLine, Number
    <3>2. Rank(V, f, j) \in Nat /\ Rank(V, f, j) < c
      BY <2>5, RankOrder, BelowFinite
    <3>3. Rank(V, f, j) + 1 = n /\ n <= c
      BY <2>1, <2>2, <2>5, <3>2, <1>1, <1>2
    <3> QED BY <3>1, <3>3, <2>3
  <2> QED BY <2>4, <2>5, <1>4
<1>6. l2 = [n \in 1..c + 1 |-> l2[n]]
  BY <1>2, <1>3 DEF IsLine
<1> HIDE DEF c, m
<1>7. l2 = [n \in 1..c + 1 |-> IF n <= c THEN l[n] ELSE m]
  BY <1>5, <1>6
<1> QED BY <1>7 DEF c, m

-----------------------------------------------------------------------------
(* What the commands do to the lines *)

\* The valid blocks of a set and their stamps after a step, in terms of the
\* blocks alone.
LEMMA SetNext ==
  ASSUME UNCHANGED vals, NEW i
  PROVE  /\ Valid(i)' = ValidIn(blocks'[i])
         /\ Times(i)' = [k \in Slots |-> time(blocks'[i][k])]
<1>1. Slots' = Slots
  BY DEF Slots
<1>2. Valid(i)' = ValidIn(blocks'[i])
  BY <1>1 DEF Valid, ValidIn
<1>3. \A k \in Slots : time(blocks[i][k])' = time(blocks'[i][k])
  BY DEF time
<1>4. Times(i)' = [k \in Slots |-> time(blocks[i][k])']
  BY <1>1 DEF Times
<1> QED BY <1>2, <1>3, <1>4

\* The lines after a step, by rank.
LEMMA LinesNext ==
  ASSUME CacheInv', UNCHANGED vals, NEW i \in Sets
  PROVE  IsLine(Line(i)', Valid(i)', Times(i)', blocks'[i], i, vals.num_sets)
<1>1. LinesRight'
  BY LineByRankNext
<1>2. Sets' = Sets
  BY DEF Sets
<1>3. IsLine(Line(i)', Valid(i)', Times(i)', blocks'[i], i, vals'.num_sets)
  BY <1>1, <1>2 DEF LinesRight
<1> QED BY <1>3

\* A set whose blocks stay keeps its line.
LEMMA LineStays ==
  ASSUME CacheInv, CacheInv', UNCHANGED vals, NEW i \in Sets, blocks'[i] = blocks[i]
  PROVE  Line(i)' = Line(i)
<1>1. Valid(i)' = Valid(i) /\ Times(i)' = Times(i)
  BY SetNext DEF Valid, ValidIn, Times
<1>2. IsLine(Line(i)', Valid(i), Times(i), blocks[i], i, vals.num_sets)
  BY <1>1, LinesNext
<1>3. IsLine(Line(i), Valid(i), Times(i), blocks[i], i, vals.num_sets)
  BY LineByRank DEF LinesRight
<1> QED BY <1>2, <1>3, TimesKeyed, SameLine

\* A hit moves its block to the end of the line under lru and nothing under
\* fifo.
LEMMA HitLine ==
  ASSUME CacheInv, CacheInv', UNCHANGED vals, NEW i \in Sets, NEW k \in Valid(i),
         NEW b \in BlockType, blocks'[i] = [blocks[i] EXCEPT ![k] = b],
         b.tag = blocks[i][k].tag, b.valid = blocks[i][k].valid,
         time(b) = IF vals.lru_state THEN cycle_count ELSE time(blocks[i][k])
  PROVE  Line(i)' = IF vals.lru_state
                    THEN [n \in 1..Cardinality(Valid(i)) |->
                            IF n < Rank(Valid(i), Times(i), k) + 1 THEN Line(i)[n]
                            ELSE IF n < Cardinality(Valid(i)) THEN Line(i)[n + 1]
                            ELSE Number(blocks[i], k, i, vals.num_sets)]
                    ELSE Line(i)
<1> DEFINE s == blocks[i]
           s2 == blocks'[i]
           V == Valid(i)
           f == Times(i)
           g == Times(i)'
<1>1. s \in [Slots -> BlockType] /\ k \in Slots /\ V \in SUBSET Slots
  BY DEF CacheInv, TypeOK, Valid
<1>2. s2[k] = b /\ \A j \in Slots : j # k => s2[j] = s[j]
  BY <1>1
<1>3. Valid(i)' = V
  <2>1. \A j \in Slots : s2[j].valid = s[j].valid
    BY <1>2
  <2> QED BY <2>1, SetNext DEF Valid, ValidIn
<1>4. IsLine(Line(i)', V, g, s2, i, vals.num_sets)
  BY <1>3, LinesNext
<1>5. IsLine(Line(i), V, f, s, i, vals.num_sets)
  BY LineByRank DEF LinesRight
<1>6. \A j \in V : s2[j].tag = s[j].tag
  BY <1>1, <1>2
<1>7. Keyed(V, f) /\ \A j \in V : f[j] < cycle_count
  BY TimesKeyed
<1>8. /\ f = [j \in Slots |-> time(s[j])]
      /\ g = [j \in Slots |-> time(s2[j])]
  BY SetNext DEF Times
<1>9. cycle_count \in Nat
  BY AddressAssumption DEF CacheInv, TypeOK, Stamps
<1>10. b.tag = s[k].tag /\ time(b) = IF vals.lru_state THEN cycle_count ELSE time(s[k])
  OBVIOUS
<1>11. k \in V
  OBVIOUS
<1> HIDE DEF s, s2, V, f, g
<1>12. CASE vals.lru_state
  <2>1. g[k] = cycle_count /\ \A j \in V : j # k => g[j] = f[j]
    BY <1>1, <1>2, <1>8, <1>10, <1>12
  <2>2. \A j \in V : j # k => s2[j].tag = s[j].tag
    BY <1>6
  <2>3. Line(i)' = [n \in 1..Cardinality(V) |->
                      IF n < Rank(V, f, k) + 1 THEN Line(i)[n]
                      ELSE IF n < Cardinality(V) THEN Line(i)[n + 1]
                      ELSE Number(s2, k, i, vals.num_sets)]
    BY <1>4, <1>5, <1>7, <1>9, <1>11, <2>1, <2>2, LineMoved
  <2>4. Number(s2, k, i, vals.num_sets) = Number(s, k, i, vals.num_sets)
    BY <1>6, <1>11 DEF Number
  <2> QED BY <2>3, <2>4, <1>12 DEF s, V, f
<1>13. CASE ~vals.lru_state
  <2>1. \A j \in Slots : time(s2[j]) = time(s[j])
    BY <1>2, <1>10, <1>13
  <2>2. g = f
    BY <2>1, <1>8
  <2>3. Line(i)' = Line(i)
    BY <1>4, <1>5, <1>6, <1>7, <2>2, SameLine
  <2> QED BY <2>3, <1>13
<1> QED BY <1>12, <1>13

\* A fill puts its block at the end of the line, from which the first block
\* goes if the set is full.
LEMMA FillLine ==
  ASSUME CacheInv, CacheInv', UNCHANGED vals, NEW i \in Sets, NEW k, k = NewSlot(i),
         NEW b \in BlockType, blocks'[i] = [blocks[i] EXCEPT ![k] = b],
         b.valid, time(b) = cycle_count
  PROVE  LET c == Cardinality(Valid(i))
             m == b.tag * vals.num_sets + i
         IN  /\ c \in Nat
             /\ Full(i) => /\ c = vals.num_blocks_in_set
                           /\ Line(i)' = [n \in 1..c |-> IF n < c THEN Line(i)[n + 1] ELSE m]
             /\ ~Full(i) => /\ c # vals.num_blocks_in_set
                            /\ Line(i)' = [n \in 1..c + 1 |-> IF n <= c THEN Line(i)[n] ELSE m]
<1> DEFINE s == blocks[i]
           s2 == blocks'[i]
           V == Valid(i)
           f == Times(i)
           g == Times(i)'
           c == Cardinality(V)
           m == b.tag * vals.num_sets + i
<1>1. /\ s \in [Slots -> BlockType] /\ V \in SUBSET Slots
      /\ \A j \in Slots : j \in V <=> s[j].valid
  BY DEF CacheInv, TypeOK, Valid
<1>2. /\ k \in Slots
      /\ ~Full(i) => ~s[k].valid
      /\ Full(i) => s[k].valid /\ \A j \in Slots : time(s[k]) <= time(s[j])
  BY NewSlotFound DEF CacheInv
<1>3. s2[k] = b /\ \A j \in Slots : j # k => s2[j] = s[j]
  BY <1>1, <1>2
<1>4. Valid(i)' = V \cup {k}
  <2>1. Valid(i)' = {j \in Slots : s2[j].valid}
    BY SetNext DEF ValidIn
  <2> HIDE DEF s2, s, V
  <2> QED BY <1>1, <1>2, <1>3, <2>1
<1>5. IsLine(Line(i)', V \cup {k}, g, s2, i, vals.num_sets)
  BY <1>4, LinesNext
<1>6. IsLine(Line(i), V, f, s, i, vals.num_sets)
  BY LineByRank DEF LinesRight
<1>7. Keyed(V, f) /\ (\A j \in V : f[j] < cycle_count)
  BY TimesKeyed
<1>8. /\ f = [j \in Slots |-> time(s[j])]
      /\ g = [j \in Slots |-> time(s2[j])]
  BY SetNext DEF Times
<1>9. cycle_count \in Nat
  BY AddressAssumption DEF CacheInv, TypeOK, Stamps
<1>10. time(b) = cycle_count /\ \A x : x = b => x.tag = b.tag
  OBVIOUS
<1>11. /\ IsFiniteSet(Slots) /\ Cardinality(Slots) = vals.num_blocks_in_set
  <2>1. vals.num_blocks_in_set \in Nat \ {0}
    BY SlotsExist DEF CacheInv, TypeOK
  <2> DEFINE h == vals.num_blocks_in_set - 1
  <2>2. h \in Int /\ 0 \in Int /\ ~(0 > h) /\ h - 0 + 1 = vals.num_blocks_in_set
    BY <2>1
  <2>3. Slots = 0..h
    BY DEF Slots
  <2> HIDE DEF h
  <2> QED BY <2>2, <2>3, FS_Interval
<1>12. Full(i) <=> V = Slots
  BY <1>1 DEF Full, FreeSlots
<1>13. c \in Nat /\ (c = vals.num_blocks_in_set <=> V = Slots)
  <2>1. c \in Nat
    BY <1>7, BelowFinite
  <2>2. Cardinality(Slots) = c => V = Slots
    <3> HIDE DEF V
    <3> QED BY <1>1, <1>11, FS_Subset
  <2> QED BY <2>1, <2>2, <1>11
<1> HIDE DEF s, s2, V, f, g
<1>14. Number(s2, k, i, vals.num_sets) = m
  BY <1>3 DEF Number
<1>15. g[k] = cycle_count /\ \A j \in V : j # k => g[j] = f[j]
  BY <1>1, <1>2, <1>3, <1>8, <1>10
<1>16. \A j \in V : j # k => s2[j].tag = s[j].tag
  BY <1>1, <1>3
<1>17. CASE Full(i)
  <2>1. k \in V /\ V \cup {k} = V
    BY <1>1, <1>2, <1>17
  <2>2. IsLine(Line(i)', V, g, s2, i, vals.num_sets)
    BY <2>1, <1>5
  <2>3. Below(V, f, k) = {}
    <3>1. ASSUME NEW j \in V
          PROVE  ~(f[j] < f[k])
      <4>1. f[k] <= f[j]
        BY <1>1, <1>2, <1>8, <1>17
      <4>2. f[k] \in Nat /\ f[j] \in Nat
        BY <2>1, <1>7 DEF Keyed
      <4> QED BY <4>1, <4>2
    <3> QED BY <3>1 DEF Below
  <2>4. Rank(V, f, k) = 0
    BY <2>3, FS_EmptySet DEF Rank
  <2>5. Line(i)' = [n \in 1..c |->
                      IF n < Rank(V, f, k) + 1 THEN Line(i)[n]
                      ELSE IF n < c THEN Line(i)[n + 1]
                      ELSE Number(s2, k, i, vals.num_sets)]
    BY <1>6, <1>7, <1>9, <1>15, <1>16, <2>1, <2>2, LineMoved
  <2>6. \A n \in 1..c : ~(n < 0 + 1)
    BY <1>13
  <2> HIDE DEF c, m
  <2>7. Line(i)' = [n \in 1..c |-> IF n < c THEN Line(i)[n + 1] ELSE m]
    BY <2>4, <2>5, <2>6, <1>14
  <2> QED BY <2>7, <1>12, <1>13, <1>17 DEF c, m, V
<1>18. CASE ~Full(i)
  <2>1. k \notin V
    BY <1>1, <1>2, <1>18
  <2>2. /\ \A j \in V : g[j] = f[j]
        /\ \A j \in V : s2[j].tag = s[j].tag
        /\ g[k] = cycle_count
    BY <2>1, <1>15, <1>16
  <2>3. /\ Keyed(V, f) /\ (\A j \in V : f[j] < cycle_count)
        /\ IsLine(Line(i), V, f, s, i, vals.num_sets)
        /\ IsLine(Line(i)', V \cup {k}, g, s2, i, vals.num_sets)
    BY <1>5, <1>6, <1>7
  <2>4. Line(i)' = [n \in 1..c + 1 |->
                      IF n <= c THEN Line(i)[n] ELSE Number(s2, k, i, vals.num_sets)]
    BY <1>9, <2>1, <2>2, <2>3, LineJoined
  <2> HIDE DEF c, m
  <2>5. Line(i)' = [n \in 1..c + 1 |-> IF n <= c THEN Line(i)[n] ELSE m]
    BY <2>4, <1>14
  <2> QED BY <2>5, <1>12, <1>13, <1>18 DEF c, m, V
<1> QED BY <1>17, <1>18

-----------------------------------------------------------------------------
(* The lines as the policy sees them *)

\* Functions on the numbers up to c as sequences.
LEMMA AppendOf ==
  ASSUME NEW c \in Nat, NEW l, l = [n \in 1..c |-> l[n]], NEW m
  PROVE  /\ Len(l) = c
         /\ Append(l, m) = [n \in 1..c + 1 |-> IF n <= c THEN l[n] ELSE m]
<1> DEFINE S == {l[n] : n \in 1..c} \cup {m}
<1>1. l \in [1..c -> S]
  OBVIOUS
<1> HIDE DEF S
<1>2. l \in Seq(S) /\ Len(l) = c
  BY <1>1
<1>3. m \in S
  BY DEF S
<1>4. Append(l, m) = [n \in 1..c + 1 |-> IF n <= c THEN l[n] ELSE m]
  BY <1>2, <1>3
<1> QED BY <1>2, <1>4

\* Dropping the first element and adding one at the end.
LEMMA TailOf ==
  ASSUME NEW c \in Nat, c > 0, NEW l, l = [n \in 1..c |-> l[n]], NEW m
  PROVE  Append(Tail(l), m) = [n \in 1..c |-> IF n < c THEN l[n + 1] ELSE m]
<1> DEFINE S == {l[n] : n \in 1..c}
           t == Tail(l)
<1>1. l \in [1..c -> S]
  OBVIOUS
<1> HIDE DEF S
<1>2. l \in Seq(S) /\ Len(l) = c
  BY <1>1
<1>3. t \in Seq(S) /\ Len(t) = c - 1 /\ \A n \in 1..c - 1 : t[n] = l[n + 1]
  BY <1>2
<1> HIDE DEF t
<1>4. c - 1 \in Nat /\ t = [n \in 1..c - 1 |-> t[n]]
  BY <1>3
<1>5. Append(t, m) = [n \in 1..(c - 1) + 1 |-> IF n <= c - 1 THEN t[n] ELSE m]
  BY <1>4, AppendOf
<1>6. (c - 1) + 1 = c /\ \A n \in 1..c : (n <= c - 1 <=> n < c) /\ (n < c => n \in 1..c - 1)
  OBVIOUS
<1>7. \A n \in 1..c : (IF n <= c - 1 THEN t[n] ELSE m) = IF n < c THEN l[n + 1] ELSE m
  BY <1>3, <1>6
<1> QED BY <1>5, <1>6, <1>7 DEF t

\* The line of a set: its length and its blocks.
LEMMA LineBlocks ==
  ASSUME CacheInv, NEW i \in Sets
  PROVE  /\ Cardinality(Valid(i)) \in Nat
         /\ Line(i) = [n \in 1..Cardinality(Valid(i)) |-> Line(i)[n]]
         /\ Len(Line(i)) = Cardinality(Valid(i))
         /\ \A k \in Valid(i) :
              /\ Rank(Valid(i), Times(i), k) + 1 \in 1..Cardinality(Valid(i))
              /\ Line(i)[Rank(Valid(i), Times(i), k) + 1] = Number(blocks[i], k, i, vals.num_sets)
         /\ \A n \in 1..Cardinality(Valid(i)) :
              \E k \in Valid(i) : n = Rank(Valid(i), Times(i), k) + 1
<1> DEFINE V == Valid(i)
           f == Times(i)
           l == Line(i)
<1>1. Keyed(V, f)
  BY TimesKeyed
<1>2. IsLine(l, V, f, blocks[i], i, vals.num_sets)
  BY LineByRank DEF LinesRight
<1> SUFFICES /\ Cardinality(V) \in Nat
             /\ l = [n \in 1..Cardinality(V) |-> l[n]]
             /\ Len(l) = Cardinality(V)
             /\ \A k \in V :
                  /\ Rank(V, f, k) + 1 \in 1..Cardinality(V)
                  /\ l[Rank(V, f, k) + 1] = Number(blocks[i], k, i, vals.num_sets)
             /\ \A n \in 1..Cardinality(V) : \E k \in V : n = Rank(V, f, k) + 1
  OBVIOUS
<1> HIDE DEF V, f, l
<1>3. Cardinality(V) \in Nat /\ \A k \in V : Rank(V, f, k) \in Nat /\ Rank(V, f, k) < Cardinality(V)
  BY <1>1, BelowFinite, RankOrder
<1>4. l = [n \in 1..Cardinality(V) |-> l[n]]
  BY <1>2 DEF IsLine
<1>5. Len(l) = Cardinality(V)
  BY <1>3, <1>4, AppendOf
<1>6. ASSUME NEW n \in 1..Cardinality(V)
      PROVE  \E k \in V : n = Rank(V, f, k) + 1
  <2>1. n - 1 \in 0..Cardinality(V) - 1
    BY <1>3
  <2>2. PICK k \in V : Rank(V, f, k) = n - 1
    BY <2>1, <1>1, RankOnto
  <2> QED BY <2>2, <1>3
<1>7. \A k \in V : Rank(V, f, k) + 1 \in 1..Cardinality(V)
  BY <1>3
<1>8. \A k \in V : l[Rank(V, f, k) + 1] = Number(blocks[i], k, i, vals.num_sets)
  BY <1>2 DEF IsLine
<1> QED BY <1>3, <1>4, <1>5, <1>6, <1>7, <1>8

\* Of the blocks of a set exactly the one with the address's tag has the number
\* of the address's block.
LEMMA NumberByTag ==
  ASSUME CacheInv, NEW a \in Address, NEW t \in Tags
  PROVE  t * vals.num_sets + Index(a) = a \div vals.bytes <=> t = Tag(a)
<1>1. vals \in Configurations
  BY DEF CacheInv, TypeOK
<1>2. Tag(a) \in Tags /\ Index(a) \in Sets
  BY <1>1, AddressParts
<1>3. a \div vals.bytes = Tag(a) * vals.num_sets + Index(a)
  BY <1>1, BlockNumber
<1>4. PICK j \in 0..AddressBits : vals.num_sets = pow2[j]
  BY <1>1, Geometry
<1>5. vals.num_sets \in Nat \ {0}
  BY <1>4, AddressAssumption, Pow2Positive DEF Exponents
<1> DEFINE N == vals.num_sets
           T == Tag(a)
           x == Index(a)
<1>6. N \in Nat \ {0} /\ T \in Nat /\ t \in Nat /\ x \in Nat
  BY <1>2, <1>5 DEF Tags, Sets
<1> SUFFICES t * N + x = T * N + x <=> t = T
  BY <1>3
<1> HIDE DEF N, T, x
<1>7. ASSUME t * N + x = T * N + x
      PROVE  t = T
  <2>1. t * N \in Nat /\ T * N \in Nat
    BY <1>6
  <2>2. t * N = T * N
    BY <2>1, <1>6, <1>7
  <2>3. (N * t) \div N = t /\ (N * T) \div N = T
    BY <1>6, ProductDivided
  <2>4. N * t = t * N /\ N * T = T * N
    BY <1>6
  <2> QED BY <2>2, <2>3, <2>4
<1> QED BY <1>7

AbstractLines == [i \in Sets |-> Line(i)]

\* A block is cached exactly if block_exists finds it.
LEMMA CachedMeansFound ==
  ASSUME CacheInv, NEW a \in Address
  PROVE  /\ Index(a) \in Sets
         /\ Policy!SetOf(a \div vals.bytes) = Index(a)
         /\ Policy!Cached(a \div vals.bytes) <=> block_exists(a)
<1> DEFINE i == Index(a)
           b == a \div vals.bytes
           V == Valid(i)
           f == Times(i)
           l == Line(i)
<1>1. vals \in Configurations
  BY DEF CacheInv, TypeOK
<1>2. i \in Sets
  BY <1>1, AddressParts
<1>3. Policy!SetOf(b) = i
  BY <1>1, BlockNumber DEF Policy!SetOf
<1>4. Policy!Cached(b) <=> \E j \in 1..Len(l) : l[j] = b
  <2>1. AbstractLines[i] = l
    BY <1>2 DEF AbstractLines
  <2>2. Policy!Cached(b) <=>
          \E j \in 1..Len(AbstractLines[Policy!SetOf(b)]) :
            AbstractLines[Policy!SetOf(b)][j] = b
    BY DEF Policy!Cached, AbstractLines
  <2> HIDE DEF b, i, l
  <2> QED BY <2>1, <2>2, <1>3
<1>5. \A k \in V : Number(blocks[i], k, i, vals.num_sets) = b <=> blocks[i][k].tag = Tag(a)
  <2>1. TAKE k \in V
  <2>2. blocks[i][k].tag \in Tags
    BY <1>2 DEF CacheInv, TypeOK, Valid, BlockType
  <2> QED BY <2>2, NumberByTag DEF Number
<1>6. (\E j \in 1..Len(l) : l[j] = b) <=> \E k \in V : blocks[i][k].tag = Tag(a)
  <2>1. /\ Len(l) = Cardinality(V)
        /\ \A k \in V :
             /\ Rank(V, f, k) + 1 \in 1..Cardinality(V)
             /\ l[Rank(V, f, k) + 1] = Number(blocks[i], k, i, vals.num_sets)
        /\ \A n \in 1..Cardinality(V) : \E k \in V : n = Rank(V, f, k) + 1
    BY <1>2, LineBlocks
  <2> HIDE DEF i, b, V, f, l
  <2>2. ASSUME NEW j \in 1..Len(l), l[j] = b
        PROVE  \E k \in V : blocks[i][k].tag = Tag(a)
    <3>1. PICK k \in V : j = Rank(V, f, k) + 1
      BY <2>1
    <3>2. Number(blocks[i], k, i, vals.num_sets) = b
      BY <2>1, <2>2, <3>1
    <3> QED BY <3>2, <1>5
  <2>3. ASSUME NEW k \in V, blocks[i][k].tag = Tag(a)
        PROVE  \E j \in 1..Len(l) : l[j] = b
    <3>1. Number(blocks[i], k, i, vals.num_sets) = b
      BY <2>3, <1>5
    <3>2. Rank(V, f, k) + 1 \in 1..Len(l) /\ l[Rank(V, f, k) + 1] = b
      BY <2>1, <3>1
    <3> QED BY <3>2
  <2> QED BY <2>2, <2>3
<1>7. (\E k \in V : blocks[i][k].tag = Tag(a)) <=> block_exists(a)
  <2>1. /\ \A t \in DOMAIN block_pointer[i] :
             block_pointer[i][t] \in V /\ blocks[i][block_pointer[i][t]].tag = t
        /\ \A k \in V : blocks[i][k].tag \in DOMAIN block_pointer[i]
    BY <1>2 DEF CacheInv, PointersFindBlocks
  <2> QED BY <2>1 DEF block_exists
<1> QED BY <1>2, <1>3, <1>4, <1>6, <1>7

\* The line l of length c holds b at place p and nowhere else.
OnlyAt(l, c, b, p) ==
  /\ c \in Nat
  /\ l = [n \in 1..c |-> l[n]]
  /\ p \in 1..c
  /\ l[p] = b
  /\ \A n \in 1..c : l[n] = b => n = p

\* The policy's way of moving a block to the end of its line.
LEMMA ToEndIs ==
  ASSUME NEW c, NEW l, NEW p, NEW b, OnlyAt(l, c, b, p)
  PROVE  Policy!ToEnd(l, b) =
           [n \in 1..c |-> IF n < p THEN l[n] ELSE IF n < c THEN l[n + 1] ELSE b]
<1>0. /\ c \in Nat /\ l = [n \in 1..c |-> l[n]] /\ p \in 1..c /\ l[p] = b
      /\ \A n \in 1..c : l[n] = b => n = p
  BY DEF OnlyAt
<1>1. Len(l) = c
  BY <1>0, AppendOf
<1>2. Policy!Place(l, b) = p
  <2>1. p \in 1..Len(l) /\ l[p] = b /\ \A n \in 1..Len(l) : l[n] = b => n = p
    BY <1>0, <1>1
  <2> QED BY <2>1 DEF Policy!Place
<1> DEFINE w == [n \in 1..c - 1 |-> IF n < p THEN l[n] ELSE l[n + 1]]
<1>3. Policy!Without(l, b) = w
  BY <1>1, <1>2 DEF Policy!Without
<1>4. c - 1 \in Nat /\ w = [n \in 1..c - 1 |-> w[n]]
  BY <1>0
<1>5. \A n \in 1..c - 1 : w[n] = IF n < p THEN l[n] ELSE l[n + 1]
  OBVIOUS
<1> HIDE DEF w
<1>6. Append(w, b) = [n \in 1..(c - 1) + 1 |-> IF n <= c - 1 THEN w[n] ELSE b]
  BY <1>4, AppendOf
<1>7. (c - 1) + 1 = c
  BY <1>0
<1>8. ASSUME NEW n \in 1..c
      PROVE  (IF n <= c - 1 THEN w[n] ELSE b)
               = IF n < p THEN l[n] ELSE IF n < c THEN l[n + 1] ELSE b
  <2>1. CASE n <= c - 1
    <3>1. n \in 1..c - 1 /\ n < c
      BY <1>0, <2>1
    <3> QED BY <3>1, <2>1, <1>5
  <2>2. CASE ~(n <= c - 1)
    <3>1. n = c /\ ~(n < p) /\ ~(n < c)
      BY <1>0, <2>2
    <3> QED BY <3>1, <2>2
  <2> QED BY <2>1, <2>2
<1>9. Append(w, b) = [n \in 1..c |-> IF n < p THEN l[n] ELSE IF n < c THEN l[n + 1] ELSE b]
  BY <1>6, <1>7, <1>8
<1> QED BY <1>3, <1>9 DEF Policy!ToEnd

-----------------------------------------------------------------------------
(* The simulator implements the policy *)

\* Access, hits and misses as the policy sees them.
LEMMA PolicyUnchanged ==
  ASSUME UNCHANGED vals, UNCHANGED line, stat' = stat, \A i \in Sets : Line(i)' = Line(i)
  PROVE  UNCHANGED Policy!vars
<1>1. Sets' = Sets
  BY DEF Sets
<1>2. [i \in Sets |-> Line(i)]' = [i \in Sets |-> Line(i)]
  BY <1>1
<1> QED BY <1>2 DEF Policy!vars

\* If the line of every set stays, so do the lines.
LEMMA LinesUnchanged ==
  ASSUME UNCHANGED vals, \A i \in Sets : Line(i)' = Line(i)
  PROVE  AbstractLines' = AbstractLines
<1>1. Sets' = Sets
  BY DEF Sets
<1> QED BY <1>1 DEF AbstractLines

\* If the line of one set changes, the lines change there.
LEMMA LinesChanged ==
  ASSUME UNCHANGED vals, NEW i \in Sets, NEW l, Line(i)' = l,
         \A j \in Sets : j # i => Line(j)' = Line(j)
  PROVE  AbstractLines' = [AbstractLines EXCEPT ![i] = l]
<1>1. Sets' = Sets
  BY DEF Sets
<1>2. AbstractLines' = [j \in Sets |-> Line(j)']
  BY <1>1 DEF AbstractLines
<1>3. [AbstractLines EXCEPT ![i] = l] = [j \in Sets |-> IF j = i THEN l ELSE Line(j)]
  BY DEF AbstractLines
<1> QED BY <1>2, <1>3

\* A command that finds its block uses it.
LEMMA HitUses ==
  ASSUME CacheInv, CacheInv', UNCHANGED vals, NEW a \in Address, block_exists(a),
         NEW b \in BlockType,
         b.tag = blocks[Index(a)][Where(a)].tag,
         b.valid = blocks[Index(a)][Where(a)].valid,
         time(b) = IF vals.lru_state THEN cycle_count
                                     ELSE time(blocks[Index(a)][Where(a)]),
         blocks' = [blocks EXCEPT ![Index(a)][Where(a)] = b],
         stat'.load_hit + stat'.store_hit = stat.load_hit + stat.store_hit + 1,
         stat'.load_miss + stat'.store_miss = stat.load_miss + stat.store_miss
  PROVE  Policy!Use(a \div vals.bytes)
<1>0. PICK i \in Sets : i = Index(a)
  BY CachedMeansFound
<1> DEFINE n == a \div vals.bytes
           k == Where(a)
           V == Valid(i)
           f == Times(i)
           c == Cardinality(V)
           p == Rank(V, f, k) + 1
           l == Line(i)
<1>1. i \in Sets /\ Policy!SetOf(n) = i /\ Policy!Cached(n)
  BY <1>0, CachedMeansFound
<1>2. k \in V /\ blocks[i][k].tag = Tag(a)
  BY <1>0 DEF block_exists, Where, CacheInv, PointersFindBlocks
<1>3. /\ blocks \in [Sets -> [Slots -> BlockType]]
      /\ k \in Slots
  BY <1>2 DEF CacheInv, TypeOK, Valid
<1>4. /\ blocks'[i] = [blocks[i] EXCEPT ![k] = b]
      /\ \A j \in Sets : j # i => blocks'[j] = blocks[j]
  <2> DEFINE s2 == [blocks[i] EXCEPT ![k] = b]
  <2>1. blocks' = [blocks EXCEPT ![i] = s2]
    BY <1>0
  <2>2. SUFFICES blocks'[i] = s2 /\ \A j \in Sets : j # i => blocks'[j] = blocks[j]
    OBVIOUS
  <2> HIDE DEF s2, k
  <2> QED BY <2>1, <1>1, <1>3
<1>5. \A j \in Sets : j # i => Line(j)' = Line(j)
  BY <1>4, LineStays
<1>6. Number(blocks[i], k, i, vals.num_sets) = n
  <2>1. blocks[i][k].tag \in Tags
    BY <1>1, <1>2, <1>3 DEF BlockType
  <2> QED BY <2>1, <1>0, <1>2, NumberByTag DEF Number
<1>7. Line(i)' = IF vals.lru_state
                 THEN [x \in 1..c |-> IF x < p THEN l[x] ELSE IF x < c THEN l[x + 1] ELSE n]
                 ELSE l
  <2>1. /\ k \in Valid(i)
        /\ b.tag = blocks[i][k].tag /\ b.valid = blocks[i][k].valid
        /\ time(b) = IF vals.lru_state THEN cycle_count ELSE time(blocks[i][k])
    BY <1>0, <1>2
  <2> HIDE DEF k, n
  <2>2. Line(i)' = IF vals.lru_state
                   THEN [x \in 1..Cardinality(Valid(i)) |->
                            IF x < Rank(Valid(i), Times(i), k) + 1 THEN Line(i)[x]
                            ELSE IF x < Cardinality(Valid(i)) THEN Line(i)[x + 1]
                            ELSE Number(blocks[i], k, i, vals.num_sets)]
                   ELSE Line(i)
    BY <1>1, <1>4, <2>1, HitLine
  <2> QED BY <2>2, <1>6
<1>8. Policy!ToEnd(l, n) =
        [x \in 1..c |-> IF x < p THEN l[x] ELSE IF x < c THEN l[x + 1] ELSE n]
  <2>1. /\ c \in Nat /\ l = [x \in 1..c |-> l[x]]
        /\ \A j \in V : /\ Rank(V, f, j) + 1 \in 1..c
                        /\ l[Rank(V, f, j) + 1] = Number(blocks[i], j, i, vals.num_sets)
        /\ \A x \in 1..c : \E j \in V : x = Rank(V, f, j) + 1
    BY <1>1, LineBlocks
  <2>2. ASSUME NEW j \in V, Number(blocks[i], j, i, vals.num_sets) = n
        PROVE  j = k
    <3>1. blocks[i][j].tag \in Tags
      BY <1>1, <1>3 DEF BlockType, Valid
    <3>2. blocks[i][j].tag = Tag(a)
      BY <3>1, <2>2, <1>0, NumberByTag DEF Number
    <3>3. \A x \in V : block_pointer[i][blocks[i][x].tag] = x
      BY <1>1 DEF CacheInv, PointersFindBlocks
    <3> QED BY <3>2, <3>3, <1>2
  <2>3. p \in 1..c /\ l[p] = n
    BY <1>2, <1>6, <2>1
  <2>4. ASSUME NEW x \in 1..c, l[x] = n
        PROVE  x = p
    <3>1. PICK j \in V : x = Rank(V, f, j) + 1
      BY <2>1
    <3>2. Number(blocks[i], j, i, vals.num_sets) = n
      BY <3>1, <2>1, <2>4
    <3>3. j = k
      BY <3>2, <2>2
    <3> QED BY <3>1, <3>3
  <2> HIDE DEF c, l, p, n
  <2>5. OnlyAt(l, c, n, p)
    BY <2>1, <2>3, <2>4 DEF OnlyAt
  <2> QED BY <2>5, ToEndIs
<1>9. Line(i)' = IF vals.lru_state THEN Policy!ToEnd(l, n) ELSE l
  BY <1>7, <1>8
<1>10. AbstractLines' = IF vals.lru_state
                        THEN [AbstractLines EXCEPT ![i] = Policy!ToEnd(@, n)]
                        ELSE AbstractLines
  <2>1. AbstractLines[i] = l
    BY <1>1 DEF AbstractLines
  <2> HIDE DEF n, l
  <2>2. CASE vals.lru_state
    <3>1. Line(i)' = Policy!ToEnd(l, n)
      BY <2>2, <1>9
    <3> QED BY <2>1, <2>2, <3>1, <1>1, <1>5, LinesChanged
  <2>3. CASE ~vals.lru_state
    <3>1. Line(i)' = Line(i)
      BY <2>3, <1>9 DEF l
    <3> QED BY <2>3, <3>1, <1>5, LinesUnchanged
  <2> QED BY <2>2, <2>3
<1> HIDE DEF n, l, V, f, c, p, k
<1>11. Policy!Use(n)
  BY <1>1, <1>10 DEF Policy!Use, AbstractLines
<1> QED BY <1>11 DEF n

\* The stamp of a block that is used.
LEMMA TouchedTime ==
  ASSUME NEW b \in BlockType, cycle_count \in Stamps
  PROVE  time(Touched(b)) = IF vals.lru_state THEN cycle_count ELSE time(b)
<1>1. CASE vals.lru_state
  BY <1>1, StampedBlock DEF Touched
<1>2. CASE ~vals.lru_state
  BY <1>2 DEF Touched
<1> QED BY <1>1, <1>2

\* A command that brings its block in does as the policy does.
LEMMA FillBrings ==
  ASSUME CacheInv, CacheInv', UNCHANGED vals, NEW a \in Address, ~block_exists(a),
         NEW d \in BOOLEAN, Fill(a, d), CountsMiss
  PROVE  Policy!Bring(a \div vals.bytes)
<1>1. PICK i \in Sets : i = Index(a)
  BY CachedMeansFound
<1>2. PICK k \in Slots : k = NewSlot(i)
  BY NewSlotFound DEF CacheInv
<1> DEFINE n == a \div vals.bytes
           b0 == Loaded(blocks[i][k], Tag(a), d)
           b == Stamped(b0)
           c == Cardinality(Valid(i))
           l == Line(i)
<1>3. Policy!SetOf(n) = i /\ ~Policy!Cached(n)
  BY <1>1, CachedMeansFound
<1>4. /\ vals \in Configurations /\ cycle_count \in Stamps
      /\ blocks \in [Sets -> [Slots -> BlockType]]
  BY DEF CacheInv, TypeOK
<1>5. b0 \in BlockType /\ b0.tag = Tag(a) /\ b0.valid
  <2>1. blocks[i][k] \in BlockType /\ Tag(a) \in Tags
    BY <1>4, AddressParts
  <2> QED BY <2>1 DEF BlockType, Loaded
<1>6. b \in BlockType /\ b.tag = Tag(a) /\ b.valid /\ time(b) = cycle_count
  <2> HIDE DEF b0
  <2> QED BY <1>4, <1>5, StampedBlock
<1>7. blocks' = [blocks EXCEPT ![i][k] = b]
  BY <1>1, <1>2 DEF Fill
<1> HIDE DEF b
<1>8. /\ blocks'[i] = [blocks[i] EXCEPT ![k] = b]
      /\ \A j \in Sets : j # i => blocks'[j] = blocks[j]
  <2> DEFINE s2 == [blocks[i] EXCEPT ![k] = b]
  <2>1. blocks' = [blocks EXCEPT ![i] = s2]
    BY <1>7
  <2>2. SUFFICES blocks'[i] = s2 /\ \A j \in Sets : j # i => blocks'[j] = blocks[j]
    OBVIOUS
  <2> HIDE DEF s2
  <2> QED BY <2>1, <1>4
<1>9. \A j \in Sets : j # i => Line(j)' = Line(j)
  BY <1>8, LineStays
<1>10. b.tag * vals.num_sets + i = n
  BY <1>1, <1>4, <1>6, BlockNumber
<1>11. /\ c \in Nat
       /\ Full(i) => /\ c = vals.num_blocks_in_set
                     /\ Line(i)' = [x \in 1..c |-> IF x < c THEN l[x + 1] ELSE n]
       /\ ~Full(i) => /\ c # vals.num_blocks_in_set
                      /\ Line(i)' = [x \in 1..c + 1 |-> IF x <= c THEN l[x] ELSE n]
  BY <1>2, <1>6, <1>8, <1>10, FillLine
<1>12. l = [x \in 1..c |-> l[x]] /\ Len(l) = c
  BY LineBlocks
<1>13. vals.num_blocks_in_set \in Nat \ {0}
  BY <1>4, SlotsExist
<1> HIDE DEF c, l, n
<1>14. Line(i)' = Append(IF Len(l) = vals.num_blocks_in_set THEN Tail(l) ELSE l, n)
  <2>1. CASE Full(i)
    <3>1. c > 0 /\ Len(l) = vals.num_blocks_in_set
      BY <2>1, <1>11, <1>12, <1>13
    <3>2. Append(Tail(l), n) = [x \in 1..c |-> IF x < c THEN l[x + 1] ELSE n]
      BY <3>1, <1>11, <1>12, TailOf
    <3> QED BY <2>1, <3>1, <3>2, <1>11
  <2>2. CASE ~Full(i)
    <3>1. Len(l) # vals.num_blocks_in_set
      BY <2>2, <1>11, <1>12
    <3>2. Append(l, n) = [x \in 1..c + 1 |-> IF x <= c THEN l[x] ELSE n]
      BY <1>11, <1>12, AppendOf
    <3> QED BY <2>2, <3>1, <3>2, <1>11
  <2> QED BY <2>1, <2>2
<1>15. AbstractLines[i] = l
  BY DEF AbstractLines, l
<1>16. AbstractLines' =
         [AbstractLines EXCEPT
            ![i] = Append(IF Len(@) = vals.num_blocks_in_set THEN Tail(@) ELSE @, n)]
  <2> DEFINE l2 == Append(IF Len(l) = vals.num_blocks_in_set THEN Tail(l) ELSE l, n)
  <2>1. Line(i)' = l2
    BY <1>14
  <2> HIDE DEF l2
  <2>2. AbstractLines' = [AbstractLines EXCEPT ![i] = l2]
    BY <2>1, <1>9, LinesChanged
  <2> QED BY <2>2, <1>15 DEF l2
<1>17. Policy!Bring(n)
  BY <1>3, <1>16 DEF Policy!Bring, AbstractLines, CountsMiss
<1> QED BY <1>17 DEF n

\* At the start every line is empty.
LEMMA InitPolicy == Init => Policy!Init
<1> SUFFICES ASSUME Init PROVE Policy!Init
  OBVIOUS
<1>1. CacheInv
  BY InitInv
<1>2. vals \in Configurations
  BY DEF Init
<1>3. ASSUME NEW i \in Sets
      PROVE  Line(i) = <<>>
  <2>1. Valid(i) = {}
    BY <1>3 DEF Init, Valid, Empty
  <2>2. Cardinality(Valid(i)) = 0
    BY <2>1, FS_EmptySet
  <2>3. Line(i) = [n \in 1..0 |-> Line(i)[n]]
    BY <1>1, <2>2, LineBlocks
  <2> QED BY <2>3
<1>4. \E o \in 0..AddressBits : vals.bytes = pow2[o]
  BY <1>2, Geometry
<1>5. vals.bytes \in Nat \ {0}
  BY <1>4, AddressAssumption, Pow2Positive DEF Exponents
<1>6. 0 \div vals.bytes = 0
  BY <1>5
<1>7. line[1] = "none" /\ line[2] = 0
  BY DEF Init
<1>8. stat.load_hit + stat.store_hit = 0 /\ stat.load_miss + stat.store_miss = 0
  BY DEF Init, NoStats
<1>9. [i \in Sets |-> Line(i)] = [i \in 0..vals.num_sets - 1 |-> <<>>]
  BY <1>3 DEF Sets
<1> QED BY <1>6, <1>7, <1>8, <1>9 DEF Policy!Init

\* Every command is a step of the policy: a hit uses a block, a miss brings one
\* in or goes around the cache, and any other line changes nothing.
LEMMA NextPolicy ==
  CacheInv /\ CacheInv' /\ [Next]_vars => [Policy!Next]_Policy!vars
<1> SUFFICES ASSUME CacheInv, CacheInv', [Next]_vars
             PROVE  [Policy!Next]_Policy!vars
  OBVIOUS
<1>1. TypeOK /\ vals \in Configurations /\ cycle_count \in Stamps
  <2>1. TypeOK
    BY DEF CacheInv
  <2> QED BY <2>1 DEF TypeOK
<1>2. ASSUME NEW c, NEW a, NextLine(c, a)
      PROVE  /\ UNCHANGED vals
             /\ <<line[1], line[2] \div vals.bytes>>' = <<c, a \div vals.bytes>>
  BY <1>2 DEF NextLine
<1>3. \A a \in Address : a \div vals.bytes \in 0..pow2[AddressBits] - 1
  BY <1>1, BlockNumber DEF Address
<1>4. ASSUME NEW a \in Address, block_exists(a)
      PROVE  blocks[Index(a)][Where(a)] \in BlockType
  <2>1. Index(a) \in Sets
    BY <1>1, AddressParts
  <2>2. Where(a) \in Slots
    BY <2>1, <1>1, <1>4 DEF TypeOK, block_exists, Where
  <2> QED BY <2>1, <2>2, <1>1 DEF TypeOK
<1>5. ASSUME NEW a \in Address, LoadHit(a)
      PROVE  Policy!Next
  <2> DEFINE b0 == blocks[Index(a)][Where(a)]
             b == Touched(b0)
  <2>1. /\ block_exists(a) /\ NextLine("l", a)
        /\ blocks' = [blocks EXCEPT ![Index(a)][Where(a)] = b]
    BY <1>5 DEF LoadHit
  <2>2. CountsHit
    BY <1>1, <1>5, StatStep
  <2>3. b0 \in BlockType
    BY <1>4, <2>1
  <2>4. /\ b \in BlockType /\ b.tag = b0.tag /\ b.valid = b0.valid
        /\ time(b) = IF vals.lru_state THEN cycle_count ELSE time(b0)
    <3> HIDE DEF b0
    <3> QED BY <1>1, <2>3, TouchedBlock, TouchedTime
  <2> HIDE DEF b
  <2>5. Policy!Use(a \div vals.bytes)
    BY <1>2, <2>1, <2>2, <2>4, HitUses DEF CountsHit
  <2> QED BY <1>2, <1>3, <2>1, <2>5 DEF Policy!Next, Policy!Load
<1>6. ASSUME NEW a \in Address, StoreHit(a)
      PROVE  Policy!Next
  <2> DEFINE b0 == blocks[Index(a)][Where(a)]
             b1 == Written(b0)
             b == Touched(b1)
  <2>1. /\ block_exists(a) /\ NextLine("s", a)
        /\ blocks' = [blocks EXCEPT ![Index(a)][Where(a)] = b]
    BY <1>6 DEF StoreHit
  <2>2. CountsHit
    BY <1>1, <1>6, StatStep
  <2>3. b0 \in BlockType
    BY <1>4, <2>1
  <2>4. b1 \in BlockType /\ b1.tag = b0.tag /\ b1.valid = b0.valid /\ time(b1) = time(b0)
    <3>1. vals.write_thru \in BOOLEAN
      BY <1>1 DEF Configurations, Args
    <3> HIDE DEF b0
    <3> QED BY <2>3, <3>1 DEF Written, BlockType, time
  <2>5. /\ b \in BlockType /\ b.tag = b1.tag /\ b.valid = b1.valid
        /\ time(b) = IF vals.lru_state THEN cycle_count ELSE time(b1)
    <3> HIDE DEF b1
    <3> QED BY <1>1, <2>4, TouchedBlock, TouchedTime
  <2> HIDE DEF b, b1
  <2>6. /\ b \in BlockType /\ b.tag = b0.tag /\ b.valid = b0.valid
        /\ time(b) = IF vals.lru_state THEN cycle_count ELSE time(b0)
    BY <2>4, <2>5
  <2>7. Policy!Use(a \div vals.bytes)
    BY <1>2, <2>1, <2>2, <2>6, HitUses DEF CountsHit
  <2> QED BY <1>2, <1>3, <2>1, <2>7 DEF Policy!Next, Policy!Store
<1>7. ASSUME NEW a \in Address, LoadMiss(a)
      PROVE  Policy!Next
  <2>1. ~block_exists(a) /\ NextLine("l", a) /\ Fill(a, FALSE) /\ CountsMiss
    BY <1>1, <1>7, StatStep DEF LoadMiss
  <2>2. Policy!Bring(a \div vals.bytes)
    BY <1>2, <2>1, FillBrings
  <2> QED BY <1>2, <1>3, <2>1, <2>2 DEF Policy!Next, Policy!Load
<1>8. ASSUME NEW a \in Address, StoreMiss(a)
      PROVE  Policy!Next
  <2>1. /\ ~block_exists(a) /\ vals.write_alloc /\ NextLine("s", a)
        /\ Fill(a, ~vals.write_thru) /\ CountsMiss
    BY <1>1, <1>8, StatStep DEF StoreMiss
  <2>2. Policy!Bring(a \div vals.bytes)
    BY <1>2, <2>1, FillBrings
  <2> QED BY <1>2, <1>3, <2>1, <2>2 DEF Policy!Next, Policy!Store
<1>9. ASSUME UNCHANGED vals, UNCHANGED blocks
      PROVE  /\ \A i \in Sets : Line(i)' = Line(i)
             /\ [i \in Sets |-> Line(i)]' = [i \in Sets |-> Line(i)]
  <2>1. \A i \in Sets : Line(i)' = Line(i)
    BY <1>9, LineStays
  <2> QED BY <2>1, <1>9, LinesUnchanged DEF AbstractLines
<1>10. ASSUME NEW a \in Address, StoreAround(a)
       PROVE  Policy!Next
  <2>1. /\ ~block_exists(a) /\ ~vals.write_alloc /\ NextLine("s", a)
        /\ UNCHANGED blocks /\ CountsMiss
    BY <1>1, <1>10, StatStep DEF StoreAround
  <2>2. ~Policy!Cached(a \div vals.bytes)
    BY <2>1, CachedMeansFound
  <2>3. Policy!Bypass(a \div vals.bytes)
    BY <1>2, <1>9, <2>1, <2>2 DEF Policy!Bypass, CountsMiss
  <2> QED BY <1>2, <1>3, <2>1, <2>3 DEF Policy!Next, Policy!Store
<1>11. CASE OtherCommand
  <2>1. NextLine("other", 0) /\ UNCHANGED blocks /\ stat' = stat
    BY <1>11 DEF OtherCommand
  <2>2. 0 \div vals.bytes = 0
    <3>1. \E o \in 0..AddressBits : vals.bytes = pow2[o]
      BY <1>1, Geometry
    <3>2. vals.bytes \in Nat \ {0}
      BY <3>1, AddressAssumption, Pow2Positive DEF Exponents
    <3> QED BY <3>2
  <2>3. Policy!Other
    BY <1>2, <1>9, <2>1, <2>2 DEF Policy!Other
  <2> QED BY <2>3 DEF Policy!Next
<1>12. CASE UNCHANGED vars
  <2>1. UNCHANGED vals /\ UNCHANGED blocks /\ UNCHANGED line /\ stat' = stat
    BY <1>12 DEF vars
  <2> QED BY <1>9, <2>1, PolicyUnchanged
<1>13. CASE Next
  BY <1>5, <1>6, <1>7, <1>8, <1>10, <1>11, <1>13, AddressesType DEF Next
<1> QED BY <1>12, <1>13

\* Whatever the configuration, the number of sets, the slots to a set and the
\* trace, the simulator hits, misses and evicts as a simple line of blocks under
\* lru or fifo does: stamps, slots and map are an implementation of the policy
\* (functions.cpp:39-195).
THEOREM CacheImplementsPolicy == Spec => ImplementsPolicy
<1>1. Policy!Init /\ [][Policy!Next]_Policy!vars => ImplementsPolicy
  BY DEF ImplementsPolicy, Policy!Spec
<1> QED BY InitPolicy, NextPolicy, CacheAlways, <1>1, PTL DEF Spec
=============================================================================
