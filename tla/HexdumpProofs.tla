---------------------------- MODULE HexdumpProofs ----------------------------
(***************************************************************************)
(* Proofs about the two hex dumps, for every width of a line and of an     *)
(* offset and every input: that they convert numbers and characters alike, *)
(* and that both write, for every read, the line HexLines promises.        *)
(***************************************************************************)
EXTENDS MCHexdump, Powers, SequenceTheorems, NaturalsInduction, WellFoundedInduction, TLAPS

-----------------------------------------------------------------------------
(* Powers *)

\* A set of natural numbers that is not empty has a least element: the form in
\* which induction on naturals is used below.
LEMMA LeastElement ==
  ASSUME NEW T \in SUBSET Nat, T # {}
  PROVE  \E m \in T : \A k \in T : m <= k
<1>1. IsWellFoundedOn(OpToRel(<, Nat), Nat)
  BY NatLessThanWellFounded
<1>2. \E m \in T : \A k \in T : ~(<<k, m>> \in OpToRel(<, Nat))
  BY <1>1, WFMin
<1>3. \E m \in T : \A k \in T : ~(k < m)
  BY <1>2 DEF OpToRel
<1> QED BY <1>3

\* p holds the powers of b up to m.
ArePowers(p, b, m) == p = [k \in 0..m |-> IF k = 0 THEN 1 ELSE b * p[k - 1]]

\* There are powers up to every exponent.
LEMMA PowersExist ==
  ASSUME NEW b \in Nat, NEW e \in Nat
  PROVE  \E p : ArePowers(p, b, e)
<1> DEFINE T == {m \in Nat : ~\E p : ArePowers(p, b, m)}
<1>1. SUFFICES ASSUME T # {} PROVE FALSE
  OBVIOUS
<1>2. PICK m \in T : \A k \in T : m <= k
  BY <1>1, LeastElement
<1>3. m # 0
  <2>1. ArePowers([k \in 0..0 |-> 1], b, 0)
    BY DEF ArePowers
  <2> QED BY <2>1, <1>2
<1>4. m \in Nat /\ m - 1 \in Nat /\ m - 1 \notin T
  BY <1>2, <1>3
<1>5. PICK p : ArePowers(p, b, m - 1)
  BY <1>4
<1> DEFINE q == [k \in 0..m |-> IF k < m THEN p[k] ELSE b * p[m - 1]]
<1>6. ArePowers(q, b, m)
  <2>1. ASSUME NEW k \in 0..m
        PROVE  q[k] = IF k = 0 THEN 1 ELSE b * q[k - 1]
    <3>1. k # 0 => q[k - 1] = p[k - 1]
      BY <1>4
    <3>2. CASE k < m
      <4>1. q[k] = p[k]
        BY <3>2
      <4>2. p[k] = IF k = 0 THEN 1 ELSE b * p[k - 1]
        <5>1. k \in 0..m - 1
          BY <3>2, <1>4
        <5> QED BY <5>1, <1>5 DEF ArePowers
      <4> QED BY <4>1, <4>2, <3>1
    <3>3. CASE k = m
      BY <3>3, <3>1, <1>3
    <3> QED BY <3>2, <3>3, <1>4
  <2> QED BY <2>1 DEF ArePowers
<1> QED BY <1>6, <1>2

\* Two tables of the powers of a number agree where both have an entry.
LEMMA PowersAgree ==
  ASSUME NEW b \in Nat, NEW c \in Nat, NEW d \in Nat, c <= d,
         NEW p, NEW q, ArePowers(p, b, c), ArePowers(q, b, d)
  PROVE  \A k \in 0..c : p[k] = q[k]
<1> DEFINE T == {k \in 0..c : p[k] # q[k]}
<1>1. SUFFICES ASSUME T # {} PROVE FALSE
  OBVIOUS
<1>2. T \in SUBSET Nat
  OBVIOUS
<1> HIDE DEF T
<1>3. PICK k \in T : \A j \in T : k <= j
  BY <1>1, <1>2, LeastElement
<1>4. k \in 0..c /\ p[k] # q[k]
  BY <1>3 DEF T
<1>5. p[k] = IF k = 0 THEN 1 ELSE b * p[k - 1]
  BY <1>4 DEF ArePowers
<1>6. q[k] = IF k = 0 THEN 1 ELSE b * q[k - 1]
  <2>1. k \in 0..d
    BY <1>4
  <2> QED BY <2>1 DEF ArePowers
<1>7. k # 0
  BY <1>4, <1>5, <1>6
<1>8. k - 1 \in 0..c /\ k - 1 \notin T
  BY <1>3, <1>4, <1>7
<1>9. p[k - 1] = q[k - 1]
  BY <1>8 DEF T
<1> QED BY <1>4, <1>5, <1>6, <1>7, <1>9

\* Pow(b, e) is the last entry of the table of its powers.
LEMMA PowTable ==
  ASSUME NEW b \in Nat, NEW e \in Nat
  PROVE  \E p : ArePowers(p, b, e) /\ Pow(b, e) = p[e]
<1> DEFINE t == CHOOSE p : ArePowers(p, b, e)
<1>1. ArePowers(t, b, e)
  BY PowersExist
<1>2. Pow(b, e) = t[e]
  BY DEF Pow, ArePowers
<1> QED BY <1>1, <1>2

\* Powers one exponent at a time.
LEMMA PowStep ==
  ASSUME NEW b \in Nat, NEW e \in Nat
  PROVE  Pow(b, 0) = 1 /\ Pow(b, e + 1) = b * Pow(b, e)
<1>1. PICK o : ArePowers(o, b, 0) /\ Pow(b, 0) = o[0]
  BY PowTable
<1>2. PICK p : ArePowers(p, b, e) /\ Pow(b, e) = p[e]
  BY PowTable
<1>3. PICK q : ArePowers(q, b, e + 1) /\ Pow(b, e + 1) = q[e + 1]
  <2>1. e + 1 \in Nat
    OBVIOUS
  <2> QED BY <2>1, PowTable
<1>4. o[0] = 1
  BY <1>1 DEF ArePowers
<1>5. q[e + 1] = b * q[e]
  BY <1>3 DEF ArePowers
<1>6. q[e] = p[e]
  BY <1>2, <1>3, PowersAgree
<1> QED BY <1>1, <1>2, <1>3, <1>4, <1>5, <1>6

\* The powers of a positive number are positive.
LEMMA PowPositive ==
  ASSUME NEW b \in Nat \ {0}, NEW e \in Nat
  PROVE  Pow(b, e) \in Nat \ {0}
<1> DEFINE T == {k \in Nat : Pow(b, k) \notin Nat \ {0}}
<1>1. SUFFICES ASSUME T # {} PROVE FALSE
  OBVIOUS
<1>2. T \in SUBSET Nat
  OBVIOUS
<1> HIDE DEF T
<1>3. PICK m \in T : \A k \in T : m <= k
  BY <1>1, <1>2, LeastElement
<1>4. m \in Nat /\ Pow(b, m) \notin Nat \ {0}
  BY <1>3 DEF T
<1>5. m # 0
  <2>1. Pow(b, 0) = 1
    BY PowStep
  <2> QED BY <1>4, <2>1
<1>6. m - 1 \in Nat /\ m - 1 \notin T
  BY <1>3, <1>4, <1>5
<1> DEFINE c == m - 1
<1>7. c \in Nat /\ Pow(b, c) \in Nat \ {0} /\ m = c + 1
  BY <1>4, <1>6 DEF T
<1> HIDE DEF c
<1>8. Pow(b, c + 1) = b * Pow(b, c)
  BY <1>7, PowStep
<1>9. b * Pow(b, c) \in Nat \ {0}
  BY <1>7
<1> QED BY <1>4, <1>7, <1>8, <1>9

\* Shifting by two distances is shifting by their sum.
LEMMA PowSum ==
  ASSUME NEW b \in Nat \ {0}, NEW c \in Nat, NEW d \in Nat
  PROVE  Pow(b, c + d) = Pow(b, c) * Pow(b, d)
<1> DEFINE T == {k \in Nat : Pow(b, c + k) # Pow(b, c) * Pow(b, k)}
<1>1. SUFFICES ASSUME T # {} PROVE FALSE
  OBVIOUS
<1>2. T \in SUBSET Nat
  OBVIOUS
<1> HIDE DEF T
<1>3. PICK m \in T : \A k \in T : m <= k
  BY <1>1, <1>2, LeastElement
<1>4. m \in Nat /\ Pow(b, c + m) # Pow(b, c) * Pow(b, m)
  BY <1>3 DEF T
<1>5. Pow(b, c) \in Nat
  BY PowPositive
<1>6. m # 0
  <2>1. SUFFICES ASSUME m = 0 PROVE FALSE
    OBVIOUS
  <2>2. c + m = c /\ Pow(b, m) = 1
    BY <2>1, PowStep
  <2> QED BY <2>2, <1>4, <1>5
<1>7. PICK l \in Nat : m = l + 1
  <2>1. m - 1 \in Nat /\ m = (m - 1) + 1
    BY <1>4, <1>6
  <2> QED BY <2>1
<1>8. l \notin T
  BY <1>3, <1>7
<1>9. Pow(b, c + l) = Pow(b, c) * Pow(b, l)
  BY <1>7, <1>8 DEF T
<1>10. Pow(b, l) \in Nat /\ Pow(b, m) = b * Pow(b, l)
  BY <1>7, PowStep, PowPositive
<1>11. Pow(b, c + m) = b * Pow(b, c + l)
  <2>1. c + l \in Nat /\ c + m = (c + l) + 1
    BY <1>7
  <2> QED BY <2>1, PowStep
<1>12. \A x, y \in Nat : x * (b * y) = b * (x * y)
  OBVIOUS
<1> QED BY <1>4, <1>5, <1>9, <1>10, <1>11, <1>12

-----------------------------------------------------------------------------
(* Conversions *)

\* What quotient and remainder are.
LEMMA Division ==
  ASSUME NEW x \in Int, NEW d \in Nat \ {0}
  PROVE  /\ x \div d \in Int /\ x % d \in Int
         /\ x = d * (x \div d) + (x % d)
         /\ 0 <= x % d /\ x % d < d
<1>1. x \div d \in Int
  OBVIOUS
<1>2. x % d \in 0..d - 1
  OBVIOUS
<1>3. x = d * (x \div d) + (x % d)
  OBVIOUS
<1> QED BY <1>1, <1>2, <1>3

\* A quotient is the only number with a remainder in range.
LEMMA QuotientUnique ==
  ASSUME NEW x \in Int, NEW d \in Nat \ {0}, NEW q \in Int, NEW r \in Int,
         x = d * q + r, 0 <= r, r < d
  PROVE  x \div d = q
<1> DEFINE p == x \div d
           s == x % d
<1>1. p \in Int /\ s \in Int /\ x = d * p + s /\ 0 <= s /\ s < d
  BY Division
<1> HIDE DEF p, s
<1> DEFINE e == p - q
<1>2. e \in Int /\ d * e = r - s
  BY <1>1
<1>3. ~(e > 0)
  <2>1. e > 0 => d * e >= d
    BY <1>2
  <2> QED BY <2>1, <1>1, <1>2
<1>4. ~(e < 0)
  <2>1. e < 0 => d * e <= -d
    BY <1>2
  <2> QED BY <2>1, <1>1, <1>2
<1>5. p = q
  BY <1>1, <1>2, <1>3, <1>4
<1> QED BY <1>5 DEF p

\* A multiple of the next digit's weight does not change a digit.
LEMMA SameDigit ==
  ASSUME NEW x \in Int, NEW d \in Nat \ {0}, NEW k \in Int
  PROVE  ((x - (d * 16) * k) \div d) % 16 = (x \div d) % 16
<1> DEFINE q == x \div d
           r == x % d
<1>1. q \in Int /\ r \in Int /\ x = d * q + r /\ 0 <= r /\ r < d
  BY Division
<1> HIDE DEF q, r
<1>2. PICK y \in Int : y = x - (d * 16) * k
  OBVIOUS
<1>3. d * (q - 16 * k) = d * q - (d * 16) * k
  BY <1>1
<1>4. y = d * (q - 16 * k) + r /\ q - 16 * k \in Int
  BY <1>1, <1>2, <1>3
<1>5. y \div d = q - 16 * k
  BY <1>1, <1>2, <1>4, QuotientUnique
<1>6. (q - 16 * k) % 16 = q % 16
  BY <1>1
<1> QED BY <1>2, <1>5, <1>6 DEF q

\* The digit of each weight as the character the standard prints for it.
LEMMA DigitCharacter ==
  ASSUME NEW d \in 0..15
  PROVE  <<48, 49, 50, 51, 52, 53, 54, 55, 56, 57, 97, 98, 99, 100, 101, 102>>[d + 1]
           = IF d < 10 THEN d + 48 ELSE d + 87
  OBVIOUS

\* The three modules take powers alike.
LEMMA SamePowers ==
  \A b, e : Lines!Pow(b, e) = Pow(b, e) /\ InC!Pow(b, e) = Pow(b, e) /\ InAsm!Pow(b, e) = Pow(b, e)
  BY DEF Lines!Pow, InC!Pow, InAsm!Pow, Pow

\* The last digit of a number shifted as a signed one is that of the number,
\* however much of its sign the shift brings in.
LEMMA SignedDigit ==
  ASSUME NEW digits \in Nat, NEW v \in Nat, NEW s \in 0..digits - 1
  PROVE  InAsm!LastDigit(v, digits, s) = (v \div Pow(16, s)) % 16
<1>1. PICK e \in Nat : digits = (s + 1) + e
  <2>1. digits - s - 1 \in Nat /\ digits = (s + 1) + (digits - s - 1)
    OBVIOUS
  <2> QED BY <2>1
<1>2. PICK d \in Nat \ {0} : d = Pow(16, s)
  BY PowPositive
<1>3. PICK k \in Nat \ {0} : k = Pow(16, e)
  BY PowPositive
<1>4. Pow(16, digits) = (d * 16) * k
  <2>1. s \in Nat /\ s + 1 \in Nat
    OBVIOUS
  <2>2. Pow(16, s + 1) = 16 * d
    BY <1>2, <2>1, PowStep
  <2>3. Pow(16, (s + 1) + e) = Pow(16, s + 1) * Pow(16, e)
    BY <2>1, PowSum
  <2>4. 16 * d = d * 16
    OBVIOUS
  <2> QED BY <1>1, <1>3, <2>2, <2>3, <2>4
<1>5. InAsm!Signed(v, digits) \in {v, v - (d * 16) * k}
  BY <1>4, SamePowers DEF InAsm!Signed
<1>6. ((v - (d * 16) * k) \div d) % 16 = (v \div d) % 16
  <2>1. v \in Int /\ k \in Int
    OBVIOUS
  <2> QED BY <2>1, SameDigit
<1>7. (InAsm!Signed(v, digits) \div d) % 16 = (v \div d) % 16
  BY <1>5, <1>6
<1> QED BY <1>2, <1>7, SamePowers DEF InAsm!LastDigit

\* The digits of an offset are those of its lower bits.
LEMMA LowerDigit ==
  ASSUME NEW v \in Nat, NEW s \in 0..Digits - 1
  PROVE  ((v % Pow(16, Digits)) \div Pow(16, s)) % 16 = (v \div Pow(16, s)) % 16
<1>1. PICK e \in Nat : Digits = (s + 1) + e
  <2>1. Digits - s - 1 \in Nat /\ Digits = (s + 1) + (Digits - s - 1)
    BY HexAssumption
  <2> QED BY <2>1
<1>2. PICK d \in Nat \ {0} : d = Pow(16, s)
  BY PowPositive
<1>3. PICK k \in Nat \ {0} : k = Pow(16, e)
  BY PowPositive
<1>4. PICK m \in Nat \ {0} : m = Pow(16, Digits)
  BY HexAssumption, PowPositive
<1>5. m = (d * 16) * k
  <2>1. s \in Nat /\ s + 1 \in Nat
    OBVIOUS
  <2>2. Pow(16, s + 1) = 16 * d
    BY <1>2, <2>1, PowStep
  <2>3. Pow(16, (s + 1) + e) = Pow(16, s + 1) * Pow(16, e)
    BY <2>1, PowSum
  <2>4. 16 * d = d * 16
    OBVIOUS
  <2> QED BY <1>1, <1>3, <1>4, <2>2, <2>3, <2>4
<1>6. PICK q \in Int : q = v \div m
  BY Division
<1>7. v % m = v - m * q
  BY <1>6, Division
<1>8. m * q = (d * 16) * (k * q)
  <2>1. \A x, y, z \in Int : (x * y) * z = x * (y * z)
    OBVIOUS
  <2>2. d * 16 \in Int
    OBVIOUS
  <2> QED BY <1>5, <2>1, <2>2
<1>9. k * q \in Int /\ v \in Int
  OBVIOUS
<1>10. ((v - (d * 16) * (k * q)) \div d) % 16 = (v \div d) % 16
  BY <1>9, SameDigit
<1> QED BY <1>2, <1>4, <1>7, <1>8, <1>10

\* Both programs convert every offset and every byte as HexLines does: the
\* sign of a number, the shift that repeats it and what is above the lower bits
\* make no difference (asm_hexfuncs.S, c_hexfuncs.c).
THEOREM Conversions == ConversionsAgree
<1>1. ASSUME NEW v \in Nat, NEW digits \in Nat \ {0}, NEW k \in 1..digits
      PROVE  (v \div Pow(16, digits - k)) % 16 \in 0..15
  <2>1. digits - k \in Nat
    OBVIOUS
  <2>2. PICK d \in Nat \ {0} : d = Pow(16, digits - k)
    BY <2>1, PowPositive
  <2>3. v \div d \in Int
    BY Division
  <2> QED BY <2>2, <2>3
<1>2. ASSUME NEW v \in Nat, NEW digits \in Nat \ {0}
      PROVE  Lines!Hex(v, digits) =
               [k \in 1..digits |-> InC!HexChar((v \div Pow(16, digits - k)) % 16)]
  <2>1. ASSUME NEW k \in 1..digits
        PROVE  <<48, 49, 50, 51, 52, 53, 54, 55, 56, 57, 97, 98, 99, 100, 101, 102>>
                 [((v \div Pow(16, digits - k)) % 16) + 1]
               = InC!HexChar((v \div Pow(16, digits - k)) % 16)
    <3>1. PICK d \in 0..15 : d = (v \div Pow(16, digits - k)) % 16
      BY <1>1
    <3> QED BY <3>1, DigitCharacter DEF InC!HexChar
  <2> QED BY <2>1, SamePowers DEF Lines!Hex
<1>3. \A d : InAsm!HexChar(d) = InC!HexChar(d)
  BY DEF InAsm!HexChar, InC!HexChar
<1>4. ASSUME NEW offset \in Nat
      PROVE  /\ InC!hex_format_offset(offset) = Lines!Hex(offset, Digits)
             /\ InAsm!hex_format_offset(offset) = Lines!Hex(offset, Digits)
  <2>1. InC!hex_format_offset(offset) = Lines!Hex(offset, Digits)
    BY <1>2, SamePowers, HexAssumption DEF InC!hex_format_offset
  <2>2. PICK edi \in Nat : edi = offset % Pow(16, Digits)
    <3>1. PICK m \in Nat \ {0} : m = Pow(16, Digits)
      BY HexAssumption, PowPositive
    <3>2. offset % m \in Nat
      BY Division
    <3> QED BY <3>1, <3>2
  <2>3. ASSUME NEW k \in 1..Digits
        PROVE  InAsm!LastDigit(edi, Digits, Digits - k) = (offset \div Pow(16, Digits - k)) % 16
    <3>1. Digits - k \in 0..Digits - 1 /\ Digits \in Nat
      BY HexAssumption
    <3>2. InAsm!LastDigit(edi, Digits, Digits - k) = (edi \div Pow(16, Digits - k)) % 16
      BY <3>1, SignedDigit
    <3>3. (edi \div Pow(16, Digits - k)) % 16 = (offset \div Pow(16, Digits - k)) % 16
      BY <2>2, <3>1, LowerDigit
    <3> QED BY <3>2, <3>3
  <2>4. InAsm!hex_format_offset(offset)
          = [k \in 1..Digits |-> InAsm!HexChar(InAsm!LastDigit(edi, Digits, Digits - k))]
    BY <2>2, SamePowers DEF InAsm!hex_format_offset
  <2>5. InAsm!hex_format_offset(offset)
          = [k \in 1..Digits |-> InC!HexChar((offset \div Pow(16, Digits - k)) % 16)]
    BY <2>3, <2>4, <1>3
  <2> QED BY <2>1, <2>5, <1>2, HexAssumption
<1>5. ASSUME NEW byte \in 0..255
      PROVE  /\ InC!hex_format_byte_as_hex(byte) = Lines!Hex(byte, 2)
             /\ InAsm!hex_format_byte_as_hex(byte) = Lines!Hex(byte, 2)
  <2>1. byte \in Nat /\ 2 \in Nat \ {0}
    OBVIOUS
  <2>2. Lines!Hex(byte, 2) = [k \in 1..2 |-> InC!HexChar((byte \div Pow(16, 2 - k)) % 16)]
    BY <2>1, <1>2
  <2>3. InC!hex_format_byte_as_hex(byte) = Lines!Hex(byte, 2)
    BY <2>2, SamePowers DEF InC!hex_format_byte_as_hex
  <2>4. ASSUME NEW k \in 1..2
        PROVE  InAsm!LastDigit(byte, 2, 2 - k) = (byte \div Pow(16, 2 - k)) % 16
    <3>1. 2 - k \in 0..2 - 1
      OBVIOUS
    <3> QED BY <2>1, <3>1, SignedDigit
  <2>5. InAsm!hex_format_byte_as_hex(byte) = Lines!Hex(byte, 2)
    BY <2>2, <2>4, <1>3 DEF InAsm!hex_format_byte_as_hex
  <2> QED BY <2>3, <2>5
<1>6. ASSUME NEW byte \in 0..255
      PROVE  /\ InC!hex_to_printable(byte) = Lines!Printable(byte)
             /\ InAsm!hex_to_printable([high |-> FALSE, low |-> byte]) = Lines!Printable(byte)
  <2>1. InC!hex_to_printable(byte) = Lines!Printable(byte)
    BY DEF InC!hex_to_printable, Lines!Printable
  <2>2. Pow(16, 2) = 256
    <3>1. Pow(16, 0) = 1 /\ Pow(16, 0 + 1) = 16 * Pow(16, 0) /\ Pow(16, 1 + 1) = 16 * Pow(16, 1)
      BY PowStep
    <3> QED BY <3>1
  <2>3. InAsm!Signed(byte, 2) = IF byte >= 128 THEN byte - 256 ELSE byte
    BY <2>2, SamePowers DEF InAsm!Signed
  <2>4. InAsm!hex_to_printable([high |-> FALSE, low |-> byte])
          = IF InAsm!Signed(byte, 2) < 32 \/ byte >= 127 THEN 46 ELSE byte
    BY DEF InAsm!hex_to_printable
  <2>5. InAsm!hex_to_printable([high |-> FALSE, low |-> byte]) = Lines!Printable(byte)
    BY <2>3, <2>4 DEF Lines!Printable
  <2> QED BY <2>1, <2>5
<1> QED BY <1>4, <1>5, <1>6 DEF ConversionsAgree

-----------------------------------------------------------------------------
(* The invariant.  The loops of the two programs are the same ones, under    *)
(* other labels.                                                             *)

Labels ==
  \/ program = "C"
     /\ pc \in {"read", "top", "hex", "fill", "words", "print", "again", "done"}
  \/ program = "assembly"
     /\ pc \in {"read", ".Ltop", ".LformatAsHexCont", ".LfillSpace", ".LstoreWords",
                ".LprintWords", "again", ".Ldone"}

AtTop == pc \in {"top", ".Ltop"}
AtHex == pc \in {"hex", ".LformatAsHexCont"}
AtFill == pc \in {"fill", ".LfillSpace"}
AtWords == pc \in {"words", ".LstoreWords"}
AtPrint == pc \in {"print", ".LprintWords"}

\* There is a read whose line is not written yet: its bytes, how many they are,
\* where the counter starts on the blanks, and where the characters are put.
Dumping == (AtTop /\ n # 0) \/ AtHex \/ AtFill \/ AtWords \/ AtPrint
last == reads[Len(reads)]
count == IF n > 0 THEN n ELSE 0
start == IF program = "C" THEN n ELSE count
text == IF program = "C" THEN words ELSE sbuf

Registers ==
  /\ n \in {IF program = "C" THEN -1 ELSE InAsm!Errno} \cup 0..Width
  /\ i \in -1..Width
  /\ sbuf \in [0..Width -> 0..255]
  /\ program = "C" => words \in [0..Width -> 0..255]
  /\ line.pad \in 0..Width + 1

Rows == {Lines!LineOf(k, bytes, pad) : k \in Nat, bytes \in Lines!Input, pad \in 0..Width + 1}

\* The offset is a whole line for every line written.
Histories ==
  /\ reads \in Seq(Lines!Input) /\ Len(reads) <= MaxReads
  /\ out \in Seq(Rows)
  /\ Len(reads) = IF Dumping THEN Len(out) + 1 ELSE Len(out)
  /\ position = (IF pc = "again" THEN Len(out) - 1 ELSE Len(out)) * Width
  /\ pc = "again" => Len(out) > 0

\* What was read is in the buffer until characters take its place.
BytesKept ==
  Dumping =>
    /\ n # 0 /\ last \in [1..count -> Bytes]
    /\ ~(program = "assembly" /\ (AtWords \/ AtPrint)) =>
         \A j \in 0..count - 1 : sbuf[j] = last[j + 1]

\* The line so far: the first k bytes and the blanks behind them.
RowSoFar(k, pad) ==
  [offset |-> Lines!Hex(position, Digits),
   hex |-> [j \in 1..k |-> Lines!Hex(last[j], 2)],
   pad |-> pad,
   text |-> <<>>]

LineSoFar ==
  /\ AtHex => i \in 0..count /\ line = RowSoFar(i, 0)
  /\ AtFill => i \in start..Width /\ line = RowSoFar(count, i - start)
  /\ AtWords \/ AtPrint => line = RowSoFar(count, Width - start)

\* The characters of the first i bytes are in place, and what is behind them is
\* 0 in C, in assembly the rest of the bytes.  There the register that hands a
\* byte over has nothing above it.
TextSoFar ==
  /\ AtWords \/ AtPrint =>
       /\ i \in 0..count
       /\ \A j \in 0..i - 1 : text[j] = Lines!Printable(last[j + 1])
       /\ program = "C" => \A j \in i..Width : words[j] = 0
       /\ program = "assembly" => \A j \in i..count - 1 : sbuf[j] = last[j + 1]
  /\ AtPrint => i = count
  /\ program = "assembly" /\ AtWords => rdi = [high |-> FALSE, low |-> rdi.low]

Inv == Labels /\ Registers /\ Histories /\ BytesKept /\ LineSoFar /\ TextSoFar

-----------------------------------------------------------------------------
(* The steps *)

\* A step of either program writes no line and reads nothing, or does what
\* HexLines allows.
StepOfLines == [Lines!Read \/ Lines!WriteLine]_<<reads, out>>

\* What hex_read does, in both programs.
Got(error) ==
  \/ /\ Len(reads) < MaxReads
     /\ \E k \in 1..Width : \E bytes \in [1..k -> Bytes] :
          /\ n' = k
          /\ sbuf' = [j \in 0..Width |-> IF j < k THEN bytes[j + 1] ELSE sbuf[j]]
          /\ reads' = Append(reads, bytes)
  \/ /\ Len(reads) < MaxReads
     /\ n' = error /\ reads' = Append(reads, <<>>) /\ UNCHANGED sbuf
  \/ n' = 0 /\ UNCHANGED <<reads, sbuf>>

\* The two programs read alike.
LEMMA ReadsAlike ==
  /\ \A error : InC!hex_read(error) => Got(error)
  /\ InAsm!hex_read => Got(InAsm!Errno)
<1>1. \A error : InC!hex_read(error) => Got(error)
  BY DEF InC!hex_read, InC!Buffer, Got
<1>2. InAsm!hex_read => Got(InAsm!Errno)
  BY DEF InAsm!hex_read, InAsm!C!hex_read, InAsm!C!Buffer, Got
<1> QED BY <1>1, <1>2

\* Bytes that are read are an input of HexLines.
LEMMA Inputs ==
  /\ \A k \in 0..Width : \A bytes \in [1..k -> Bytes] : bytes \in Lines!Input /\ Len(bytes) = k
  /\ <<>> \in Lines!Input
  /\ \A bytes \in Lines!Input : bytes \in Seq(Bytes) /\ Len(bytes) \in 0..Width
<1>1. Width \in Nat
  BY HexAssumption
<1>2. Lines!Input = UNION {[1..k -> Bytes] : k \in 0..Width}
  BY DEF Lines!Input
<1>3. ASSUME NEW k \in 0..Width, NEW bytes \in [1..k -> Bytes]
      PROVE  bytes \in Lines!Input /\ bytes \in Seq(Bytes) /\ Len(bytes) = k
  <2>1. bytes \in Lines!Input
    BY <1>2
  <2>2. bytes \in Seq(Bytes) /\ Len(bytes) = k
    BY <1>1
  <2> QED BY <2>1, <2>2
<1>4. <<>> \in Lines!Input
  <2>1. <<>> \in [1..0 -> Bytes] /\ 0 \in 0..Width
    BY <1>1
  <2> QED BY <2>1, <1>3
<1>5. ASSUME NEW bytes \in Lines!Input
      PROVE  bytes \in Seq(Bytes) /\ Len(bytes) \in 0..Width
  <2>1. PICK k \in 0..Width : bytes \in [1..k -> Bytes]
    BY <1>2
  <2> QED BY <2>1, <1>3
<1> QED BY <1>3, <1>4, <1>5

\* Between two lines a read gives a line to write, or ends the dump.
LEMMA ReadKeeps ==
  ASSUME Inv, pc \in {"read", "again"},
         Got(IF program = "C" THEN -1 ELSE InAsm!Errno),
         pc' = (IF program = "C" THEN "top" ELSE ".Ltop"),
         position' = (IF pc = "again" THEN position + Width ELSE position),
         UNCHANGED <<program, i, words, line, out>>
  PROVE  Inv' /\ StepOfLines
<1> DEFINE error == IF program = "C" THEN -1 ELSE InAsm!Errno
<1>1. Width \in Nat /\ error < 0 /\ error \in Int
  BY HexAssumption DEF InAsm!Errno
<1>2. ~Dumping /\ Labels /\ Registers /\ Histories
  BY DEF Inv, Dumping, AtTop, AtHex, AtFill, AtWords, AtPrint
<1>3. /\ reads \in Seq(Lines!Input) /\ out \in Seq(Rows)
      /\ Len(reads) = Len(out) /\ Len(reads) <= MaxReads
  BY <1>2 DEF Histories
<1>4. /\ AtTop' /\ Labels' /\ ~AtHex' /\ ~AtFill' /\ ~AtWords' /\ ~AtPrint'
      /\ (Dumping' <=> n' # 0) /\ pc' # "again"
  BY <1>2 DEF Labels, Dumping, AtTop, AtHex, AtFill, AtWords, AtPrint
<1>5. position' = Len(out') * Width
  <2>1. PICK l \in Nat : l = Len(out)
    BY <1>3
  <2>2. position = (IF pc = "again" THEN l - 1 ELSE l) * Width
    BY <1>2, <2>1 DEF Histories
  <2>3. (l - 1) * Width + Width = l * Width
    BY <1>1
  <2> QED BY <2>1, <2>2, <2>3
<1>6. LineSoFar' /\ TextSoFar'
  BY <1>4 DEF LineSoFar, TextSoFar
<1>7. CASE /\ Len(reads) < MaxReads
           /\ \E k \in 1..Width : \E bytes \in [1..k -> Bytes] :
                /\ n' = k
                /\ sbuf' = [j \in 0..Width |-> IF j < k THEN bytes[j + 1] ELSE sbuf[j]]
                /\ reads' = Append(reads, bytes)
  <2>1. PICK k \in 1..Width : \E bytes \in [1..k -> Bytes] :
               /\ n' = k
               /\ sbuf' = [j \in 0..Width |-> IF j < k THEN bytes[j + 1] ELSE sbuf[j]]
               /\ reads' = Append(reads, bytes)
    BY <1>7
  <2>2. PICK bytes \in [1..k -> Bytes] :
               /\ n' = k
               /\ sbuf' = [j \in 0..Width |-> IF j < k THEN bytes[j + 1] ELSE sbuf[j]]
               /\ reads' = Append(reads, bytes)
    BY <2>1
  <2>3. bytes \in Lines!Input
    <3>1. k \in 0..Width
      BY <1>1
    <3> QED BY <3>1, Inputs
  <2>4. /\ reads' \in Seq(Lines!Input) /\ Len(reads') = Len(reads) + 1
        /\ reads'[Len(reads')] = bytes
    BY <2>2, <2>3, <1>3
  <2>5. Registers'
    <3>1. ASSUME NEW j \in 0..Width
          PROVE  (IF j < k THEN bytes[j + 1] ELSE sbuf[j]) \in 0..255
      <4>1. sbuf[j] \in 0..255
        BY <1>2 DEF Registers
      <4>2. j < k => bytes[j + 1] \in Bytes
        BY <1>1
      <4> QED BY <4>1, <4>2, HexAssumption
    <3>2. sbuf' \in [0..Width -> 0..255]
      BY <3>1, <2>2
    <3>3. n' \in 0..Width
      BY <2>2, <1>1
    <3> QED BY <1>2, <3>2, <3>3 DEF Registers
  <2>6. Histories'
    <3>1. Len(reads') <= MaxReads
      BY <2>4, <1>3, <1>7, HexAssumption
    <3>2. Dumping'
      BY <2>2, <1>4
    <3> QED BY <3>1, <3>2, <2>4, <1>3, <1>4, <1>5 DEF Histories
  <2>7. BytesKept'
    <3>1. count' = k /\ n' # 0
      BY <2>2 DEF count
    <3>2. last' = bytes
      BY <2>4 DEF last
    <3>3. \A j \in 0..k - 1 : sbuf'[j] = bytes[j + 1]
      BY <2>2, <1>1
    <3> QED BY <3>1, <3>2, <3>3 DEF BytesKept
  <2>8. StepOfLines
    BY <2>2, <2>3, <1>3, <1>7 DEF StepOfLines, Lines!Read
  <2> QED BY <2>5, <2>6, <2>7, <2>8, <1>4, <1>6 DEF Inv
<1>8. CASE /\ Len(reads) < MaxReads
           /\ n' = error /\ reads' = Append(reads, <<>>) /\ UNCHANGED sbuf
  <2>1. PICK none \in Lines!Input : none = <<>>
    BY Inputs
  <2>2. /\ reads' \in Seq(Lines!Input) /\ Len(reads') = Len(reads) + 1
        /\ reads'[Len(reads')] = none
    BY <2>1, <1>3, <1>8
  <2>3. Registers'
    BY <1>2, <1>8 DEF Registers
  <2>4. Histories'
    <3>1. Len(reads') <= MaxReads
      BY <2>2, <1>3, <1>8, HexAssumption
    <3>2. Dumping'
      BY <1>1, <1>4, <1>8
    <3> QED BY <3>1, <3>2, <2>2, <1>3, <1>4, <1>5 DEF Histories
  <2>5. BytesKept'
    <3>1. count' = 0 /\ n' # 0
      BY <1>1, <1>8 DEF count
    <3>2. last' = <<>>
      BY <2>1, <2>2 DEF last
    <3>3. <<>> \in [1..0 -> Bytes]
      OBVIOUS
    <3> QED BY <3>1, <3>2, <3>3 DEF BytesKept
  <2>6. StepOfLines
    BY <2>1, <1>3, <1>8 DEF StepOfLines, Lines!Read
  <2> QED BY <2>3, <2>4, <2>5, <2>6, <1>4, <1>6 DEF Inv
<1>9. CASE n' = 0 /\ UNCHANGED <<reads, sbuf>>
  <2>1. Registers'
    <3>1. n' \in 0..Width
      BY <1>1, <1>9
    <3> QED BY <3>1, <1>2, <1>9 DEF Registers
  <2>2. Histories'
    BY <1>2, <1>3, <1>4, <1>5, <1>9 DEF Histories
  <2>3. BytesKept'
    BY <1>4, <1>9 DEF BytesKept
  <2>4. StepOfLines
    BY <1>9 DEF StepOfLines
  <2> QED BY <2>1, <2>2, <2>3, <2>4, <1>4, <1>6 DEF Inv
<1> QED BY <1>7, <1>8, <1>9 DEF Got

\* The phases of a line exclude each other.
LEMMA Phases ==
  /\ AtTop => ~AtHex /\ ~AtFill /\ ~AtWords /\ ~AtPrint /\ pc # "again"
  /\ AtHex => ~AtTop /\ ~AtFill /\ ~AtWords /\ ~AtPrint /\ pc # "again" /\ Dumping
  /\ AtFill => ~AtTop /\ ~AtHex /\ ~AtWords /\ ~AtPrint /\ pc # "again" /\ Dumping
  /\ AtWords => ~AtTop /\ ~AtHex /\ ~AtFill /\ ~AtPrint /\ pc # "again" /\ Dumping
  /\ AtPrint => ~AtTop /\ ~AtHex /\ ~AtFill /\ ~AtWords /\ pc # "again" /\ Dumping
  /\ AtTop /\ n # 0 => Dumping
  BY DEF AtTop, AtHex, AtFill, AtWords, AtPrint, Dumping

\* What the registers say of the line that is written.
LEMMA Counts ==
  ASSUME Inv
  PROVE  /\ count \in 0..Width /\ start \in -1..Width /\ Width \in Nat
         /\ n \in Int /\ (n < 0 => n = (IF program = "C" THEN -1 ELSE InAsm!Errno))
         /\ Width - start \in 0..Width + 1
         /\ (n > 0 => count = n /\ start = n) /\ (n <= 0 => count = 0)
<1>1. Width \in Nat /\ n \in {IF program = "C" THEN -1 ELSE InAsm!Errno} \cup 0..Width
  BY HexAssumption DEF Inv, Registers
<1>2. InAsm!Errno \in Int /\ InAsm!Errno < 0
  BY DEF InAsm!Errno
<1>3. n \in Int /\ n <= Width /\ (n < 0 => n = (IF program = "C" THEN -1 ELSE InAsm!Errno))
  BY <1>1, <1>2
<1>4. count \in 0..Width /\ (n > 0 => count = n) /\ (n <= 0 => count = 0)
  BY <1>1, <1>3 DEF count
<1>5. start \in -1..Width /\ (n > 0 => start = n)
  <2>1. CASE program = "C"
    <3>1. n \in -1..Width
      BY <2>1, <1>1, <1>3
    <3> QED BY <2>1, <3>1 DEF start
  <2>2. CASE program # "C"
    BY <2>2, <1>1, <1>4 DEF start
  <2> QED BY <2>1, <2>2
<1>6. Width - start \in 0..Width + 1
  BY <1>1, <1>5
<1> QED BY <1>1, <1>3, <1>4, <1>5, <1>6

\* Steps within a line leave the histories alone.
LEMMA HistoriesStay ==
  ASSUME Histories, Dumping, Dumping', pc # "again", pc' # "again",
         UNCHANGED <<position, reads, out>>
  PROVE  Histories' /\ StepOfLines
  BY DEF Histories, StepOfLines

\* The offset of the line.
LEMMA TopKeeps ==
  ASSUME Inv, AtTop, n # 0, AtHex', Labels', i' = 0, line' = RowSoFar(0, 0),
         UNCHANGED <<program, n, position, sbuf, words, reads, out>>
  PROVE  Inv' /\ StepOfLines
<1>1. Dumping /\ pc # "again" /\ ~AtWords /\ ~AtPrint
  BY Phases
<1>2. Dumping' /\ pc' # "again" /\ ~AtFill' /\ ~AtWords' /\ ~AtPrint'
  BY Phases DEF AtTop, AtHex, AtFill, AtWords, AtPrint, Dumping
<1>3. Histories' /\ StepOfLines
  BY <1>1, <1>2, HistoriesStay DEF Inv
<1>4. Registers'
  <2>1. line'.pad \in 0..Width + 1 /\ i' \in -1..Width
    BY HexAssumption DEF RowSoFar
  <2> QED BY <2>1 DEF Inv, Registers
<1>5. BytesKept'
  <2>1. count' = count /\ last' = last
    BY DEF count, last
  <2> QED BY <1>1, <1>2, <2>1 DEF Inv, BytesKept
<1>6. LineSoFar'
  <2>1. 0 \in 0..count' /\ RowSoFar(0, 0)' = RowSoFar(0, 0)
    <3>1. count \in 0..Width /\ Width \in Nat
      BY Counts
    <3>2. count' = count
      BY DEF count
    <3>3. RowSoFar(0, 0)' = RowSoFar(0, 0)
      BY DEF RowSoFar, last
    <3> QED BY <3>1, <3>2, <3>3
  <2> QED BY <2>1, <1>2 DEF LineSoFar
<1>7. TextSoFar'
  BY <1>2 DEF TextSoFar
<1> QED BY <1>3, <1>4, <1>5, <1>6, <1>7 DEF Inv

\* One byte in hexadecimal.
LEMMA HexKeeps ==
  ASSUME Inv, AtHex, i < n, pc' = pc, i' = i + 1,
         line' = [line EXCEPT !.hex = Append(@, Lines!Hex(sbuf[i], 2))],
         UNCHANGED <<program, n, position, sbuf, words, reads, out>>
  PROVE  Inv' /\ StepOfLines
<1>1. /\ Dumping /\ pc # "again" /\ ~AtTop /\ ~AtFill /\ ~AtWords /\ ~AtPrint
      /\ Dumping' /\ pc' # "again" /\ ~AtTop' /\ ~AtFill' /\ ~AtWords' /\ ~AtPrint' /\ AtHex'
  BY Phases DEF AtTop, AtHex, AtFill, AtWords, AtPrint, Dumping
<1>2. Histories' /\ StepOfLines
  BY <1>1, HistoriesStay DEF Inv
<1>3. /\ Width \in Nat /\ n \in Int /\ count \in 0..Width
      /\ i \in 0..count /\ line = RowSoFar(i, 0)
  BY Counts DEF Inv, LineSoFar
<1>4. count = n /\ i + 1 \in 0..count /\ i \in 0..count - 1
  <2>1. n > 0
    BY <1>3
  <2>2. count = n
    BY <2>1, Counts
  <2> QED BY <2>2, <1>3
<1>5. count' = count /\ last' = last
  BY DEF count, last
<1>6. sbuf[i] = last[i + 1]
  BY <1>1, <1>4 DEF Inv, BytesKept
<1>7. line' = RowSoFar(i + 1, 0)
  <2> DEFINE h == [j \in 1..i |-> Lines!Hex(last[j], 2)]
  <2>1. Append(h, Lines!Hex(last[i + 1], 2)) = [j \in 1..i + 1 |-> Lines!Hex(last[j], 2)]
    <3>1. PICK m \in Nat : m = i
      BY <1>4
    <3>2. PICK g : g = [j \in 1..m + 1 |-> Lines!Hex(last[j], 2)]
      OBVIOUS
    <3>3. h = [j \in 1..m |-> g[j]] /\ g[m + 1] = Lines!Hex(last[m + 1], 2)
      BY <3>1, <3>2
    <3>4. Append([j \in 1..m |-> g[j]], g[m + 1]) = [j \in 1..m + 1 |-> g[j]]
      <4> DEFINE s == [j \in 1..m |-> g[j]]
      <4>1. s \in Seq({g[j] : j \in 1..m + 1}) /\ Len(s) = m
        OBVIOUS
      <4>2. g[m + 1] \in {g[j] : j \in 1..m + 1}
        OBVIOUS
      <4>3. \A j \in 1..m : s[j] = g[j]
        OBVIOUS
      <4> HIDE DEF s
      <4> QED BY <4>1, <4>2, <4>3
    <3>5. [j \in 1..m + 1 |-> g[j]] = g
      BY <3>2
    <3> QED BY <3>1, <3>2, <3>3, <3>4, <3>5
  <2> HIDE DEF h
  <2>2. line = [offset |-> Lines!Hex(position, Digits), hex |-> h, pad |-> 0, text |-> <<>>]
    BY <1>3 DEF RowSoFar, h
  <2>3. line' = [offset |-> Lines!Hex(position, Digits),
                 hex |-> Append(h, Lines!Hex(last[i + 1], 2)), pad |-> 0, text |-> <<>>]
    BY <2>2, <1>6
  <2> QED BY <2>1, <2>3 DEF RowSoFar
<1>8. LineSoFar'
  <2>1. RowSoFar(i + 1, 0) = RowSoFar(i, 0)'
    BY <1>5 DEF RowSoFar
  <2> QED BY <2>1, <1>1, <1>4, <1>5, <1>7 DEF LineSoFar
<1>9. Registers'
  <2>1. line'.pad \in 0..Width + 1
    BY <1>7, <1>3 DEF RowSoFar
  <2>2. i' \in -1..Width
    BY <1>3, <1>4
  <2> QED BY <2>1, <2>2 DEF Inv, Registers
<1>10. BytesKept'
  BY <1>1, <1>5 DEF Inv, BytesKept
<1>11. Labels' /\ TextSoFar'
  BY <1>1 DEF Inv, Labels, TextSoFar
<1> QED BY <1>2, <1>8, <1>9, <1>10, <1>11 DEF Inv

\* All bytes are written in hexadecimal.
LEMMA HexEndKeeps ==
  ASSUME Inv, AtHex, ~(i < n), AtFill', Labels',
         i' = (IF program = "C" THEN n ELSE i),
         UNCHANGED <<program, n, position, sbuf, words, line, reads, out>>
  PROVE  Inv' /\ StepOfLines
<1>1. /\ Dumping /\ pc # "again" /\ ~AtTop /\ ~AtFill /\ ~AtWords /\ ~AtPrint
      /\ Dumping' /\ pc' # "again" /\ ~AtTop' /\ ~AtHex' /\ ~AtWords' /\ ~AtPrint'
  BY Phases DEF AtTop, AtHex, AtFill, AtWords, AtPrint, Dumping
<1>2. Histories' /\ StepOfLines
  BY <1>1, HistoriesStay DEF Inv
<1>3. /\ Width \in Nat /\ n \in Int /\ count \in 0..Width /\ start \in -1..Width
      /\ i \in 0..count /\ line = RowSoFar(i, 0)
      /\ (n > 0 => count = n) /\ (n <= 0 => count = 0)
  BY Counts DEF Inv, LineSoFar
<1>4. i = count
  BY <1>3
<1>5. count' = count /\ last' = last /\ start' = start /\ i' = start
  BY <1>4 DEF count, last, start
<1>6. LineSoFar'
  <2>1. start \in start..Width /\ start - start = 0
    BY <1>3
  <2>2. RowSoFar(count, i - start)' = RowSoFar(count, start - start)
    BY <1>5 DEF RowSoFar
  <2>3. line' = RowSoFar(count, i - start)'
    BY <2>1, <2>2, <1>3, <1>4
  <2> QED BY <2>1, <2>3, <1>1, <1>5 DEF LineSoFar
<1>7. Registers'
  BY <1>3, <1>5 DEF Inv, Registers
<1>8. BytesKept'
  BY <1>1, <1>5 DEF Inv, BytesKept
<1>9. TextSoFar'
  BY <1>1 DEF TextSoFar
<1> QED BY <1>2, <1>6, <1>7, <1>8, <1>9 DEF Inv

\* One blank.
LEMMA FillKeeps ==
  ASSUME Inv, AtFill, i < Width, pc' = pc, i' = i + 1,
         line' = [line EXCEPT !.pad = @ + 1],
         UNCHANGED <<program, n, position, sbuf, words, reads, out>>
  PROVE  Inv' /\ StepOfLines
<1>1. /\ Dumping /\ pc # "again" /\ ~AtTop /\ ~AtHex /\ ~AtWords /\ ~AtPrint
      /\ Dumping' /\ pc' # "again" /\ ~AtTop' /\ ~AtHex' /\ ~AtWords' /\ ~AtPrint' /\ AtFill'
  BY Phases DEF AtTop, AtHex, AtFill, AtWords, AtPrint, Dumping
<1>2. Histories' /\ StepOfLines
  BY <1>1, HistoriesStay DEF Inv
<1>3. /\ Width \in Nat /\ start \in -1..Width
      /\ i \in start..Width /\ line = RowSoFar(count, i - start)
  BY Counts DEF Inv, LineSoFar
<1>4. count' = count /\ last' = last /\ start' = start
  BY DEF count, last, start
<1>5. line' = RowSoFar(count, (i + 1) - start)
  <2>1. line' = RowSoFar(count, (i - start) + 1)
    BY <1>3 DEF RowSoFar
  <2>2. (i - start) + 1 = (i + 1) - start
    BY <1>3
  <2> QED BY <2>1, <2>2
<1>6. i + 1 \in start..Width /\ (i + 1) - start \in 0..Width + 1
  BY <1>3
<1>7. LineSoFar'
  <2>1. RowSoFar(count, (i + 1) - start) = RowSoFar(count, i - start)'
    BY <1>4 DEF RowSoFar
  <2> QED BY <2>1, <1>1, <1>4, <1>5, <1>6 DEF LineSoFar
<1>8. Registers'
  <2>1. line'.pad \in 0..Width + 1
    BY <1>5, <1>6 DEF RowSoFar
  <2>2. i' \in -1..Width
    BY <1>3, <1>6
  <2> QED BY <2>1, <2>2 DEF Inv, Registers
<1>9. BytesKept'
  BY <1>1, <1>4 DEF Inv, BytesKept
<1>10. Labels' /\ TextSoFar'
  BY <1>1 DEF Inv, Labels, TextSoFar
<1> QED BY <1>2, <1>7, <1>8, <1>9, <1>10 DEF Inv

\* All blanks are written, and the buffer of the characters is ready.
LEMMA FillEndKeeps ==
  ASSUME Inv, AtFill, ~(i < Width), AtWords', Labels', i' = 0,
         program = "C" => words' = [j \in 0..Width |-> 0],
         program = "assembly" => rdi' = [high |-> FALSE, low |-> 1],
         UNCHANGED <<program, n, position, sbuf, line, reads, out>>
  PROVE  Inv' /\ StepOfLines
<1>1. /\ Dumping /\ pc # "again" /\ ~AtTop /\ ~AtHex /\ ~AtWords /\ ~AtPrint
      /\ Dumping' /\ pc' # "again" /\ ~AtTop' /\ ~AtHex' /\ ~AtFill' /\ ~AtPrint'
  BY Phases DEF AtTop, AtHex, AtFill, AtWords, AtPrint, Dumping
<1>2. Histories' /\ StepOfLines
  BY <1>1, HistoriesStay DEF Inv
<1>3. /\ Width \in Nat /\ start \in -1..Width /\ count \in 0..Width
      /\ i \in start..Width /\ line = RowSoFar(count, i - start)
  BY Counts DEF Inv, LineSoFar
<1>4. count' = count /\ last' = last /\ start' = start
  BY DEF count, last, start
<1>5. LineSoFar'
  <2>1. i = Width
    BY <1>3
  <2>2. RowSoFar(count, Width - start) = RowSoFar(count, Width - start)'
    BY <1>4 DEF RowSoFar
  <2> QED BY <2>1, <2>2, <1>1, <1>3 DEF LineSoFar
<1>6. Registers'
  <2>1. i' \in -1..Width
    BY <1>3
  <2>2. ASSUME program' = "C" PROVE words' \in [0..Width -> 0..255]
    <3>1. words' = [j \in 0..Width |-> 0]
      BY <2>2
    <3> QED BY <3>1
  <2> QED BY <2>1, <2>2 DEF Inv, Registers
<1>7. /\ \A j \in 0..count - 1 : sbuf[j] = last[j + 1]
      /\ n # 0 /\ last \in [1..count -> Bytes]
  BY <1>1 DEF Inv, BytesKept
<1>8. BytesKept'
  BY <1>4, <1>7 DEF BytesKept
<1>9. TextSoFar'
  <2>1. i' \in 0..count'
    BY <1>3, <1>4
  <2>2. \A j \in 0..i' - 1 : text'[j] = Lines!Printable(last'[j + 1])
    <3>1. 0..i' - 1 = {}
      OBVIOUS
    <3> QED BY <3>1
  <2>3. program' = "C" => \A j \in i'..Width : words'[j] = 0
    OBVIOUS
  <2>4. program' = "assembly" => \A j \in i'..count' - 1 : sbuf'[j] = last'[j + 1]
    BY <1>4, <1>7
  <2>5. program' = "assembly" /\ AtWords' => rdi' = [high |-> FALSE, low |-> rdi'.low]
    OBVIOUS
  <2> QED BY <2>1, <2>2, <2>3, <2>4, <2>5, <1>1 DEF TextSoFar
<1> QED BY <1>2, <1>5, <1>6, <1>8, <1>9 DEF Inv

\* One character.
LEMMA WordsKeeps ==
  ASSUME Inv, AtWords, i < n, pc' = pc, i' = i + 1,
         program = "C" =>
           words' = [words EXCEPT ![i] = Lines!Printable(sbuf[i])] /\ UNCHANGED sbuf,
         program = "assembly" =>
           /\ sbuf' = [sbuf EXCEPT ![i] = Lines!Printable(sbuf[i])] /\ UNCHANGED words
           /\ rdi' = [high |-> FALSE, low |-> sbuf[i]],
         UNCHANGED <<program, n, position, line, reads, out>>
  PROVE  Inv' /\ StepOfLines
<1>1. /\ Dumping /\ pc # "again" /\ ~AtTop /\ ~AtHex /\ ~AtFill /\ ~AtPrint
      /\ Dumping' /\ pc' # "again" /\ ~AtTop' /\ ~AtHex' /\ ~AtFill' /\ ~AtPrint' /\ AtWords'
  BY Phases DEF AtTop, AtHex, AtFill, AtWords, AtPrint, Dumping
<1>2. Histories' /\ StepOfLines
  BY <1>1, HistoriesStay DEF Inv
<1>3. Width \in Nat /\ n \in Int /\ count \in 0..Width /\ i \in 0..count
  BY <1>1, Counts DEF Inv, TextSoFar
<1>4. i \in 0..count - 1 /\ i \in 0..Width /\ i + 1 \in 0..count /\ i + 1 \in -1..Width
  <2>1. n > 0
    BY <1>3
  <2>2. count = n
    BY <2>1, Counts
  <2> QED BY <2>2, <1>3
<1>5. count' = count /\ last' = last /\ start' = start
  BY DEF count, last, start
<1>6. sbuf[i] = last[i + 1] /\ sbuf[i] \in 0..255
  <2>1. CASE program = "C"
    <3>1. sbuf[i] = last[i + 1]
      BY <2>1, <1>1, <1>4 DEF Inv, BytesKept
    <3> QED BY <3>1, <1>4 DEF Inv, Registers
  <2>2. CASE program = "assembly"
    <3>1. sbuf[i] = last[i + 1]
      BY <2>2, <1>1, <1>4 DEF Inv, TextSoFar
    <3> QED BY <3>1, <1>4 DEF Inv, Registers
  <2> QED BY <2>1, <2>2 DEF Inv, Labels
<1>7. Lines!Printable(sbuf[i]) \in 0..255
  BY <1>6 DEF Lines!Printable
<1>8. sbuf \in [0..Width -> 0..255] /\ (program = "C" => words \in [0..Width -> 0..255])
  BY DEF Inv, Registers
<1>9. Registers'
  <2>1. sbuf' \in [0..Width -> 0..255]
    <3>1. [sbuf EXCEPT ![i] = Lines!Printable(sbuf[i])] \in [0..Width -> 0..255]
      BY <1>7, <1>8
    <3> QED BY <3>1, <1>8 DEF Inv, Labels
  <2>2. ASSUME program = "C" PROVE words' \in [0..Width -> 0..255]
    <3>1. words' = [words EXCEPT ![i] = Lines!Printable(sbuf[i])]
      BY <2>2
    <3> QED BY <3>1, <2>2, <1>7, <1>8
  <2> QED BY <2>1, <2>2, <1>4 DEF Inv, Registers
<1>10. BytesKept'
  <2>1. program = "C" => sbuf' = sbuf
    OBVIOUS
  <2>2. program \in {"C", "assembly"}
    BY DEF Inv, Labels
  <2> QED BY <2>1, <2>2, <1>1, <1>5 DEF Inv, BytesKept
<1>11. LineSoFar'
  <2>1. RowSoFar(count, Width - start)' = RowSoFar(count, Width - start)
    BY <1>5 DEF RowSoFar
  <2> QED BY <2>1, <1>1 DEF Inv, LineSoFar
<1>12. TextSoFar'
  <2>1. text' = [text EXCEPT ![i] = Lines!Printable(last[i + 1])] /\ text \in [0..Width -> 0..255]
    <3>1. CASE program = "C"
      <4>1. text = words /\ text' = words'
        BY <3>1 DEF text
      <4> QED BY <4>1, <3>1, <1>6, <1>8
    <3>2. CASE program = "assembly"
      <4>1. text = sbuf /\ text' = sbuf'
        BY <3>2 DEF text
      <4> QED BY <4>1, <3>2, <1>6, <1>8
    <3> QED BY <3>1, <3>2 DEF Inv, Labels
  <2>2. \A j \in 0..i - 1 : text[j] = Lines!Printable(last[j + 1])
    BY <1>1 DEF Inv, TextSoFar
  <2>3. ASSUME NEW j \in 0..i' - 1
        PROVE  text'[j] = Lines!Printable(last'[j + 1])
    <3>1. j = i \/ j \in 0..i - 1
      BY <1>3
    <3>2. j \in 0..Width
      BY <1>3, <1>4
    <3>3. CASE j = i
      <4>1. text'[i] = Lines!Printable(last[i + 1])
        BY <2>1, <1>4
      <4> QED BY <4>1, <3>3, <1>5
    <3>4. CASE j \in 0..i - 1
      <4>1. j # i
        BY <3>4, <1>3
      <4>2. text'[j] = text[j]
        BY <2>1, <3>2, <4>1
      <4> QED BY <4>2, <3>4, <2>2, <1>5
    <3> QED BY <3>1, <3>3, <3>4
  <2>4. ASSUME program = "C", NEW j \in i'..Width
        PROVE  words'[j] = 0
    <3>1. j \in i..Width /\ j # i /\ j \in 0..Width
      BY <1>3
    <3>2. words[j] = 0
      BY <2>4, <3>1, <1>1 DEF Inv, TextSoFar
    <3>3. words' = [words EXCEPT ![i] = Lines!Printable(sbuf[i])]
      BY <2>4
    <3> QED BY <2>4, <3>1, <3>2, <3>3, <1>8
  <2>5. ASSUME program = "assembly", NEW j \in i'..count - 1
        PROVE  sbuf'[j] = last[j + 1]
    <3>1. j \in i..count - 1 /\ j # i /\ j \in 0..Width
      BY <1>3
    <3>2. sbuf[j] = last[j + 1]
      BY <2>5, <3>1, <1>1 DEF Inv, TextSoFar
    <3>3. sbuf' = [sbuf EXCEPT ![i] = Lines!Printable(sbuf[i])]
      BY <2>5
    <3> QED BY <3>1, <3>2, <3>3, <1>8
  <2>6. program = "assembly" => rdi' = [high |-> FALSE, low |-> rdi'.low]
    OBVIOUS
  <2>7. i' \in 0..count'
    BY <1>4, <1>5
  <2> QED BY <2>3, <2>4, <2>5, <2>6, <2>7, <1>1, <1>5 DEF TextSoFar
<1>13. Labels'
  BY DEF Inv, Labels
<1> QED BY <1>2, <1>9, <1>10, <1>11, <1>12, <1>13 DEF Inv

\* All characters are in place.
LEMMA WordsEndKeeps ==
  ASSUME Inv, AtWords, ~(i < n), AtPrint', Labels',
         UNCHANGED <<program, n, position, i, sbuf, words, line, reads, out>>
  PROVE  Inv' /\ StepOfLines
<1>1. /\ Dumping /\ pc # "again" /\ ~AtTop /\ ~AtHex /\ ~AtFill /\ ~AtPrint
      /\ Dumping' /\ pc' # "again" /\ ~AtTop' /\ ~AtHex' /\ ~AtFill' /\ ~AtWords'
  BY Phases DEF AtTop, AtHex, AtFill, AtWords, AtPrint, Dumping
<1>2. Histories' /\ StepOfLines
  BY <1>1, HistoriesStay DEF Inv
<1>3. /\ Width \in Nat /\ n \in Int /\ count \in 0..Width /\ i \in 0..count
      /\ (n > 0 => count = n) /\ (n <= 0 => count = 0)
  BY <1>1, Counts DEF Inv, TextSoFar
<1>4. i = count
  BY <1>3
<1>5. count' = count /\ last' = last /\ start' = start /\ text' = text
  BY DEF count, last, start, text
<1>6. Registers'
  BY DEF Inv, Registers
<1>7. BytesKept'
  BY <1>1, <1>5 DEF Inv, BytesKept
<1>8. LineSoFar'
  <2>1. RowSoFar(count, Width - start)' = RowSoFar(count, Width - start)
    BY <1>5 DEF RowSoFar
  <2> QED BY <2>1, <1>1 DEF Inv, LineSoFar
<1>9. TextSoFar'
  BY <1>1, <1>4, <1>5 DEF Inv, TextSoFar
<1> QED BY <1>2, <1>6, <1>7, <1>8, <1>9 DEF Inv

\* What is printed of a buffer is what stands before the first 0.
LEMMA TextWritten ==
  ASSUME NEW w, NEW c \in 0..Width, NEW bytes,
         \A j \in 0..c - 1 : w[j] = Lines!Printable(bytes[j + 1]) /\ bytes[j + 1] \in 0..255,
         w[c] = 0
  PROVE  /\ InC!hex_write_string(w) = [j \in 1..c |-> Lines!Printable(bytes[j])]
         /\ InAsm!hex_write_string(w) = InC!hex_write_string(w)
<1>1. Width \in Nat /\ c \in Nat
  BY HexAssumption
<1> DEFINE First(k) == w[k] = 0 /\ \A j \in 0..Width : w[j] = 0 => k <= j
<1>2. ASSUME NEW j \in 0..c - 1 PROVE w[j] # 0
  BY DEF Lines!Printable
<1>3. First(c)
  <2>1. ASSUME NEW j \in 0..Width, w[j] = 0 PROVE c <= j
    <3>1. j \notin 0..c - 1
      BY <1>2, <2>1
    <3> QED BY <3>1, <1>1
  <2> QED BY <2>1
<1>4. ASSUME NEW k \in 0..Width, First(k) PROVE k = c
  <2>1. k <= c /\ w[k] = 0
    BY <1>4
  <2>2. k \notin 0..c - 1
    BY <1>2, <2>1
  <2> QED BY <2>1, <2>2, <1>1
<1>5. (CHOOSE k \in 0..Width : First(k)) = c
  <2> HIDE DEF First
  <2> QED BY <1>3, <1>4
<1>6. InC!hex_write_string(w) = [k \in 1..c |-> w[k - 1]]
  BY <1>5 DEF InC!hex_write_string, InC!Buffer
<1>7. ASSUME NEW k \in 1..c PROVE w[k - 1] = Lines!Printable(bytes[k])
  <2>1. k - 1 \in 0..c - 1 /\ (k - 1) + 1 = k
    BY <1>1
  <2> QED BY <2>1
<1>8. InAsm!hex_write_string(w) = InC!hex_write_string(w)
  BY DEF InAsm!hex_write_string, InAsm!C!hex_write_string, InC!hex_write_string,
         InAsm!C!Buffer, InC!Buffer
<1> QED BY <1>6, <1>7, <1>8

\* A buffer stays one when a NUL is put into it.
LEMMA Cleared ==
  ASSUME NEW w \in [0..Width -> 0..255], NEW k
  PROVE  [w EXCEPT ![k] = 0] \in [0..Width -> 0..255]
<1>1. \A z \in 0..255 : [w EXCEPT ![k] = z] \in [0..Width -> 0..255]
  OBVIOUS
<1>2. 0 \in 0..255
  OBVIOUS
<1> QED BY <1>1, <1>2

\* The line is written.
LEMMA PrintKeeps ==
  ASSUME Inv, AtPrint, pc' = "again", Labels',
         program = "C" => UNCHANGED sbuf,
         program = "assembly" => sbuf' = [sbuf EXCEPT ![i] = 0],
         out' = Append(out, [line EXCEPT !.text = InC!hex_write_string(text')]),
         UNCHANGED <<program, n, position, i, words, line, reads>>
  PROVE  Inv' /\ StepOfLines
<1>1. /\ Dumping /\ pc # "again" /\ ~AtTop /\ ~AtHex /\ ~AtFill /\ ~AtWords
      /\ ~Dumping' /\ ~AtTop' /\ ~AtHex' /\ ~AtFill' /\ ~AtWords' /\ ~AtPrint'
  BY Phases DEF AtTop, AtHex, AtFill, AtWords, AtPrint, Dumping
<1>2. /\ Width \in Nat /\ count \in 0..Width /\ i = count /\ start \in -1..Width
      /\ Width - start \in 0..Width + 1 /\ (n > 0 => count = n /\ start = n)
      /\ (n <= 0 => count = 0) /\ n \in Int
  BY <1>1, Counts DEF Inv, TextSoFar
<1>3. PICK bytes : bytes = last
  OBVIOUS
<1>4. bytes \in [1..count -> Bytes] /\ n # 0
  BY <1>1, <1>3 DEF Inv, BytesKept
<1>5. bytes \in Lines!Input /\ Len(bytes) = count /\ DOMAIN bytes = 1..count
  BY <1>2, <1>4, Inputs
<1>6. ASSUME NEW j \in 0..count - 1 PROVE bytes[j + 1] \in 0..255
  <2>1. j + 1 \in 1..count
    BY <1>2
  <2> QED BY <2>1, <1>4, HexAssumption
<1>7. sbuf \in [0..Width -> 0..255] /\ (program = "C" => words \in [0..Width -> 0..255])
  BY DEF Inv, Registers
<1>8. \A j \in 0..count - 1 : text[j] = Lines!Printable(bytes[j + 1])
  BY <1>1, <1>2, <1>3 DEF Inv, TextSoFar
<1>9. /\ \A j \in 0..count - 1 : text'[j] = text[j]
      /\ text'[count] = 0
  <2>1. CASE program = "C"
    <3>1. text = words /\ text' = words
      BY <2>1 DEF text
    <3>2. count \in i..Width
      BY <1>2
    <3>3. words[count] = 0
      BY <2>1, <3>2, <1>1 DEF Inv, TextSoFar
    <3> QED BY <3>1, <3>3
  <2>2. CASE program = "assembly"
    <3>1. text = sbuf /\ text' = sbuf'
      BY <2>2 DEF text
    <3>2. sbuf' = [sbuf EXCEPT ![count] = 0]
      BY <2>2, <1>2
    <3>3. ASSUME NEW j \in 0..count - 1 PROVE j \in 0..Width /\ j # count
      BY <1>2
    <3> QED BY <3>1, <3>2, <3>3, <1>2, <1>7
  <2> QED BY <2>1, <2>2 DEF Inv, Labels
<1>10. InC!hex_write_string(text') = [j \in 1..count |-> Lines!Printable(bytes[j])]
  <2>1. PICK w : w = text'
    OBVIOUS
  <2>2. PICK c \in 0..Width : c = count
    BY <1>2
  <2>3. \A j \in 0..c - 1 : w[j] = Lines!Printable(bytes[j + 1]) /\ bytes[j + 1] \in 0..255
    BY <2>1, <2>2, <1>6, <1>8, <1>9
  <2>4. w[c] = 0
    BY <2>1, <2>2, <1>9
  <2>5. /\ InC!hex_write_string(w) = [j \in 1..c |-> Lines!Printable(bytes[j])]
        /\ InAsm!hex_write_string(w) = InC!hex_write_string(w)
    BY <2>3, <2>4, TextWritten
  <2> QED BY <2>1, <2>2, <2>5
<1>11. PICK l \in Nat : l = Len(out) /\ Len(reads) = l + 1 /\ position = l * Width
  BY <1>1 DEF Inv, Histories
<1>12. out' = Append(out, Lines!LineOf(l, bytes, Width - start))
  <2>1. line = RowSoFar(count, Width - start)
    BY <1>1 DEF Inv, LineSoFar
  <2>2. [line EXCEPT !.text = [j \in 1..count |-> Lines!Printable(bytes[j])]]
          = [offset |-> Lines!Hex(position, Digits),
             hex |-> [j \in 1..count |-> Lines!Hex(last[j], 2)],
             pad |-> Width - start,
             text |-> [j \in 1..count |-> Lines!Printable(bytes[j])]]
    <3>1. PICK o, h, p, t :
            /\ o = Lines!Hex(position, Digits)
            /\ h = [j \in 1..count |-> Lines!Hex(last[j], 2)]
            /\ p = Width - start
            /\ t = [j \in 1..count |-> Lines!Printable(bytes[j])]
      OBVIOUS
    <3>2. line = [offset |-> o, hex |-> h, pad |-> p, text |-> <<>>]
      BY <2>1, <3>1 DEF RowSoFar
    <3>3. [line EXCEPT !.text = t] = [offset |-> o, hex |-> h, pad |-> p, text |-> t]
      BY <3>2
    <3> QED BY <3>1, <3>3
  <2>3. Lines!LineOf(l, bytes, Width - start)
          = [line EXCEPT !.text = [j \in 1..count |-> Lines!Printable(bytes[j])]]
    <3>1. [j \in DOMAIN bytes |-> Lines!Hex(bytes[j], 2)] = [j \in 1..count |-> Lines!Hex(last[j], 2)]
      BY <1>3, <1>5
    <3>2. [j \in DOMAIN bytes |-> Lines!Printable(bytes[j])]
            = [j \in 1..count |-> Lines!Printable(bytes[j])]
      BY <1>5
    <3> QED BY <3>1, <3>2, <2>2, <1>11 DEF Lines!LineOf
  <2> QED BY <2>3, <1>10
<1>13. StepOfLines
  <2>1. Len(out) < Len(reads)
    BY <1>11
  <2>2. bytes = reads[Len(reads)]
    BY <1>3 DEF last
  <2>3. bytes # <<>> => Width - start = Width - Len(bytes)
    <3>1. bytes # <<>> => count # 0
      BY <1>5
    <3> QED BY <3>1, <1>2, <1>5
  <2> QED BY <2>1, <2>2, <2>3, <1>2, <1>11, <1>12 DEF StepOfLines, Lines!WriteLine
<1>14. Histories'
  <2>1. Lines!LineOf(l, bytes, Width - start) \in Rows
    BY <1>2, <1>5 DEF Rows
  <2>2. PICK row \in Rows : row = Lines!LineOf(l, bytes, Width - start)
    BY <2>1
  <2>3. out' = Append(out, row) /\ out \in Seq(Rows)
    BY <2>2, <1>12 DEF Inv, Histories
  <2>4. out' \in Seq(Rows) /\ Len(out') = l + 1
    BY <2>3, <1>11
  <2>5. position' = (Len(out') - 1) * Width
    BY <2>4, <1>11
  <2>6. reads' = reads /\ reads \in Seq(Lines!Input) /\ Len(reads) <= MaxReads
    BY DEF Inv, Histories
  <2>7. Len(out') > 0
    BY <2>4
  <2>8. Len(reads') = Len(out')
    BY <2>4, <2>6, <1>11
  <2> QED BY <2>4, <2>5, <2>6, <2>7, <2>8, <1>1 DEF Histories
<1>15. Registers'
  <2>1. sbuf' \in [0..Width -> 0..255]
    <3>1. [sbuf EXCEPT ![i] = 0] \in [0..Width -> 0..255]
      BY <1>7, Cleared
    <3>2. program = "C" \/ program = "assembly"
      <4>1. Labels
        BY DEF Inv
      <4> QED BY <4>1 DEF Labels
    <3>3. CASE program = "C"
      <4>1. sbuf' = sbuf
        BY <3>3
      <4> QED BY <4>1, <1>7
    <3>4. CASE program = "assembly"
      <4>1. sbuf' = [sbuf EXCEPT ![i] = 0]
        BY <3>4
      <4> QED BY <4>1, <3>1
    <3> QED BY <3>2, <3>3, <3>4
  <2> QED BY <2>1 DEF Inv, Registers
<1>16. BytesKept' /\ LineSoFar' /\ TextSoFar'
  BY <1>1 DEF BytesKept, LineSoFar, TextSoFar
<1> QED BY <1>13, <1>14, <1>15, <1>16 DEF Inv

\* The dump ends.
LEMMA DoneKeeps ==
  ASSUME Inv, AtTop, n = 0, Labels', pc' \in {"done", ".Ldone"},
         UNCHANGED <<program, n, position, i, sbuf, words, line, reads, out>>
  PROVE  Inv' /\ StepOfLines
<1>1. ~Dumping /\ pc # "again" /\ ~AtHex /\ ~AtFill /\ ~AtWords /\ ~AtPrint
  BY DEF AtTop, AtHex, AtFill, AtWords, AtPrint, Dumping
<1>2. ~Dumping' /\ pc' # "again" /\ ~AtHex' /\ ~AtFill' /\ ~AtWords' /\ ~AtPrint'
  BY DEF AtTop, AtHex, AtFill, AtWords, AtPrint, Dumping
<1>3. Histories' /\ StepOfLines
  BY <1>1, <1>2 DEF Inv, Histories, StepOfLines
<1>4. Registers'
  BY DEF Inv, Registers
<1>5. BytesKept' /\ LineSoFar' /\ TextSoFar'
  BY <1>2 DEF BytesKept, LineSoFar, TextSoFar
<1> QED BY <1>3, <1>4, <1>5 DEF Inv

-----------------------------------------------------------------------------
(* The two programs *)

LEMMA InitHolds == Init => Inv
<1> SUFFICES ASSUME Init PROVE Inv
  OBVIOUS
<1>1. /\ program \in {"C", "assembly"}
      /\ pc = "read" /\ n = 0 /\ position = 0 /\ i = 0
      /\ sbuf = [k \in 0..Width |-> 0] /\ (program = "C" => words = [k \in 0..Width |-> 0])
      /\ line = [offset |-> <<>>, hex |-> <<>>, pad |-> 0, text |-> <<>>]
      /\ reads = <<>> /\ out = <<>>
  BY DEF Init, InC!Init, InAsm!Init, InC!Buffer, InAsm!Buffer, InAsm!C!Buffer,
         InC!NoLine, InAsm!NoLine, InAsm!C!NoLine
<1>2. Width \in Nat /\ MaxReads \in Nat
  BY HexAssumption
<1>3. Labels
  BY <1>1 DEF Labels
<1>4. ~Dumping /\ ~AtHex /\ ~AtFill /\ ~AtWords /\ ~AtPrint
  BY <1>1 DEF Dumping, AtTop, AtHex, AtFill, AtWords, AtPrint
<1>5. Registers
  <2>1. \A z \in 0..255 : [k \in 0..Width |-> z] \in [0..Width -> 0..255]
    OBVIOUS
  <2>2. 0 \in 0..255 /\ 0 \in 0..Width /\ 0 \in -1..Width /\ 0 \in 0..Width + 1
    BY <1>2
  <2>3. [k \in 0..Width |-> 0] \in [0..Width -> 0..255]
    BY <2>1, <2>2
  <2>4. sbuf \in [0..Width -> 0..255] /\ (program = "C" => words \in [0..Width -> 0..255])
    BY <1>1, <2>3
  <2>5. line.pad = 0
    BY <1>1
  <2> QED BY <1>1, <2>2, <2>4, <2>5 DEF Registers
<1>6. Histories
  <2>1. <<>> \in Seq(Lines!Input) /\ <<>> \in Seq(Rows) /\ Len(<<>>) = 0
    OBVIOUS
  <2>2. 0 = 0 * Width
    BY <1>2
  <2> QED BY <1>1, <1>2, <1>4, <2>1, <2>2 DEF Histories
<1> QED BY <1>3, <1>4, <1>5, <1>6 DEF Inv, BytesKept, LineSoFar, TextSoFar

\* The line when the offset is written, in both programs.
LEMMA Offsets ==
  ASSUME Inv, AtTop
  PROVE  /\ [InC!NoLine EXCEPT !.offset = InC!hex_format_offset(position)] = RowSoFar(0, 0)
         /\ [InAsm!NoLine EXCEPT !.offset = InAsm!hex_format_offset(position)] = RowSoFar(0, 0)
<1>1. position \in Nat
  <2>1. PICK l \in Nat : l = Len(out)
    BY DEF Inv, Histories
  <2>2. position = l * Width
    BY <2>1, Phases DEF Inv, Histories
  <2> QED BY <2>2, HexAssumption
<1>2. /\ InC!hex_format_offset(position) = Lines!Hex(position, Digits)
      /\ InAsm!hex_format_offset(position) = Lines!Hex(position, Digits)
  BY <1>1, Conversions DEF ConversionsAgree
<1>3. [j \in 1..0 |-> Lines!Hex(last[j], 2)] = <<>>
  OBVIOUS
<1>4. \A o : [[offset |-> <<>>, hex |-> <<>>, pad |-> 0, text |-> <<>>] EXCEPT !.offset = o]
               = [offset |-> o, hex |-> <<>>, pad |-> 0, text |-> <<>>]
  OBVIOUS
<1>5. RowSoFar(0, 0) = [offset |-> Lines!Hex(position, Digits), hex |-> <<>>, pad |-> 0, text |-> <<>>]
  BY <1>3 DEF RowSoFar
<1>6. /\ InC!NoLine = [offset |-> <<>>, hex |-> <<>>, pad |-> 0, text |-> <<>>]
      /\ InAsm!NoLine = [offset |-> <<>>, hex |-> <<>>, pad |-> 0, text |-> <<>>]
  BY DEF InC!NoLine, InAsm!NoLine, InAsm!C!NoLine
<1> QED BY <1>2, <1>4, <1>5, <1>6

\* Every byte in the buffer is converted as HexLines does.
LEMMA ByteConversions ==
  ASSUME Inv, i \in 0..Width
  PROVE  /\ InC!hex_format_byte_as_hex(sbuf[i]) = Lines!Hex(sbuf[i], 2)
         /\ InAsm!hex_format_byte_as_hex(sbuf[i]) = Lines!Hex(sbuf[i], 2)
         /\ InC!hex_to_printable(sbuf[i]) = Lines!Printable(sbuf[i])
         /\ InAsm!hex_to_printable([high |-> FALSE, low |-> sbuf[i]]) = Lines!Printable(sbuf[i])
<1>1. sbuf[i] \in 0..255
  BY DEF Inv, Registers
<1> QED BY <1>1, Conversions DEF ConversionsAgree

\* Where the counter is below n it is an index of the buffer.
LEMMA CounterInBuffer ==
  ASSUME Inv, AtHex \/ AtWords
  PROVE  i \in 0..Width /\ n \in Int /\ i \in Int /\ Width \in Nat /\ (i < n <=> ~(i >= n))
<1>1. i \in 0..count
  BY DEF Inv, LineSoFar, TextSoFar
<1>2. count \in 0..Width /\ Width \in Nat /\ n \in Int
  BY Counts
<1> QED BY <1>1, <1>2

\* The steps of the program in C.
LEMMA CKeeps ==
  ASSUME Inv, program = "C", InC!Next, UNCHANGED <<program, rdi>>
  PROVE  Inv' /\ StepOfLines
<1>1. CASE InC!FirstRead
  <2>1. Got(IF program = "C" THEN -1 ELSE InAsm!Errno)
    BY <1>1, ReadsAlike DEF InC!FirstRead
  <2>2. /\ pc = "read" /\ pc' = (IF program = "C" THEN "top" ELSE ".Ltop")
        /\ position' = (IF pc = "again" THEN position + Width ELSE position)
        /\ UNCHANGED <<program, i, words, line, out>>
    BY <1>1 DEF InC!FirstRead
  <2>3. pc \in {"read", "again"}
    BY <2>2
  <2> QED BY <2>1, <2>2, <2>3, ReadKeeps
<1>2. CASE InC!ReadAgain
  <2>1. Got(IF program = "C" THEN -1 ELSE InAsm!Errno)
    BY <1>2, ReadsAlike DEF InC!ReadAgain
  <2>2. /\ pc = "again" /\ pc' = (IF program = "C" THEN "top" ELSE ".Ltop")
        /\ position' = (IF pc = "again" THEN position + Width ELSE position)
        /\ UNCHANGED <<program, i, words, line, out>>
    BY <1>2 DEF InC!ReadAgain
  <2>3. pc \in {"read", "again"}
    BY <2>2
  <2> QED BY <2>1, <2>2, <2>3, ReadKeeps
<1>3. CASE InC!Top
  <2>1. /\ AtTop /\ n # 0 /\ AtHex' /\ Labels' /\ i' = 0
        /\ line' = [InC!NoLine EXCEPT !.offset = InC!hex_format_offset(position)]
        /\ UNCHANGED <<program, n, position, sbuf, words, reads, out>>
    BY <1>3 DEF InC!Top, AtTop, AtHex, Labels
  <2>2. line' = RowSoFar(0, 0)
    BY <2>1, Offsets
  <2> QED BY <2>1, <2>2, TopKeeps
<1>4. CASE InC!Done
  <2>1. /\ AtTop /\ n = 0 /\ Labels' /\ pc' \in {"done", ".Ldone"}
        /\ UNCHANGED <<program, n, position, i, sbuf, words, line, reads, out>>
    BY <1>4 DEF InC!Done, AtTop, Labels
  <2> QED BY <2>1, DoneKeeps
<1>5. CASE InC!FormatAsHex
  <2>1. AtHex /\ UNCHANGED <<program, n, position, sbuf, words, reads, out>>
    BY <1>5 DEF InC!FormatAsHex, AtHex
  <2>2. CASE i < n
    <3>1. /\ line' = [line EXCEPT !.hex = Append(@, InC!hex_format_byte_as_hex(sbuf[i]))]
          /\ i' = i + 1 /\ pc' = pc
      BY <1>5, <2>2 DEF InC!FormatAsHex
    <3>2. line' = [line EXCEPT !.hex = Append(@, Lines!Hex(sbuf[i], 2))]
      BY <2>1, <3>1, CounterInBuffer, ByteConversions
    <3> QED BY <2>1, <2>2, <3>1, <3>2, HexKeeps
  <2>3. CASE ~(i < n)
    <3>1. /\ i' = (IF program = "C" THEN n ELSE i) /\ AtFill' /\ Labels' /\ UNCHANGED line
      BY <1>5, <2>3 DEF InC!FormatAsHex, AtFill, Labels
    <3> QED BY <2>1, <2>3, <3>1, HexEndKeeps
  <2> QED BY <2>2, <2>3
<1>6. CASE InC!FillSpace
  <2>1. AtFill /\ UNCHANGED <<program, n, position, sbuf, reads, out>>
    BY <1>6 DEF InC!FillSpace, AtFill
  <2>2. CASE i < Width
    <3>1. line' = [line EXCEPT !.pad = @ + 1] /\ i' = i + 1 /\ UNCHANGED <<pc, words>>
      BY <1>6, <2>2 DEF InC!FillSpace
    <3> QED BY <2>1, <2>2, <3>1, FillKeeps
  <2>3. CASE ~(i < Width)
    <3>1. /\ i' = 0 /\ words' = [k \in 0..Width |-> 0] /\ AtWords' /\ Labels' /\ UNCHANGED line
      BY <1>6, <2>3 DEF InC!FillSpace, InC!Buffer, AtWords, Labels
    <3>2. program # "assembly"
      OBVIOUS
    <3> QED BY <2>1, <2>3, <3>1, <3>2, FillEndKeeps
  <2> QED BY <2>2, <2>3
<1>7. CASE InC!StoreWords
  <2>1. AtWords /\ UNCHANGED <<program, n, position, sbuf, line, reads, out>>
    BY <1>7 DEF InC!StoreWords, AtWords
  <2>2. program # "assembly"
    OBVIOUS
  <2>3. CASE i < n
    <3>1. /\ words' = [words EXCEPT ![i] = InC!hex_to_printable(sbuf[i])]
          /\ i' = i + 1 /\ pc' = pc
      BY <1>7, <2>3 DEF InC!StoreWords
    <3>2. words' = [words EXCEPT ![i] = Lines!Printable(sbuf[i])]
      BY <2>1, <3>1, CounterInBuffer, ByteConversions
    <3> QED BY <2>1, <2>2, <2>3, <3>1, <3>2, WordsKeeps
  <2>4. CASE ~(i < n)
    <3>1. AtPrint' /\ Labels' /\ UNCHANGED <<words, i>>
      BY <1>7, <2>4 DEF InC!StoreWords, AtPrint, Labels
    <3> QED BY <2>1, <2>4, <3>1, WordsEndKeeps
  <2> QED BY <2>3, <2>4
<1>8. CASE InC!PrintWords
  <2>1. /\ AtPrint /\ pc' = "again" /\ Labels'
        /\ out' = Append(out, [line EXCEPT !.text = InC!hex_write_string(words)])
        /\ UNCHANGED <<program, n, position, i, sbuf, words, line, reads>>
    BY <1>8 DEF InC!PrintWords, AtPrint, Labels
  <2>2. text' = words /\ program # "assembly"
    BY <2>1 DEF text
  <2>3. out' = Append(out, [line EXCEPT !.text = InC!hex_write_string(text')])
    BY <2>1, <2>2
  <2> QED BY <2>1, <2>2, <2>3, PrintKeeps
<1> QED BY <1>1, <1>2, <1>3, <1>4, <1>5, <1>6, <1>7, <1>8 DEF InC!Next, InC!Step

\* The steps of the program in assembly language.
LEMMA AsmKeeps ==
  ASSUME Inv, program = "assembly", InAsm!Next, UNCHANGED <<program, words>>
  PROVE  Inv' /\ StepOfLines
<1>1. CASE InAsm!FirstRead
  <2>1. Got(IF program = "C" THEN -1 ELSE InAsm!Errno)
    BY <1>1, ReadsAlike DEF InAsm!FirstRead
  <2>2. /\ pc = "read" /\ pc' = (IF program = "C" THEN "top" ELSE ".Ltop")
        /\ position' = (IF pc = "again" THEN position + Width ELSE position)
        /\ UNCHANGED <<program, i, words, line, out>>
    BY <1>1 DEF InAsm!FirstRead
  <2>3. pc \in {"read", "again"}
    BY <2>2
  <2> QED BY <2>1, <2>2, <2>3, ReadKeeps
<1>2. CASE InAsm!ReadAgain
  <2>1. Got(IF program = "C" THEN -1 ELSE InAsm!Errno)
    BY <1>2, ReadsAlike DEF InAsm!ReadAgain
  <2>2. /\ pc = "again" /\ pc' = (IF program = "C" THEN "top" ELSE ".Ltop")
        /\ position' = (IF pc = "again" THEN position + Width ELSE position)
        /\ UNCHANGED <<program, i, words, line, out>>
    BY <1>2 DEF InAsm!ReadAgain
  <2>3. pc \in {"read", "again"}
    BY <2>2
  <2> QED BY <2>1, <2>2, <2>3, ReadKeeps
<1>3. CASE InAsm!Top
  <2>1. AtTop /\ UNCHANGED <<program, n, position, sbuf, words, reads, out>>
    BY <1>3 DEF InAsm!Top, AtTop
  <2>2. CASE n = 0
    <3>1. Labels' /\ pc' \in {"done", ".Ldone"} /\ UNCHANGED <<line, i>>
      BY <1>3, <2>2 DEF InAsm!Top, Labels
    <3> QED BY <2>1, <2>2, <3>1, DoneKeeps
  <2>3. CASE n # 0
    <3>1. /\ AtHex' /\ Labels' /\ i' = 0
          /\ line' = [InAsm!NoLine EXCEPT !.offset = InAsm!hex_format_offset(position)]
      BY <1>3, <2>3 DEF InAsm!Top, AtHex, Labels
    <3>2. line' = RowSoFar(0, 0)
      BY <2>1, <3>1, Offsets
    <3> QED BY <2>1, <2>3, <3>1, <3>2, TopKeeps
  <2> QED BY <2>2, <2>3
<1>4. CASE InAsm!FormatAsHex
  <2>1. AtHex /\ UNCHANGED <<program, n, position, sbuf, words, reads, out>>
    BY <1>4 DEF InAsm!FormatAsHex, AtHex
  <2>2. i < n <=> ~(i >= n)
    BY <2>1, CounterInBuffer
  <2>3. CASE i < n
    <3>1. /\ line' = [line EXCEPT !.hex = Append(@, InAsm!hex_format_byte_as_hex(sbuf[i]))]
          /\ i' = i + 1 /\ pc' = pc
      BY <1>4, <2>2, <2>3 DEF InAsm!FormatAsHex
    <3>2. line' = [line EXCEPT !.hex = Append(@, Lines!Hex(sbuf[i], 2))]
      BY <2>1, <3>1, CounterInBuffer, ByteConversions
    <3> QED BY <2>1, <2>3, <3>1, <3>2, HexKeeps
  <2>4. CASE ~(i < n)
    <3>1. /\ i' = (IF program = "C" THEN n ELSE i) /\ AtFill' /\ Labels' /\ UNCHANGED line
      BY <1>4, <2>2, <2>4 DEF InAsm!FormatAsHex, AtFill, Labels
    <3> QED BY <2>1, <2>4, <3>1, HexEndKeeps
  <2> QED BY <2>3, <2>4
<1>5. CASE InAsm!FillSpace
  <2>1. /\ AtFill /\ UNCHANGED <<program, n, position, sbuf, words, reads, out>>
        /\ rdi' = [high |-> FALSE, low |-> 1] /\ program # "C"
    BY <1>5 DEF InAsm!FillSpace, InAsm!Written, AtFill
  <2>2. i < Width <=> ~(i >= Width)
    <3>1. i \in start..Width /\ start \in -1..Width /\ Width \in Nat
      BY <2>1, Counts DEF Inv, LineSoFar
    <3> QED BY <3>1
  <2>3. CASE i < Width
    <3>1. line' = [line EXCEPT !.pad = @ + 1] /\ i' = i + 1 /\ UNCHANGED pc
      BY <1>5, <2>2, <2>3 DEF InAsm!FillSpace
    <3> QED BY <2>1, <2>3, <3>1, FillKeeps
  <2>4. CASE ~(i < Width)
    <3>1. i' = 0 /\ AtWords' /\ Labels' /\ UNCHANGED line
      BY <1>5, <2>2, <2>4 DEF InAsm!FillSpace, AtWords, Labels
    <3> QED BY <2>1, <2>4, <3>1, FillEndKeeps
  <2> QED BY <2>3, <2>4
<1>6. CASE InAsm!StoreWords
  <2>1. AtWords /\ UNCHANGED <<program, n, position, words, line, reads, out>> /\ program # "C"
    BY <1>6 DEF InAsm!StoreWords, AtWords
  <2>2. i < n <=> ~(i >= n)
    BY <2>1, CounterInBuffer
  <2>3. CASE i < n
    <3>1. rdi = [high |-> FALSE, low |-> rdi.low]
      BY <2>1 DEF Inv, TextSoFar
    <3>2. PICK l : rdi = [high |-> FALSE, low |-> l]
      BY <3>1
    <3>3. [rdi EXCEPT !.low = sbuf[i]] = [high |-> FALSE, low |-> sbuf[i]]
      <4>1. \A h, b : [[high |-> h, low |-> l] EXCEPT !.low = b] = [high |-> h, low |-> b]
        OBVIOUS
      <4> QED BY <3>2, <4>1, Zenon
    <3>4. /\ sbuf' = [sbuf EXCEPT ![i] = InAsm!hex_to_printable([high |-> FALSE, low |-> sbuf[i]])]
          /\ rdi' = [high |-> FALSE, low |-> sbuf[i]]
          /\ i' = i + 1 /\ pc' = pc
      BY <1>6, <2>2, <2>3, <3>3 DEF InAsm!StoreWords
    <3>5. sbuf' = [sbuf EXCEPT ![i] = Lines!Printable(sbuf[i])]
      BY <2>1, <3>4, CounterInBuffer, ByteConversions
    <3> QED BY <2>1, <2>3, <3>4, <3>5, WordsKeeps
  <2>4. CASE ~(i < n)
    <3>1. AtPrint' /\ Labels' /\ UNCHANGED <<sbuf, i>>
      BY <1>6, <2>2, <2>4 DEF InAsm!StoreWords, AtPrint, Labels
    <3> QED BY <2>1, <2>4, <3>1, WordsEndKeeps
  <2> QED BY <2>3, <2>4
<1>7. CASE InAsm!PrintWords
  <2>1. /\ AtPrint /\ pc' = "again" /\ Labels' /\ program # "C"
        /\ sbuf' = [sbuf EXCEPT ![i] = 0]
        /\ out' = Append(out, [line EXCEPT !.text = InAsm!hex_write_string(sbuf')])
        /\ UNCHANGED <<program, n, position, i, words, line, reads>>
    BY <1>7 DEF InAsm!PrintWords, AtPrint, Labels
  <2>2. text' = sbuf'
    BY <2>1 DEF text
  <2>3. \A w : InAsm!hex_write_string(w) = InC!hex_write_string(w)
    BY DEF InAsm!hex_write_string, InAsm!C!hex_write_string, InC!hex_write_string,
           InAsm!C!Buffer, InC!Buffer
  <2>4. out' = Append(out, [line EXCEPT !.text = InC!hex_write_string(text')])
    BY <2>1, <2>2, <2>3
  <2> QED BY <2>1, <2>4, PrintKeeps
<1> QED BY <1>1, <1>2, <1>3, <1>4, <1>5, <1>6, <1>7 DEF InAsm!Next, InAsm!Step

\* The invariant is kept, and every step is one of HexLines or changes neither
\* what was read nor what was written.
LEMMA NextKeeps == Inv /\ [Run(InC!Next, InAsm!Next)]_vars => Inv' /\ StepOfLines
<1>1. ASSUME Inv, Run(InC!Next, InAsm!Next) PROVE Inv' /\ StepOfLines
  BY <1>1, CKeeps, AsmKeeps DEF Run
<1>2. ASSUME Inv, UNCHANGED vars PROVE Inv' /\ StepOfLines
  <2> USE <1>2 DEF vars
  <2>1. StepOfLines
    BY DEF StepOfLines
  <2>2. Labels' /\ Registers'
    BY DEF Inv, Labels, Registers
  <2>3. (AtTop <=> AtTop') /\ (AtHex <=> AtHex') /\ (AtFill <=> AtFill')
        /\ (AtWords <=> AtWords') /\ (AtPrint <=> AtPrint')
    BY DEF AtTop, AtHex, AtFill, AtWords, AtPrint
  <2>4. (Dumping <=> Dumping') /\ last' = last /\ count' = count /\ start' = start /\ text' = text
    BY <2>3 DEF Dumping, last, count, start, text
  <2>5. Histories' /\ BytesKept'
    BY <2>3, <2>4 DEF Inv, Histories, BytesKept
  <2>6. /\ RowSoFar(i, 0)' = RowSoFar(i, 0)
        /\ RowSoFar(count, i - start)' = RowSoFar(count, i - start)
        /\ RowSoFar(count, Width - start)' = RowSoFar(count, Width - start)
    BY <2>4 DEF RowSoFar
  <2>7. LineSoFar'
    BY <2>3, <2>4, <2>6 DEF Inv, LineSoFar
  <2>8. TextSoFar'
    BY <2>3, <2>4 DEF Inv, TextSoFar
  <2> QED BY <2>1, <2>2, <2>5, <2>7, <2>8 DEF Inv
<1> QED BY <1>1, <1>2

-----------------------------------------------------------------------------
(* The theorems *)

\* The loop counter and the buffers stay within their bounds, the offset is
\* that of a line, and no line is written before its read: in both programs,
\* for every input (c_hexmain.c, asm_hexmain.S).
THEOREM TypeCorrect == Spec => []TypeOK
<1>1. Inv => TypeOK
  <2> SUFFICES ASSUME Inv PROVE TypeOK
    OBVIOUS
  <2>1. /\ i \in -1..Width /\ line.pad \in 0..Width + 1 /\ sbuf \in [0..Width -> 0..255]
        /\ program = "C" => words \in [0..Width -> 0..255]
        /\ n \in {-1, InAsm!Errno} \cup 0..Width
    BY DEF Inv, Registers
  <2>2. PICK l \in Nat : l = Len(out)
    BY DEF Inv, Histories
  <2>3. PICK r \in Nat : r = Len(reads) /\ r <= MaxReads
    BY DEF Inv, Histories
  <2>4. l <= r
    BY <2>2, <2>3 DEF Inv, Histories
  <2>5. PICK k \in 0..MaxReads : position = k * Width
    <3>1. position = (IF pc = "again" THEN l - 1 ELSE l) * Width /\ (pc = "again" => l > 0)
      BY <2>2 DEF Inv, Histories
    <3>2. MaxReads \in Nat /\ l \in 0..MaxReads /\ (l > 0 => l - 1 \in 0..MaxReads)
      BY <2>3, <2>4, HexAssumption
    <3>3. CASE pc = "again"
      BY <3>1, <3>2, <3>3
    <3>4. CASE pc # "again"
      BY <3>1, <3>2, <3>4
    <3> QED BY <3>3, <3>4
  <2> QED BY <2>1, <2>2, <2>3, <2>4, <2>5 DEF TypeOK
<1>2. Spec => []Inv
  BY InitHolds, NextKeeps, PTL DEF Spec
<1> QED BY <1>1, <1>2, PTL

\* Both programs write, for every read, the line HexLines promises, and write
\* nothing else and nothing out of turn: the bytes of an earlier read, the sign
\* of a byte and the registers leave no trace (the safety part of HexLines).
THEOREM Safe == Spec => Lines!Safety
<1>1. Init => Lines!Init
  BY DEF Init, InC!Init, InAsm!Init, Lines!Init
<1>2. Spec => []Inv
  BY InitHolds, NextKeeps, PTL DEF Spec
<1>3. Inv /\ [Run(InC!Next, InAsm!Next)]_vars => [Lines!Read \/ Lines!WriteLine]_<<reads, out>>
  BY NextKeeps DEF StepOfLines
<1> QED BY <1>1, <1>2, <1>3, PTL DEF Spec, Lines!Safety

=============================================================================
