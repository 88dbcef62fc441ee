------------------------------- MODULE UInt256 -------------------------------
(***************************************************************************)
(* The 256-bit integers of src/01ass/uint256.c: four words of WordBits     *)
(* bits, least significant first, the words in 0..3 as in the code.  The   *)
(* code has 64 bits to a word and 4 to a digit of the text form.           *)
(*                                                                         *)
(* The functions are operators on such values; two operands and a distance *)
(* to shift by are run through all their values.                           *)
(***************************************************************************)
EXTENDS Powers, Sequences

CONSTANTS WordBits, DigitBits

ASSUME WidthAssumption ==
  /\ DigitBits \in Nat \ {0}
  /\ WordBits \in Nat \ {0}
  /\ WordBits % DigitBits = 0

Base == Pow(2, WordBits)
Words == 0..Base - 1

uint256_create(data) == [i \in 0..3 |-> data[i]]
uint256_get_bits(val, index) == val[index]

Values == {uint256_create(data) : data \in [0..3 -> Words]}

-----------------------------------------------------------------------------
uint256_create_from_u64(val) == [i \in 0..3 |-> IF i = 0 THEN val ELSE 0]

\* Fault: the carry that comes in is not looked at when carrying out.
CarryOutNoCarryIn(l, r, carry) == IF (l + r) % Base < l THEN 1 ELSE 0

\* The sum overflowed if it is less than a summand, before or after the carry
\* is added.
CarryOut(l, r, carry) ==
  LET without == (l + r) % Base
      with == (l + r + carry) % Base
  IN IF without < l \/ without < r \/ with < l \/ with < r THEN 1 ELSE 0

uint256_add(left, right) ==
  LET carry[i \in 0..3] ==
        IF i = 0 THEN 0 ELSE CarryOut(left[i - 1], right[i - 1], carry[i - 1])
  IN [i \in 0..3 |-> (left[i] + right[i] + carry[i]) % Base]

uint256_sub(left, right) ==
  uint256_add(left, uint256_add([i \in 0..3 |-> Base - 1 - right[i]], uint256_create_from_u64(1)))

-----------------------------------------------------------------------------
Bit(word, n) == (word \div Pow(2, n)) % 2

\* The word with those bits set for which f is TRUE, from the lowest on.
OfBits(f) ==
  LET low[n \in 0..WordBits] ==
        IF n = 0 THEN 0 ELSE low[n - 1] + (IF f[n - 1] THEN Pow(2, n - 1) ELSE 0)
  IN low[WordBits]

word1 & word2 == OfBits([n \in 0..WordBits - 1 |-> Bit(word1, n) = 1 /\ Bit(word2, n) = 1])
word1 | word2 == OfBits([n \in 0..WordBits - 1 |-> Bit(word1, n) = 1 \/ Bit(word2, n) = 1])

uint256_bit_is_set(val, index) ==
  LET idx == index \div WordBits
      n == IF idx # 0 THEN index % (WordBits * idx) ELSE index
  IN Bit(val[idx], n) = 1

\* The test that precedes the loop, 0 < whole or whole <= 4, is always true.
uint256_wholeshift(val, whole) ==
  [i \in 0..3 |-> IF i >= whole THEN val[i - whole] ELSE 0]

ShiftLeft(word, n) == (word * Pow(2, n)) % Base
ShiftRight(word, n) == word \div Pow(2, n)

\* "shift" ones in a word.  The loop that sets them runs past the width of a
\* word when shift is greater.  1UL << i is undefined then, but whatever bits it
\* yields are set by | in a word in which all are set before that.
Ones(shift) == IF shift >= WordBits THEN Base - 1 ELSE Pow(2, shift) - 1

\* Fault: the bits moved out of word 1 go into word 3.
LeftShiftCrossed(val, shift) ==
  LET v == uint256_wholeshift(val, shift \div WordBits)
      partial == shift % WordBits
      mask == ShiftLeft(Ones(shift), WordBits - partial)
      over(i) == ShiftRight(v[i] & mask, WordBits - partial)
  IN IF shift = 0 \/ partial = 0 THEN v
     ELSE [i \in 0..3 |->
             CASE i = 0 -> ShiftLeft(v[0], partial)
               [] i = 3 -> ShiftLeft(v[3], partial) | over(1)
               [] OTHER -> ShiftLeft(v[i], partial) | over(i - 1)]

uint256_leftshift(val, shift) ==
  LET v == uint256_wholeshift(val, shift \div WordBits)
      partial == shift % WordBits
      mask == ShiftLeft(Ones(shift), WordBits - partial)
      over(i) == ShiftRight(v[i] & mask, WordBits - partial)
  IN IF shift = 0 \/ partial = 0 THEN v
     ELSE [i \in 0..3 |->
             IF i = 0 THEN ShiftLeft(v[0], partial)
                      ELSE ShiftLeft(v[i], partial) | over(i - 1)]

uint256_mul(left, right) ==
  LET product[i \in 0..4 * WordBits] ==
        IF i = 0 THEN uint256_create_from_u64(0)
        ELSE IF uint256_bit_is_set(left, i - 1)
        THEN uint256_add(product[i - 1], uint256_leftshift(right, i - 1))
        ELSE product[i - 1]
  IN product[4 * WordBits]

-----------------------------------------------------------------------------
(* The text form: a sequence of digits, the most significant first.          *)

DigitsPerWord == WordBits \div DigitBits
Digits == 4 * DigitsPerWord

\* The n lowest digits of a word.
WordDigits(word, n) == [k \in 1..n |-> ShiftRight(word, DigitBits * (n - k)) % Pow(2, DigitBits)]

NumberOfDigits(word) ==
  CHOOSE n \in 1..DigitsPerWord : word < Pow(2, DigitBits * n) /\ (n = 1 \/ word >= Pow(2, DigitBits * (n - 1)))

\* Fault: the lower words are printed without their leading zeros.
FormatUnpadded(val) ==
  LET sig == CHOOSE i \in -1..3 : (i = -1 \/ val[i] # 0) /\ \A j \in 0..3 : j > i => val[j] = 0
      text[i \in -1..3] ==
        IF i = -1 THEN <<>> ELSE WordDigits(val[i], NumberOfDigits(val[i])) \o text[i - 1]
  IN IF sig = -1 THEN <<0>> ELSE text[sig]

\* The most significant word that is not 0 without leading zeros, the words
\* below it with them.
uint256_format_as_hex(val) ==
  LET sig == CHOOSE i \in -1..3 : (i = -1 \/ val[i] # 0) /\ \A j \in 0..3 : j > i => val[j] = 0
      below[i \in -1..3] ==
        IF i = -1 THEN <<>> ELSE WordDigits(val[i], DigitsPerWord) \o below[i - 1]
  IN IF sig = -1 THEN <<0>>
     ELSE WordDigits(val[sig], NumberOfDigits(val[sig])) \o below[sig - 1]

\* The number a sequence of digits stands for, as strtoul finds it.
Number(digits) ==
  LET n[k \in 0..Len(digits)] == IF k = 0 THEN 0 ELSE n[k - 1] * Pow(2, DigitBits) + digits[k]
  IN n[Len(digits)]

\* char temp[64] holds Digits characters, none for the NUL of strcpy.
TempSize == Digits

\* What memset and strcpy put into temp: zeros, the text and the NUL at its end,
\* but nothing at all if the text has as many digits as temp.
NUL == -1
CopiedInto(hex) ==
  IF Len(hex) < Digits THEN [k \in 1..Digits - Len(hex) |-> 0] \o hex \o <<NUL>> ELSE <<>>

\* The words are read from temp in any case.
WordsOf(temp) ==
  [w \in 0..3 |-> Number(SubSeq(temp, (3 - w) * DigitsPerWord + 1, (4 - w) * DigitsPerWord))]

\* What a call can come to: the value it returns, any value if temp has not been
\* filled, and whether it has overwritten the byte behind temp.  The value does
\* not depend on that byte, since the function assigns its other variables after
\* that; but it may be the caller's: after an overrun nothing else is promised.
uint256_create_from_hex(hex) ==
  LET temp == CopiedInto(hex)
  IN [value: IF temp = <<>> THEN Values ELSE {WordsOf(temp)},
      overrun: {Len(temp) > TempSize}]

-----------------------------------------------------------------------------
VARIABLES left, right
vars == <<left, right>>

Zero == uint256_create_from_u64(0)

Init == left \in Values /\ right = Zero

\* The next value of the right operand
Next ==
  /\ \E i \in 0..3 : right[i] # Base - 1
  /\ right' = uint256_add(right, uint256_create_from_u64(1))
  /\ UNCHANGED left

Spec == Init /\ [][Next]_vars

-----------------------------------------------------------------------------
\* The integer a value stands for
Value(v) ==
  LET bits(i) == uint256_get_bits(v, i)
  IN bits(0) + Base * (bits(1) + Base * (bits(2) + Base * bits(3)))
Modulus == Pow(2, 4 * WordBits)

\* Carries run through words of all ones and through equal operands, and
\* differences borrow by complement and carry, also when the right operand is
\* the greater one or 0: sum and difference are those of the integers modulo
\* 2^256.
SumsAreModular ==
  /\ Value(uint256_add(left, right)) = (Value(left) + Value(right)) % Modulus
  /\ Value(uint256_sub(left, right)) = (Value(left) - Value(right)) % Modulus

\* Bit tests, shifts and sums over all bits make the product modulo 2^256, and
\* shifting is multiplying by a power of two for every distance, those that are
\* multiples of a word and those beyond the last bit among them.
ProductsAreModular ==
  /\ Value(uint256_mul(left, right)) = (Value(left) * Value(right)) % Modulus
  /\ \A n \in 0..5 * WordBits :
       Value(uint256_leftshift(left, n)) = (Value(left) * Pow(2, n)) % Modulus

\* "a dynamically-allocated string of hex digits representing the given UInt256
\* value": for every value, whichever of its words are 0, the text has no
\* leading zero and is a numeral of the value.
TextIsNumeral ==
  LET text == uint256_format_as_hex(left)
  IN /\ Len(text) > 1 => text[1] # 0
     /\ Number(text) = Value(left)

\* "Create a UInt256 value from a string of hexadecimal digits" (uint256.h:27): the
\* text of a value gives that value back.  It does not if it has 64 digits, for which
\* the buffer is not filled.
TextReadBack ==
  \A outcome \in uint256_create_from_hex(uint256_format_as_hex(left)) : outcome.value = left

\* "temp + zeros + hex = 64" (uint256.c:41): the text and the zeros before it
\* are all that is copied to the 64 characters of temp.  They are not: the NUL comes
\* after them.
TextFitsBuffer ==
  \A outcome \in uint256_create_from_hex(uint256_format_as_hex(left)) : ~outcome.overrun
=============================================================================
