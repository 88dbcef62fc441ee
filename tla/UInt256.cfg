SPECIFICATION Spec
CONSTANTS
  WordBits = 2
  DigitBits = 1
CHECK_DEADLOCK FALSE
INVARIANTS
  SumsAreModular
  ProductsAreModular
  TextIsNumeral
