SPECIFICATION Spec
CONSTANTS
  Width = 3
  Digits = 2
  Bytes = {0, 31, 126, 200}
  MaxReads = 2
CHECK_DEADLOCK FALSE
INVARIANTS
  TypeOK
PROPERTIES
  ImplementsHexLines
