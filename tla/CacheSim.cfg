SPECIFICATION Spec
CONSTANTS
  SetCounts <- SmallCounts
  BlockCounts <- SmallCounts
  ByteCounts <- Bytes
  AddressBits = 5
  Addresses <- MCAddresses
  MaxCommands = 5
CHECK_DEADLOCK FALSE
INVARIANTS
  TypeOK
  PointersFindBlocks
  StampsAreDistinct
  StoredIsDirty
PROPERTY ImplementsPolicy
