SPECIFICATION Spec
CONSTANTS
  SetCounts <- OneSetCount
  BlockCounts <- OneBlockCount
  ByteCounts <- FourBytes
  AddressBits = 5
  Addresses <- MCAddresses
  MaxCommands = 4
CHECK_DEADLOCK FALSE
INVARIANT DirtyIsStored
