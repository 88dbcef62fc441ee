SPECIFICATION Spec
CONSTANTS
  Links <- MCLinks
  MAX_LEN = 9
  RioSize = 3
  Capacity = 4
  Letters = {"x", "u", "r", " ", "/", "join", "leave", "quit", "slogin", "rlogin", "sendall", "delivery", "ok", "err", "ignored", "NULL"}
  MaxMessages = 4
  MaxDeliveries = 2
  MaxAddresses = 2
  Names <- MCNames
  RoomNames <- MCRoomNames
  Inputs <- MCInputs
  Texts <- MCTexts
CHECK_DEADLOCK FALSE
INVARIANTS
  TypeOK
  BytesInOrder
  MessagesArriveWhole
  NoStrayDescriptors
  AgreeAtPrompt
  ShownInOrder
PROPERTIES
  StopsForCause
  RequestAnswered
