SPECIFICATION Spec
CONSTANTS
  r1 = r1
  r2 = r2
  s1 = s1
  s2 = s2
  lobby = lobby
  attic = attic
  Receivers <- OneReceiver
  Senders <- TwoSenders
  RoomNames <- TwoNames
  MaxRequests = 2
  Unsteady <- ReceiverAndSender
  TooLong <- OfSecondSender
CHECK_DEADLOCK FALSE
INVARIANTS
  TypeOK
  NoUseAfterFree
  OneRoomPerName
  PermitsMatchQueue
  StreamIsRoomLog
  SentMeansQueued
PROPERTIES
  OnlyTheLostAreRemoved
  ImplementsRoomBroadcast
