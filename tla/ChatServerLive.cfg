SPECIFICATION FairSpec
CONSTANTS
  r1 = r1
  r2 = r2
  s1 = s1
  s2 = s2
  lobby = lobby
  attic = attic
  Receivers <- TwoReceivers
  Senders <- OneSender
  RoomNames <- OneName
  MaxRequests = 2
  Unsteady <- ReceiverAndSender
  TooLong <- NoMessages
CHECK_DEADLOCK FALSE
PROPERTIES
  EveryMessageDelivered
  EveryLockGranted
  LostReceiverReclaimed
