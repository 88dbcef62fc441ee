SPECIFICATION FairSpec
CONSTANTS
  r1 = r1
  r2 = r2
  s1 = s1
  s2 = s2
  lobby = lobby
  attic = attic
  Receivers <- OneReceiver
  Senders <- OneSender
  RoomNames <- OneName
  MaxRequests = 1
  Unsteady <- Everybody
  TooLong <- NoMessages
CHECK_DEADLOCK FALSE
PROPERTY LostSenderReclaimed
