SPECIFICATION FairSpec
CONSTANTS
  m1 = m1  m2 = m2  m3 = m3
  Messages <- TwoMessages
  NoMessage = none
  Length <- Lengths
  InitialCap = 3
  SndBuf = 2
  MaxInput = 2
PROPERTY RestSentLater
CHECK_DEADLOCK FALSE
