SPECIFICATION FairSpec
CONSTANTS
  m1 = m1  m2 = m2  m3 = m3
  Messages <- ThreeMessages
  NoMessage = none
  Length <- Lengths
  InitialCap = 3
  SndBuf = 2
  MaxInput = 2
INVARIANTS
  TypeOK
  MaskFollowsBuffer
  OutputCovered
PROPERTIES
  ImplementsByteStream
  SentOrMissed
CHECK_DEADLOCK FALSE
