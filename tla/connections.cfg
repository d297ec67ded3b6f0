SPECIFICATION FairSpec
CONSTANTS
  h1 = h1  h2 = h2
  c1 = c1  c2 = c2  c3 = c3
  Threads <- TwoThreads
  Clients <- TwoClients
  Listener = listener
  Nobody = nobody
  Routes <- Reached
  Stream <- Streams
  FdLimit = 2
  TableSize = 1
  InitialCap = 3
  QueueSize = 1
  MaxFailures = 1
  Mixed = FALSE
INVARIANTS
  TypeOK
  TableExact
  FreedUnused
  RequestsWhole
  InputCovered
  BacklogCovered
  AnswersArrive
PROPERTIES
  ImplementsCourier
  RequestsAnswered
  StopReturns
CHECK_DEADLOCK FALSE
