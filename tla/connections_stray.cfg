SPECIFICATION Spec
CONSTANTS
  h1 = h1  h2 = h2
  c1 = c1  c2 = c2  c3 = c3
  Threads <- OneThread
  Clients <- TwoClients
  Listener = listener
  Nobody = nobody
  Routes <- Reached
  Stream <- Streams
  FdLimit = 2
  TableSize = 1
  InitialCap = 3
  QueueSize = 1
  MaxFailures = 0
  Mixed = FALSE
INVARIANT AnswersOwn
CHECK_DEADLOCK FALSE
