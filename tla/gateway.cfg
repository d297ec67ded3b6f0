SPECIFICATION FairSpec
CONSTANTS
  h1 = h1  h2 = h2
  c1 = c1  c2 = c2  c3 = c3
  Threads <- TwoThreads
  Clients <- ThreeClients
  Listener = listener
  Earlier <- InOrder
  NoThread = nobody
  FdLimit = 2
  MaxSends = 1
  Faulty <- OneClient
  MaxTokens = 1
  RefillRate = 1
INVARIANTS
  TypeOK
  BacklogCovered
  RequestCovered
  EventsCurrent
  ClosedAnswered
PROPERTY ServedOrForgotten
CHECK_DEADLOCK FALSE
