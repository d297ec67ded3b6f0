SPECIFICATION RunSpec
CONSTANTS
  p1 = p1  p2 = p2  h1 = h1  h2 = h2
  s1 = s1  s2 = s2  a1 = a1  a2 = a2  a3 = a3
  Registrars <- OneRegistrar
  Threads <- OneThread
  Names <- TwoNames
  Addresses <- TwoAddresses
  NoName = noname
  ServiceSize = 2
  InstanceSize = 2
  MaxCalls = 6
  MaxStates = 2
  Groups <- NoGroups
  Marks <- AllMarks
  MaxChoices = 6
  MaxCycles = 2
  MaxSelects = 3
INVARIANT RegisteredKept
CHECK_DEADLOCK FALSE
