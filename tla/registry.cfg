SPECIFICATION RunSpec
CONSTANTS
  p1 = p1  p2 = p2  h1 = h1  h2 = h2
  s1 = s1  s2 = s2  a1 = a1  a2 = a2  a3 = a3
  Registrars <- TwoRegistrars
  Threads <- TwoThreads
  Names <- TwoNames
  Addresses <- ThreeAddresses
  NoName = noname
  ServiceSize = 2
  InstanceSize = 2
  MaxCalls = 5
  MaxStates = 2
  Groups <- AllGroups
  Marks <- AllMarks
  MaxChoices = 6
  MaxCycles = 2
  MaxSelects = 3
INVARIANTS
  TypeOK
  TableExact
  Rotation
  ChoiceRegistered
  WeightsHonoured
  ConnectionsLevelled
SYMMETRY Symmetry
CHECK_DEADLOCK FALSE
