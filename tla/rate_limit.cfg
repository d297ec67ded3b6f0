SPECIFICATION Spec
CONSTANTS
  MaxTokens = 3
  RefillRate = 2
  IntMax = 15
  Horizon = 5
INVARIANTS
  TypeOK
  NeverOverdrawn
PROPERTY ImplementsTokenBucket
