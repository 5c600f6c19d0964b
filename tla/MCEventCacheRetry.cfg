CONSTANTS
  A1 = A1 A2 = A2 C1 = C1 C2 = C2
  Caller = {A1, A2}
  Commitment = {C1, C2}
  MaxBlocks = 3
  MaxExecutions = 1
  MaxLag = 1
  MaxTorn = 1
SPECIFICATION CacheSpec
INVARIANTS NoDuplicateLogs
