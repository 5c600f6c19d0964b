CONSTANTS
  U1 = U1 U2 = U2
  User = {U1}
  Zero = Zero
  HashZero = HashZero
  Junk = Junk
  Capacity = 4
  RootHistorySize = 2
  MaxNonce = 4
  MaxBalance = 4
  Fees = {0}
  Grants = {5}
  Values = {1}
  MaxAllowance = 5
  CircuitRange = 4
  ChunkSize = 2
  EtherAmounts = {}
  MaxDiscards = 0
  Calls <- PayOnly
  Direct = {}
  Written = {}
  DirectValues = {}
  MaxIndex = 0
  MaxPending = 2
SPECIFICATION Spec
INVARIANTS AllowanceIsProvable
