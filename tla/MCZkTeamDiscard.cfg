CONSTANTS
  U1 = U1 U2 = U2
  User = {U1}
  Zero = Zero
  HashZero = HashZero
  Junk = Junk
  Capacity = 4
  RootHistorySize = 2
  MaxNonce = 4
  MaxBalance = 2
  Fees = {0}
  Grants = {1}
  Values = {1}
  MaxAllowance = 1
  CircuitRange = 4
  ChunkSize = 2
  EtherAmounts = {}
  MaxDiscards = 3
  Calls <- PayOnly
  Direct = {}
  Written = {}
  DirectValues = {}
  MaxIndex = 0
  MaxPending = 1
SPECIFICATION Spec
INVARIANTS IInv TypeOK TreeAgreement
PROPERTIES DiscardStopsPending ImplementsLedger
