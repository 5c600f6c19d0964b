CONSTANTS
  U1 = U1 U2 = U2
  User = {U1, U2}
  Zero = Zero
  HashZero = HashZero
  Junk = Junk
  Capacity = 3
  RootHistorySize = 2
  MaxNonce = 3
  MaxBalance = 2
  Fees = {0}
  Grants = {2}
  Values = {1}
  MaxAllowance = 2
  CircuitRange = 4
  ChunkSize = 2
  EtherAmounts = {1}
  MaxDiscards = 0
  Calls <- OwnCalls
  Direct = {U1}
  Written = {HashZero, Junk}
  DirectValues = {0, 1}
  MaxIndex = 2
  MaxPending = 2
SPECIFICATION UsersSpec
CONSTRAINT WhileLawful
SYMMETRY Symmetry
INVARIANTS LibraryKeepsLawful OnlyFreshProofsPass WalletSound Budget
PROPERTIES ImplementsLedger
