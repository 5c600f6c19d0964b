CONSTANTS
  L1 = L1 L2 = L2 L3 = L3 L4 = L4 L5 = L5 L6 = L6 L7 = L7 L8 = L8
  Leaf = {L1, L2, L3, L4}
  Zero = Zero
  NoProof = NoProof
  Depth = 2
  RootHistorySize = 2
  MaxLeaves = 4
SPECIFICATION Spec
CONSTRAINT InFixedOrder
INVARIANTS RootMatchesClients
CHECK_DEADLOCK FALSE
