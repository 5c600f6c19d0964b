CONSTANTS
  L1 = L1 L2 = L2 L3 = L3 L4 = L4 L5 = L5 L6 = L6 L7 = L7 L8 = L8
  Leaf = {L1, L2, L3, L4, L5, L6, L7, L8}
  Zero = Zero
  NoProof = NoProof
  Depth = 3
  RootHistorySize = 3
  MaxLeaves = 8
SPECIFICATION TreesSpec
CONSTRAINTS InFixedOrder AnyInFixedOrder
INVARIANTS TypeOK RootMatchesClients SubtreesCurrent
PROPERTIES OnlyCurrentProofApplies KeepsPromise KeepsWeakPromise
CHECK_DEADLOCK FALSE
