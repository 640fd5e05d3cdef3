SPECIFICATION QueueSpec
CONSTANTS
  k1 = k1
  k2 = k2
  b1 = b1
  b2 = b2
  RowIds <- TwoRows
  Keys <- MCKeys
  Tabs <- MCTabs
  MaxReplays = 2
  MaxCommands = 1
  DoneKeep = 1
INVARIANTS QueueTypeOK LostOnlyToOverlaps
SYMMETRY Symmetric
