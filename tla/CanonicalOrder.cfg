SPECIFICATION Spec
CONSTANTS
  Experts <- MCExperts
  MaxTokens = 3
  BlockSizes <- MCBlockSizes
  Garbage <- MCGarbage
CHECK_DEADLOCK FALSE
INVARIANTS
  RepairedOrderIsCanonical
  OrderOnlyIsExact
