SPECIFICATION Spec
CONSTANTS
  MaxKept = 7
  MaxThreads = 5
  Refine <- Outcomes
INVARIANTS
  InOrder
  EachOnce
  WithinBudget
  ScopeCoversThreads
PROPERTIES
  Settles
  ImplementsMap
