SPECIFICATION Spec
CONSTANTS
  MaxKept = 5
  MaxThreads = 3
  GlobalSize = 4
  Refine <- Outcomes
INVARIANTS
  BudgetUnlessFallback
PROPERTIES
  Settles
  ImplementsMap
