SPECIFICATION Spec
CONSTANTS
  Radix = 2
  Depth = 3
  Registered <- Addresses
  MaxVotes = 3
  MaxNodes = 14
INVARIANTS
  Shape
  ObserversAgree
PROPERTIES
  ImplementsTable
