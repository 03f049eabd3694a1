SPECIFICATION Spec
CONSTANTS
  Addr <- Addresses
  Path <- DigitPath
  ByteBase = 4
  Slot = 4
  PointerSizes = {2, 4}
  PointerMultiple = 2
  CleanupInterval = 3
  Bytes = {0, 1, 2}
  MaxLength = 8
INVARIANTS
  RootReachable
  ExactBeforeSecondPruning
PROPERTIES
  PeaksGrow
