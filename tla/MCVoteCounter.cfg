SPECIFICATION Spec
CONSTANTS
  Addr <- Addresses
  Path <- DigitPath
  MaxVotes = 4
  MaxNodes = 14
INVARIANTS
  LiveAccounted
  PruneKeepsLeaders
  PhantomOnlyWhenFresh
