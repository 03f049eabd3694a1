SPECIFICATION Spec
CONSTANTS
  AddrMod = 64
  ByteBase = 8
  Printable = {3}
  StringMin = 2
  ArrayMin = 1
  MaxMembers = 4
  StructMin = 1
  Rids = {1, 5, 7}
  Versatile = {0, 63}
  Inputs <- AllInputs
INVARIANTS
  KnownStringsMarked
