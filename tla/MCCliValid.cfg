SPECIFICATION Spec
CONSTANTS
  Addr <- Addresses
  Path <- DigitPath
  ByteBase = 16
  AddrBits = 8
  AddrMod = 256
  WordMod = 16
  Printable = {5}
  AsciiBytes = {5, 6}
  StringMin = 2
  MaxStep = 3
  ArrayMin = 1
  TopBit = 3
  KeepTarget = 2
  ValidMin = 4
  ValidDiv = 2
  NodeBytes = 1
  MaxMem = 4
  DefaultAlign = 2
  MoreMax = 1
  WordBytes = 1
  Arguments <- AllArguments
  Maps <- MemoryMaps
INVARIANTS
  ValidArrayResolves
