CONSTANTS
  scanner = scanner
  a = a
  b = b
  Scanners = {scanner, a, b}
  Setters = {a, b}
  Lockers = {a, b}
  ByteCount = 12
  WordBits = 2
  Offsets <- SomeOffsets
  Indices <- SomeIndices
  InitialBitmaps <- SomeBitmaps
  Beyond <- AlternateBits
  Tries = 2
  MaxCreates = 2
  Earlier = {0, 22}
SPECIFICATION RegistrySpec
INVARIANTS
  TypeOK
  ScanCorrect
  LocksApart
PROPERTY OverflowIsEarned
CHECK_DEADLOCK FALSE
