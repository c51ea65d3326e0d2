CONSTANTS
  a = a
  b = b
  Pushers = {a, b}
  Takers = {a, b}
  Length = 2
  WordBits = 2
SPECIFICATION FairSpec
INVARIANTS
  ReadyIsWritten
PROPERTIES
  SomeCallReturns
