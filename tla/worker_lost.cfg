SPECIFICATION Spec
CONSTANTS
  SubCount = 1
  ByteBits = 8
  TaskCount = 3
  Tries = 2
  Memory <- FreshMemory
  Programs <- TestAlone
INVARIANT NoneLost
CHECK_DEADLOCK FALSE
