SPECIFICATION FairSpec
CONSTANTS
  SubCount = 3
  ByteBits = 2
  TaskCount = 4
  Tries = 2
  Memory <- CleanMemory
  Programs <- BothTests
INVARIANTS TypeOK HandlerHasTask ProcessedOnce NoneOverwritten LossBounded
PROPERTY Finishes
CHECK_DEADLOCK FALSE
