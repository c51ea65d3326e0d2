SPECIFICATION FairSpec
CONSTANTS
  Length = 2
  MaxPush = 2
  Kinds = {"signal", "consumer", "locked"}
INVARIANTS TypeOK LockBalanced HandlerHasValue
PROPERTIES PoolDestroyReturns ValuesAreTaken ValuesKept
CHECK_DEADLOCK FALSE
