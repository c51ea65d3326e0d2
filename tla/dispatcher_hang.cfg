SPECIFICATION FairSpec
CONSTANT Spurious = FALSE
PROPERTY DestroyReturns
CHECK_DEADLOCK FALSE
