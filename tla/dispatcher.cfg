SPECIFICATION FairSpec
CONSTANT Spurious = TRUE
INVARIANT ExitReleases
PROPERTIES StartStays ClosureReaches
CHECK_DEADLOCK FALSE
