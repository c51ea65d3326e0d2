CONSTANTS
  a = a
  b = b
  Pushers = {a}
  Takers = {b}
  Length = 3
  WordBits = 2
SPECIFICATION FairSpec
INVARIANTS
  TypeOK
  RingPublished
  MembershipExact
  SlotExclusive
PROPERTIES
  EmptyMeansDrained
  OverflowMeansFull
  EveryValueLeaves
  ImplementsFifoSet
