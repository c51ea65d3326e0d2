SPECIFICATION TablesSpec
CONSTANTS
  ByteCount = 16
  WordBits = 4
  Indices <- SomeIndices
  Offsets <- SomeOffsets
  InitialBitmaps <- SomeBitmaps
  Beyond <- AlternateBits
  Entries = {"x", "y", "z"}
  Capacities = {61, 64}
  Earlier = {0, 59, 62}
INVARIANTS
  ScansExact
  PlacesApart
  LookupExact
PROPERTIES
  FlushClosesAll
  RefusedWhenFull
