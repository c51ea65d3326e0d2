CONSTANTS
  a = a
  b = b
  x = x
  y = y
  Uninit = Uninit
  Pushers = {a}
  Takers = {b}
  Length = 5
  Alignment = 3
  Items = {x, y}
SYMMETRY ItemSymmetry
SPECIFICATION ApartSpec
INVARIANTS
  TypeOK
PROPERTIES
  ImplementsFifoChunks
  TakenWasPushed
