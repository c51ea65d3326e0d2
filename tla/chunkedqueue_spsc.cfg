CONSTANTS
  a = a
  b = b
  x = x
  y = y
  Uninit = Uninit
  Pushers = {a}
  Takers = {b}
  Length = 3
  Alignment = 3
  Items = {x, y}
SPECIFICATION Spec
PROPERTIES
  TakenWasPushed
