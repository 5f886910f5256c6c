SPECIFICATION Spec
CONSTANTS
  Producers = {p1, p2}
  MaxPush = 3
  Size = 2
  IndexMod = 4
  NoLine = NoLine
PROPERTIES OverwritesOldData
