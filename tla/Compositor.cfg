SPECIFICATION Spec
CONSTANTS
  v1 = v1
  v2 = v2
  v3 = v3
  a1 = a1
  i1 = i1
  i2 = i2
  None = None
  Tracks = {v1, v2, v3, a1}
  Videos = {v1, v2, v3}
  Ids = {i1, i2}
  Id <- IdOf
  Residents = {0, 3, 8, 15}
  MaxResidents = 15
  Garbage <- GarbageValues
SYMMETRY Symmetry
INVARIANTS
  TypeOK
  PictureIsRight
  NothingLeft
  BinIsFound
CHECK_DEADLOCK FALSE
