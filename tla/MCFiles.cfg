SPECIFICATION Spec
CONSTANTS
  c1 = c1
  c2 = c2
  c3 = c3
  lk = lk
  i1 = i1
  i2 = i2
  Clients = {c1, c2, c3}
  Inodes = {lk, i1, i2}
  NoInode = NoInode
  LockInode = lk
  Depth = 2
  Size = 2
  Length = 4
  Requests = {1, 2, 3, 5}
  MaxBytes = 7
SYMMETRY Alike
INVARIANTS
  SectionsExclude
  NothingLeftOpen
  OnlyOwnLocksStick
  StreamInOrder
  CloseNilMeansWritten
  OnePosition
