SPECIFICATION Spec
CONSTANTS
  c1 = c1
  c2 = c2
  k1 = k1
  k2 = k2
  i1 = i1
  i2 = i2
  i3 = i3
  i4 = i4
  Root = Root
  Clients = {c1, c2}
  Keys = {k1, k2}
  Inodes = {Root, i1, i2, i3, i4}
  NoKey = NoKey
  NoInode = NoInode
  MaxMishaps = 1
SYMMETRY Alike
INVARIANTS
  LockedEntryIsCurrent
  NoLockLeft
  NoLeak
