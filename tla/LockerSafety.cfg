SPECIFICATION Spec
CONSTANTS
  c1 = c1
  c2 = c2
  c3 = c3
  k1 = k1
  i1 = i1
  i2 = i2
  i3 = i3
  i4 = i4
  Root = Root
  Clients = {c1, c2, c3}
  Keys = {k1}
  Inodes = {Root, i1, i2, i3, i4}
  NoKey = NoKey
  NoInode = NoInode
  MaxMishaps = 2
SYMMETRY Alike
INVARIANTS
  LockerInv
  HolderProtected
  EntryExclusive
  LockOrder
PROPERTIES
  CountedSpec
  RefusedByHolder
  CallsAdvance
