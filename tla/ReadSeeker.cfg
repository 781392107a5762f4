SPECIFICATION Spec
CONSTANTS
  Size = 3
  Length = 5
  MaxInt = 31
  DestSizes <- SomeSizes
  Offsets <- ShortOffsets
INVARIANTS
  ReadSeekerInv
PROPERTIES
  PlainSpec
