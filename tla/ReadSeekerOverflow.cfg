SPECIFICATION Spec
CONSTANTS
  Size = 3
  Length = 6
  MaxInt = 31
  DestSizes <- SomeSizes
  Offsets <- AnyOffsets
PROPERTY
  SeekKeepsOnlyWhatItPasses
