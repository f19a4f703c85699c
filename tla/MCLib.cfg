SPECIFICATION Spec
CONSTANTS
  MaxElements = 5
  Elements = {1, 2, 3}
  DecimalBits = 9
  Power = 100
  Bits = 8
  MAXSTR = 6
  Chars <- SomeChars
  Room = 4
  SrcRoom = 3
  Prints <- SomePrints
  Texts <- SomeTexts
  Formats <- SomeFormats
INVARIANTS Sorts ShallowStack StringsSound PrintsAndScans
PROPERTY SortEnds
CHECK_DEADLOCK FALSE
