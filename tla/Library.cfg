SPECIFICATION LibrarySpec
CHECK_DEADLOCK FALSE
CONSTANTS
  Last = 14
  Contents <- MCContents
  LastChar = 4
  Char <- MCChar
  MaxWord = 15
  Item = {i1, i2, i3, i4}
  NoItem = NoItem
  Value = {u, v}
  NoValue = NoValue
INVARIANTS
  CopiesAsOnePiece
  ReadsStrings
PROPERTIES
  CopiesStrings
  IsSequence
