SPECIFICATION MCSpec
CONSTANTS
  tty_width = 2
  tty_height = 3
  FirstSize = 2
  UIntRange = 64
  Glyph = {a, b}
  Blank = Blank
  Zero = Zero
  Junk = Junk
  MaxLine = 7
  KEY_BUFFER_SIZE = 3
  Letter = {x, y}
  Other = {ctrl}
  LeftShift = left
  RightShift = right
  NoCode = NoCode
INVARIANTS
  TypeOK
  OnScreen
  LettersAsTyped
PROPERTIES
  IsLineEditor
