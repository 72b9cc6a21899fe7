SPECIFICATION ShellSpec
CONSTANTS
  Lines <- MCLines
  Code <- MCCode
  Bits = 8
  Garbage = Garbage
INVARIANTS
  DumpTakesOneValue
