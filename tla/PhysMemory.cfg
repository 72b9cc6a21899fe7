SPECIFICATION Spec
CONSTANTS
  NPages = 5
  MaxRun = 5
  Scribble <- MCScribble
CONSTRAINT UntilSpliced
INVARIANTS
  TypeOK
  FreeListSound
  CountIsExact
  AllocFindsRoom
PROPERTIES
  CallsReturn
  NoPageHandedOutTwice

