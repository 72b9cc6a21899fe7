CONSTANTS
  NPages = 18
  Spaces <- MCSpaces
  KernelBase = 8
  KernelSize = 1
  TempPage = 13
  Slots = 5
  Stride = 2
  MaxCount = 3
  Frames = {f1, f2, f3, f4, f5, f6}
  Fixed = Fixed
SPECIFICATION Spec
CHECK_DEADLOCK FALSE
SYMMETRY FrameSymmetry
INVARIANTS
  InOrder
  FramesAccounted
  TableHoldsAll
PROPERTIES
  FullMeansFull
  LostOnlyBesideGap
