SPECIFICATION Spec
CONSTANTS
  HeapSize = 6
  SlotsPerPage = 2
INVARIANTS
  FreedBlocksLeave
