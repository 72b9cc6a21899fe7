SPECIFICATION SpacesSpec
CONSTANTS
  HeapSize = 6
  SlotsPerPage = 3
INVARIANTS
  NoHoles
  StoresInTable
  TableHoldsBlocks
PROPERTIES
  HandsOutUnheld
  FullMeansFull
