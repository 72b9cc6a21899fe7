CONSTANTS
  NFrames = 6
  TableSize = 3
  MaxRun = 2
  Usable <- MCUsable
  Target <- MCTarget
  Junk <- MCJunk
SPECIFICATION Spec
INVARIANTS
  TablesApart
  DoesWhatWasAsked
  TlbCoherent
  SharedAlike
PROPERTY
  OthersKept
