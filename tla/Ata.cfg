CONSTANTS
  Polls = 3
  PerCommand = 2
  MaxCount = 3
  Lba = {5}
SPECIFICATION Spec
INVARIANTS
  CommandsReachIdleDrive
  AvailableIsThere
  OnlyShortWritesAreDropped
PROPERTY
  CallsEnd
