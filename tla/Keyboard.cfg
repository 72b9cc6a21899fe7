SPECIFICATION KeyboardSpec
CONSTANTS
  KEY_BUFFER_SIZE = 4
  Code = {k1, k2}
  NoCode = NoCode
INVARIANTS
  TypesOK
  GateIsComplete
  EndsOwnService
PROPERTIES
  IsQueue
  InterruptsAreTaken
