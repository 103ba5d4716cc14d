SPECIFICATION FairSpec
CONSTANTS
  Chunk = 2
  BufferSize = 3
  MaxTurns = 2
  Room = 4
  Modulus = 6
CHECK_DEADLOCK FALSE
INVARIANTS
  TypeOK
  SamplesInOrder
  FreshAudio
  ClosedIsQuiet
  EndsByErrorOnly
PROPERTIES
  FinishHeard
  CloseReturns
