SPECIFICATION Spec
CONSTANTS
  MaxRecog = 2
  Segments = 2
  Packets = 1
  MaxInFlight = 3
  Builds <- TurnBuilds
  Lms = {"given"}
  Usage <- TurnsUsage
  Faults = {"drop", "refuse", "badUrl", "reject", "sourceThrows"}
CHECK_DEADLOCK FALSE
INVARIANTS
  TypeOK
  NoTerminate
  AudioInOrder
  AutoCloseLeavesNothing
  TurnsInv
PROPERTY
  StreamNotAbandoned
