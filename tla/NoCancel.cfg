SPECIFICATION Spec
CONSTANTS
  MaxRecog = 2
  Segments = 2
  Packets = 1
  MaxInFlight = 3
  Builds <- EagerAndAuto
  Lms = {"given","empty"}
  Usage <- NoCancelUsage
  Faults = {"drop", "refuse", "badUrl", "reject", "sourceThrows"}
CHECK_DEADLOCK FALSE
INVARIANTS
  IdleMeansIdle
  ResultsInOrder
  ServerPrepared
  PreparedInv
  OneRecognition
PROPERTY
  ImplementsService
