SPECIFICATION FairSpec
CONSTANTS
  MaxRecog = 1
  Segments = 1
  Packets = 0
  MaxInFlight = 2
  Builds <- EagerAndAuto
  Lms = {"given"}
  Usage <- AnyUsage
  Faults = {"drop", "refuse", "badUrl", "cancelResult", "sourceThrows"}
CHECK_DEADLOCK FALSE
INVARIANTS
  NoHandlerAfterClose
PROPERTIES
  RecognizeReturns
  CloseReturns
