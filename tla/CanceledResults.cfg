SPECIFICATION Spec
CONSTANTS
  MaxRecog = 1
  Segments = 1
  Packets = 0
  MaxInFlight = 2
  Builds <- EagerBuild
  Lms = {"given"}
  Usage <- CancelUsage
  Faults = {}
CHECK_DEADLOCK FALSE
INVARIANT CanceledHasNoResults
