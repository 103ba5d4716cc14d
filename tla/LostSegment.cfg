SPECIFICATION Spec
CONSTANTS
  MaxRecog = 1
  Segments = 2
  Packets = 1
  MaxInFlight = 2
  Builds <- EagerBuild
  Lms = {"given"}
  Usage <- TurnUsage
  Faults = {}
CHECK_DEADLOCK FALSE
INVARIANT NoSegmentLost
