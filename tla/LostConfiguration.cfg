SPECIFICATION Spec
CONSTANTS
  MaxRecog = 2
  Segments = 1
  Packets = 0
  MaxInFlight = 2
  Builds <- AutoBuild
  Lms = {"given"}
  Usage <- TurnUsage
  Faults = {}
CHECK_DEADLOCK FALSE
INVARIANT ConfigurationApplies
