SPECIFICATION Spec
CONSTANTS
  MaxRecog = 2
  Segments = 1
  Packets = 0
  MaxInFlight = 2
  Builds <- LazyBuild
  Lms = {"given"}
  Usage <- NoCancelUsage
  Faults = {"refuse"}
CHECK_DEADLOCK FALSE
PROPERTY RefusedOnlyWhenActive
