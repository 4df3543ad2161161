SPECIFICATION Spec
CONSTANTS
  Kinds <- MCKinds
  Slow <- MCSlow
  Repeats = 3
  Kept = 3
  Shared = FALSE
  MaxProbes = 3
  MaxFaults = 2
  MaxTraffic = 2
CHECK_DEADLOCK FALSE
INVARIANTS
  ReportIsOwn
  QuietProbeReports
