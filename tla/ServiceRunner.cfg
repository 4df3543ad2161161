SPECIFICATION ServiceSpec
CONSTANTS
  NoContainer = NoContainer
  Container = {c1, c2, c3}
  Service = service
  Caller = {service}
  Serialized = TRUE
  Attempts = 1
CHECK_DEADLOCK TRUE
INVARIANTS
  AttestationTruthful
  QuietStop
  HelpersTakeTurns
PROPERTIES
  ServedProtectionIsFinal
  DrivesTransition
  StartupEnds
