SPECIFICATION Spec
CONSTANTS
  NoContainer = NoContainer
  Container = {c1, c2, c3}
  Caller = {service, operator}
  Serialized = TRUE
CHECK_DEADLOCK TRUE
INVARIANTS
  AlwaysRecoverable
