SPECIFICATION Spec
CONSTANTS
  Process = {p1, p2, p3}
  NoProcess = NoProcess
CHECK_DEADLOCK TRUE
INVARIANTS
  OneOperation
PROPERTIES
  HelpersAreServed
  LockComesBack
