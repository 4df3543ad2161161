SPECIFICATION Spec
CONSTANTS
  Manifest <- MCManifest
  None = None
  CopyFailsInTrap = FALSE
PROPERTIES
  BootServesCommitted
  SettledEitherWay
  DeferredIsQuiet
