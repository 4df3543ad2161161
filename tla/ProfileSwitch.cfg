SPECIFICATION Spec
CONSTANTS
  Profile = {orcarouter, nvidia, mazinb}
  NoProfile = NoProfile
  NoFile = NoFile
CHECK_DEADLOCK TRUE
INVARIANTS
  NoOrphanArtifacts
  PreviousManifestKept
  CutoverUndisturbed
PROPERTIES
  LockIsReleased
  SwitchesAtomically
