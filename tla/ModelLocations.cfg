SPECIFICATION LocationsSpec
CONSTANTS
  Backups <- MCBackups
  NoName = "no name"
INVARIANTS
  MigrationCanResume
PROPERTIES
  NothingLost
  FailedMoveIsUndone
