SPECIFICATION Spec
CONSTANTS
  base = base
  stage = stage
  image = image
  id1 = id1
  id2 = id2
  Downloaded <- MCDownloaded
  Built <- MCBuilt
  Images <- MCImages
  ImageIds <- MCImageIds
  DependsOn <- MCDependsOn
  Profiles <- MCProfiles
PROPERTIES
  PurgeCanResume
  OnlyOursRemoved
  DependentsGoFirst
