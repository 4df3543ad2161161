SPECIFICATION Spec
CONSTANTS
  Release = {r1, r2, r3}
  NoRelease = NoRelease
SYMMETRY Symmetry
CHECK_DEADLOCK TRUE
INVARIANTS
  LinksResolve
  UpdateReleasesKept
  ServiceFollowsLink
PROPERTIES
  EndsEitherWay
  UpdatesAtomically
