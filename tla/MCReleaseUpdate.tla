--------------------------- MODULE MCReleaseUpdate ---------------------------
(***************************************************************************)
(* Instances of ReleaseUpdate for TLC.  Three releases: the one an update  *)
(* comes from, the one it goes to, and the one it had come from before.    *)
(***************************************************************************)
EXTENDS ReleaseUpdate, TLC

\* Releases are interchangeable, and no property checked with it is a liveness property.
Symmetry == Permutations(Release)

\* Two releases have been in force; nothing happens but `release-manager.sh
\* rollback`, which may be killed.
TwoReleases ==
  /\ intact = Release /\ partial = {} /\ qualified = intact
  /\ current \in Release /\ previous \in Release \ {current}
  /\ update = Idle
  /\ at = "free" /\ todo = <<>>
  /\ subject = NoRelease /\ saved = NoRelease /\ outcome = "ok"
  /\ gaveUp = FALSE /\ serving = current

RollbackNext == RollBackLinks \/ WriteStep \/ CommandEnds \/ ScriptKilled

RollbackSpec == TwoReleases /\ [][RollbackNext]_vars
=============================================================================
