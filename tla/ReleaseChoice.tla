---------------------------- MODULE ReleaseChoice ----------------------------
(***************************************************************************)
(* What a release update promises: one code release is in force.  Outside  *)
(* an update an operator may move to another one.  An update to a release  *)
(* changes nothing until it is committed, in one step, or given up.        *)
(***************************************************************************)
CONSTANTS Release, NoRelease

VARIABLES
  inForce,  \* the release that an interrupted update comes out with
  wanted    \* the release that an update in progress goes to, or NoRelease

vars == <<inForce, wanted>>

Init == inForce = NoRelease /\ wanted = NoRelease

Move(r) ==
  /\ wanted = NoRelease
  /\ inForce' = r
  /\ UNCHANGED wanted

Begin(r) ==
  /\ wanted = NoRelease
  /\ wanted' = r
  /\ UNCHANGED inForce

Commit ==
  /\ wanted # NoRelease
  /\ inForce' = wanted
  /\ wanted' = NoRelease

GiveUp ==
  /\ wanted # NoRelease
  /\ wanted' = NoRelease
  /\ UNCHANGED inForce

Next == (\E r \in Release : Move(r) \/ Begin(r)) \/ Commit \/ GiveUp

Spec == Init /\ [][Next]_vars
=============================================================================
