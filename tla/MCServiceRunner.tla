-------------------------- MODULE MCServiceRunner --------------------------
(***************************************************************************)
(* Instances of ServiceRunner for TLC.  Three container ids are enough:    *)
(* one the service falls back to, one candidate, and one that an earlier   *)
(* stop marker may still name.  One probe before the runner gives up gives *)
(* the readiness loop a first, a last and no further turn.                 *)
(***************************************************************************)
EXTENDS ServiceRunner

\* An operator stops the unit while the runner waits for its candidate, and
\* nothing else goes wrong.
StopWhileProbing ==
  \/ RunnerStep \/ HelperStep \/ SystemdStep \/ StartUnit
  \/ AskStop /\ at = "probe"

StopSpec == ServiceInit /\ [][StopWhileProbing]_serviceVars
=============================================================================
