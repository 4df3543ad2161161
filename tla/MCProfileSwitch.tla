-------------------------- MODULE MCProfileSwitch --------------------------
(***************************************************************************)
(* Instances of ProfileSwitch for TLC.  Two profiles suffice for a switch  *)
(* and its reversal; the third tells a candidate that was left over from   *)
(* one of another switch.                                                  *)
(***************************************************************************)
EXTENDS ProfileSwitch

\* The operator interrupts an installation that waits for the restarted service,
\* and nothing else goes wrong: no kill, no reboot, no failing runtime.
InterruptedNext ==
  \/ CliRecovers /\ cli' = "recovering"
  \/ InstallPrepares \/ InstallStages
  \/ InstallActivates \/ CallReturns("activation", "stopping")
  \/ ForgetAttestation \/ RestartUnit
  \/ InstallFails /\ cli = "waiting"
  \/ CliEnds /\ cli = "ending"
  \/ HelperStep /\ outcome' = "ok"
  \/ RunnerStep

InterruptedSpec == Init /\ [][InterruptedNext]_vars
=============================================================================
