--------------------------- MODULE ProfileChoice ---------------------------
(***************************************************************************)
(* What a managed switch of the model profile promises: one profile is in  *)
(* force; a switch to another one is decided for in a single step, or is   *)
(* given up; and ending it, either way, does not change the profile in     *)
(* force.                                                                  *)
(***************************************************************************)
CONSTANTS Profile, NoProfile

VARIABLES
  inForce,  \* the profile that an interrupted switch comes out with
  wanted,   \* the profile a switch in progress goes to, or NoProfile
  decided   \* TRUE once the switch cannot be given up any more

vars == <<inForce, wanted, decided>>

Init == inForce \in Profile /\ wanted = NoProfile /\ decided = FALSE

Begin(p) ==
  /\ wanted = NoProfile /\ p # inForce
  /\ wanted' = p
  /\ UNCHANGED <<inForce, decided>>

Decide ==
  /\ wanted # NoProfile /\ ~decided
  /\ inForce' = wanted
  /\ decided' = TRUE
  /\ UNCHANGED wanted

\* The switch is over: finished if it was decided for, given up if not.
Finish ==
  /\ wanted # NoProfile
  /\ wanted' = NoProfile
  /\ decided' = FALSE
  /\ UNCHANGED inForce

Next == (\E p \in Profile : Begin(p)) \/ Decide \/ Finish

Spec == Init /\ [][Next]_vars
=============================================================================
