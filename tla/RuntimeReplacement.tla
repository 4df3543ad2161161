------------------------- MODULE RuntimeReplacement -------------------------
(***************************************************************************)
(* What replacing the managed inference container promises, with no        *)
(* container names, no state file and no steps that a crash can split.     *)
(* There is one accepted runtime.  A candidate may be started beside it,   *)
(* validated, and then either adopted, which replaces the accepted runtime *)
(* in one step, or removed, which leaves it as it was.  Nothing else ever  *)
(* changes which runtime is accepted.                                      *)
(***************************************************************************)
CONSTANTS Container, NoContainer

VARIABLES
  accepted,   \* the runtime that a failed replacement falls back to
  candidate,  \* the container under test, or NoContainer
  validating  \* TRUE once the candidate has been put under validation

vars == <<accepted, candidate, validating>>

Init ==
  /\ accepted \in Container \cup {NoContainer}
  /\ candidate = NoContainer
  /\ validating = FALSE

Start(c) ==
  /\ candidate = NoContainer
  /\ c # accepted
  /\ candidate' = c
  /\ UNCHANGED <<accepted, validating>>

Validate ==
  /\ candidate # NoContainer
  /\ validating' = TRUE
  /\ UNCHANGED <<accepted, candidate>>

Adopt ==
  /\ candidate # NoContainer
  /\ validating
  /\ accepted' = candidate
  /\ candidate' = NoContainer
  /\ validating' = FALSE

\* The candidate is given up; it stays until it is removed.
Reject ==
  /\ validating
  /\ validating' = FALSE
  /\ UNCHANGED <<accepted, candidate>>

Remove ==
  /\ candidate # NoContainer
  /\ candidate' = NoContainer
  /\ validating' = FALSE
  /\ UNCHANGED accepted

Next ==
  \/ \E c \in Container : Start(c)
  \/ Validate
  \/ Adopt
  \/ Reject
  \/ Remove

Spec == Init /\ [][Next]_vars
=============================================================================
