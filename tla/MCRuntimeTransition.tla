------------------------ MODULE MCRuntimeTransition ------------------------
(***************************************************************************)
(* Instances of RuntimeTransition for TLC: three container ids (the        *)
(* previous runtime, a candidate, and one more for a second attempt) and   *)
(* two callers, the service and an operator.                               *)
(***************************************************************************)
EXTENDS RuntimeTransition

\* A host that went down while a candidate was under validation: nothing runs,
\* and the state file and both containers are there.
Interrupted ==
  /\ current \in Container
  /\ preserved \in Container \ {current}
  /\ running = {}
  /\ phase = "validating"
  /\ hadPrevious = TRUE
  /\ step = [p \in Caller |-> "none"]
  /\ had = [p \in Caller |-> FALSE]
  /\ status = [p \in Caller |-> "ok"]

\* After it came up again, every caller runs `recover`: the service when
\* systemd starts it at boot, and an operator who follows the operations guide.
RecoverNext ==
  \E p \in Caller : Recover(p) \/ Proceed(p)

RecoverSpec == Interrupted /\ [][RecoverNext]_vars
=============================================================================
