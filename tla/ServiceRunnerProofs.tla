------------------------ MODULE ServiceRunnerProofs ------------------------
(***************************************************************************)
(* Proofs about RuntimeTransition, for any containers and callers, and     *)
(* about ServiceRunner, for any containers and number of probes.           *)
(*                                                                         *)
(* The first part is about the helper.  Type correctness needs no          *)
(* assumption.  Everything else is proved from TakeTurns, the assumption   *)
(* that invocations of the helper never overlap (without it                *)
(* PreviousSurvives is false: RuntimeTransitionRace.cfg).  None of the     *)
(* safety properties is inductive; SafeInTurn is.  It adds what the        *)
(* invocation in progress has established before its next step, which is   *)
(* what an interruption leaves for recover to find.                        *)
(*                                                                         *)
(* The second part discharges TakeTurns for the service, which has one     *)
(* caller of the helper: it is enough that the service takes only the      *)
(* steps of RuntimeTransition (ServiceDrives).  What the runner and        *)
(* systemd rely on in return is in the inductive invariant ServiceSafe:    *)
(* what each command of the helper leaves behind when it reports success   *)
(* (Awaited), what that lets the runner assume at each of its points       *)
(* (Placed), and what the attestation, a clean exit and the stop marker    *)
(* say of the containers (Attested, Quiet, Watching).                      *)
(***************************************************************************)
EXTENDS ServiceRunner, TLAPS

\* Invocations never overlap: the callers see to it, or there is only one.
TakeTurns == Serialized \/ \A p, q \in Caller : p = q

\* The initial states have the types.
LEMMA TypeInit == Init => TypeOK
  BY NoContainerAssumption DEF Init, TypeOK, Phases, Steps

\* The steps recover may name.
RecoverSteps == {"none", "refuse", "rename_back", "restore", "start_current",
                 "discard_checked"}

\* recover names a step that an invocation can continue with, or none.
LEMMA RecoverPlanType == RecoverPlan \in RecoverSteps
  <1>1. RecoverWithoutFile \in RecoverSteps
    BY DEF RecoverWithoutFile, RecoverSteps
  <1>2. RecoverCommitting \in RecoverSteps
    BY DEF RecoverCommitting, RecoverSteps
  <1>3. RecoverRollingBack \in RecoverSteps
    BY DEF RecoverRollingBack, RecoverSteps
  <1>4. RecoverUnfinished \in RecoverSteps
    BY DEF RecoverUnfinished, RecoverSteps
  <1>5. QED BY <1>1, <1>2, <1>3, <1>4 DEF RecoverPlan, RecoverSteps

\* No step of any caller leaves them.
LEMMA TypeStep == TypeOK /\ [Next]_vars => TypeOK'
  <1> SUFFICES ASSUME TypeOK, [Next]_vars PROVE TypeOK'
    OBVIOUS
  <1> USE DEF TypeOK, Phases, Steps, docker, stateFile, helper, Exists, Continue,
    Exit, WriteState, RemoveCurrent
  <1>1. ASSUME NEW p \in Caller, Invoke(p) PROVE TypeOK'
    <2>1. CASE PrepareRefused(p) BY <2>1 DEF PrepareRefused
    <2>2. CASE PrepareReplacement(p) BY <2>2 DEF PrepareReplacement
    <2>3. CASE PrepareFirstStart(p) BY <2>3 DEF PrepareFirstStart
    <2>4. CASE CandidateStarted(p) BY <2>4 DEF CandidateStarted, Advance
    <2>5. CASE Validating(p) BY <2>5 DEF Validating, Advance
    <2>6. CASE Commit(p) BY <2>6 DEF Commit
    <2>7. CASE Rollback(p) BY <2>7 DEF Rollback
    <2>8. CASE AbortProtected(p) BY <2>8 DEF AbortProtected
    <2>9. CASE Recover(p) BY <2>9, RecoverPlanType DEF Recover, RecoverSteps
    <2>10. QED BY <1>1, <2>1, <2>2, <2>3, <2>4, <2>5, <2>6, <2>7, <2>8, <2>9
      DEF Invoke
  <1>2. ASSUME NEW p \in Caller, Proceed(p) PROVE TypeOK'
    <2>1. CASE StopCurrent(p) BY <2>1 DEF StopCurrent
    <2>2. CASE SetAside(p) BY <2>2 DEF SetAside
    <2>3. CASE MarkPreserved(p) BY <2>3 DEF MarkPreserved
    <2>4. CASE DropPreserved(p) BY <2>4 DEF DropPreserved
    <2>5. CASE CheckPreserved(p) BY <2>5 DEF CheckPreserved
    <2>6. CASE RemoveCandidate(p) BY <2>6 DEF RemoveCandidate
    <2>7. CASE RenameBack(p) BY <2>7 DEF RenameBack
    <2>8. CASE StartCurrent(p) BY <2>8 DEF StartCurrent
    <2>9. CASE ClearState(p) BY <2>9 DEF ClearState
    <2>10. CASE Discard(p) BY <2>10 DEF Discard
    <2>11. CASE AbortRemove(p) BY <2>11 DEF AbortRemove
    <2>12. CASE AbortStop(p) BY <2>12 DEF AbortStop
    <2>13. QED BY <1>2, <2>1, <2>2, <2>3, <2>4, <2>5, <2>6, <2>7, <2>8, <2>9,
      <2>10, <2>11, <2>12 DEF Proceed
  <1>3. ASSUME NEW p \in Caller, Interrupt(p) PROVE TypeOK'
    BY <1>3 DEF Interrupt
  <1>4. ASSUME NEW p \in Caller, NEW c \in Container, Serve(p, c) PROVE TypeOK'
    BY <1>4 DEF Serve, RunContainer
  <1>5. ASSUME NEW c \in Container, ContainerExits(c) PROVE TypeOK'
    BY <1>5 DEF ContainerExits
  <1>6. CASE Reboot BY <1>6 DEF Reboot
  <1>7. CASE UNCHANGED vars BY <1>7 DEF vars
  <1>8. QED BY <1>1, <1>2, <1>3, <1>4, <1>5, <1>6, <1>7 DEF Next

\* The variables keep their types under every interleaving, crash and reboot:
\* in particular only phases that the strict state parser accepts are written.
THEOREM TypeCorrect == Spec => []TypeOK
  BY TypeInit, TypeStep, PTL DEF Spec

\* Nothing is in progress at first.
LEMMA SafeInit == Init => SafeInTurn
  BY TypeInit DEF Init, SafeInTurn, Resting, InTurn, Underway, Exists, TypeOK

\* InTurn after a step of p, from what the step does to p's own invocation.
LEMMA TurnTaken ==
  ASSUME NEW p \in Caller,
         \A q \in Caller : q # p => step'[q] = "none",
         step'[p] # "none" => had'[p] = hadPrevious' /\ Reached(step[p])'
  PROVE InTurn'
  BY DEF InTurn, Underway, Reached

\* The invariant is preserved: one step for each action.
LEMMA SafeStep == TakeTurns /\ SafeInTurn /\ [Next]_vars => SafeInTurn'
  <1> SUFFICES ASSUME TakeTurns, SafeInTurn, [Next]_vars PROVE SafeInTurn'
    OBVIOUS
  <1>t. TypeOK' BY TypeStep DEF SafeInTurn
  <1> USE NoContainerAssumption DEF SafeInTurn, Resting, InTurn, Reached, Underway,
    TakeTurns
  <1> USE DEF TypeOK, Phases, Steps, docker, stateFile, helper, Exists, Continue,
    Exit, WriteState, RemoveCurrent, Free
  <1>1. ASSUME NEW p \in Caller, Invoke(p) PROVE SafeInTurn'
    <2>1. CASE PrepareRefused(p) BY <1>t, <2>1 DEF PrepareRefused
    <2>2. CASE PrepareReplacement(p)
      <3>1. Resting' BY <1>t, <2>2 DEF PrepareReplacement
      <3>2. \A q \in Caller : q # p => step'[q] = "none"
        BY <2>2 DEF PrepareReplacement
      <3>3. step'[p] # "none" => had'[p] = hadPrevious' /\ Reached(step[p])'
        BY <1>t, <2>2 DEF PrepareReplacement
      <3>4. InTurn' BY <3>2, <3>3, TurnTaken
      <3>5. QED BY <1>t, <3>1, <3>4
    <2>3. CASE PrepareFirstStart(p) BY <1>t, <2>3 DEF PrepareFirstStart
    <2>4. CASE CandidateStarted(p) BY <1>t, <2>4 DEF CandidateStarted, Advance
    <2>5. CASE Validating(p) BY <1>t, <2>5 DEF Validating, Advance
    <2>6. CASE Commit(p)
      <3>1. Resting' BY <1>t, <2>6 DEF Commit, CommitAllowed
      <3>2. \A q \in Caller : q # p => step'[q] = "none"
        BY <2>6 DEF Commit, CommitAllowed
      <3>3. step'[p] # "none" => had'[p] = hadPrevious' /\ Reached(step[p])'
        BY <1>t, <2>6 DEF Commit, CommitAllowed
      <3>4. InTurn' BY <3>2, <3>3, TurnTaken
      <3>5. QED BY <1>t, <3>1, <3>4
    <2>7. CASE Rollback(p) BY <1>t, <2>7 DEF Rollback
    <2>8. CASE AbortProtected(p)
      BY <1>t, <2>8 DEF AbortProtected, AbortCalled, Accepted
    <2>9. CASE Recover(p)
      BY <1>t, <2>9
        DEF Recover, RecoverPlan, RecoverWithoutFile, RecoverCommitting,
          RecoverRollingBack, RecoverUnfinished
    <2>10. QED BY <1>1, <2>1, <2>2, <2>3, <2>4, <2>5, <2>6, <2>7, <2>8, <2>9
      DEF Invoke
  <1>2. ASSUME NEW p \in Caller, Proceed(p) PROVE SafeInTurn'
    <2>1. CASE StopCurrent(p) BY <1>t, <2>1 DEF StopCurrent
    <2>2. CASE SetAside(p)
      <3>1. Resting' BY <1>t, <2>2 DEF SetAside
      <3>2. \A q \in Caller : q # p => step'[q] = "none"
        BY <2>2 DEF SetAside
      <3>3. step'[p] # "none" => had'[p] = hadPrevious' /\ Reached(step[p])'
        BY <1>t, <2>2 DEF SetAside
      <3>4. InTurn' BY <3>2, <3>3, TurnTaken
      <3>5. QED BY <1>t, <3>1, <3>4
    <2>3. CASE MarkPreserved(p) BY <1>t, <2>3 DEF MarkPreserved
    <2>4. CASE DropPreserved(p) BY <1>t, <2>4 DEF DropPreserved
    <2>5. CASE CheckPreserved(p) BY <1>t, <2>5 DEF CheckPreserved
    <2>6. CASE RemoveCandidate(p) BY <1>t, <2>6 DEF RemoveCandidate
    <2>7. CASE RenameBack(p) BY <1>t, <2>7 DEF RenameBack
    <2>8. CASE StartCurrent(p) BY <1>t, <2>8 DEF StartCurrent
    <2>9. CASE ClearState(p) BY <1>t, <2>9 DEF ClearState
    <2>10. CASE Discard(p) BY <1>t, <2>10 DEF Discard
    <2>11. CASE AbortRemove(p) BY <1>t, <2>11 DEF AbortRemove
    <2>12. CASE AbortStop(p) BY <1>t, <2>12 DEF AbortStop
    <2>13. QED BY <1>2, <2>1, <2>2, <2>3, <2>4, <2>5, <2>6, <2>7, <2>8, <2>9,
      <2>10, <2>11, <2>12 DEF Proceed
  <1>3. ASSUME NEW p \in Caller, Interrupt(p) PROVE SafeInTurn'
    BY <1>t, <1>3 DEF Interrupt
  <1>4. ASSUME NEW p \in Caller, NEW c \in Container, Serve(p, c) PROVE SafeInTurn'
    <2>1. Resting' BY <1>t, <1>4 DEF Serve, RunContainer
    <2>2. InTurn' BY <1>t, <1>4 DEF Serve, RunContainer
    <2>3. QED BY <1>t, <2>1, <2>2
  <1>5. ASSUME NEW c \in Container, ContainerExits(c) PROVE SafeInTurn'
    BY <1>t, <1>5 DEF ContainerExits
  <1>6. CASE Reboot BY <1>t, <1>6 DEF Reboot
  <1>7. CASE UNCHANGED vars BY <1>t, <1>7 DEF vars
  <1>8. QED BY <1>1, <1>2, <1>3, <1>4, <1>5, <1>6, <1>7 DEF Next

\* Every reachable state between two commands of the helper satisfies the inductive
\* invariant, when callers take turns.
THEOREM SafeInTurnHolds == ASSUME TakeTurns PROVE Spec => []SafeInTurn
  <1>1. SafeInTurn /\ [Next]_vars => SafeInTurn' BY SafeStep
  <1>2. QED BY <1>1, SafeInit, PTL DEF Spec

\* The safety properties follow from the inductive invariant alone.
LEMMA SafeImplies ==
  SafeInTurn => /\ AtMostOneRunning
                /\ NoOrphanedRollback
                /\ RefusalLosesNothing
                /\ PreviousSurvives
  <1> SUFFICES ASSUME SafeInTurn
               PROVE  /\ AtMostOneRunning
                      /\ NoOrphanedRollback
                            /\ RefusalLosesNothing
                      /\ PreviousSurvives
    OBVIOUS
  <1> USE DEF SafeInTurn, Resting, Exists
  <1>1. AtMostOneRunning BY DEF AtMostOneRunning
  <1>2. NoOrphanedRollback BY DEF NoOrphanedRollback
  <1> USE DEF RecoverPlan, RecoverWithoutFile, RecoverCommitting,
    RecoverRollingBack, RecoverUnfinished
  <1>4. RefusalLosesNothing BY DEF RefusalLosesNothing, Accepted
  <1>5. PreviousSurvives BY DEF PreviousSurvives
  <1>6. QED BY <1>1, <1>2, <1>4, <1>5

\* Two model runtimes never run at once, so that one unified memory is enough.
THEOREM OneRuntimeRuns == ASSUME TakeTurns PROVE Spec => []AtMostOneRunning
  BY SafeInTurnHolds, SafeImplies, PTL

\* A rollback container never outlives its state file.
THEOREM RollbackIsNeverOrphaned == ASSUME TakeTurns PROVE Spec => []NoOrphanedRollback
  BY SafeInTurnHolds, SafeImplies, PTL

\* recover has a way on from every decided state.
LEMMA DecidedNotRefused == SafeInTurn /\ Decided => RecoverPlan # "refuse"
  BY NoContainerAssumption
    DEF SafeInTurn, Resting, Exists, Decided, RecoverPlan, RecoverCommitting,
      RecoverRollingBack

\* In a decided transaction an invocation only ends by clearing the state file.
LEMMA DecidedCompletes ==
  ASSUME SafeInTurn, Decided, NEW p \in Caller, Completes(p)
  PROVE  phase' = "idle"
  <1> USE NoContainerAssumption
    DEF SafeInTurn, Resting, InTurn, Reached, Underway, TypeOK, Phases, Steps, Decided,
      Completes, Exists, Continue, Exit, WriteState, RemoveCurrent, docker, stateFile
  <1>1. CASE StopCurrent(p) BY <1>1 DEF StopCurrent
  <1>2. CASE SetAside(p) BY <1>2 DEF SetAside
  <1>3. CASE MarkPreserved(p) BY <1>3 DEF MarkPreserved
  <1>4. CASE DropPreserved(p) BY <1>4 DEF DropPreserved
  <1>5. CASE CheckPreserved(p) BY <1>5 DEF CheckPreserved
  <1>6. CASE RemoveCandidate(p) BY <1>6 DEF RemoveCandidate
  <1>7. CASE RenameBack(p) BY <1>7 DEF RenameBack
  <1>8. CASE StartCurrent(p) BY <1>8 DEF StartCurrent
  <1>9. CASE ClearState(p) BY <1>9 DEF ClearState
  <1>10. CASE Discard(p) BY <1>10 DEF Discard
  <1>11. CASE AbortRemove(p) BY <1>11 DEF AbortRemove
  <1>12. CASE AbortStop(p) BY <1>12 DEF AbortStop
  <1>13. Proceed(p) OBVIOUS
  <1>14. QED BY <1>1, <1>2, <1>3, <1>4, <1>5, <1>6, <1>7, <1>8, <1>9, <1>10, <1>11,
    <1>12, <1>13 DEF Proceed

\* What a step leaves of the container that has the name, and how it ends.
Kept == hadPrevious /\ ~Exists(preserved) => current' = current
Ended == phase' = "idle" => Outcome

\* Every action keeps the adopted container and ends with one of the two.
LEMMA DecidedOutcome ==
  TakeTurns /\ SafeInTurn /\ Decided /\ [Next]_vars => Kept /\ Ended
  <1> SUFFICES ASSUME TakeTurns, SafeInTurn, Decided, [Next]_vars PROVE Kept /\ Ended
    OBVIOUS
  <1> USE NoContainerAssumption DEF SafeInTurn, Resting, InTurn, Reached, Underway,
    TakeTurns, Decided, Kept, Ended, Outcome, Accepted
  <1> USE DEF TypeOK, Phases, Steps, docker, stateFile, helper, Exists, Continue, Exit,
    WriteState, RemoveCurrent, Free
  <1>1. ASSUME NEW p \in Caller, Invoke(p) PROVE Kept /\ Ended
    BY <1>1 DEF Invoke, PrepareRefused, PrepareReplacement, PrepareFirstStart,
      CandidateStarted, Validating, Advance, Commit, CommitAllowed, Rollback,
      AbortProtected, Recover
  <1>2. ASSUME NEW p \in Caller, Proceed(p) PROVE Kept /\ Ended
    <2>1. CASE StopCurrent(p) BY <2>1 DEF StopCurrent
    <2>2. CASE SetAside(p) BY <2>2 DEF SetAside
    <2>3. CASE MarkPreserved(p) BY <2>3 DEF MarkPreserved
    <2>4. CASE DropPreserved(p) BY <2>4 DEF DropPreserved
    <2>5. CASE CheckPreserved(p) BY <2>5 DEF CheckPreserved
    <2>6. CASE RemoveCandidate(p) BY <2>6 DEF RemoveCandidate
    <2>7. CASE RenameBack(p) BY <2>7 DEF RenameBack
    <2>8. CASE StartCurrent(p) BY <2>8 DEF StartCurrent
    <2>9. CASE ClearState(p) BY <2>9 DEF ClearState
    <2>10. CASE Discard(p) BY <2>10 DEF Discard
    <2>11. CASE AbortRemove(p) BY <2>11 DEF AbortRemove
    <2>12. CASE AbortStop(p) BY <2>12 DEF AbortStop
    <2>13. QED BY <1>2, <2>1, <2>2, <2>3, <2>4, <2>5, <2>6, <2>7, <2>8, <2>9,
      <2>10, <2>11, <2>12 DEF Proceed
  <1>3. ASSUME NEW p \in Caller, Interrupt(p) PROVE Kept /\ Ended
    BY <1>3 DEF Interrupt
  <1>4. ASSUME NEW p \in Caller, NEW c \in Container, Serve(p, c) PROVE Kept /\ Ended
    BY <1>4 DEF Serve, RunContainer
  <1>5. ASSUME NEW c \in Container, ContainerExits(c) PROVE Kept /\ Ended
    BY <1>5 DEF ContainerExits
  <1>6. CASE Reboot BY <1>6 DEF Reboot
  <1>7. CASE UNCHANGED vars BY <1>7 DEF vars
  <1>8. QED BY <1>1, <1>2, <1>3, <1>4, <1>5, <1>6, <1>7 DEF Next

\* A decided transaction is carried to its end: recover never refuses it, what is not
\* interrupted ends it, and the end leaves the one runtime that the rollback container,
\* while it was there, or the name, once it was gone, stood for.
THEOREM DecisionsAreFinished == ASSUME TakeTurns PROVE Spec => DecisionIsFinished
  <1>1. SafeInTurn /\ [Next]_vars => [Decided => CarriedOn]_vars
    <2> SUFFICES ASSUME SafeInTurn, [Next]_vars, Decided PROVE CarriedOn
      OBVIOUS
    <2>1. RecoverPlan # "refuse" BY DecidedNotRefused
    <2>2. \A p \in Caller : Completes(p) => phase' = "idle" BY DecidedCompletes
    <2>3. Kept /\ Ended BY DecidedOutcome
    <2>4. QED BY <2>1, <2>2, <2>3 DEF CarriedOn, Kept, Ended
  <1>2. QED BY <1>1, SafeInTurnHolds, PTL DEF Spec, DecisionIsFinished

\* Where recover refuses, the runtime to fall back to has its own name again.
THEOREM RefusalsLoseNothing == ASSUME TakeTurns PROVE Spec => []RefusalLosesNothing
  BY SafeInTurnHolds, SafeImplies, PTL

\* A replacement that began with a runtime never ends with none.
THEOREM PreviousAlwaysSurvives == ASSUME TakeTurns PROVE Spec => []PreviousSurvives
  BY SafeInTurnHolds, SafeImplies, PTL

\* At first the accepted runtime is the one that has the name.
LEMMA ReplacementInit == Init => Replacement!Init
  BY DEF Init, Replacement!Init, Accepted, Candidate, UnderValidation, Exists

\* What RuntimeReplacement sees of a state.
Abstract == <<Accepted, Candidate, UnderValidation>>

\* Each command of the helper is a step of RuntimeReplacement or changes nothing
\* that it sees.  DropPreserved, or ClearState after a first start, is Adopt.
LEMMA ReplacementStep ==
  TakeTurns /\ SafeInTurn /\ [Next]_vars => [Replacement!Next]_(Replacement!vars)
  <1> SUFFICES ASSUME TakeTurns, SafeInTurn, [Next]_vars
               PROVE  Replacement!Next \/ UNCHANGED Abstract
    BY DEF Replacement!vars, Abstract
  <1> USE NoContainerAssumption DEF SafeInTurn, Resting, InTurn, Reached, Underway,
    TakeTurns
  <1> USE DEF TypeOK, docker, stateFile, Exists, Continue, Exit, WriteState,
    RemoveCurrent, Free, Accepted, Candidate, UnderValidation, Abstract
  <1>1. ASSUME NEW p \in Caller, Invoke(p)
    PROVE Replacement!Next \/ UNCHANGED Abstract
    <2>1. CASE PrepareRefused(p) BY <2>1 DEF PrepareRefused
    <2>2. CASE PrepareReplacement(p) BY <2>2 DEF PrepareReplacement
    <2>3. CASE PrepareFirstStart(p) BY <2>3 DEF PrepareFirstStart
    <2>4. CASE CandidateStarted(p) BY <2>4 DEF CandidateStarted, Advance
    <2>5. CASE Validating(p)
      BY <2>5 DEF Validating, Advance, Replacement!Next, Replacement!Validate
    <2>6. CASE Commit(p) BY <2>6 DEF Commit, CommitAllowed
    <2>7. CASE Rollback(p)
      BY <2>7 DEF Rollback, Replacement!Next, Replacement!Reject
    <2>8. CASE AbortProtected(p) BY <2>8 DEF AbortProtected
    <2>9. CASE Recover(p) BY <2>9 DEF Recover
    <2>10. QED BY <1>1, <2>1, <2>2, <2>3, <2>4, <2>5, <2>6, <2>7, <2>8, <2>9
      DEF Invoke
  <1>2. ASSUME NEW p \in Caller, Proceed(p)
    PROVE Replacement!Next \/ UNCHANGED Abstract
    <2>1. CASE StopCurrent(p) BY <2>1 DEF StopCurrent
    <2>2. CASE SetAside(p) BY <2>2 DEF SetAside
    <2>3. CASE MarkPreserved(p) BY <2>3 DEF MarkPreserved
    <2>4. CASE DropPreserved(p)
      BY <2>4 DEF DropPreserved, Replacement!Next, Replacement!Adopt
    <2>5. CASE CheckPreserved(p) BY <2>5 DEF CheckPreserved
    <2>6. CASE RemoveCandidate(p)
      BY <2>6 DEF RemoveCandidate, Replacement!Next, Replacement!Remove
    <2>7. CASE RenameBack(p) BY <2>7 DEF RenameBack
    <2>8. CASE StartCurrent(p) BY <2>8 DEF StartCurrent
    <2>9. CASE ClearState(p)
      BY <2>9 DEF ClearState, Replacement!Next, Replacement!Adopt
    <2>10. CASE Discard(p)
      BY <2>10 DEF Discard, Replacement!Next, Replacement!Remove
    <2>11. CASE AbortRemove(p)
      BY <2>11 DEF AbortRemove, Replacement!Next, Replacement!Remove
    <2>12. CASE AbortStop(p) BY <2>12 DEF AbortStop
    <2>13. QED BY <1>2, <2>1, <2>2, <2>3, <2>4, <2>5, <2>6, <2>7, <2>8, <2>9,
      <2>10, <2>11, <2>12 DEF Proceed
  <1>3. ASSUME NEW p \in Caller, Interrupt(p)
    PROVE Replacement!Next \/ UNCHANGED Abstract
    BY <1>3 DEF Interrupt
  <1>4. ASSUME NEW p \in Caller, NEW c \in Container, Serve(p, c)
    PROVE Replacement!Next \/ UNCHANGED Abstract
    BY <1>4 DEF Serve, RunContainer, Replacement!Next, Replacement!Start
  <1>5. ASSUME NEW c \in Container, ContainerExits(c)
    PROVE Replacement!Next \/ UNCHANGED Abstract
    BY <1>5 DEF ContainerExits
  <1>6. CASE Reboot BY <1>6 DEF Reboot
  <1>7. CASE UNCHANGED vars BY <1>7 DEF vars
  <1>8. QED BY <1>1, <1>2, <1>3, <1>4, <1>5, <1>6, <1>7 DEF Next

\* The helper, crashes and all, implements the atomic replacement of the runtime.
THEOREM ReplacementImplemented == ASSUME TakeTurns PROVE Spec => ReplacesAtomically
  <1>1. SafeInTurn /\ [Next]_vars => [Replacement!Next]_(Replacement!vars)
    BY ReplacementStep
  <1>2. QED
    BY <1>1, ReplacementInit, SafeInTurnHolds, PTL
      DEF Spec, ReplacesAtomically, Replacement!Spec
-------------------------------------------------------------------------------
(* The service.                                                              *)

\* The helper of the service, and where the runner waits for it.
Helper == step[Service]
Waiting == {"recovering", "preparing", "committing", "aborting", "rolling"}

\* The points with a candidate of the runner's own, and those with a monitor.
Serving == {"start_monitor", "candidate", "validate", "probe", "models",
            "commit", "abort"}
Watched == {"candidate", "validate", "probe", "models", "commit", "committing",
            "attest", "follow", "stopped"}

\* The previous runtime, if any, is out of the way of the candidate, and is kept.
Replacing ==
  /\ phase \in {"previous_preserved", "candidate_started", "validating"}
  /\ hadPrevious => Exists(preserved)

\* The runner has a helper only while it waits for it, and systemd starts no
\* runner beside a helper.
OneAtATime ==
  /\ at \notin Waiting \cup {"off"} => Helper = "none"
  /\ at # "off" => lastExit = "none"
  /\ HelpersTakeTurns

\* What the helper has achieved when it reports success to the runner, which has
\* asked it to prepare, to commit or to abort.
Awaited ==
  /\ at = "preparing" =>
       /\ Helper \in {"none", "stop", "set_aside", "mark_preserved"}
       /\ (Helper = "none" /\ status[Service] = "ok") =>
            Replacing /\ phase = "previous_preserved"
  /\ at = "committing" =>
       /\ Helper \in {"none", "drop_preserved", "clear"}
       /\ (Helper = "none" /\ status[Service] = "ok") => phase = "idle"
  /\ at = "aborting" =>
       /\ Helper \in {"none", "abort_remove", "abort_rename", "abort_stop", "clear"}
       /\ Helper \in {"abort_rename", "clear"} => running = {}
       /\ (Helper = "none" /\ status[Service] = "ok") =>
            phase = "idle" /\ running = {}

\* What the runner may assume at its points.
Placed ==
  /\ at = "serve" => Replacing /\ phase = "previous_preserved"
  /\ at \in Serving => Replacing /\ Exists(current)
  /\ at = "abort" => current \notin running
  /\ at \in {"attest", "follow", "stopped"} => phase = "idle"
  /\ at = "stopped" => running = {}

\* An attestation is of the container that the runner follows, or was following
\* when it was killed: nothing has been done to it since.
Attested ==
  Exists(attested) =>
    /\ at \in {"follow", "off", "begin"}
    /\ Helper = "none"
    /\ phase = "idle"
    /\ attested = current

\* A clean exit leaves nothing behind.
Quiet ==
  lastExit = "clean" =>
    at = "off" /\ Helper = "none" /\ running = {} /\ phase = "idle"

\* While the runner has a monitor, the marker names what the monitor has stopped.
Watching ==
  /\ watch \in {"decided", "marked", "stopped"} => Exists(watched)
  /\ at \in Watched /\ watch \in {"marked", "stopped"} => marker = watched

RunnerSafe ==
  OneAtATime /\ Awaited /\ Placed /\ Attested /\ Quiet /\ Watching

ServiceSafe == ServiceTypeOK /\ SafeInTurn /\ RunnerSafe

-----------------------------------------------------------------------------
(* The service takes the steps of RuntimeTransition.                       *)

\* The one caller takes turns with itself.
LEMMA ServiceTakesTurns == TakeTurns
  BY ServiceAssumption DEF TakeTurns

\* No container is running under a name that is not in use, and a container that
\* is stopped by name exits.
LEMMA StopIsExit ==
  ASSUME TypeOK,
         running' = running \ {current},
         UNCHANGED <<current, preserved, stateFile, helper>>
  PROVE  [Next]_vars
  <1>1. CASE current \in running
    BY <1>1 DEF TypeOK, ContainerExits, Next
  <1>2. CASE current \notin running
    BY <1>2 DEF vars, stateFile, helper
  <1>3. QED BY <1>1, <1>2

\* Whatever happens to the service is a step of RuntimeTransition or leaves the
\* runtime alone.  Serve asks for something: that there is a candidate to serve for.
LEMMA ServiceDrives ==
  ASSUME TypeOK, Placed, OneAtATime, [ServiceNext]_serviceVars
  PROVE  [Next]_vars
  <1> USE DEF runtime, vars
  <1>s. Service \in Caller BY ServiceAssumption
  <1>1. CASE RunnerStep
    <2>1. CASE CallRecover BY <1>s, <2>1 DEF CallRecover, Call, Next, Invoke
    <2>2. CASE CallPrepare BY <1>s, <2>2 DEF CallPrepare, Call, Next, Invoke
    <2>3. CASE ServeCandidate
      <3>1. Free(Service)
        BY <1>s, <2>3, ServiceAssumption
          DEF ServeCandidate, OneAtATime, Helper, Free, Waiting
      <3>2. CASE UNCHANGED docker
        BY <2>3, <3>2 DEF ServeCandidate, docker, stateFile, helper
      <3>3. ASSUME NEW c \in Container, RunContainer(c) PROVE [Next]_vars
        BY <1>s, <2>3, <3>1, <3>3 DEF ServeCandidate, Placed, Serve, Next
      <3>4. QED BY <2>3, <3>2, <3>3 DEF ServeCandidate
    <2>4. CASE ReportStarted
      BY <1>s, <2>4 DEF ReportStarted, CallAdvance, Next, Invoke
    <2>5. CASE ReportValidating
      BY <1>s, <2>5 DEF ReportValidating, CallAdvance, Next, Invoke
    <2>6. CASE CallAbort BY <1>s, <2>6 DEF CallAbort, Call, Next, Invoke
    <2>7. CASE CallCommit BY <1>s, <2>7 DEF CallCommit, Call, Next, Invoke
    <2>8. CASE CallRollback BY <1>s, <2>8 DEF CallRollback, Next, Invoke
    <2>9. CASE UNCHANGED runtime BY <2>9
    <2>10. QED
      BY <1>1, <2>1, <2>2, <2>3, <2>4, <2>5, <2>6, <2>7, <2>8, <2>9
        DEF RunnerStep, Begin, Preflight, Return, StartMonitor, Probe,
          FinishAbort, ValidateModels, Attest, ContainerGone, Conclude,
          ForgetAndExit, RolledBack
  <1>2. CASE HelperStep BY <1>s, <1>2 DEF HelperStep, Next
  <1>3. CASE MonitorStep
    <2>1. CASE MonitorStops BY <2>1, StopIsExit DEF MonitorStops, stateFile, helper
    <2>2. CASE UNCHANGED runtime BY <2>2
    <2>3. QED
      BY <1>3, <2>1, <2>2 DEF MonitorStep, MonitorDecides, MonitorMarks, MonitorEnds
  <1>4. CASE SystemdStep
    <2>1. CASE ExecStop BY <2>1, StopIsExit DEF ExecStop
    <2>2. CASE KillGroup BY <1>s, <2>2 DEF KillGroup, Next
    <2>3. CASE UNCHANGED runtime BY <2>3
    <2>4. QED
      BY <1>4, <2>1, <2>2, <2>3 DEF SystemdStep, NoticeExit, UnitEnds
  <1>5. CASE RuntimeFails BY <1>s, <1>5 DEF RuntimeFails, Next
  <1>6. CASE HostReboots BY <1>6 DEF HostReboots, Next
  <1>7. CASE UNCHANGED runtime BY <1>7
  <1>8. QED
    BY <1>1, <1>2, <1>3, <1>4, <1>5, <1>6, <1>7
      DEF ServiceNext, StartUnit, GiveUp, AskStop, RunnerKilled, serviceVars

-----------------------------------------------------------------------------
(* Types. *)

\* The initial states have the types.
LEMMA ServiceTypeInit == ServiceInit => ServiceTypeOK
  <1> SUFFICES ASSUME ServiceInit PROVE ServiceTypeOK
    OBVIOUS
  <1>1. TypeOK BY TypeInit DEF ServiceInit
  <1>2. attempt \in 0..Attempts BY AttemptsAssumption DEF ServiceInit
  <1>3. QED BY <1>1, <1>2 DEF ServiceInit, ServiceTypeOK, Points

\* Every point is one of the runner's.
LEMMA ServiceTypeStep ==
  ASSUME ServiceTypeOK, TypeOK', [ServiceNext]_serviceVars
  PROVE  ServiceTypeOK'
  <1> USE AttemptsAssumption DEF ServiceTypeOK, Goto, RunnerExits, Fail, Points,
    Trapped, Active, systemd, monitor
  <1>1. CASE RunnerStep
    <2>1. CASE Begin BY <2>1 DEF Begin
    <2>2. CASE Preflight BY <2>2 DEF Preflight
    <2>3. CASE CallRecover BY <2>3 DEF CallRecover, Call
    <2>4. CASE Return("recovering", "prepare") BY <2>4 DEF Return
    <2>5. CASE CallPrepare BY <2>5 DEF CallPrepare, Call
    <2>6. CASE Return("preparing", "serve") BY <2>6 DEF Return
    <2>7. CASE ServeCandidate BY <2>7 DEF ServeCandidate
    <2>8. CASE StartMonitor BY <2>8 DEF StartMonitor
    <2>9. CASE ReportStarted BY <2>9 DEF ReportStarted, CallAdvance
    <2>10. CASE ReportValidating BY <2>10 DEF ReportValidating, CallAdvance
    <2>11. CASE Probe BY <2>11 DEF Probe
    <2>12. CASE CallAbort BY <2>12 DEF CallAbort, Call
    <2>13. CASE FinishAbort BY <2>13 DEF FinishAbort
    <2>14. CASE ValidateModels BY <2>14 DEF ValidateModels
    <2>15. CASE CallCommit BY <2>15 DEF CallCommit, Call
    <2>16. CASE Return("committing", "attest") BY <2>16 DEF Return
    <2>17. CASE Attest BY <2>17 DEF Attest, TypeOK
    <2>18. CASE ContainerGone BY <2>18 DEF ContainerGone
    <2>19. CASE Conclude BY <2>19 DEF Conclude
    <2>20. CASE ForgetAndExit BY <2>20 DEF ForgetAndExit
    <2>21. CASE CallRollback BY <2>21 DEF CallRollback
    <2>22. CASE RolledBack BY <2>22 DEF RolledBack
    <2>23. QED
      BY <1>1, <2>1, <2>2, <2>3, <2>4, <2>5, <2>6, <2>7, <2>8, <2>9, <2>10, <2>11,
        <2>12, <2>13, <2>14, <2>15, <2>16, <2>17, <2>18, <2>19, <2>20, <2>21, <2>22
        DEF RunnerStep
  <1>2. CASE HelperStep BY <1>2 DEF HelperStep
  <1>3. CASE MonitorStep
    BY <1>3
      DEF MonitorStep, MonitorDecides, MonitorMarks, MonitorStops, MonitorEnds, TypeOK
  <1>4. CASE SystemdStep
    BY <1>4 DEF SystemdStep, NoticeExit, ExecStop, KillGroup, UnitEnds
  <1>5. CASE StartUnit BY <1>5 DEF StartUnit
  <1>6. CASE GiveUp BY <1>6 DEF GiveUp
  <1>7. CASE AskStop BY <1>7 DEF AskStop
  <1>8. CASE RunnerKilled BY <1>8 DEF RunnerKilled
  <1>9. CASE RuntimeFails BY <1>9 DEF RuntimeFails
  <1>10. CASE HostReboots BY <1>10 DEF HostReboots
  <1>11. CASE UNCHANGED serviceVars BY <1>11 DEF serviceVars
  <1>12. QED
    BY <1>1, <1>2, <1>3, <1>4, <1>5, <1>6, <1>7, <1>8, <1>9, <1>10, <1>11
      DEF ServiceNext

-----------------------------------------------------------------------------
(* The runner's own invariant, one lemma for each group of actions.        *)

\* Nothing has happened at first.
LEMMA RunnerSafeInit == ServiceInit => RunnerSafe
  BY ServiceAssumption
    DEF ServiceInit, Init, RunnerSafe, OneAtATime, HelpersTakeTurns, Awaited, Placed,
      Serving, Watched, Waiting, Helper, Attested, Exists, Quiet, Watching

\* An invocation of the runner begins or ends, or the runner does something else.
LEMMA RunnerStepSafe ==
  ASSUME ServiceSafe, SafeInTurn', RunnerStep
  PROVE  RunnerSafe'
  <1>s. Service \in Caller BY ServiceAssumption
  <1> USE <1>s DEF ServiceSafe, RunnerSafe, OneAtATime, HelpersTakeTurns, Awaited,
    Placed, Replacing, Serving, Watched, Waiting, Helper, Attested, Exists, Quiet,
    Watching
  <1> USE DEF Goto, RunnerExits, Fail, Trapped, Active, systemd, monitor, runtime,
    Exit, Continue, ServiceTypeOK, TypeOK, Steps
  <1>r. RunnerStep OBVIOUS
  <1>1. CASE Begin BY <1>1 DEF Begin
  <1>2. CASE Preflight BY <1>2 DEF Preflight
  <1>3. CASE CallRecover BY <1>3 DEF CallRecover, Call, Recover, docker, stateFile
  <1>4. CASE Return("recovering", "prepare") BY <1>4 DEF Return
  <1>5. CASE CallPrepare
    <2>1. at = "prepare" /\ at' = "preparing" BY <1>5 DEF CallPrepare, Call
    <2>2. CASE PrepareRefused(Service)
      BY <1>5, <2>1, <2>2 DEF CallPrepare, Call, PrepareRefused, docker, stateFile
    <2>3. CASE PrepareReplacement(Service)
      BY <1>5, <2>1, <2>3 DEF CallPrepare, Call, PrepareReplacement, docker, WriteState
    <2>4. CASE PrepareFirstStart(Service)
      BY <1>5, <2>1, <2>4 DEF CallPrepare, Call, PrepareFirstStart, docker, WriteState
    <2>5. QED BY <1>5, <2>2, <2>3, <2>4 DEF CallPrepare, Call
  <1>6. CASE Return("preparing", "serve") BY <1>6 DEF Return
  <1>7. CASE ServeCandidate
    BY <1>7, NoContainerAssumption
      DEF ServeCandidate, RunContainer, docker, stateFile, helper
  <1>8. CASE StartMonitor BY <1>8 DEF StartMonitor
  <1>9. CASE ReportStarted
    BY <1>9 DEF ReportStarted, CallAdvance, CandidateStarted, Advance, docker, WriteState
  <1>10. CASE ReportValidating
    BY <1>10 DEF ReportValidating, CallAdvance, Validating, Advance, docker, WriteState
  <1>11. CASE Probe BY <1>11 DEF Probe, ProtectedStop
  <1>12. CASE CallAbort
    BY <1>12 DEF CallAbort, Call, AbortProtected, docker, stateFile
  <1>13. CASE FinishAbort BY <1>13 DEF FinishAbort
  <1>14. CASE ValidateModels BY <1>14 DEF ValidateModels
  <1>15. CASE CallCommit
    BY <1>15 DEF CallCommit, Call, Commit, docker, stateFile, WriteState
  <1>16. CASE Return("committing", "attest") BY <1>16 DEF Return
  <1>17. CASE Attest BY <1>17 DEF Attest
  <1>18. CASE ContainerGone BY <1>18 DEF ContainerGone, SafeInTurn, Resting
  <1>19. CASE Conclude BY <1>19 DEF Conclude
  <1>20. CASE ForgetAndExit BY <1>20 DEF ForgetAndExit
  <1>21. CASE CallRollback BY <1>21 DEF CallRollback, Rollback, docker
  <1>22. CASE RolledBack BY <1>22 DEF RolledBack
  <1>23. QED
    BY <1>r, <1>1, <1>2, <1>3, <1>4, <1>5, <1>6, <1>7, <1>8, <1>9, <1>10, <1>11,
      <1>12, <1>13, <1>14, <1>15, <1>16, <1>17, <1>18, <1>19, <1>20, <1>21, <1>22
      DEF RunnerStep

\* The helper goes on: it is at the point where the runner waits, or nobody does.
LEMMA HelperStepSafe ==
  ASSUME ServiceSafe, SafeInTurn', HelperStep
  PROVE  RunnerSafe'
  <1>s. Service \in Caller BY ServiceAssumption
  <1> USE <1>s DEF ServiceSafe, RunnerSafe, OneAtATime, HelpersTakeTurns, Awaited,
    Placed, Replacing, Serving, Watched, Waiting, Helper, Attested, Exists, Quiet,
    Watching
  <1> USE HelperStep DEF HelperStep, systemd, monitor, Exit, Continue, ServiceTypeOK,
    TypeOK, Steps, WriteState, docker, stateFile, RemoveCurrent
  <1> USE DEF SafeInTurn, Resting, InTurn, Reached, Underway
  <1>1. CASE StopCurrent(Service) BY <1>1 DEF StopCurrent
  <1>2. CASE SetAside(Service) BY <1>2 DEF SetAside
  <1>3. CASE MarkPreserved(Service) BY <1>3 DEF MarkPreserved
  <1>4. CASE DropPreserved(Service) BY <1>4 DEF DropPreserved
  <1>5. CASE CheckPreserved(Service) BY <1>5 DEF CheckPreserved
  <1>6. CASE RemoveCandidate(Service) BY <1>6 DEF RemoveCandidate
  <1>7. CASE RenameBack(Service) BY <1>7 DEF RenameBack
  <1>8. CASE StartCurrent(Service) BY <1>8 DEF StartCurrent
  <1>9. CASE ClearState(Service) BY <1>9 DEF ClearState
  <1>10. CASE Discard(Service) BY <1>10 DEF Discard
  <1>11. CASE AbortRemove(Service) BY <1>11 DEF AbortRemove
  <1>12. CASE AbortStop(Service) BY <1>12 DEF AbortStop
  <1>13. QED
    BY <1>1, <1>2, <1>3, <1>4, <1>5, <1>6, <1>7, <1>8, <1>9, <1>10, <1>11, <1>12
      DEF Proceed

\* Monitor, systemd, operator and failures.
LEMMA OtherStepSafe ==
  ASSUME ServiceSafe, SafeInTurn', [ServiceNext]_serviceVars,
         ~RunnerStep, ~HelperStep
  PROVE  RunnerSafe'
  <1>s. Service \in Caller BY ServiceAssumption
  <1> USE <1>s DEF ServiceSafe, RunnerSafe, OneAtATime, HelpersTakeTurns, Awaited,
    Placed, Replacing, Serving, Watched, Waiting, Helper, Attested, Exists, Quiet,
    Watching
  <1> USE DEF Goto, RunnerExits, Fail, Trapped, Active, systemd, monitor, runtime,
    Exit, ServiceTypeOK, TypeOK, docker, stateFile, helper
  <1>1. CASE MonitorDecides BY <1>1, NoContainerAssumption DEF MonitorDecides
  <1>2. CASE MonitorMarks BY <1>2 DEF MonitorMarks
  <1>3. CASE MonitorStops BY <1>3 DEF MonitorStops
  <1>4. CASE MonitorEnds BY <1>4 DEF MonitorEnds
  <1>5. CASE NoticeExit BY <1>5 DEF NoticeExit
  <1>6. CASE ExecStop BY <1>6 DEF ExecStop
  <1>7. CASE KillGroup BY <1>7 DEF KillGroup, Interrupt
  <1>8. CASE UnitEnds BY <1>8 DEF UnitEnds
  <1>9. CASE StartUnit BY <1>9 DEF StartUnit
  <1>10. CASE GiveUp BY <1>10 DEF GiveUp
  <1>11. CASE AskStop BY <1>11 DEF AskStop
  <1>12. CASE RunnerKilled BY <1>12 DEF RunnerKilled
  <1>13. CASE RuntimeFails BY <1>13 DEF RuntimeFails, Interrupt, ContainerExits
  <1>14. CASE HostReboots BY <1>14 DEF HostReboots, Reboot
  <1>15. CASE UNCHANGED serviceVars BY <1>15 DEF serviceVars
  <1>16. QED
    BY <1>1, <1>2, <1>3, <1>4, <1>5, <1>6, <1>7, <1>8, <1>9, <1>10, <1>11, <1>12,
      <1>13, <1>14, <1>15 DEF ServiceNext, MonitorStep, SystemdStep

\* The invariant of the service: with the one of the transition, its own.
LEMMA ServiceSafeStep ==
  ServiceSafe /\ [ServiceNext]_serviceVars => ServiceSafe'
  <1> SUFFICES ASSUME ServiceSafe, [ServiceNext]_serviceVars PROVE ServiceSafe'
    OBVIOUS
  <1>1. [Next]_vars
    BY ServiceDrives DEF ServiceSafe, RunnerSafe, SafeInTurn
  <1>2. SafeInTurn'
    BY <1>1, SafeStep, ServiceTakesTurns DEF ServiceSafe
  <1>3. ServiceTypeOK'
    BY <1>2, ServiceTypeStep DEF ServiceSafe, SafeInTurn
  <1>4. RunnerSafe'
    BY <1>2, RunnerStepSafe, HelperStepSafe, OtherStepSafe
  <1>5. QED BY <1>2, <1>3, <1>4 DEF ServiceSafe

\* Every state that the service reaches satisfies the inductive invariant.
THEOREM ServiceSafeHolds == ServiceSpec => []ServiceSafe
  <1>1. ServiceInit => ServiceSafe
    <2>1. ServiceInit => SafeInTurn BY SafeInit DEF ServiceInit
    <2>2. QED BY <2>1, ServiceTypeInit, RunnerSafeInit DEF ServiceSafe
  <1>2. QED BY <1>1, ServiceSafeStep, PTL DEF ServiceSpec

\* The service uses the helper as RuntimeTransition assumes its callers do.
THEOREM ServiceDrivesTransition == ServiceSpec => DrivesTransition
  <1>1. ServiceInit => Init BY DEF ServiceInit
  <1>2. ServiceSafe /\ [ServiceNext]_serviceVars => [Next]_vars
    BY ServiceDrives DEF ServiceSafe, RunnerSafe, SafeInTurn
  <1>3. QED
    BY <1>1, <1>2, ServiceSafeHolds, PTL DEF ServiceSpec, DrivesTransition, Spec

\* So what is proved of callers that take turns holds of the service: whatever is
\* killed, fails or reboots, it replaces the accepted runtime atomically.
THEOREM ServiceIsAtomic == ServiceSpec => ReplacesAtomically
  BY ServiceDrivesTransition, ReplacementImplemented, ServiceTakesTurns, PTL
    DEF DrivesTransition

\* The service never runs two runtimes at once, never orphans a rollback container
\* and never ends a replacement with no runtime where there was one.
THEOREM ServiceLosesNothing ==
  ServiceSpec => [](AtMostOneRunning /\ NoOrphanedRollback /\ PreviousSurvives)
  BY ServiceSafeHolds, SafeImplies, PTL DEF ServiceSafe

\* A killed runner leaves its helper behind, but no runner is started beside it.
THEOREM HelpersAlwaysTakeTurns == ServiceSpec => []HelpersTakeTurns
  BY ServiceSafeHolds, PTL DEF ServiceSafe, RunnerSafe, OneAtATime

\* No attestation outlives what it says.
THEOREM AttestationsAreTrue == ServiceSpec => []AttestationTruthful
  <1>1. ServiceSafe => AttestationTruthful
    BY DEF ServiceSafe, RunnerSafe, Attested, AttestationTruthful
  <1>2. QED BY <1>1, ServiceSafeHolds, PTL

\* A unit that has ended because memory protection made its runner exit cleanly has
\* left nothing running and nothing to recover.  Of an operator's stop this says
\* nothing: a runtime may go on after it (ServiceStopped.cfg).
THEOREM ProtectedStopsAreQuiet == ServiceSpec => []QuietStop
  <1>1. ServiceSafe => QuietStop
    BY DEF ServiceSafe, RunnerSafe, Quiet, QuietStop
  <1>2. QED BY <1>1, ServiceSafeHolds, PTL

\* A served container that the monitor stopped is never taken for a failed one.
THEOREM ServedProtectionAlwaysFinal == ServiceSpec => ServedProtectionIsFinal
  <1> DEFINE Final ==
        at = "stopped" /\ watch = "stopped" /\ watched = current =>
          lastExit' \notin {"failed", "rolled_back"}
  <1>1. ServiceSafe /\ [ServiceNext]_serviceVars => [Final]_serviceVars
    <2> SUFFICES ASSUME ServiceSafe, ServiceNext,
                        at = "stopped", watch = "stopped", watched = current
                 PROVE  lastExit' \notin {"failed", "rolled_back"}
      OBVIOUS
    <2>1. ProtectedStop /\ lastExit = "none"
      BY DEF ServiceSafe, RunnerSafe, OneAtATime, Watching, Watched, ProtectedStop
    <2> USE DEF Goto, RunnerExits, Fail, Trapped, Active, systemd, monitor
    <2>2. CASE RunnerStep
      BY <2>1, <2>2
        DEF RunnerStep, Begin, Preflight, CallRecover, Call, Return, CallPrepare,
          ServeCandidate, StartMonitor, ReportStarted, ReportValidating, CallAdvance,
          Probe, CallAbort, FinishAbort, ValidateModels, CallCommit, Attest,
          ContainerGone, Conclude, ForgetAndExit, CallRollback, RolledBack
    <2>3. CASE HelperStep BY <2>1, <2>3 DEF HelperStep
    <2>4. CASE MonitorStep
      BY <2>1, <2>4
        DEF MonitorStep, MonitorDecides, MonitorMarks, MonitorStops, MonitorEnds
    <2>5. CASE SystemdStep
      BY <2>1, <2>5 DEF SystemdStep, NoticeExit, ExecStop, KillGroup, UnitEnds
    <2>6. CASE StartUnit BY <2>6 DEF StartUnit
    <2>7. CASE GiveUp \/ AskStop BY <2>1, <2>7 DEF GiveUp, AskStop
    <2>8. CASE RunnerKilled \/ RuntimeFails \/ HostReboots
      BY <2>1, <2>8 DEF RunnerKilled, RuntimeFails, HostReboots
    <2>9. QED
      BY <2>2, <2>3, <2>4, <2>5, <2>6, <2>7, <2>8 DEF ServiceNext
  <1>2. QED
    BY <1>1, ServiceSafeHolds, PTL DEF ServiceSpec, ServedProtectionIsFinal

\* Whenever the runner is about to invoke the helper, the invocation it left last
\* has ended, and it aborts only a candidate of its own that has stopped.
CallsAreWelcome ==
  /\ at \in {"recover", "prepare", "candidate", "validate", "abort", "commit",
             "rollback"} => Free(Service)
  /\ at = "abort" => AbortCalled

\* No call of the runner waits for a guard that the code does not have:
\* RuntimeTransition guards its actions with what CallsAreWelcome says.
THEOREM CallsAlwaysWelcome == ServiceSpec => []CallsAreWelcome
  <1>1. ServiceSafe => CallsAreWelcome
    <2> SUFFICES ASSUME ServiceSafe PROVE CallsAreWelcome
      OBVIOUS
    <2> USE DEF ServiceSafe, RunnerSafe
    <2>1. at \in {"recover", "prepare", "candidate", "validate", "abort", "commit",
                  "rollback"} => Free(Service)
      BY ServiceAssumption DEF OneAtATime, Waiting, Helper, Free
    <2>2. at = "abort" => AbortCalled
      BY DEF Placed, Serving, Replacing, AbortCalled, Accepted, SafeInTurn, Resting,
        Exists
    <2>3. QED BY <2>1, <2>2 DEF CallsAreWelcome
  <1>2. QED BY <1>1, ServiceSafeHolds, PTL
=============================================================================
