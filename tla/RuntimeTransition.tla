------------------------- MODULE RuntimeTransition -------------------------
(***************************************************************************)
(* scripts/runtime/runtime-transition.sh: the helper that keeps the        *)
(* current runtime container under a second name while its replacement is  *)
(* validated, and that puts it back after a failure or a crash.            *)
(*                                                                         *)
(* An invocation of the helper is a sequence of docker commands and        *)
(* renames of one state file.  Each action below is one invocation's next  *)
(* step up to and including one command that changes something, so that    *)
(* the helper can be killed between any two of them (Interrupt, Reboot).   *)
(* Nothing in the helper serialises its callers; Serialized says whether   *)
(* the callers see to it that two invocations never overlap.               *)
(***************************************************************************)
CONSTANTS
  Container,    \* docker container ids
  NoContainer,  \* no container has the name
  Caller,       \* processes that run the helper: the service, an operator
  Serialized    \* TRUE iff invocations of the helper never overlap

ASSUME NoContainerAssumption == NoContainer \notin Container
ASSUME SerializedAssumption == Serialized \in BOOLEAN

VARIABLES
  current,      \* the container named qwen38-flash-next
  preserved,    \* the container named qwen38-flash-next.rollback
  running,      \* the containers that run
  phase,        \* TRANSACTION_STATE of the state file, "idle" without a file
  hadPrevious,  \* HAD_PREVIOUS of the state file
  step,         \* what each caller's invocation does next, "none" without one
  had,          \* the HAD_PREVIOUS each invocation loaded or computed
  status        \* exit status of each caller's last invocation

docker == <<current, preserved, running>>
stateFile == <<phase, hadPrevious>>
helper == <<step, had, status>>
vars == <<current, preserved, running, phase, hadPrevious, step, had, status>>

Phases == {"idle", "preparing", "previous_preserved", "candidate_started",
           "validating", "committing", "rolling_back"}
Steps == {"none", "stop", "set_aside", "mark_preserved", "drop_preserved",
          "restore", "remove_candidate", "rename_back", "start_current",
          "discard", "discard_checked", "abort_remove", "abort_rename",
          "abort_stop", "clear"}

TypeOK ==
  /\ current \in Container \cup {NoContainer}
  /\ preserved \in Container \cup {NoContainer}
  /\ running \subseteq Container
  /\ phase \in Phases
  /\ hadPrevious \in BOOLEAN
  /\ step \in [Caller -> Steps]
  /\ had \in [Caller -> BOOLEAN]
  /\ status \in [Caller -> {"ok", "failed"}]

\* A managed runtime may or may not exist when the first replacement begins.
Init ==
  /\ current \in Container \cup {NoContainer}
  /\ preserved = NoContainer
  /\ running \in SUBSET ({current} \ {NoContainer})
  /\ phase = "idle"
  /\ hadPrevious = FALSE
  /\ step = [p \in Caller |-> "none"]
  /\ had = [p \in Caller |-> FALSE]
  /\ status = [p \in Caller |-> "ok"]

-----------------------------------------------------------------------------
(* The bookkeeping of an invocation. *)

Exists(c) == c # NoContainer

\* A caller may begin an invocation.
Free(p) ==
  /\ step[p] = "none"
  /\ Serialized => \A q \in Caller : step[q] = "none"

\* The invocation goes on with step s; h is its HAD_PREVIOUS.
Continue(p, s, h) ==
  /\ step' = [step EXCEPT ![p] = s]
  /\ had' = [had EXCEPT ![p] = h]
  /\ UNCHANGED status

\* The invocation ends, with exit status 0 for "ok".
Exit(p, outcome) ==
  /\ step' = [step EXCEPT ![p] = "none"]
  /\ status' = [status EXCEPT ![p] = outcome]
  /\ UNCHANGED had

WriteState(ph, h) == phase' = ph /\ hadPrevious' = h

\* The runtime that a failed replacement falls back to, read off the state:
\* the preserved container, else the current one, unless the transaction in
\* progress is a first start, when there is none.
Accepted ==
  IF Exists(preserved) THEN preserved
  ELSE IF phase = "idle" \/ hadPrevious THEN current ELSE NoContainer

-----------------------------------------------------------------------------
(* The forward path: prepare, candidate-started, validating, commit. *)

PrepareRefused(p) ==
  /\ Free(p)
  /\ phase # "idle" \/ Exists(preserved)
  /\ Exit(p, "failed")
  /\ UNCHANGED <<docker, stateFile>>

PrepareReplacement(p) ==
  /\ Free(p)
  /\ phase = "idle" /\ ~Exists(preserved)
  /\ Exists(current)
  /\ WriteState("preparing", TRUE)
  /\ Continue(p, "stop", TRUE)
  /\ UNCHANGED docker

PrepareFirstStart(p) ==
  /\ Free(p)
  /\ phase = "idle" /\ ~Exists(preserved)
  /\ ~Exists(current)
  /\ WriteState("previous_preserved", FALSE)
  /\ Exit(p, "ok")
  /\ UNCHANGED docker

\* Mutant: the running previous container is renamed without being stopped.
StopCurrentSkipped(p) ==
  /\ step[p] = "stop"
  /\ Continue(p, "set_aside", had[p])
  /\ UNCHANGED <<docker, stateFile>>

StopCurrent(p) ==
  /\ step[p] = "stop"
  /\ running' = running \ {current}
  /\ Continue(p, "set_aside", had[p])
  /\ UNCHANGED <<current, preserved, stateFile>>

\* docker rename fails when the source is missing or the target exists.
SetAside(p) ==
  /\ step[p] = "set_aside"
  /\ IF Exists(current) /\ ~Exists(preserved)
       THEN /\ preserved' = current
            /\ current' = NoContainer
            /\ Continue(p, "mark_preserved", had[p])
       ELSE /\ Exit(p, "failed")
            /\ UNCHANGED <<current, preserved>>
  /\ UNCHANGED <<running, stateFile>>

MarkPreserved(p) ==
  /\ step[p] = "mark_preserved"
  /\ WriteState("previous_preserved", had[p])
  /\ Exit(p, "ok")
  /\ UNCHANGED docker

\* candidate-started and validating: one phase to the next, refused unless
\* the candidate runs.
Advance(p, from, to) ==
  /\ Free(p)
  /\ IF phase = from /\ current \in running
       THEN WriteState(to, hadPrevious) /\ Exit(p, "ok")
       ELSE Exit(p, "failed") /\ UNCHANGED stateFile
  /\ UNCHANGED docker

CandidateStarted(p) == Advance(p, "previous_preserved", "candidate_started")
Validating(p) == Advance(p, "candidate_started", "validating")

CommitAllowed ==
  /\ phase = "validating"
  /\ current \in running
  /\ hadPrevious => Exists(preserved)

\* Mutant: the state file is cleared while the previous container is still there.
CommitKeepsPreserved(p) ==
  /\ Free(p)
  /\ IF CommitAllowed
       THEN WriteState("committing", hadPrevious) /\ Continue(p, "clear", hadPrevious)
       ELSE Exit(p, "failed") /\ UNCHANGED stateFile
  /\ UNCHANGED docker

Commit(p) ==
  /\ Free(p)
  /\ IF CommitAllowed
       THEN /\ WriteState("committing", hadPrevious)
            /\ Continue(p, IF hadPrevious THEN "drop_preserved" ELSE "clear",
                        hadPrevious)
       ELSE Exit(p, "failed") /\ UNCHANGED stateFile
  /\ UNCHANGED docker

DropPreserved(p) ==
  /\ step[p] = "drop_preserved"
  /\ running' = running \ {preserved}
  /\ preserved' = NoContainer
  /\ Continue(p, "clear", had[p])
  /\ UNCHANGED <<current, stateFile>>

-----------------------------------------------------------------------------
(* restore_previous and the clearing of the state file, which the ways     *)
(* back share.  A missing rollback container ends the invocation.          *)

\* Mutant: the current container is removed before the other is known to exist.
CheckPreservedSkipped(p) ==
  /\ step[p] = "restore"
  /\ Continue(p, "remove_candidate", had[p])
  /\ UNCHANGED <<docker, stateFile>>

CheckPreserved(p) ==
  /\ step[p] = "restore"
  /\ IF Exists(preserved)
       THEN Continue(p, "remove_candidate", had[p])
       ELSE Exit(p, "failed")
  /\ UNCHANGED <<docker, stateFile>>

\* docker rm -f of the container that has the current name, if there is one.
RemoveCurrent ==
  /\ running' = running \ {current}
  /\ current' = NoContainer
  /\ UNCHANGED preserved

RemoveCandidate(p) ==
  /\ step[p] = "remove_candidate"
  /\ RemoveCurrent
  /\ Continue(p, "rename_back", had[p])
  /\ UNCHANGED stateFile

RenameBack(p) ==
  /\ step[p] \in {"rename_back", "abort_rename"}
  /\ IF Exists(preserved) /\ ~Exists(current)
       THEN /\ current' = preserved
            /\ preserved' = NoContainer
            /\ Continue(p, IF step[p] = "rename_back" THEN "start_current"
                                                      ELSE "abort_stop", had[p])
       ELSE Exit(p, "failed") /\ UNCHANGED <<current, preserved>>
  /\ UNCHANGED <<running, stateFile>>

StartCurrent(p) ==
  /\ step[p] = "start_current"
  /\ IF Exists(current)
       THEN running' = running \cup {current} /\ Continue(p, "clear", had[p])
       ELSE Exit(p, "failed") /\ UNCHANGED running
  /\ UNCHANGED <<current, preserved, stateFile>>

ClearState(p) ==
  /\ step[p] = "clear"
  /\ WriteState("idle", FALSE)
  /\ Exit(p, "ok")
  /\ UNCHANGED docker

-----------------------------------------------------------------------------
(* rollback and abort-protected *)

Rollback(p) ==
  /\ Free(p)
  /\ IF phase = "idle"
       THEN Exit(p, "ok") /\ UNCHANGED stateFile
       ELSE /\ WriteState("rolling_back", hadPrevious)
            /\ Continue(p, IF hadPrevious THEN "restore" ELSE "discard",
                        hadPrevious)
  /\ UNCHANGED docker

\* Without a previous runtime the candidate goes.  recover then also refuses
\* to finish when a rollback container exists after all.
Discard(p) ==
  /\ step[p] \in {"discard", "discard_checked"}
  /\ RemoveCurrent
  /\ IF step[p] = "discard_checked" /\ Exists(preserved)
       THEN Exit(p, "failed")
       ELSE Continue(p, "clear", had[p])
  /\ UNCHANGED stateFile

\* Only the service runner calls abort-protected, when it has found its candidate
\* stopped and has compared the candidate's id with the one the memory monitor
\* recorded: never for the runtime that is to be kept.
AbortCalled == Exists(current) /\ current # Accepted /\ current \notin running

AbortProtected(p) ==
  /\ Free(p)
  /\ AbortCalled
  /\ \/ phase = "idle" /\ Exit(p, "ok")
     \/ phase = "committing" /\ Exit(p, "failed")
     \/ phase \notin {"idle", "committing"} /\ Continue(p, "abort_remove", hadPrevious)
  /\ UNCHANGED <<docker, stateFile>>

AbortRemove(p) ==
  /\ step[p] = "abort_remove"
  /\ RemoveCurrent
  /\ Continue(p, IF had[p] THEN "abort_rename" ELSE "clear", had[p])
  /\ UNCHANGED stateFile

AbortStop(p) ==
  /\ step[p] = "abort_stop"
  /\ running' = running \ {current}
  /\ Continue(p, "clear", had[p])
  /\ UNCHANGED <<current, preserved, stateFile>>

-----------------------------------------------------------------------------
(* recover: one decision from the state file and the two container names.  *)

RecoverWithoutFile ==
  IF ~Exists(preserved) THEN "none"
  ELSE IF Exists(current) THEN "refuse" ELSE "rename_back"

RecoverCommitting ==
  IF hadPrevious /\ Exists(preserved) THEN "restore"
  ELSE IF ~Exists(preserved) /\ Exists(current) THEN "start_current" ELSE "refuse"

\* Mutant: a rollback that had already renamed the previous container back is
\* treated like one that lost it.
RecoverRollingBackOnce ==
  IF Exists(preserved) THEN "restore" ELSE "refuse"

RecoverRollingBack ==
  IF Exists(preserved) THEN "restore"
  ELSE IF Exists(current) THEN "start_current" ELSE "refuse"

RecoverUnfinished ==
  IF Exists(preserved) THEN "restore"
  ELSE IF Exists(current) /\ phase = "preparing" THEN "start_current" ELSE "refuse"

\* Mutant: a first start is recovered by keeping whatever it had started.
RecoverPlanKeepsCandidate ==
  IF phase = "idle" THEN RecoverWithoutFile
  ELSE IF phase = "committing" THEN RecoverCommitting
  ELSE IF phase = "rolling_back" \/ (Exists(current) /\ ~hadPrevious)
  THEN RecoverRollingBack ELSE RecoverUnfinished

RecoverPlan ==
  IF phase = "idle" THEN RecoverWithoutFile
  ELSE IF phase = "committing" THEN RecoverCommitting
  ELSE IF ~hadPrevious THEN "discard_checked"
  ELSE IF phase = "rolling_back" THEN RecoverRollingBack ELSE RecoverUnfinished

Recover(p) ==
  /\ Free(p)
  /\ \/ RecoverPlan = "none" /\ Exit(p, "ok")
     \/ RecoverPlan = "refuse" /\ Exit(p, "failed")
     \/ RecoverPlan \notin {"none", "refuse"} /\ Continue(p, RecoverPlan, hadPrevious)
  /\ UNCHANGED <<docker, stateFile>>

-----------------------------------------------------------------------------
(* What happens around the helper. *)

\* serve.sh runs the candidate under the current name, which must be free.
\* docker run creates the container even when it cannot start it.
RunContainer(c) ==
  /\ ~Exists(current)
  /\ c # preserved
  /\ current' = c
  /\ running' \in {running, running \cup {c}}
  /\ UNCHANGED preserved

Serve(p, c) ==
  /\ Free(p)
  /\ phase = "previous_preserved"
  /\ RunContainer(c)
  /\ UNCHANGED <<stateFile, helper>>

\* A container stops: it crashes, or something outside the helper stops it.
ContainerExits(c) ==
  /\ c \in running
  /\ running' = running \ {c}
  /\ UNCHANGED <<current, preserved, stateFile, helper>>

\* The invocation is killed, or a docker command of it fails under set -e.
Interrupt(p) ==
  /\ step[p] # "none"
  /\ Exit(p, "failed")
  /\ UNCHANGED <<docker, stateFile>>

\* The host goes down: every process and container stops, files and stopped
\* containers stay.  The managed containers run with --restart no.
Reboot ==
  /\ running' = {}
  /\ step' = [p \in Caller |-> "none"]
  /\ status' = [p \in Caller |-> "failed"]
  /\ UNCHANGED <<current, preserved, stateFile, had>>

Invoke(p) ==
  \/ PrepareRefused(p)
  \/ PrepareReplacement(p)
  \/ PrepareFirstStart(p)
  \/ CandidateStarted(p)
  \/ Validating(p)
  \/ Commit(p)
  \/ Rollback(p)
  \/ AbortProtected(p)
  \/ Recover(p)

Proceed(p) ==
  \/ StopCurrent(p)
  \/ SetAside(p)
  \/ MarkPreserved(p)
  \/ DropPreserved(p)
  \/ CheckPreserved(p)
  \/ RemoveCandidate(p)
  \/ RenameBack(p)
  \/ StartCurrent(p)
  \/ ClearState(p)
  \/ Discard(p)
  \/ AbortRemove(p)
  \/ AbortStop(p)

Next ==
  \/ \E p \in Caller : Invoke(p)
  \/ \E p \in Caller : Proceed(p)
  \/ \E p \in Caller : Interrupt(p)
  \/ \E p \in Caller, c \in Container : Serve(p, c)
  \/ \E c \in Container : ContainerExits(c)
  \/ Reboot

Spec == Init /\ [][Next]_vars

-----------------------------------------------------------------------------
(* Safety.                                                                 *)

\* Two model runtimes never run at once: the previous one is stopped before it
\* is set aside, and the candidate is removed before the previous one starts
\* again.  One unified memory does not hold both.
AtMostOneRunning == \A c, d \in running : c = d

\* A rollback container outlives its state file at no crash point: commit drops
\* it before it clears the file, and the ways back rename it before they do.
\* Otherwise every later prepare would refuse, and recover could not tell
\* which of two containers to keep.
NoOrphanedRollback == phase = "idle" => ~Exists(preserved)

\* An invocation that runs to its end, neither killed nor failed by docker.  Only
\* a `rollback` that comes after the rollback container is gone has nothing to do
\* but to die.
Completes(p) ==
  /\ Proceed(p)
  /\ step'[p] = "none"
  /\ ~(step[p] = "restore" /\ ~Exists(preserved))

Decided == phase \in {"committing", "rolling_back"}

\* The outcome of a decided transaction, in the step that ends it.
Outcome ==
  /\ ~Exists(preserved')
  /\ phase = "rolling_back" => current' = Accepted
  /\ phase = "committing" => Exists(current')

CarriedOn ==
  /\ RecoverPlan # "refuse"
  /\ \A p \in Caller : Completes(p) => phase' = "idle"
  /\ hadPrevious /\ ~Exists(preserved) => current' = current
  /\ phase' = "idle" => Outcome

\* A decided transaction is carried to its end.  From whatever an interruption left
\* of a commit or of a rollback, recover does not refuse, and an invocation that is
\* not interrupted again ends the transaction.  The end leaves one container: the
\* previous runtime for as long as the rollback container is there, which also takes
\* back a commit that was only recorded, as the tests of recover expect; and the
\* container that has the name once the rollback container is gone, which nothing
\* replaces from then on.
DecisionIsFinished ==
  [][Decided => CarriedOn]_vars

\* Where recover does refuse, it has nothing left to save: the runtime to fall
\* back to already has its own name again.
RefusalLosesNothing ==
  RecoverPlan = "refuse" => Exists(current) /\ current = Accepted

\* A replacement that began with a runtime never ends with none: the previous one
\* or the adopted candidate has one of the two names.  Two overlapping
\* invocations of the helper break this (RuntimeTransitionRace.cfg).
PreviousSurvives == hadPrevious => Exists(preserved) \/ Exists(current)

\* Recovery from an interrupted replacement is never refused.  This is what the
\* operations guide says of `runtime-transition.sh recover`; the code does not
\* keep it (run runtime_recover_wedge).
AlwaysRecoverable == RecoverPlan # "refuse"

-----------------------------------------------------------------------------
(* The inductive invariant behind those, for callers that take turns.      *)

\* What holds between any two steps.
Resting ==
  /\ running \subseteq {current}
  /\ Exists(current) => current # preserved
  /\ phase = "idle" => ~hadPrevious
  /\ phase = "preparing" => hadPrevious
  /\ Exists(preserved) => hadPrevious
  /\ hadPrevious => Exists(preserved) \/ Exists(current)
  /\ phase = "committing" => Exists(preserved) \/ Exists(current)

\* What the steps of an invocation already done have established for s, the
\* next one.
Reached(s) ==
  /\ phase # "idle"
  /\ s \in {"stop", "set_aside", "mark_preserved"} => phase = "preparing"
  /\ s \in {"stop", "set_aside"} => ~Exists(preserved)
  /\ s = "set_aside" => running = {}
  /\ s = "mark_preserved" => Exists(preserved)
  /\ s = "drop_preserved" =>
       phase = "committing" /\ Exists(preserved) /\ Exists(current)
  /\ s \in {"remove_candidate", "rename_back", "abort_rename"} => Exists(preserved)
  /\ s \in {"rename_back", "abort_rename"} => ~Exists(current)
  /\ s = "restore" => hadPrevious
  /\ s \in {"start_current", "abort_stop"} => Exists(current) /\ ~Exists(preserved)
  /\ s = "abort_stop" => hadPrevious
  /\ s = "start_current" /\ ~hadPrevious => phase = "committing"
  /\ s \in {"discard", "discard_checked"} => ~hadPrevious /\ phase # "committing"
  /\ s \in {"abort_remove", "abort_rename", "abort_stop"} => phase # "committing"
  /\ s = "abort_remove" /\ hadPrevious => Exists(preserved)
  /\ s = "clear" => ~Exists(preserved)
  /\ s = "clear" /\ ~hadPrevious /\ phase # "committing" => ~Exists(current)

Underway(p) == step[p] # "none"

InTurn ==
  /\ \A p, q \in Caller : Underway(p) /\ Underway(q) => p = q
  /\ \A p \in Caller : Underway(p) => had[p] = hadPrevious /\ Reached(step[p])

SafeInTurn == TypeOK /\ Resting /\ InTurn

-----------------------------------------------------------------------------
(* The replacement the steps implement.                                    *)

Candidate == IF current # Accepted THEN current ELSE NoContainer
UnderValidation ==
  Exists(Candidate) /\ phase \in {"validating", "committing"}

Replacement == INSTANCE RuntimeReplacement WITH
  accepted <- Accepted, candidate <- Candidate, validating <- UnderValidation

\* Whatever is interrupted and however often it is retried, the accepted runtime
\* changes only when a validated candidate is adopted: it is never lost, and a
\* candidate that was given up never takes its place.
ReplacesAtomically == Replacement!Spec

=============================================================================
