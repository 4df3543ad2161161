---------------------------- MODULE ReleaseUpdate ----------------------------
(***************************************************************************)
(* The store of immutable code releases and the update of the managed      *)
(* service from one to another: scripts/release-manager.sh, which keeps    *)
(* the releases and the links `current` and `previous`;                    *)
(* scripts/lifecycle/update-transition.sh, which remembers both links      *)
(* while an update is in progress; scripts/update-release.sh, which drives *)
(* an update and restarts the service; qualification; and the two places   *)
(* where the installer advances `current`.                                 *)
(*                                                                         *)
(* All of them hold the operation lock until they end, so at most one runs *)
(* at a time.  `todo` is what is left of its writes, and it may be killed  *)
(* between any two.  A command that is refused changes nothing and is not  *)
(* a step.                                                                 *)
(***************************************************************************)
EXTENDS Sequences

CONSTANTS
  Release,   \* release ids
  NoRelease  \* no such link

ASSUME NoReleaseAssumption == NoRelease \notin Release

VARIABLES
  intact,     \* release directories that verify against their manifest
  partial,    \* release directories that a discard has begun to remove
  qualified,  \* releases with a marker bound to their manifest
  current, previous,  \* the links
  update,     \* update-transition.env
  at,         \* who holds the lock, and where update-release.sh is
  todo,       \* the writes that the command in progress has left
  subject,    \* its argument
  saved,      \* the release that was current when it began
  outcome,    \* exit status of the helper that update-release.sh ran last
  gaveUp,     \* TRUE iff update-release.sh has failed without a rollback
  serving     \* the release whose runner systemd runs, or NoRelease

store == <<intact, partial, qualified>>
links == <<current, previous>>
command == <<subject, saved, outcome>>
vars == <<intact, partial, qualified, current, previous, update, at, todo,
          subject, saved, outcome, gaveUp, serving>>

Link == Release \cup {NoRelease}
Idle == [state |-> "idle", target |-> NoRelease,
         oldCurrent |-> NoRelease, oldPrevious |-> NoRelease]
Updating == update.state # "idle"

Writes == {"stage", "qualify", "previous", "current", "preparing", "staged",
           "restore_current", "restore_previous", "clear",
           "remove_some", "remove_rest", "unqualify"}

\* update-release.sh rolls back when it fails at one of these.
CutoverActive == {"restart", "waiting", "committing"}
Places == CutoverActive \cup {"free", "operator", "orphan", "preparing",
                              "undoing", "restart_old", "waiting_old"}

TypeOK ==
  /\ intact \subseteq Release /\ partial \subseteq Release \ intact
  /\ qualified \subseteq Release
  /\ {current, previous, subject, saved, serving} \subseteq Link
  /\ update \in [state : {"idle", "preparing", "staged"}, target : Link,
                 oldCurrent : Link, oldPrevious : Link]
  /\ at \in Places
  /\ todo \in Seq(Writes)
  /\ outcome \in {"ok", "failed"}
  /\ gaveUp \in BOOLEAN

\* Nothing is installed.
Init ==
  /\ intact = {} /\ partial = {} /\ qualified = {}
  /\ current = NoRelease /\ previous = NoRelease
  /\ update = Idle
  /\ at = "free" /\ todo = <<>>
  /\ subject = NoRelease /\ saved = NoRelease /\ outcome = "ok"
  /\ gaveUp = FALSE /\ serving = NoRelease

-----------------------------------------------------------------------------
(* Commands: the writes that each is going to make.                        *)

\* verify_qualified
Eligible(r) == r \in intact \cap qualified

Activation(r) ==
  IF r = current THEN <<>>
  ELSE IF current = NoRelease THEN <<"current">> ELSE <<"previous", "current">>

Preparation(r) == <<"preparing">> \o Activation(r) \o <<"staged">>

\* Mutant: whatever is current by now is committed.
CommitAnyCurrent ==
  /\ update.state = "staged"
  /\ Eligible(update.target)

CommitAllowed ==
  /\ update.state = "staged"
  /\ current = update.target
  /\ Eligible(update.target)

\* Mutant: the state file is gone before both links are back.
UndoClearsFirst == <<"restore_current", "clear", "restore_previous">>

Undo == <<"restore_current", "restore_previous", "clear">>

Run(place, program, r) ==
  /\ at' = place /\ todo' = program
  /\ subject' = r /\ saved' = current /\ outcome' = "ok"

\* An operator, or the installer, runs a command.
Command(program, r) ==
  /\ at = "free"
  /\ program # <<>>
  /\ Run("operator", program, r)
  /\ gaveUp' = FALSE
  /\ UNCHANGED <<store, links, update, serving>>

Stage(r) == r \notin intact \cup partial /\ Command(<<"stage">>, r)
Qualify(r) == r \in intact /\ Command(<<"qualify">>, r)
Activate(r) == r \in intact /\ Command(Activation(r), r)

\* Mutant: nothing but the links protects a release.
DiscardDuringUpdate(r) ==
  /\ r \notin {current, previous}
  /\ Command(IF r \in intact \cup partial
               THEN <<"remove_some", "remove_rest", "unqualify">>
               ELSE <<"unqualify">>, r)

\* Mutant: only the current release is protected.
DiscardPrevious(r) ==
  /\ ~Updating
  /\ r # current
  /\ Command(IF r \in intact \cup partial
               THEN <<"remove_some", "remove_rest", "unqualify">>
               ELSE <<"unqualify">>, r)

Discard(r) ==
  /\ ~Updating
  /\ r \notin {current, previous}
  /\ Command(IF r \in intact \cup partial
               THEN <<"remove_some", "remove_rest", "unqualify">>
               ELSE <<"unqualify">>, r)

RollBackLinks ==
  /\ {current, previous} \subseteq intact
  /\ Command(<<"current", "previous">>, previous)

\* bootstrap-release.sh, and a fresh install over a release that was retained.
Advance(r) ==
  /\ r # current /\ current \in intact \cup {NoRelease}
  /\ Command(<<"stage", "qualify">> \o Activation(r), r)

Prepare(r) == ~Updating /\ Eligible(r) /\ Command(Preparation(r), r)
Commit == CommitAllowed /\ Command(<<"clear">>, update.target)

\* rollback and recover
UndoUpdate == Updating /\ Command(Undo, update.target)

-----------------------------------------------------------------------------
(* The writes.                                                             *)

Write(w) ==
  /\ todo # <<>> /\ Head(todo) = w
  /\ UNCHANGED <<at, subject, saved, gaveUp, serving>>

Done == todo' = Tail(todo) /\ UNCHANGED outcome
Die == todo' = <<>> /\ outcome' = "failed"

\* A directory that is there must verify; the new one appears in one rename.
StageRelease ==
  /\ Write("stage")
  /\ IF subject \in partial THEN Die /\ UNCHANGED intact
     ELSE intact' = intact \cup {subject} /\ Done
  /\ UNCHANGED <<partial, qualified, links, update>>

QualifyRelease ==
  /\ Write("qualify")
  /\ qualified' = qualified \cup {subject}
  /\ Done
  /\ UNCHANGED <<intact, partial, links, update>>

LinkPrevious ==
  /\ Write("previous")
  /\ previous' = saved
  /\ Done
  /\ UNCHANGED <<store, current, update>>

LinkCurrent ==
  /\ Write("current")
  /\ current' = subject
  /\ Done
  /\ UNCHANGED <<store, previous, update>>

RecordPreparing ==
  /\ Write("preparing")
  /\ update' = [state |-> "preparing", target |-> subject,
                oldCurrent |-> current, oldPrevious |-> previous]
  /\ Done
  /\ UNCHANGED <<store, links>>

RecordStaged ==
  /\ Write("staged")
  /\ update' = [update EXCEPT !.state = "staged"]
  /\ Done
  /\ UNCHANGED <<store, links>>

\* restore_pointer verifies the release that it puts back.
Restorable(r) == r \in intact \cup {NoRelease}

RestoreCurrent ==
  /\ Write("restore_current")
  /\ IF Restorable(update.oldCurrent)
       THEN current' = update.oldCurrent /\ Done
       ELSE UNCHANGED current /\ Die
  /\ UNCHANGED <<store, previous, update>>

RestorePrevious ==
  /\ Write("restore_previous")
  /\ IF Restorable(update.oldPrevious)
       THEN previous' = update.oldPrevious /\ Done
       ELSE UNCHANGED previous /\ Die
  /\ UNCHANGED <<store, current, update>>

ClearUpdate ==
  /\ Write("clear")
  /\ update' = Idle
  /\ Done
  /\ UNCHANGED <<store, links>>

RemoveSome ==
  /\ Write("remove_some")
  /\ intact' = intact \ {subject}
  /\ partial' = partial \cup {subject}
  /\ Done
  /\ UNCHANGED <<qualified, links, update>>

RemoveRest ==
  /\ Write("remove_rest")
  /\ partial' = partial \ {subject}
  /\ Done
  /\ UNCHANGED <<intact, qualified, links, update>>

Unqualify ==
  /\ Write("unqualify")
  /\ qualified' = qualified \ {subject}
  /\ Done
  /\ UNCHANGED <<intact, partial, links, update>>

WriteStep ==
  \/ StageRelease \/ QualifyRelease
  \/ LinkPrevious \/ LinkCurrent
  \/ RecordPreparing \/ RecordStaged
  \/ RestoreCurrent \/ RestorePrevious \/ ClearUpdate
  \/ RemoveSome \/ RemoveRest \/ Unqualify

-----------------------------------------------------------------------------
(* update-release.sh                                                       *)

\* The script gets on when the helper it called has returned.
Returned(place) == at = place /\ todo = <<>>

Goto(place) == at' = place /\ UNCHANGED <<todo, subject, saved, outcome>>

Exits ==
  /\ at' = "free" /\ todo' = <<>>
  /\ subject' = NoRelease /\ saved' = NoRelease /\ outcome' = "ok"

UpdateBegins(r) ==
  /\ at = "free"
  /\ current # NoRelease /\ ~Updating /\ Eligible(r)
  /\ Run("preparing", Preparation(r), r)
  /\ gaveUp' = FALSE
  /\ UNCHANGED <<store, links, update, serving>>

\* The trap is set, but does not roll back before cutover_active is.
Prepared ==
  /\ Returned("preparing")
  /\ IF outcome = "ok" THEN Goto("restart") /\ UNCHANGED gaveUp
                       ELSE Exits /\ gaveUp' = TRUE
  /\ UNCHANGED <<store, links, update, serving>>

\* Mutant: the unit is installed, and not restarted.
RestartLeftOut ==
  /\ at \in {"restart", "restart_old"}
  /\ Goto(IF at = "restart" THEN "waiting" ELSE "waiting_old")
  /\ UNCHANGED <<store, links, update, gaveUp, serving>>

\* manage-service.sh create --start: the unit is stopped, started, and waited for.
RestartService ==
  /\ at \in {"restart", "restart_old"}
  /\ serving' = NoRelease
  /\ Goto(IF at = "restart" THEN "waiting" ELSE "waiting_old")
  /\ UNCHANGED <<store, links, update, gaveUp>>

\* A runner of the release that `current` names has attested its container.
ServiceReady ==
  /\ at \in {"waiting", "waiting_old"}
  /\ serving = current
  /\ IF at = "waiting_old" THEN Exits
     ELSE IF CommitAllowed
     THEN at' = "committing" /\ todo' = <<"clear">> /\ UNCHANGED command
     ELSE Run("undoing", Undo, subject)
  /\ UNCHANGED <<store, links, update, gaveUp, serving>>

Committed ==
  /\ Returned("committing") /\ outcome = "ok"
  /\ Exits
  /\ UNCHANGED <<store, links, update, gaveUp, serving>>

\* A command fails, the service is not ready in time, or a signal arrives.
UpdateFails ==
  /\ at \in CutoverActive
  /\ at = "committing" => todo = <<>> /\ outcome = "failed"
  /\ Run("undoing", Undo, subject)
  /\ UNCHANGED <<store, links, update, gaveUp, serving>>

\* Exit 70 when the rollback has failed.
Undone ==
  /\ Returned("undoing")
  /\ IF outcome = "ok" THEN Goto("restart_old") ELSE Exits
  /\ UNCHANGED <<store, links, update, gaveUp, serving>>

\* Exit 71.
RestartFails ==
  /\ at \in {"restart_old", "waiting_old"}
  /\ Exits
  /\ UNCHANGED <<store, links, update, gaveUp, serving>>

\* Any other command ends with its last write.
CommandEnds ==
  /\ Returned("operator") \/ Returned("orphan")
  /\ Exits
  /\ UNCHANGED <<store, links, update, gaveUp, serving>>

ScriptStep ==
  \/ Prepared \/ RestartService \/ ServiceReady \/ Committed
  \/ UpdateFails \/ Undone \/ RestartFails \/ CommandEnds

-----------------------------------------------------------------------------
(* What happens around the scripts.                                        *)

\* A helper fails, or is interrupted or killed.
HelperFails ==
  /\ todo # <<>>
  /\ Die
  /\ UNCHANGED <<store, links, update, at, subject, saved, gaveUp, serving>>

\* The writes of the process that is under way: what it would call next checks
\* that the owner of the lock is an ancestor.
Own == IF Head(todo) \in {"stage", "qualify", "preparing"} THEN <<Head(todo)>> ELSE todo

\* The script is killed; a helper dies with it, or goes on with the lock that it
\* inherited.
ScriptKilled ==
  /\ at # "free"
  /\ \/ Exits
     \/ todo # <<>> /\ at' = "orphan" /\ todo' = Own /\ UNCHANGED command
  /\ UNCHANGED <<store, links, update, gaveUp, serving>>

\* systemd runs the runner of the release that the link names then.
ServiceStarts ==
  /\ serving = NoRelease /\ current # NoRelease
  /\ serving' = current
  /\ UNCHANGED <<store, links, update, at, todo, command, gaveUp>>

\* It ends, or the host goes down and takes it along.
ServiceStops ==
  /\ serving # NoRelease
  /\ serving' = NoRelease
  /\ UNCHANGED <<store, links, update, at, todo, command, gaveUp>>

Next ==
  \/ \E r \in Release :
       Stage(r) \/ Qualify(r) \/ Activate(r) \/ Discard(r) \/ Advance(r)
         \/ Prepare(r) \/ UpdateBegins(r)
  \/ RollBackLinks
  \/ Commit
  \/ UndoUpdate
  \/ WriteStep
  \/ ScriptStep
  \/ HelperFails
  \/ ScriptKilled
  \/ ServiceStarts
  \/ ServiceStops

Spec == Init /\ [][Next]_vars

-----------------------------------------------------------------------------
(* Properties.                                                             *)

\* The links never dangle, nor name a release that a discard has damaged.
LinksResolve == {current, previous} \subseteq intact \cup {NoRelease}

\* Whatever an operator does while an update is in progress or was interrupted,
\* the releases to go back to, and the one to go on to, stay usable: afterwards
\* neither is named by a link any more, or not yet.
UpdateReleasesKept ==
  Updating =>
    /\ {update.oldCurrent, update.oldPrevious} \subseteq intact \cup {NoRelease}
    /\ Eligible(update.target)

\* An update ends with its target, or with both links exactly as they were, even
\* if its rollback was interrupted or the links were moved by hand meanwhile.
EndsEitherWay ==
  [][Updating /\ update' = Idle =>
       \/ links = <<update.oldCurrent, update.oldPrevious>>
       \/ update.state = "staged" /\ current = update.target]_vars

\* Once update-release.sh has restarted the service, and until it ends, the
\* service runs no code but that of the link, the target's when it commits.
ServiceFollowsLink ==
  /\ at \in {"waiting", "committing", "waiting_old"} => serving \in {current, NoRelease}
  /\ at = "committing" => current = subject

\* The update implements the choice of a release.
Choice == INSTANCE ReleaseChoice WITH
  inForce <- IF Updating THEN update.oldCurrent ELSE current,
  wanted <- update.target

UpdatesAtomically == Choice!Spec

-----------------------------------------------------------------------------
(* The inductive invariants: ReleasesSafe, behind LinksResolve and         *)
(* UpdateReleasesKept; EndingSafe, behind EndsEitherWay; and RecordSafe,   *)
(* behind UpdatesAtomically and ServiceFollowsLink.                        *)

Linking == {"stage", "qualify", "previous", "current", "preparing", "staged"}
Undoing == {"restore_current", "restore_previous", "clear"}
Removing == {"remove_some", "remove_rest", "unqualify"}

\* A command that makes one of the other writes begins with it.
Later == Writes \ {"stage", "preparing", "remove_some"}

Pending(writes) == todo # <<>> /\ todo \in Seq(writes)
Upcoming(w) == todo # <<>> /\ Head(todo) = w

\* What a command has established for the writes that it has left.
Established ==
  /\ todo = <<>> \/ Pending(Linking) \/ Pending(Undoing) \/ Pending(Removing)
  /\ todo # <<>> => Tail(todo) \in Seq(Later)
  /\ Pending(Linking) =>
       /\ saved \in intact \cup {NoRelease}
       /\ subject \in intact \/ Upcoming("stage")
       /\ Updating \/ Upcoming("preparing") \/ todo \in Seq(Linking \ {"staged"})
  /\ Upcoming("preparing") => ~Updating /\ Eligible(subject)
  /\ Pending(Removing) => ~Updating
  /\ Upcoming("stage") => subject \in Release
  /\ Upcoming("remove_some") => subject \in Release \ {current, previous}

\* No write that is still to come, an orphan's included, harms a release in use.
ReleasesSafe == TypeOK /\ LinksResolve /\ UpdateReleasesKept /\ Established

\* What holds before each write that takes an update back or ends it.
InOrder ==
  Pending(Undoing) =>
    \/ todo = Undo
    \/ todo = Tail(Undo) /\ current = update.oldCurrent
    \/ /\ todo = <<"clear">>
       /\ \/ links = <<update.oldCurrent, update.oldPrevious>>
          \/ update.state = "staged" /\ current = update.target

\* Nor does it end an update half way.
EndingSafe == ReleasesSafe /\ InOrder

\* Wherever an update is about to be taken back or committed its state file is
\* there, and without the file nothing is remembered.
Recorded ==
  /\ Updating \/ update = Idle
  /\ Pending(Undoing) => Updating
  /\ at = "preparing" =>
       /\ todo = <<>> \/ Pending(Linking)
       /\ outcome = "ok" => Updating \/ Upcoming("preparing")
       /\ Updating => update.target = subject
  /\ at \in {"restart", "waiting"} =>
       Updating /\ update.target = subject /\ todo = <<>> /\ outcome = "ok"
  /\ at \in {"restart_old", "waiting_old"} => todo = <<>>
  /\ at = "committing" =>
       \/ todo = <<"clear">> /\ outcome = "ok"
       \/ todo = <<>> /\ (outcome = "ok" \/ Updating)

\* Nor does a script take back, or commit, what was never recorded.
RecordSafe == EndingSafe /\ Recorded

-----------------------------------------------------------------------------
(* Statements of the scripts that the code does not keep.                  *)

\* update-release.sh: "roll back code/service on failure".
FailedUpdateIsRolledBack == gaveUp => ~Updating

\* release-manager.sh: "Atomically swap current and previous".
BothReleasesLinked == at = "free" => current # previous

=============================================================================
