--------------------------- MODULE ProfileSwitch ---------------------------
(***************************************************************************)
(* Switching the model profile of the managed service:                     *)
(* scripts/lifecycle/profile-switch-transition.sh, which keeps the         *)
(* installation manifest of the old profile until the new runtime has      *)
(* committed; install.sh, which drives it and restarts the service; the    *)
(* service runner, which recovers an interrupted switch before it reads    *)
(* the manifest; and the operation lock that serialises the helper.        *)
(*                                                                         *)
(* Whoever holds the lock runs at most one invocation of the helper, whose *)
(* next write is `step`.  The runtime replacement inside the switch is     *)
(* taken as the atomic one that RuntimeTransition implements, and          *)
(* containers are told apart by the profile they serve.                    *)
(***************************************************************************)
CONSTANTS
  Profile,    \* model profiles
  NoProfile,  \* no profile, and no container
  NoFile      \* no such manifest

ASSUME NoProfileAssumption == NoProfile \notin Profile

VARIABLES
  install,    \* install.env
  backup,     \* install.env.profile-switch-backup
  candidate,  \* install.env.profile-switch-candidate
  switch,     \* profile-switch-transition.env
  lock,       \* who holds operation.lock: nobody ("free"), "cli" or "service"
  step,       \* the next write of the helper run by the holder, or "none"
  outcome,    \* exit status of the helper invocation that ended last
  cli,        \* where install.sh or an operator's command is
  current,    \* profile of the container with the current name
  kept,       \* profile of the preserved container
  replacing,  \* TRUE iff runtime-transition.env exists
  attested,   \* TRUE iff runtime-commit.env names the current container
  runner,     \* where the service runner is
  read        \* MODEL_PROFILE of the manifest the runner has read

files == <<install, backup, candidate, switch>>
locking == <<lock, step, outcome>>
containers == <<current, kept, replacing, attested>>
service == <<runner, read>>
vars == <<install, backup, candidate, switch, lock, step, outcome, cli,
          current, kept, replacing, attested, runner, read>>

Phases == {"release_ready", "service_ready", "complete"}
Manifest == [profile : Profile, phase : Phases]
ASSUME NoFileAssumption == NoFile \notin Manifest

\* The manifest digests of the state file are represented by the manifests.
States == {"idle", "preparing", "activated", "runtime_committed", "committing"}
Idle == [state |-> "idle", from |-> NoProfile, to |-> NoProfile,
         backupSha |-> NoFile, targetSha |-> NoFile]

Decided == switch.state \in {"runtime_committed", "committing"}

HelperSteps == {"none", "back_up", "adopt", "activated", "record", "record_and_finish",
                "prove", "complete", "decide", "undo_runtime", "prove_previous",
                "restore", "drop_candidate", "drop_backup", "clear"}
\* Up to "recorded" the EXIT trap of install.sh rolls back; from then on it recovers.
RollsBack == {"staging", "activating", "activation", "stopping", "restarting",
              "waiting", "ready", "recording"}
RollsOn == {"recorded", "completed", "committing"}
CliPoints == {"off", "recovering", "ending"} \cup RollsBack \cup RollsOn
\* Where the runner's traps roll its replacement back.
Trapped == {"serve", "validate", "commit", "attest"}
RunnerPoints == Trapped \cup {"off", "start", "acquire", "recovering", "orphan", "read",
                              "begin", "recover", "prepare", "follow"}

TypeOK ==
  /\ install \in Manifest
  /\ {backup, candidate} \subseteq Manifest \cup {NoFile}
  /\ switch \in [state : States, from : Profile \cup {NoProfile},
                 to : Profile \cup {NoProfile},
                 backupSha : Manifest \cup {NoFile}, targetSha : Manifest \cup {NoFile}]
  /\ lock \in {"free", "cli", "service"}
  /\ step \in HelperSteps
  /\ outcome \in {"ok", "failed"}
  /\ cli \in CliPoints
  /\ {current, kept, read} \subseteq Profile \cup {NoProfile}
  /\ replacing \in BOOLEAN /\ attested \in BOOLEAN
  /\ runner \in RunnerPoints

\* A finished installation, with its service stopped or not yet started.
Init ==
  /\ \E p \in Profile :
       /\ install = [profile |-> p, phase |-> "complete"]
       /\ current = p
  /\ backup = NoFile /\ candidate = NoFile
  /\ switch = Idle
  /\ lock = "free" /\ step = "none" /\ outcome = "ok"
  /\ cli = "off"
  /\ kept = NoProfile /\ replacing = FALSE /\ attested = FALSE
  /\ runner = "off" /\ read = NoProfile

-----------------------------------------------------------------------------
(* The bookkeeping of a helper invocation. *)

Then(next) == step' = next /\ UNCHANGED outcome
End == step' = "none" /\ outcome' = "ok"
Die == step' = "none" /\ outcome' = "failed"

\* write_state
WriteState(state) == switch' = [switch EXCEPT !.state = state]

\* The runtime helper's recover: the preserved container, if there was a current
\* one, is put back in the place of the candidate.
PutBack == current' = kept /\ kept' = NoProfile /\ replacing' = FALSE

\* target_runtime_committed: the live manifest is the target's, and the attestation
\* is for the container that serves it.
TargetCommitted ==
  /\ install.profile = switch.to
  /\ \/ /\ candidate # NoFile
        /\ candidate.profile = install.profile
        /\ switch.targetSha \in {NoFile, candidate}
     \/ candidate = NoFile /\ switch.state = "committing"
  /\ current = install.profile
  /\ attested

-----------------------------------------------------------------------------
(* Invocations of the helper: their checks, up to their first write.  The  *)
(* caller holds the lock, and no other invocation is under way.            *)

\* rollback_to_previous
RollBackToPrevious == Then(IF replacing THEN "undo_runtime" ELSE "prove_previous")

\* Mutant: a crash between the copy of the candidate and the state file is forgotten.
RecoverPreparingUnrestored ==
  \/ switch.state = "idle" /\ Die
  \/ switch.state = "preparing" /\ Then("drop_candidate")
  \/ /\ switch.state = "activated"
     /\ IF TargetCommitted THEN Then("record_and_finish") ELSE RollBackToPrevious
  \/ Decided /\ Then("prove")

\* recover_transition
RecoverTransition ==
  \/ /\ switch.state = "idle"                 \* load_state
     /\ Die
  \/ /\ switch.state = "preparing"
     /\ IF backup # NoFile THEN Then("restore")
        ELSE IF install.profile = switch.from THEN Then("drop_candidate") ELSE Die
  \/ /\ switch.state = "activated"
     /\ IF TargetCommitted THEN Then("record_and_finish") ELSE RollBackToPrevious
  \/ /\ Decided
     /\ Then("prove")

\* recover
Recover ==
  IF switch.state # "idle" THEN RecoverTransition
  ELSE IF backup = NoFile /\ candidate = NoFile THEN End ELSE Die

\* rollback
Rollback ==
  \/ switch.state = "idle" /\ End
  \/ /\ switch.state = "preparing"
     /\ Then(IF backup # NoFile THEN "restore" ELSE "drop_candidate")
  \/ switch.state = "activated" /\ RollBackToPrevious
  \/ Decided /\ Die

\* prepare FROM_PROFILE TO_PROFILE; install.sh takes FROM_PROFILE from the manifest.
Prepare(to) ==
  IF switch.state = "idle" /\ backup = NoFile /\ candidate = NoFile
     /\ install.phase = "complete" /\ to # install.profile
  THEN /\ switch' = [Idle EXCEPT !.state = "preparing",
                                 !.from = install.profile, !.to = to]
       /\ End
  ELSE Die /\ UNCHANGED switch

\* Mutant: the live manifest is overwritten without a backup.
ActivateWithoutBackup ==
  IF /\ switch.state = "preparing"
     /\ candidate = [profile |-> switch.to, phase |-> "service_ready"]
     /\ install = [profile |-> switch.from, phase |-> "complete"]
  THEN Then("adopt") ELSE Die

Activate ==
  IF /\ switch.state = "preparing"
     /\ candidate = [profile |-> switch.to, phase |-> "service_ready"]
     /\ install = [profile |-> switch.from, phase |-> "complete"]
  THEN Then("back_up") ELSE Die

RuntimeCommitted ==
  IF switch.state = "activated" /\ TargetCommitted THEN Then("record") ELSE Die

Commit == IF Decided THEN Then("prove") ELSE Die

-----------------------------------------------------------------------------
(* The helper's writes.                                                    *)

At(s) == step = s /\ UNCHANGED <<lock, cli, service>>

BackUp ==
  /\ At("back_up")
  /\ backup' = install
  /\ Then("adopt")
  /\ UNCHANGED <<install, candidate, switch, containers>>

AdoptCandidate ==
  /\ At("adopt")
  /\ install' = candidate
  /\ Then("activated")
  /\ UNCHANGED <<backup, candidate, switch, containers>>

RecordActivated ==
  /\ At("activated")
  /\ switch' = [switch EXCEPT !.state = "activated",
                              !.backupSha = backup, !.targetSha = candidate]
  /\ End
  /\ UNCHANGED <<install, backup, candidate, containers>>

RecordCommitted ==
  /\ \/ At("record") /\ End
     \/ At("record_and_finish") /\ Then("prove")
  /\ WriteState("runtime_committed")
  /\ UNCHANGED <<install, backup, candidate, containers>>

\* finish_target_commit proves the target anew before it writes anything.
ProveTarget ==
  /\ At("prove")
  /\ IF TargetCommitted THEN Then("complete") ELSE Die
  /\ UNCHANGED <<files, containers>>

SetComplete ==
  /\ At("complete")
  /\ install' = [install EXCEPT !.phase = "complete"]
  /\ Then("decide")
  /\ UNCHANGED <<backup, candidate, switch, containers>>

Decide ==
  /\ At("decide")
  /\ WriteState("committing")
  /\ Then("drop_candidate")
  /\ UNCHANGED <<install, backup, candidate, containers>>

UndoRuntime ==
  /\ At("undo_runtime")
  /\ IF replacing THEN PutBack ELSE UNCHANGED <<current, kept, replacing>>
  /\ Then("prove_previous")
  /\ UNCHANGED <<attested, files>>

ProvePrevious ==
  /\ At("prove_previous")
  /\ IF backup # NoFile
       THEN IF current = backup.profile THEN Then("restore") ELSE Die
       ELSE IF install.profile = switch.from THEN Then("drop_candidate") ELSE Die
  /\ UNCHANGED <<files, containers>>

\* restore_backup_manifest
RestoreBackup ==
  /\ At("restore")
  /\ IF backup.profile = switch.from /\ switch.backupSha \in {NoFile, backup}
       THEN install' = backup /\ Then("drop_candidate")
       ELSE UNCHANGED install /\ Die
  /\ UNCHANGED <<backup, candidate, switch, containers>>

\* Mutant: only the candidate is removed.
DropCandidateOnly ==
  /\ At("drop_candidate")
  /\ candidate' = NoFile
  /\ Then("clear")
  /\ UNCHANGED <<install, backup, switch, containers>>

DropCandidate ==
  /\ At("drop_candidate")
  /\ candidate' = NoFile
  /\ Then("drop_backup")
  /\ UNCHANGED <<install, backup, switch, containers>>

DropBackup ==
  /\ At("drop_backup")
  /\ backup' = NoFile
  /\ Then("clear")
  /\ UNCHANGED <<install, candidate, switch, containers>>

Clear ==
  /\ At("clear")
  /\ switch' = Idle
  /\ End
  /\ UNCHANGED <<install, backup, candidate, containers>>

\* A command of the helper fails, or the helper alone is killed.
HelperFails ==
  /\ step # "none" /\ UNCHANGED <<lock, cli, service>>
  /\ Die
  /\ UNCHANGED <<files, containers>>

HelperStep ==
  \/ BackUp \/ AdoptCandidate \/ RecordActivated
  \/ RecordCommitted
  \/ ProveTarget \/ SetComplete \/ Decide
  \/ UndoRuntime \/ ProvePrevious \/ RestoreBackup
  \/ DropCandidate \/ DropBackup \/ Clear

-----------------------------------------------------------------------------
(* install.sh and the commands an operator runs.  Each begins by taking    *)
(* the lock, without waiting for it, and has it until it ends.             *)

\* The command gets on when the helper it called has returned.
Returned(point) == cli = point /\ step = "none"

CliExits == cli' = "off" /\ lock' = "free"

\* install.sh recovers whatever switch it finds; `recover` does nothing else.
CliRecovers ==
  /\ cli = "off" /\ lock = "free"
  /\ lock' = "cli"
  /\ cli' \in {"recovering", "ending"}
  /\ Recover
  /\ UNCHANGED <<files, containers, service>>

OperatorRollsBack ==
  /\ cli = "off" /\ lock = "free"
  /\ lock' = "cli"
  /\ cli' = "ending"
  /\ Rollback
  /\ UNCHANGED <<files, containers, service>>

\* A switch is not begun while a runtime replacement is under way.
InstallPrepares ==
  /\ Returned("recovering") /\ outcome = "ok"
  /\ ~replacing
  /\ \E to \in Profile : Prepare(to)
  /\ IF outcome' = "ok" THEN cli' = "staging" /\ UNCHANGED lock ELSE CliExits
  /\ UNCHANGED <<install, backup, candidate, containers, service>>

\* write_state with STATE_WRITE_FILE set to the candidate.
InstallStages ==
  /\ Returned("staging")
  /\ IF candidate = NoFile
       THEN /\ candidate' = [profile |-> switch.to, phase |-> "release_ready"]
            /\ UNCHANGED cli
       ELSE /\ candidate' = [candidate EXCEPT !.phase = "service_ready"]
            /\ cli' = "activating"
  /\ UNCHANGED <<install, backup, switch, locking, containers, service>>

InstallActivates ==
  /\ Returned("activating")
  /\ Activate
  /\ cli' = "activation"
  /\ UNCHANGED <<files, lock, containers, service>>

CallReturns(point, next) ==
  /\ Returned(point) /\ outcome = "ok"
  /\ cli' = next
  /\ UNCHANGED <<files, locking, containers, service>>

\* manage-service.sh create --start.
ForgetAttestation ==
  /\ cli = "stopping"
  /\ attested' = FALSE
  /\ cli' = "restarting"
  /\ UNCHANGED <<files, locking, current, kept, replacing, service>>

\* The runner ends, and may have time for its rollback.
RunnerStops ==
  \/ UNCHANGED containers
  \/ /\ runner \in Trapped
     /\ attested' = FALSE
     /\ IF replacing THEN PutBack ELSE UNCHANGED <<current, kept, replacing>>

RestartUnit ==
  /\ cli = "restarting"
  /\ RunnerStops
  /\ runner' = "start" /\ UNCHANGED read
  /\ cli' = "waiting"
  /\ UNCHANGED <<files, locking>>

\* The new container is healthy, serves the model of the manifest, and is attested.
ServiceReady ==
  /\ cli = "waiting"
  /\ attested /\ current = install.profile
  /\ cli' = "ready"
  /\ UNCHANGED <<files, locking, containers, service>>

InstallRecords ==
  /\ Returned("ready")
  /\ RuntimeCommitted
  /\ cli' = "recording"
  /\ UNCHANGED <<files, lock, containers, service>>

\* write_state complete
InstallCompletes ==
  /\ cli = "recorded"
  /\ install' = [profile |-> switch.to, phase |-> "complete"]
  /\ cli' = "completed"
  /\ UNCHANGED <<backup, candidate, switch, locking, containers, service>>

InstallCommits ==
  /\ cli = "completed"
  /\ Commit
  /\ cli' = "committing"
  /\ UNCHANGED <<files, lock, containers, service>>

\* A command of the script fails, or the script gives up waiting: the EXIT trap.
InstallFails ==
  /\ cli \in RollsBack \cup RollsOn /\ step = "none"
  /\ IF switch.state = "idle" THEN CliExits /\ UNCHANGED <<step, outcome>>
     ELSE /\ IF cli \in RollsBack THEN Rollback ELSE Recover
          /\ cli' = "ending" /\ UNCHANGED lock
  /\ UNCHANGED <<files, containers, service>>

\* Mutant: a child that outlives the script keeps the lock.
CliEndsLocked ==
  /\ \/ Returned("ending")
     \/ Returned("recovering")
     \/ Returned("committing") /\ outcome = "ok"
  /\ cli' = "off"
  /\ UNCHANGED <<files, locking, containers, service>>

CliEnds ==
  /\ \/ Returned("ending")
     \/ Returned("recovering")
     \/ Returned("committing") /\ outcome = "ok"
  /\ CliExits
  /\ UNCHANGED <<files, step, outcome, containers, service>>

\* The helper dies with the script, or lives on and keeps the lock that it inherited.
CliKilled ==
  /\ cli # "off"
  /\ \/ CliExits /\ step' = "none"
     \/ step # "none" /\ cli' = "ending" /\ UNCHANGED <<lock, step>>
  /\ UNCHANGED <<files, outcome, containers, service>>

CliStep ==
  \/ InstallPrepares \/ InstallStages
  \/ InstallActivates \/ CallReturns("activation", "stopping")
  \/ ForgetAttestation \/ RestartUnit \/ ServiceReady
  \/ InstallRecords \/ CallReturns("recording", "recorded")
  \/ InstallCompletes \/ InstallCommits
  \/ InstallFails \/ CliEnds

-----------------------------------------------------------------------------
(* The service runner.                                                     *)

RunnerGoes(point) == runner' = point /\ UNCHANGED read

StartRunner ==
  /\ runner = "off"
  /\ RunnerGoes("start")
  /\ UNCHANGED <<files, locking, cli, containers>>

\* Mutant: an active lock does not defer the recovery.
RunnerLooksUndeferred ==
  /\ runner = "start"
  /\ IF switch.state = "idle" THEN RunnerGoes("read") /\ UNCHANGED <<lock, step, outcome>>
     ELSE RecoverTransition /\ RunnerGoes("recovering") /\ lock' = "service"
  /\ UNCHANGED <<files, cli, containers>>

\* service-recover: nothing to do, or deferred to whoever holds the lock, or on
\* to take the lock, which operation_lock_busy has just found free.
RunnerLooks ==
  /\ runner = "start"
  /\ RunnerGoes(IF switch.state = "idle" \/ lock # "free" THEN "read" ELSE "acquire")
  /\ UNCHANGED <<files, locking, cli, containers>>

RunnerAcquires ==
  /\ runner = "acquire"
  /\ IF lock = "free"
       THEN lock' = "service" /\ RecoverTransition /\ RunnerGoes("recovering")
       ELSE RunnerGoes("off") /\ UNCHANGED locking
  /\ UNCHANGED <<files, cli, containers>>

RunnerRecovered ==
  /\ runner \in {"recovering", "orphan"} /\ step = "none"
  /\ lock' = "free"
  /\ RunnerGoes(IF runner = "recovering" /\ outcome = "ok" THEN "read" ELSE "off")
  /\ UNCHANGED <<files, step, outcome, cli, containers>>

ReadManifest ==
  /\ runner = "read"
  /\ read' = install.profile
  /\ runner' = "begin"
  /\ UNCHANGED <<files, locking, cli, containers>>

Begin ==
  /\ runner = "begin"
  /\ attested' = FALSE
  /\ RunnerGoes("recover")
  /\ UNCHANGED <<files, locking, cli, current, kept, replacing>>

RecoverRuntime ==
  /\ runner = "recover"
  /\ IF replacing THEN PutBack ELSE UNCHANGED <<current, kept, replacing>>
  /\ RunnerGoes("prepare")
  /\ UNCHANGED <<files, locking, cli, attested>>

PrepareRuntime ==
  /\ runner = "prepare"
  /\ IF replacing
       THEN RunnerGoes("off") /\ UNCHANGED <<current, kept, replacing>>
       ELSE /\ kept' = current /\ current' = NoProfile /\ replacing' = TRUE
            /\ RunnerGoes("serve")
  /\ UNCHANGED <<files, locking, cli, attested>>

\* docker run needs the name to be free.
Serve ==
  /\ runner = "serve"
  /\ current = NoProfile
  /\ current' = read
  /\ RunnerGoes("validate")
  /\ UNCHANGED <<files, locking, cli, kept, replacing, attested>>

\* Healthy, and /v1/models names the model of the manifest that was read.
ValidateRuntime ==
  /\ runner = "validate"
  /\ current = read
  /\ RunnerGoes("commit")
  /\ UNCHANGED <<files, locking, cli, containers>>

CommitRuntime ==
  /\ runner = "commit"
  /\ replacing
  /\ kept' = NoProfile /\ replacing' = FALSE
  /\ RunnerGoes("attest")
  /\ UNCHANGED <<files, locking, cli, current, attested>>

Attest ==
  /\ runner = "attest"
  /\ current # NoProfile
  /\ attested' = TRUE
  /\ RunnerGoes("follow")
  /\ UNCHANGED <<files, locking, cli, current, kept, replacing>>

ContainerStops ==
  /\ runner = "follow"
  /\ attested' = FALSE
  /\ RunnerGoes("off")
  /\ UNCHANGED <<files, locking, cli, current, kept, replacing>>

\* A step of the runner fails, or it is killed, with the helper it runs or without it.
RunnerFails ==
  /\ runner \notin {"off", "orphan", "recovering"}
  /\ RunnerStops
  /\ RunnerGoes("off")
  /\ UNCHANGED <<files, locking, cli>>

RecoveryKilled ==
  /\ runner = "recovering"
  /\ \/ RunnerGoes("off") /\ lock' = "free" /\ step' = "none"
     \/ step # "none" /\ RunnerGoes("orphan") /\ UNCHANGED <<lock, step>>
  /\ UNCHANGED <<files, outcome, cli, containers>>

RunnerStep ==
  \/ RunnerLooks \/ RunnerAcquires \/ RunnerRecovered
  \/ ReadManifest \/ Begin
  \/ RecoverRuntime \/ PrepareRuntime \/ Serve
  \/ ValidateRuntime \/ CommitRuntime \/ Attest

HostReboots ==
  /\ cli' = "off" /\ runner' = "off"
  /\ lock' = "free" /\ step' = "none"
  /\ UNCHANGED <<files, outcome, containers, read>>

Next ==
  \/ CliRecovers \/ OperatorRollsBack
  \/ CliStep
  \/ HelperStep \/ HelperFails
  \/ StartRunner
  \/ RunnerStep
  \/ ContainerStops
  \/ RunnerFails \/ RecoveryKilled
  \/ CliKilled
  \/ HostReboots

\* A script that has the lock goes on or fails, since every wait of its is bounded;
\* so does the helper, and so does the runner's recovery.
Fairness ==
  /\ WF_vars(CliStep)
  /\ WF_vars(HelperStep)
  /\ WF_vars(RunnerRecovered)

Spec == Init /\ [][Next]_vars /\ Fairness

-----------------------------------------------------------------------------
(* Properties.                                                             *)

\* There is never a backup or a candidate manifest without a transaction, which
\* `recover` and `prepare` would refuse to touch ever after.
NoOrphanArtifacts ==
  switch.state = "idle" => backup = NoFile /\ candidate = NoFile

\* Until the target is decided for, one of the two manifest files is the complete
\* manifest of the profile to go back to.
PreviousManifestKept ==
  switch.state \in {"preparing", "activated"} =>
    [profile |-> switch.from, phase |-> "complete"] \in {install, backup}

\* An installer's cut-over is not taken for a crash by the service that it restarts:
\* from activation until it records the commit, the target's manifest stays.
CutoverUndisturbed ==
  cli \in {"stopping", "restarting", "waiting", "ready"} =>
    switch.state = "activated" /\ install = candidate /\ backup # NoFile

\* Whoever takes the operation lock gives it back.
LockIsReleased == lock # "free" ~> lock = "free"

\* The switch implements the choice of a profile: it is decided for in one step or
\* given up, however often it is interrupted, and cleaning up after it changes nothing.
Choice == INSTANCE ProfileChoice WITH
  inForce <- IF switch.state = "idle" THEN install.profile
             ELSE IF Decided THEN switch.to ELSE switch.from,
  wanted <- switch.to,
  decided <- Decided

SwitchesAtomically == Choice!Spec

-----------------------------------------------------------------------------
(* A statement of the guides that the code does not keep.                  *)

\* STATE-FILES.md: recovery proves and restores the previous profile, or proves the
\* target; so once it is over the attested runtime is that of the manifest.
ManifestDescribesRuntime ==
  switch.state = "idle" /\ attested => current = install.profile
=============================================================================
