------------------------- MODULE ProfileSwitchProofs -------------------------
(***************************************************************************)
(* Proofs about ProfileSwitch, for any set of profiles.                    *)
(*                                                                         *)
(* The state file says how far a switch has come; what it does not say is  *)
(* which manifests are where, since every write may have been the last.    *)
(* Manifests is what holds of them in each state, Underway what the next   *)
(* write of the helper finds, Driven what install.sh relies on at each of  *)
(* its places, and Holding why no other invocation comes in between.       *)
(***************************************************************************)
EXTENDS ProfileSwitch, TLAPS

From == [profile |-> switch.from, phase |-> "complete"]
To == [profile |-> switch.to, phase |-> "complete"]
Staged == [profile |-> switch.to, phase |-> "service_ready"]
HalfStaged == [profile |-> switch.to, phase |-> "release_ready"]

\* The target's manifest is live, and the way back is there.
Cutover == install = Staged /\ candidate = Staged /\ backup = From

Transition ==
  [state : States, from : Profile \cup {NoProfile}, to : Profile \cup {NoProfile},
   backupSha : Manifest \cup {NoFile}, targetSha : Manifest \cup {NoFile}]

\* The state file names two profiles, and the manifests it has digests of.
SwitchNamed ==
  /\ switch \in Transition
  /\ switch.state = "idle" => switch = Idle
  /\ switch.state # "idle" =>
       /\ switch.from \in Profile /\ switch.to \in Profile /\ switch.from # switch.to
       /\ switch.state = "preparing" => switch.backupSha = NoFile
       /\ switch.state = "activated" => switch.backupSha = From
       /\ switch.state \in {"activated", "runtime_committed"} => switch.targetSha = Staged

Manifests ==
  /\ SwitchNamed
  /\ switch.state = "idle" => install \in Manifest /\ backup = NoFile /\ candidate = NoFile
  /\ switch.state = "preparing" =>
       /\ candidate \in {NoFile, HalfStaged, Staged}
       /\ \/ install = From /\ backup \in {NoFile, From}
          \/ install = Staged /\ backup = From
  /\ switch.state = "activated" =>
       \/ Cutover
       \/ install = From /\ candidate \in {NoFile, Staged} /\ backup \in {NoFile, From}
  /\ switch.state = "runtime_committed" =>
       install \in {Staged, To} /\ candidate = Staged /\ backup = From
  /\ switch.state = "committing" =>
       install = To /\ candidate \in {NoFile, Staged} /\ backup \in {NoFile, From}

\* What the next write of the helper finds.
Underway ==
  /\ step \in {"back_up", "adopt", "activated"} => switch.state = "preparing"
  /\ step \in {"back_up", "adopt"} => install = From /\ candidate = Staged
  /\ step = "adopt" => backup = From
  /\ step = "activated" => Cutover
  /\ step \in {"record", "record_and_finish"} => switch.state = "activated" /\ Cutover
  /\ step \in {"prove", "complete", "decide"} => Decided
  /\ step = "decide" => install = To
  /\ step \in {"undo_runtime", "prove_previous"} => switch.state = "activated"
  /\ step = "restore" => switch.state \in {"preparing", "activated"} /\ backup # NoFile
  /\ step \in {"drop_candidate", "drop_backup", "clear"} =>
       /\ switch.state \in {"preparing", "activated", "committing"}
       /\ switch.state # "committing" => install = From
  /\ step \in {"drop_backup", "clear"} => candidate = NoFile
  /\ step = "clear" => backup = NoFile

\* What install.sh relies on at each of its places.
Driven ==
  /\ cli \in {"staging", "activating", "stopping", "restarting", "waiting", "ready",
              "recorded", "completed"} => step = "none"
  /\ cli = "staging" => switch.state = "preparing" /\ install = From /\ backup = NoFile
  /\ cli = "activation" =>
       /\ step \in {"none", "back_up", "adopt", "activated"}
       /\ step = "none" /\ outcome = "ok" => switch.state = "activated" /\ Cutover
  /\ cli \in {"stopping", "restarting", "waiting", "ready"} =>
       switch.state = "activated" /\ Cutover
  /\ cli = "recording" =>
       /\ step \in {"none", "record"}
       /\ step = "none" /\ outcome = "ok" => switch.state = "runtime_committed"
  /\ cli \in {"recorded", "completed"} => switch.state = "runtime_committed"

\* The lock, its holder, and the helper that runs for it.
Holding ==
  /\ cli # "off" <=> lock = "cli"
  /\ runner \in {"recovering", "orphan"} <=> lock = "service"
  /\ step # "none" => lock # "free"

Agreed == Manifests /\ Underway /\ Driven /\ Holding

-------------------------------------------------------------------------------
(* Invocations: whatever state they find, their first write finds what it needs. *)

LEMMA ManifestsDiffer ==
  ASSUME SwitchNamed, switch.state # "idle"
  PROVE  /\ From # To /\ From # Staged /\ From # HalfStaged /\ Staged # To /\ Staged # HalfStaged
         /\ {From, To, Staged, HalfStaged} \subseteq Manifest
         /\ NoFile \notin {From, To, Staged, HalfStaged}
  <1>1. {From, To, Staged, HalfStaged} \subseteq Manifest
    BY DEF SwitchNamed, From, To, Staged, HalfStaged, Manifest, Phases
  <1>2. From # To /\ From # Staged /\ From # HalfStaged
    BY DEF SwitchNamed, From, To, Staged, HalfStaged
  <1>3. Staged # To /\ Staged # HalfStaged
    BY DEF Staged, To, HalfStaged
  <1>4. QED BY <1>1, <1>2, <1>3, NoFileAssumption

\* In an activated switch the target can only be proved while it is live.
LEMMA ProvedIsLive ==
  ASSUME Manifests, switch.state = "activated", TargetCommitted
  PROVE  Cutover
  <1>1. install.profile = switch.to
    BY DEF TargetCommitted
  <1>2. install # From
    BY <1>1 DEF From, Manifests, SwitchNamed
  <1>3. QED BY <1>2 DEF Manifests

LEMMA RecoveryAgrees ==
  ASSUME Manifests, RecoverTransition, UNCHANGED files
  PROVE  Underway'
  <1>1. CASE switch.state = "idle"
    BY <1>1 DEF RecoverTransition, Die, Decided, Underway
  <1>2. CASE switch.state = "preparing"
    <2>1. From.profile = switch.from /\ Staged.profile = switch.to
      BY DEF From, Staged
    <2>2. \/ step' = "restore" /\ backup # NoFile
          \/ step' = "drop_candidate" /\ install.profile = switch.from
          \/ step' = "none"
      BY <1>2 DEF RecoverTransition, Then, Die, Decided
    <2>3. install.profile = switch.from => install = From
      BY <1>2, <2>1 DEF Manifests, SwitchNamed
    <2>4. QED BY <1>2, <2>2, <2>3 DEF Underway, files, From
  <1>3. CASE switch.state = "activated"
    <2>1. \/ step' = "record_and_finish" /\ TargetCommitted
          \/ step' \in {"undo_runtime", "prove_previous"}
      BY <1>3 DEF RecoverTransition, Then, RollBackToPrevious, Decided
    <2>2. TargetCommitted => Cutover
      BY <1>3, ProvedIsLive
    <2>3. QED BY <1>3, <2>1, <2>2 DEF Underway, files, Cutover, From, Staged
  <1>4. CASE Decided
    BY <1>4 DEF RecoverTransition, Then, Decided, Underway, files
  <1>5. QED BY <1>1, <1>2, <1>3, <1>4 DEF RecoverTransition

LEMMA RecoverAgrees ==
  ASSUME Manifests, Recover, UNCHANGED files
  PROVE  Underway'
  <1>1. CASE switch.state # "idle"
    BY <1>1, RecoveryAgrees DEF Recover
  <1>2. CASE switch.state = "idle"
    BY <1>2 DEF Recover, End, Die, Underway
  <1>3. QED BY <1>1, <1>2

LEMMA RollbackAgrees ==
  ASSUME Manifests, Rollback, UNCHANGED files
  PROVE  Underway'
  <1>1. CASE switch.state = "idle" \/ Decided
    BY <1>1 DEF Rollback, End, Die, Decided, Underway
  <1>2. CASE switch.state = "preparing"
    <2>1. \/ step' = "restore" /\ backup # NoFile
          \/ step' = "drop_candidate" /\ backup = NoFile
      BY <1>2 DEF Rollback, Then, Decided
    <2>2. backup = NoFile => install = From
      BY <1>2, ManifestsDiffer DEF Manifests
    <2>3. QED BY <1>2, <2>1, <2>2 DEF Underway, files, From
  <1>3. CASE switch.state = "activated"
    BY <1>3 DEF Rollback, RollBackToPrevious, Then, Decided, Underway, files
  <1>4. QED BY <1>1, <1>2, <1>3 DEF Rollback

-------------------------------------------------------------------------------
(* The writes of the helper *)

\* A helper that runs has a caller who waits for it, or has lost one.
LEMMA HelperHasCaller ==
  ASSUME Driven, Holding, step # "none", UNCHANGED <<lock, cli, service>>
  PROVE  /\ Holding'
         /\ cli' = cli
         /\ cli \in {"activation", "recording"} \/ Driven'
         /\ cli = "activation" => step \in {"back_up", "adopt", "activated"}
         /\ cli = "recording" => step = "record"
  <1>1. Holding' /\ cli' = cli
    BY DEF Holding, service
  <1>2. cli \notin {"staging", "activating", "stopping", "restarting", "waiting", "ready",
                    "recorded", "completed"}
    BY DEF Driven
  <1>3. QED BY <1>1, <1>2 DEF Driven

LEMMA ActivationAgrees ==
  ASSUME Agreed, BackUp \/ AdoptCandidate \/ RecordActivated
  PROVE  Agreed'
  <1>1. Manifests /\ Underway /\ Driven /\ Holding
    BY DEF Agreed
  <1>2. /\ step # "none" /\ switch.state = "preparing" /\ UNCHANGED <<lock, cli, service>>
        /\ step \in {"back_up", "adopt", "activated"}
    BY <1>1 DEF BackUp, AdoptCandidate, RecordActivated, At, Underway
  <1>3. /\ NoFile \notin {From, To, Staged, HalfStaged}
        /\ SwitchNamed
    BY <1>1, <1>2, ManifestsDiffer DEF Manifests
  <1>4. CASE BackUp
    <2>1. /\ install = From /\ candidate = Staged /\ backup' = From /\ step' = "adopt"
          /\ UNCHANGED <<install, candidate, switch>>
      BY <1>1, <1>4 DEF BackUp, At, Then, Underway
    <2>2. Manifests' /\ Underway'
      BY <1>1, <1>2, <1>3, <2>1 DEF Manifests, Underway, SwitchNamed, From, To, Staged,
                                    HalfStaged, Cutover
    <2>3. Driven'
      BY <1>1, <1>2, <2>1, HelperHasCaller DEF Driven
    <2>4. QED BY <1>1, <1>2, <2>2, <2>3, HelperHasCaller DEF Agreed
  <1>5. CASE AdoptCandidate
    <2>1. /\ install' = Staged /\ candidate = Staged /\ backup = From /\ step' = "activated"
          /\ UNCHANGED <<backup, candidate, switch>>
      BY <1>1, <1>5 DEF AdoptCandidate, At, Then, Underway
    <2>2. Manifests' /\ Underway'
      BY <1>1, <1>2, <1>3, <2>1 DEF Manifests, Underway, SwitchNamed, From, To, Staged,
                                    HalfStaged, Cutover
    <2>3. Driven'
      BY <1>1, <1>2, <2>1, HelperHasCaller DEF Driven
    <2>4. QED BY <1>1, <1>2, <2>2, <2>3, HelperHasCaller DEF Agreed
  <1>6. CASE RecordActivated
    <2>1. /\ Cutover /\ step' = "none" /\ UNCHANGED <<install, backup, candidate>>
          /\ switch' = [switch EXCEPT !.state = "activated", !.backupSha = From,
                                      !.targetSha = Staged]
      BY <1>1, <1>6 DEF RecordActivated, At, End, Underway, Cutover
    <2>2. /\ switch'.state = "activated" /\ switch'.from = switch.from
          /\ switch'.to = switch.to /\ switch'.backupSha = From /\ switch'.targetSha = Staged
      BY <1>3, <2>1 DEF SwitchNamed, Transition
    <2>3. From' = From /\ Staged' = Staged /\ Cutover'
      BY <2>1, <2>2 DEF From, Staged, Cutover
    <2>4. SwitchNamed'
      <3>1. From \in Manifest /\ Staged \in Manifest
        BY <1>2, <1>3, ManifestsDiffer
      <3>2. switch' \in Transition
        BY <1>3, <2>1, <3>1 DEF SwitchNamed, Transition, States
      <3>3. QED BY <1>2, <1>3, <2>2, <2>3, <3>2 DEF SwitchNamed
    <2>5. Manifests' /\ Underway'
      BY <2>1, <2>2, <2>3, <2>4 DEF Manifests, Underway
    <2>6. Driven'
      BY <1>1, <1>2, <2>1, <2>2, <2>3, HelperHasCaller DEF Driven
    <2>7. QED BY <1>1, <1>2, <2>5, <2>6, HelperHasCaller DEF Agreed
  <1>7. QED BY <1>4, <1>5, <1>6

\* The state file goes on to another state with the same profiles and digests.
LEMMA StateGoesOn ==
  ASSUME SwitchNamed, switch.state # "idle", NEW state \in {"runtime_committed", "committing"},
         WriteState(state), state = "committing" \/ switch.state = "activated"
  PROVE  /\ switch'.state = state /\ switch'.from = switch.from /\ switch'.to = switch.to
         /\ From' = From /\ To' = To /\ Staged' = Staged
         /\ SwitchNamed'
  <1>1. switch' = [switch EXCEPT !.state = state]
    BY DEF WriteState
  <1>2. /\ switch'.state = state /\ switch'.from = switch.from /\ switch'.to = switch.to
        /\ switch'.backupSha = switch.backupSha /\ switch'.targetSha = switch.targetSha
        /\ switch' \in Transition
    BY <1>1 DEF SwitchNamed, Transition, States
  <1>3. From' = From /\ To' = To /\ Staged' = Staged
    BY <1>2 DEF From, To, Staged
  <1>4. QED BY <1>2, <1>3 DEF SwitchNamed

LEMMA CommitmentAgrees ==
  ASSUME Agreed, RecordCommitted \/ ProveTarget \/ SetComplete \/ Decide
  PROVE  Agreed'
  <1>1. Manifests /\ Underway /\ Driven /\ Holding /\ SwitchNamed
    BY DEF Agreed, Manifests
  <1>2. /\ step \in {"record", "record_and_finish", "prove", "complete", "decide"}
        /\ UNCHANGED <<lock, cli, service>> /\ UNCHANGED <<backup, candidate>>
    BY DEF RecordCommitted, ProveTarget, SetComplete, Decide, At, files
  <1>3. Holding' /\ cli' = cli /\ (cli = "recording" => step = "record") /\ cli # "activation"
    BY <1>1, <1>2, HelperHasCaller
  <1>4. CASE RecordCommitted
    <2>1. /\ switch.state = "activated" /\ Cutover /\ step' \in {"none", "prove"}
          /\ step = "record" => step' = "none"
          /\ WriteState("runtime_committed") /\ UNCHANGED install
      BY <1>1, <1>4 DEF RecordCommitted, At, End, Then, Underway
    <2>2. /\ switch'.state = "runtime_committed" /\ SwitchNamed'
          /\ From' = From /\ To' = To /\ Staged' = Staged
      BY <1>1, <2>1, StateGoesOn
    <2>3. Manifests'
      BY <1>2, <2>1, <2>2 DEF Manifests, Cutover
    <2>4. Underway'
      BY <2>1, <2>2 DEF Underway, Decided
    <2>5. Driven'
      BY <1>1, <1>2, <1>3, <2>1, <2>2, HelperHasCaller DEF Driven
    <2>6. QED BY <1>3, <2>3, <2>4, <2>5 DEF Agreed
  <1>5. CASE ProveTarget
    <2>1. Decided /\ UNCHANGED files /\ step' \in {"none", "complete"} /\ step = "prove"
      BY <1>1, <1>5 DEF ProveTarget, At, Then, Die, Underway
    <2>2. Manifests' /\ Underway'
      BY <1>1, <2>1 DEF Manifests, Underway, Decided, files, SwitchNamed, From, To, Staged,
                        HalfStaged, Cutover
    <2>3. Driven'
      BY <1>1, <1>2, <1>3, <2>1, HelperHasCaller
    <2>4. QED BY <1>3, <2>2, <2>3 DEF Agreed
  <1>6. CASE SetComplete
    <2>1. /\ Decided /\ step = "complete" /\ step' = "decide" /\ UNCHANGED switch
          /\ install' = [install EXCEPT !.phase = "complete"]
      BY <1>1, <1>6 DEF SetComplete, At, Then, Underway
    <2>2. install' = To
      BY <1>1, <2>1 DEF Manifests, Decided, Staged, To
    <2>3. From' = From /\ To' = To /\ Staged' = Staged
      BY <2>1 DEF From, To, Staged
    <2>4. Manifests' /\ Underway'
      BY <1>1, <1>2, <2>1, <2>2, <2>3 DEF Manifests, Underway, Decided, SwitchNamed
    <2>5. Driven'
      BY <1>1, <1>2, <1>3, <2>1, HelperHasCaller
    <2>6. QED BY <1>3, <2>4, <2>5 DEF Agreed
  <1>7. CASE Decide
    <2>1. /\ Decided /\ install = To /\ step = "decide" /\ step' = "drop_candidate"
          /\ WriteState("committing") /\ UNCHANGED install
      BY <1>1, <1>7 DEF Decide, At, Then, Underway
    <2>2. /\ switch'.state = "committing" /\ SwitchNamed'
          /\ From' = From /\ To' = To /\ Staged' = Staged
      BY <1>1, <2>1, StateGoesOn DEF Decided
    <2>3. candidate \in {NoFile, Staged} /\ backup \in {NoFile, From}
      BY <1>1, <2>1 DEF Manifests, Decided
    <2>4. Manifests' /\ Underway'
      BY <1>2, <2>1, <2>2, <2>3 DEF Manifests, Underway
    <2>5. Driven'
      BY <1>1, <1>2, <1>3, <2>1, HelperHasCaller
    <2>6. QED BY <1>3, <2>4, <2>5 DEF Agreed
  <1>8. QED BY <1>4, <1>5, <1>6, <1>7

LEMMA ReturnAgrees ==
  ASSUME Agreed, UndoRuntime \/ ProvePrevious \/ RestoreBackup
  PROVE  Agreed'
  <1>1. Manifests /\ Underway /\ Driven /\ Holding /\ SwitchNamed
    BY DEF Agreed, Manifests
  <1>2. /\ step \in {"undo_runtime", "prove_previous", "restore"}
        /\ UNCHANGED <<lock, cli, service>> /\ UNCHANGED <<backup, candidate, switch>>
    BY DEF UndoRuntime, ProvePrevious, RestoreBackup, At, files
  <1>3. Holding' /\ Driven'
    BY <1>1, <1>2, HelperHasCaller
  <1>4. From' = From /\ To' = To /\ Staged' = Staged /\ HalfStaged' = HalfStaged
    BY <1>2 DEF From, To, Staged, HalfStaged
  <1>5. ASSUME UNCHANGED install PROVE Manifests'
    BY <1>1, <1>2, <1>4, <1>5 DEF Manifests, SwitchNamed, Cutover
  <1>6. CASE UndoRuntime
    <2>1. UNCHANGED install /\ switch.state = "activated" /\ step' = "prove_previous"
      BY <1>1, <1>6 DEF UndoRuntime, At, Then, Underway, files
    <2>2. Underway'
      BY <1>2, <2>1 DEF Underway
    <2>3. QED BY <1>3, <1>5, <2>1, <2>2 DEF Agreed
  <1>7. CASE ProvePrevious
    <2>1. UNCHANGED install /\ switch.state = "activated"
      BY <1>1, <1>7 DEF ProvePrevious, At, Underway, files
    <2>2. \/ step' = "restore" /\ backup # NoFile
          \/ step' = "drop_candidate" /\ install.profile = switch.from
          \/ step' = "none"
      BY <1>7 DEF ProvePrevious, Then, Die
    <2>3. install.profile = switch.from => install = From
      <3>1. Staged.profile = switch.to /\ switch.to # switch.from
        BY <1>1, <2>1 DEF Staged, SwitchNamed
      <3>2. QED BY <1>1, <2>1, <3>1 DEF Manifests, Cutover
    <2>4. Underway'
      BY <1>2, <1>4, <2>1, <2>2, <2>3 DEF Underway
    <2>5. QED BY <1>3, <1>5, <2>1, <2>4 DEF Agreed
  <1>8. CASE RestoreBackup
    <2>1. /\ switch.state \in {"preparing", "activated"} /\ backup # NoFile
          /\ \/ install' = backup /\ step' = "drop_candidate"
             \/ UNCHANGED install /\ step' = "none"
      BY <1>1, <1>8 DEF RestoreBackup, At, Then, Die, Underway
    <2>2. backup = From
      BY <1>1, <2>1 DEF Manifests, Cutover
    <2>3. switch.state = "activated" => candidate \in {NoFile, Staged}
      BY <1>1 DEF Manifests, Cutover
    <2>4. install' = From => Manifests'
      BY <1>1, <1>2, <1>4, <2>1, <2>2, <2>3 DEF Manifests, SwitchNamed
    <2>5. Underway'
      BY <1>2, <1>4, <2>1, <2>2 DEF Underway
    <2>6. QED BY <1>3, <1>5, <2>1, <2>2, <2>4, <2>5 DEF Agreed
  <1>9. QED BY <1>6, <1>7, <1>8

LEMMA RemovalAgrees ==
  ASSUME Agreed, DropCandidate \/ DropBackup \/ Clear
  PROVE  Agreed'
  <1>1. Manifests /\ Underway /\ Driven /\ Holding /\ SwitchNamed
    BY DEF Agreed, Manifests
  <1>2. /\ step \in {"drop_candidate", "drop_backup", "clear"}
        /\ UNCHANGED <<lock, cli, service>> /\ UNCHANGED install
    BY DEF DropCandidate, DropBackup, Clear, At
  <1>3. Holding' /\ Driven'
    BY <1>1, <1>2, HelperHasCaller
  <1>4. /\ switch.state \in {"preparing", "activated", "committing"}
        /\ switch.state # "committing" => install = From
        /\ step \in {"drop_backup", "clear"} => candidate = NoFile
        /\ step = "clear" => backup = NoFile
    BY <1>1, <1>2 DEF Underway
  <1>5. candidate \in {NoFile, HalfStaged, Staged} /\ backup \in {NoFile, From}
    BY <1>1, <1>4 DEF Manifests, Cutover
  <1>6. CASE DropCandidate \/ DropBackup
    <2>1. /\ UNCHANGED switch
          /\ \/ candidate' = NoFile /\ backup' = backup /\ step' = "drop_backup"
             \/ backup' = NoFile /\ candidate' = candidate /\ candidate = NoFile /\ step' = "clear"
      BY <1>4, <1>6 DEF DropCandidate, DropBackup, At, Then
    <2>2. From' = From /\ To' = To /\ Staged' = Staged /\ HalfStaged' = HalfStaged
      BY <2>1 DEF From, To, Staged, HalfStaged
    <2>3. Manifests'
      BY <1>1, <1>2, <1>4, <1>5, <2>1, <2>2 DEF Manifests, SwitchNamed
    <2>4. Underway'
      BY <1>2, <1>4, <2>1, <2>2 DEF Underway
    <2>5. QED BY <1>3, <2>3, <2>4 DEF Agreed
  <1>7. CASE Clear
    <2>1. /\ switch' = Idle /\ step' = "none" /\ backup' = NoFile /\ candidate' = NoFile
      BY <1>4, <1>7 DEF Clear, At, End
    <2>2. switch'.state = "idle" /\ SwitchNamed'
      BY <2>1 DEF SwitchNamed, Transition, Idle, States
    <2>3. install' \in Manifest
      <3>1. install \in {From, To}
        BY <1>1, <1>4 DEF Manifests
      <3>2. QED BY <1>1, <1>2, <1>4, <3>1, ManifestsDiffer
    <2>4. Manifests' /\ Underway'
      BY <2>1, <2>2, <2>3 DEF Manifests, Underway
    <2>5. QED BY <1>3, <2>4 DEF Agreed
  <1>8. QED BY <1>6, <1>7

LEMMA FailureAgrees == ASSUME Agreed, HelperFails PROVE Agreed'
  <1>1. Manifests /\ Underway /\ Driven /\ Holding
    BY DEF Agreed
  <1>2. /\ step # "none" /\ UNCHANGED <<lock, cli, service>> /\ UNCHANGED files
        /\ step' = "none" /\ outcome' = "failed"
    BY DEF HelperFails, Die
  <1>3. Manifests' /\ Underway'
    BY <1>1, <1>2 DEF Manifests, Underway, files, SwitchNamed, Cutover, From, To, Staged,
                      HalfStaged
  <1>4. Driven'
    BY <1>1, <1>2, HelperHasCaller DEF Driven
  <1>5. QED BY <1>1, <1>2, <1>3, <1>4, HelperHasCaller DEF Agreed

LEMMA HelperAgrees == ASSUME Agreed, HelperStep \/ HelperFails PROVE Agreed'
  BY ActivationAgrees, CommitmentAgrees, ReturnAgrees, RemovalAgrees, FailureAgrees
  DEF HelperStep

-------------------------------------------------------------------------------
(* install.sh and the commands of an operator *)

\* A step that writes no file leaves what is known of them.
LEMMA FilesKept ==
  ASSUME Manifests, UNCHANGED files
  PROVE  /\ Manifests'
         /\ switch' = switch /\ From' = From
         /\ Cutover' <=> Cutover
         /\ Underway /\ step' = step => Underway'
  <1>1. /\ install' = install /\ backup' = backup /\ candidate' = candidate /\ switch' = switch
        /\ From' = From /\ To' = To /\ Staged' = Staged /\ HalfStaged' = HalfStaged
    BY DEF files, From, To, Staged, HalfStaged
  <1>2. Cutover' <=> Cutover
    BY <1>1 DEF Cutover
  <1>3. Manifests'
    BY <1>1, <1>2 DEF Manifests, SwitchNamed
  <1>4. Underway /\ step' = step => Underway'
    BY <1>1, <1>2 DEF Underway, Decided
  <1>5. QED BY <1>1, <1>2, <1>3, <1>4

\* No helper runs, so there is no write to come.
LEMMA NothingUnderway == step = "none" => Underway
  BY DEF Underway

LEMMA CommandsAgree ==
  ASSUME Agreed, CliRecovers \/ OperatorRollsBack
  PROVE  Agreed'
  <1>1. /\ Manifests /\ Holding /\ UNCHANGED files
        /\ lock = "free" /\ lock' = "cli" /\ cli' \in {"recovering", "ending"}
        /\ runner' = runner
        /\ Recover \/ Rollback
    BY DEF Agreed, CliRecovers, OperatorRollsBack, service
  <1>2. Manifests' /\ Underway'
    BY <1>1, FilesKept, RecoverAgrees, RollbackAgrees
  <1>3. Driven' /\ Holding'
    BY <1>1 DEF Driven, Holding
  <1>4. QED BY <1>2, <1>3 DEF Agreed

LEMMA PreparationAgrees ==
  ASSUME Agreed, InstallPrepares
  PROVE  Agreed'
  <1>1. Manifests /\ Holding /\ SwitchNamed
    BY DEF Agreed, Manifests
  <1>2. /\ cli = "recovering" /\ step' = "none" /\ runner' = runner
        /\ UNCHANGED <<install, backup, candidate>>
    BY DEF InstallPrepares, Returned, Prepare, End, Die, service
  <1>3. lock = "cli" /\ runner \notin {"recovering", "orphan"}
    BY <1>1, <1>2 DEF Holding
  <1>4. PICK to \in Profile : Prepare(to)
    BY DEF InstallPrepares
  <1>5. CASE outcome' = "ok"
    <2>1. /\ switch.state = "idle" /\ backup = NoFile /\ candidate = NoFile
          /\ install.phase = "complete" /\ to # install.profile
          /\ switch' = [Idle EXCEPT !.state = "preparing", !.from = install.profile, !.to = to]
      BY <1>4, <1>5 DEF Prepare, Die
    <2>2. install \in Manifest
      BY <1>1, <2>1 DEF Manifests
    <2>3. /\ switch'.state = "preparing" /\ switch'.from = install.profile /\ switch'.to = to
          /\ switch'.backupSha = NoFile /\ switch' \in Transition
      BY <1>4, <2>1, <2>2 DEF Idle, Transition, States, Manifest
    <2>4. SwitchNamed'
      BY <1>4, <2>1, <2>2, <2>3 DEF SwitchNamed, Manifest
    <2>5. install' = From'
      BY <1>2, <2>1, <2>2, <2>3 DEF From, Manifest
    <2>6. Manifests'
      BY <1>2, <2>1, <2>3, <2>4, <2>5 DEF Manifests
    <2>7. cli' = "staging" /\ lock' = lock
      BY <1>5 DEF InstallPrepares
    <2>8. Driven' /\ Holding' /\ Underway'
      BY <1>2, <1>3, <2>1, <2>3, <2>5, <2>7 DEF Driven, Holding, Underway
    <2>9. QED BY <2>6, <2>8 DEF Agreed
  <1>6. CASE outcome' # "ok"
    <2>1. UNCHANGED files /\ cli' = "off" /\ lock' = "free"
      BY <1>2, <1>4, <1>6 DEF Prepare, End, InstallPrepares, CliExits, files
    <2>2. Driven' /\ Holding' /\ Underway'
      BY <1>2, <1>3, <2>1 DEF Driven, Holding, Underway
    <2>3. QED BY <1>1, <2>1, <2>2, FilesKept DEF Agreed
  <1>7. QED BY <1>5, <1>6

LEMMA StagingAgrees ==
  ASSUME Agreed, InstallStages \/ InstallActivates
  PROVE  Agreed'
  <1>1. Manifests /\ Driven /\ Holding /\ SwitchNamed
    BY DEF Agreed, Manifests
  <1>2. /\ cli \in {"staging", "activating"} /\ step = "none"
        /\ UNCHANGED <<install, backup, switch, lock>> /\ runner' = runner
    BY DEF InstallStages, InstallActivates, Returned, files, locking, service
  <1>3. From' = From /\ Staged' = Staged /\ HalfStaged' = HalfStaged /\ To' = To
    BY <1>2 DEF From, Staged, HalfStaged, To
  <1>4. CASE InstallStages
    <2>1. /\ switch.state = "preparing" /\ install = From /\ backup = NoFile
          /\ candidate \in {NoFile, HalfStaged, Staged}
      BY <1>1, <1>4 DEF Driven, Manifests, InstallStages, Returned
    <2>2. /\ candidate' \in {HalfStaged, Staged}
          /\ cli' \in {"staging", "activating"} /\ step' = "none"
      BY <1>4, <2>1 DEF InstallStages, Returned, HalfStaged, Staged, locking
    <2>3. Manifests'
      BY <1>1, <1>2, <1>3, <2>1, <2>2 DEF Manifests, SwitchNamed
    <2>4. Driven' /\ Holding' /\ Underway'
      BY <1>1, <1>2, <1>3, <2>1, <2>2 DEF Driven, Holding, Underway
    <2>5. QED BY <2>3, <2>4 DEF Agreed
  <1>5. CASE InstallActivates
    <2>1. /\ UNCHANGED files /\ cli' = "activation"
          /\ \/ step' = "back_up" /\ switch.state = "preparing" /\ candidate = Staged /\ install = From
             \/ step' = "none" /\ outcome' = "failed"
      BY <1>5 DEF InstallActivates, Activate, Then, Die, Staged, From
    <2>2. Driven' /\ Holding'
      BY <1>1, <1>2, <2>1 DEF Driven, Holding
    <2>3. Underway'
      BY <1>2, <1>3, <2>1 DEF Underway, files
    <2>4. QED BY <1>1, <2>1, <2>2, <2>3, FilesKept DEF Agreed
  <1>6. QED BY <1>4, <1>5

\* From activation to the recorded commit, the installer only watches.
LEMMA CutoverAgrees ==
  ASSUME Agreed,
         \/ CallReturns("activation", "stopping") \/ ForgetAttestation \/ RestartUnit
         \/ ServiceReady \/ CallReturns("recording", "recorded")
  PROVE  Agreed'
  <1>1. Manifests /\ Underway /\ Driven /\ Holding
    BY DEF Agreed
  <1>2. /\ cli \in {"activation", "stopping", "restarting", "waiting", "recording"}
        /\ UNCHANGED files /\ UNCHANGED locking /\ step = "none"
        /\ runner' \in {runner, "start"}
    BY <1>1 DEF CallReturns, Returned, ForgetAttestation, RestartUnit, ServiceReady, service, Driven
  <1>3. /\ cli' \in {"stopping", "restarting", "waiting", "ready", "recorded"}
        /\ cli' = "recorded" => switch.state = "runtime_committed"
        /\ cli' # "recorded" => switch.state = "activated" /\ Cutover
    BY <1>1 DEF CallReturns, Returned, ForgetAttestation, RestartUnit, ServiceReady, Driven
  <1>4. Driven' /\ Holding'
    BY <1>1, <1>2, <1>3, FilesKept DEF Driven, Holding, locking
  <1>5. QED BY <1>1, <1>2, <1>4, FilesKept DEF Agreed, locking

LEMMA CommittingAgrees ==
  ASSUME Agreed, InstallRecords \/ InstallCompletes \/ InstallCommits
  PROVE  Agreed'
  <1>1. Manifests /\ Underway /\ Driven /\ Holding /\ SwitchNamed
    BY DEF Agreed, Manifests
  <1>2. /\ cli \in {"ready", "recorded", "completed"} /\ step = "none"
        /\ UNCHANGED <<backup, candidate, switch, lock>> /\ runner' = runner
        /\ cli' \in {"recording", "completed", "committing"}
    BY <1>1 DEF InstallRecords, InstallCompletes, InstallCommits, Returned, files, locking, service,
               Driven
  <1>3. Holding'
    BY <1>1, <1>2 DEF Holding
  <1>4. CASE InstallRecords
    <2>1. /\ UNCHANGED files /\ cli' = "recording"
          /\ \/ step' = "record" /\ switch.state = "activated" /\ TargetCommitted
             \/ step' = "none" /\ outcome' = "failed"
      BY <1>4 DEF InstallRecords, RuntimeCommitted, Then, Die
    <2>2. step' = "record" => Cutover'
      BY <1>1, <2>1, ProvedIsLive, FilesKept
    <2>3. Underway' /\ Driven'
      BY <1>2, <2>1, <2>2 DEF Underway, Driven
    <2>4. QED BY <1>1, <1>3, <2>1, <2>3, FilesKept DEF Agreed
  <1>5. CASE InstallCompletes
    <2>1. /\ switch.state = "runtime_committed" /\ install' = To
          /\ cli' = "completed" /\ step' = "none"
      BY <1>1, <1>2, <1>5 DEF InstallCompletes, Driven, To, locking
    <2>2. From' = From /\ To' = To /\ Staged' = Staged
      BY <1>2 DEF From, To, Staged
    <2>3. Manifests'
      BY <1>1, <1>2, <2>1, <2>2 DEF Manifests, SwitchNamed
    <2>4. Underway' /\ Driven'
      BY <1>2, <2>1 DEF Underway, Driven
    <2>5. QED BY <1>3, <2>3, <2>4 DEF Agreed
  <1>6. CASE InstallCommits
    <2>1. /\ UNCHANGED files /\ cli' = "committing"
          /\ step' \in {"prove", "none"} /\ (step' = "prove" => Decided')
      BY <1>6 DEF InstallCommits, Commit, Then, Die, Decided, files
    <2>2. Underway' /\ Driven'
      BY <2>1 DEF Underway, Driven
    <2>3. QED BY <1>1, <1>3, <2>1, <2>2, FilesKept DEF Agreed
  <1>7. QED BY <1>4, <1>5, <1>6

LEMMA ExitAgrees ==
  ASSUME Agreed, InstallFails \/ CliEnds \/ CliKilled
  PROVE  Agreed'
  <1>1. Manifests /\ Underway /\ Driven /\ Holding
    BY DEF Agreed
  <1>2. /\ cli # "off" /\ UNCHANGED files /\ runner' = runner
    BY DEF InstallFails, CliEnds, CliKilled, Returned, service, RollsBack, RollsOn
  <1>3. lock = "cli" /\ runner \notin {"recovering", "orphan"}
    BY <1>1, <1>2 DEF Holding
  <1>4. \/ cli' = "off" /\ lock' = "free" /\ step' = "none"
        \/ cli' = "ending" /\ lock' = lock /\ step' = step
        \/ cli' = "ending" /\ lock' = lock /\ (Rollback \/ Recover)
    BY DEF InstallFails, CliEnds, CliKilled, CliExits, Returned
  <1>5. Underway'
    BY <1>1, <1>2, <1>4, FilesKept, RollbackAgrees, RecoverAgrees DEF Underway
  <1>6. Driven' /\ Holding'
    BY <1>2, <1>3, <1>4 DEF Driven, Holding
  <1>7. QED BY <1>1, <1>2, <1>5, <1>6, FilesKept DEF Agreed

-------------------------------------------------------------------------------
(* The service runner and the host *)

\* The runner writes no file of the switch itself, whatever else it does.
LEMMA RunnerKeepsAway ==
  ASSUME Agreed, UNCHANGED <<files, locking, cli>>,
         runner' \in {"recovering", "orphan"} <=> runner \in {"recovering", "orphan"}
  PROVE  Agreed'
  <1>1. Manifests /\ Underway /\ Driven /\ Holding
    BY DEF Agreed
  <1>2. UNCHANGED files /\ lock' = lock /\ step' = step /\ outcome' = outcome /\ cli' = cli
    BY DEF locking
  <1>3. switch' = switch /\ install' = install /\ backup' = backup /\ From' = From
        /\ (Cutover' <=> Cutover)
    BY <1>1, <1>2, FilesKept DEF files
  <1>4. Driven'
    BY <1>1, <1>2, <1>3 DEF Driven
  <1>5. Holding'
    BY <1>1, <1>2 DEF Holding
  <1>6. QED BY <1>1, <1>2, <1>4, <1>5, FilesKept DEF Agreed

LEMMA RunnerAgrees ==
  ASSUME Agreed, StartRunner \/ RunnerStep \/ ContainerStops \/ RunnerFails \/ RecoveryKilled
  PROVE  Agreed'
  <1>1. Manifests /\ Underway /\ Driven /\ Holding
    BY DEF Agreed
  <1>2. CASE RunnerAcquires /\ lock = "free"
    <2>1. /\ UNCHANGED files /\ cli' = cli /\ RecoverTransition
          /\ lock' = "service" /\ runner' = "recovering"
      BY <1>2 DEF RunnerAcquires, RunnerGoes
    <2>2. cli = "off"
      BY <1>1, <1>2 DEF Holding
    <2>3. Driven' /\ Holding'
      BY <2>1, <2>2 DEF Driven, Holding
    <2>4. QED BY <1>1, <2>1, <2>3, FilesKept, RecoveryAgrees DEF Agreed
  <1>3. CASE RunnerRecovered \/ RecoveryKilled
    <2>1. /\ UNCHANGED files /\ cli' = cli /\ runner \in {"recovering", "orphan"}
          /\ \/ lock' = "free" /\ step' = "none" /\ runner' \notin {"recovering", "orphan"}
             \/ lock' = lock /\ step' = step /\ runner' = "orphan"
      BY <1>3 DEF RunnerRecovered, RecoveryKilled, RunnerGoes
    <2>2. cli = "off" /\ lock = "service"
      BY <1>1, <2>1 DEF Holding
    <2>3. Driven' /\ Holding'
      BY <1>1, <2>1, <2>2 DEF Driven, Holding
    <2>4. Underway'
      BY <1>1, <2>1, FilesKept, NothingUnderway DEF Underway
    <2>5. QED BY <1>1, <2>1, <2>3, <2>4, FilesKept DEF Agreed
  <1>4. CASE /\ ~RunnerRecovered /\ ~RecoveryKilled
             /\ ~(RunnerAcquires /\ lock = "free")
    <2>1. UNCHANGED <<files, locking, cli>>
      BY <1>4 DEF StartRunner, RunnerStep, RunnerLooks, RunnerAcquires, ReadManifest, Begin,
                  RecoverRuntime, PrepareRuntime, Serve, ValidateRuntime, CommitRuntime, Attest,
                  ContainerStops, RunnerFails
    <2>2. runner \notin {"recovering", "orphan"} /\ runner' \notin {"recovering", "orphan"}
      BY <1>4 DEF StartRunner, RunnerStep, RunnerLooks, RunnerAcquires, ReadManifest, Begin,
                  RecoverRuntime, PrepareRuntime, Serve, ValidateRuntime, CommitRuntime, Attest,
                  ContainerStops, RunnerFails, RunnerGoes
    <2>3. QED BY <2>1, <2>2, RunnerKeepsAway
  <1>5. QED BY <1>2, <1>3, <1>4

LEMMA RebootAgrees == ASSUME Agreed, HostReboots PROVE Agreed'
  <1>1. /\ Manifests /\ UNCHANGED files /\ step' = "none" /\ cli' = "off"
        /\ runner' = "off" /\ lock' = "free"
    BY DEF Agreed, HostReboots
  <1>2. Driven' /\ Holding' /\ Underway'
    BY <1>1 DEF Driven, Holding, Underway
  <1>3. QED BY <1>1, <1>2, FilesKept DEF Agreed

LEMMA StartAgrees == Init => Agreed
  <1> SUFFICES ASSUME Init PROVE Agreed
    OBVIOUS
  <1>1. /\ switch = Idle /\ backup = NoFile /\ candidate = NoFile /\ step = "none"
        /\ lock = "free" /\ cli = "off" /\ runner = "off" /\ install \in Manifest
    BY DEF Init, Manifest, Phases
  <1>2. SwitchNamed /\ switch.state = "idle"
    BY <1>1 DEF SwitchNamed, Idle, Transition, States
  <1>3. Manifests
    BY <1>1, <1>2 DEF Manifests
  <1>4. Underway /\ Driven /\ Holding
    BY <1>1 DEF Underway, Driven, Holding
  <1>5. QED BY <1>3, <1>4 DEF Agreed

LEMMA StepAgrees == Agreed /\ [Next]_vars => Agreed'
  <1> SUFFICES ASSUME Agreed, [Next]_vars PROVE Agreed'
    OBVIOUS
  <1>1. CASE CliRecovers \/ OperatorRollsBack
    BY <1>1, CommandsAgree
  <1>2. CASE CliStep
    BY <1>2, PreparationAgrees, StagingAgrees, CutoverAgrees, CommittingAgrees, ExitAgrees
    DEF CliStep
  <1>3. CASE CliKilled
    BY <1>3, ExitAgrees
  <1>4. CASE HelperStep \/ HelperFails
    BY <1>4, HelperAgrees
  <1>5. CASE StartRunner \/ RunnerStep \/ ContainerStops \/ RunnerFails \/ RecoveryKilled
    BY <1>5, RunnerAgrees
  <1>6. CASE HostReboots
    BY <1>6, RebootAgrees
  <1>7. CASE UNCHANGED vars
    BY <1>7, RunnerKeepsAway DEF vars, files, locking
  <1>8. QED BY <1>1, <1>2, <1>3, <1>4, <1>5, <1>6, <1>7 DEF Next

\* The state file, the manifests, the helper's next write and the places of install.sh
\* agree at all times, crashes and all.
LEMMA AlwaysAgreed == Spec => []Agreed
  BY StartAgrees, StepAgrees, PTL DEF Spec

-------------------------------------------------------------------------------
(* What follows *)

\* NoOrphanArtifacts: a crash at any write of the helper, of install.sh or of the
\* runner's recovery leaves no backup or candidate that a later command would refuse.
THEOREM ArtifactsHaveAnOwner == Spec => []NoOrphanArtifacts
  <1>1. Agreed => NoOrphanArtifacts
    BY DEF Agreed, Manifests, NoOrphanArtifacts
  <1>2. QED BY <1>1, AlwaysAgreed, PTL

\* PreviousManifestKept: as long as the switch is undecided, the complete manifest of
\* the profile to go back to is live or in the backup.
THEOREM WayBackIsKept == Spec => []PreviousManifestKept
  <1>1. Agreed => PreviousManifestKept
    BY DEF Agreed, Manifests, Cutover, From, PreviousManifestKept
  <1>2. QED BY <1>1, AlwaysAgreed, PTL

\* CutoverUndisturbed: neither the service that install.sh restarts nor any other command
\* takes its cut-over for a switch to recover.
THEOREM CutoverIsLeftAlone == Spec => []CutoverUndisturbed
  <1>1. Agreed => CutoverUndisturbed
    <2> SUFFICES ASSUME Agreed, cli \in {"stopping", "restarting", "waiting", "ready"}
                 PROVE  switch.state = "activated" /\ install = candidate /\ backup # NoFile
      BY DEF CutoverUndisturbed
    <2>1. switch.state = "activated" /\ Cutover /\ SwitchNamed
      BY DEF Agreed, Driven, Manifests
    <2>2. NoFile # From
      BY <2>1, ManifestsDiffer
    <2>3. QED BY <2>1, <2>2 DEF Cutover
  <1>2. QED BY <1>1, AlwaysAgreed, PTL

-------------------------------------------------------------------------------
(* The refinement *)

\* A step that leaves the state file and the profile of an idle system's manifest.
LEMMA OtherwiseNothing ==
  ASSUME switch' = switch, switch.state = "idle" => install' = install
  PROVE  UNCHANGED Choice!vars
  BY DEF Choice!vars, Decided

\* Only these write the state file.
LEMMA StateWriters ==
  ASSUME Agreed, [Next]_vars, switch' # switch
  PROVE  \/ InstallPrepares \/ RecordActivated \/ RecordCommitted \/ Decide \/ Clear
  BY DEF Next, vars, files, CliRecovers, OperatorRollsBack, CliStep, InstallStages,
         InstallActivates, CallReturns, ForgetAttestation, RestartUnit, ServiceReady,
         InstallRecords, InstallCompletes, InstallCommits, InstallFails, CliEnds, CliKilled,
         HelperStep, BackUp, AdoptCandidate, ProveTarget, SetComplete, UndoRuntime,
         ProvePrevious, RestoreBackup, DropCandidate, DropBackup, HelperFails,
         StartRunner, RunnerStep, RunnerLooks, RunnerAcquires, RunnerRecovered, ReadManifest,
         Begin, RecoverRuntime, PrepareRuntime, Serve, ValidateRuntime, CommitRuntime, Attest,
         ContainerStops, RunnerFails, RecoveryKilled, HostReboots

\* The manifest of an idle system is only ever read.
LEMMA IdleManifestStays ==
  ASSUME Agreed, [Next]_vars, switch.state = "idle"
  PROVE  install' = install
  <1>1. Underway /\ Driven
    BY DEF Agreed
  <1>2. ~AdoptCandidate /\ ~SetComplete /\ ~RestoreBackup /\ ~InstallCompletes
    BY <1>1 DEF Underway, Driven, Decided, AdoptCandidate, SetComplete, RestoreBackup,
                InstallCompletes, At
  <1>3. QED
    BY <1>2 DEF Next, vars, files, CliRecovers, OperatorRollsBack, CliStep, InstallPrepares,
         InstallStages, InstallActivates, CallReturns, ForgetAttestation, RestartUnit,
         ServiceReady, InstallRecords, InstallCommits, InstallFails, CliEnds, CliKilled,
         HelperStep, BackUp, RecordActivated, RecordCommitted, ProveTarget, Decide, UndoRuntime,
         ProvePrevious, DropCandidate, DropBackup, Clear, HelperFails,
         StartRunner, RunnerStep, RunnerLooks, RunnerAcquires, RunnerRecovered, ReadManifest,
         Begin, RecoverRuntime, PrepareRuntime, Serve, ValidateRuntime, CommitRuntime, Attest,
         ContainerStops, RunnerFails, RecoveryKilled, HostReboots

LEMMA PreparingBegins ==
  ASSUME Agreed, InstallPrepares, switch' # switch
  PROVE  \E p \in Profile : Choice!Begin(p)
  <1>1. PICK to \in Profile : Prepare(to)
    BY DEF InstallPrepares
  <1>2. /\ switch.state = "idle" /\ to # install.profile /\ UNCHANGED install
        /\ switch' = [Idle EXCEPT !.state = "preparing", !.from = install.profile, !.to = to]
    BY <1>1 DEF Prepare, InstallPrepares
  <1>3. /\ switch'.state = "preparing" /\ switch'.from = install.profile /\ switch'.to = to
        /\ switch.to = NoProfile
    BY <1>2 DEF Idle, Agreed, Manifests, SwitchNamed
  <1>4. Choice!Begin(to)
    BY <1>2, <1>3 DEF Choice!Begin, Decided
  <1>5. QED BY <1>4

LEMMA CommittingDecides ==
  ASSUME Agreed, RecordCommitted
  PROVE  Choice!Decide
  <1>1. /\ switch.state = "activated" /\ SwitchNamed /\ WriteState("runtime_committed")
    BY DEF Agreed, Manifests, Underway, RecordCommitted, At
  <1>2. switch.to \in Profile
    BY <1>1 DEF SwitchNamed
  <1>3. switch'.state = "runtime_committed" /\ switch'.to = switch.to
    BY <1>1, StateGoesOn
  <1>4. QED BY <1>1, <1>2, <1>3, NoProfileAssumption DEF Choice!Decide, Decided

LEMMA ClearingFinishes ==
  ASSUME Agreed, Clear
  PROVE  Choice!Finish
  <1>1. /\ SwitchNamed /\ switch' = Idle /\ UNCHANGED install
        /\ switch.state \in {"preparing", "activated", "committing"}
        /\ switch.state # "committing" => install = From
        /\ switch.state = "committing" => install = To
    BY DEF Agreed, Manifests, Underway, Clear, At
  <1>2. switch'.state = "idle" /\ switch'.to = NoProfile
    BY <1>1 DEF Idle
  <1>3. switch.to \in Profile
    BY <1>1 DEF SwitchNamed
  <1>4. install.profile = IF Decided THEN switch.to ELSE switch.from
    BY <1>1 DEF Decided, From, To
  <1>5. QED BY <1>1, <1>2, <1>3, <1>4, NoProfileAssumption DEF Choice!Finish, Decided

LEMMA RecordingChangesNothing ==
  ASSUME Agreed, RecordActivated \/ Decide
  PROVE  UNCHANGED Choice!vars
  <1>1. Manifests /\ Underway /\ SwitchNamed
    BY DEF Agreed, Manifests
  <1>2. CASE RecordActivated
    <2>1. /\ switch.state = "preparing"
          /\ switch' = [switch EXCEPT !.state = "activated", !.backupSha = backup,
                                      !.targetSha = candidate]
      BY <1>1, <1>2 DEF RecordActivated, At, Underway
    <2>2. switch'.state = "activated" /\ switch'.from = switch.from /\ switch'.to = switch.to
      BY <1>1, <2>1 DEF SwitchNamed, Transition
    <2>3. QED BY <2>1, <2>2 DEF Choice!vars, Decided
  <1>3. CASE Decide
    <2>1. Decided /\ WriteState("committing")
      BY <1>1, <1>3 DEF Decide, At, Underway
    <2>2. switch'.state = "committing" /\ switch'.to = switch.to
      BY <1>1, <2>1, StateGoesOn DEF Decided
    <2>3. QED BY <2>1, <2>2 DEF Choice!vars, Decided
  <1>4. QED BY <1>2, <1>3

\* SwitchesAtomically: however often helper, installer, runner and host stop, the profile
\* in force changes in the one step that records the runtime commit, and only then.
THEOREM ImplementsProfileChoice == Spec => SwitchesAtomically
  <1>1. Init => Choice!Init
    BY DEF Init, Idle, Choice!Init, Decided
  <1>2. Agreed /\ [Next]_vars => [Choice!Next]_Choice!vars
    <2> SUFFICES ASSUME Agreed, [Next]_vars PROVE [Choice!Next]_Choice!vars
      OBVIOUS
    <2>1. CASE switch' = switch
      BY <2>1, IdleManifestStays, OtherwiseNothing
    <2>2. CASE switch' # switch
      <3>1. CASE InstallPrepares
        BY <2>2, <3>1, PreparingBegins DEF Choice!Next
      <3>2. CASE RecordCommitted
        BY <3>2, CommittingDecides DEF Choice!Next
      <3>3. CASE Clear
        BY <3>3, ClearingFinishes DEF Choice!Next
      <3>4. CASE RecordActivated \/ Decide
        BY <3>4, RecordingChangesNothing
      <3>5. QED BY <2>2, <3>1, <3>2, <3>3, <3>4, StateWriters
    <2>3. QED BY <2>1, <2>2
  <1>3. QED BY <1>1, <1>2, AlwaysAgreed, PTL DEF Spec, SwitchesAtomically, Choice!Spec
===============================================================================
