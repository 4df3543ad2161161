# The lifecycle transactions of qwen3.8-flash-next-dgx-spark in TLA+

The repository installs, serves, upgrades and removes one large model on one
machine. What it is responsible for is, first, a set of scripts that replace things
that must not be lost (a running container, an installation manifest, a release
pointer, a settings file with its proxy and its unit, hundreds of gigabytes of
checkpoints) and that may be killed, rebooted or retried between any two commands;
and second, a chain of tools that builds a checkpoint out of two others, and the
patches and probes with which its outputs were made repeatable. This directory models
those parts, checks them with TLC and proves the central ones correct with TLAPS.

## Inventory

| component | state it keeps | operations | who calls it | what makes it correct |
|---|---|---|---|---|
| runtime replacement, `runtime/runtime-transition.sh` | `runtime-transition.env` (phase, had-previous), containers `qwen38-flash-next` and `….rollback` | prepare, candidate-started, validating, commit, rollback, abort-protected, recover | service runner; profile switch; operators | one runtime at a time; the previous one survives until a validated candidate is adopted; every crash point is recoverable |
| managed service, `runtime/service-runner.sh`, `runtime/monitor-runtime.sh`, `runtime/serve.sh`, `service/manage-service.sh` | `runtime-commit.env` (attestation), `runtime-stop.env` (stop marker), the systemd unit | start, probe, commit, follow, protected stop, trap, restart | systemd; installer; operators | the attestation is true; protection ends the service instead of restarting the same load; start-up ends; helpers take turns |
| profile switch, `lifecycle/profile-switch-transition.sh` | `profile-switch-transition.env`, `install.env` with its backup and candidate | prepare, activate, runtime-committed, commit, rollback, recover, service-recover | `install.sh`; service runner; operators | the switch is decided in one step or given up; the previous manifest is kept; no artifact without a transaction |
| operation lock, `lib/operation-lock.sh` | an `flock` on `operation.lock`, inherited through a descriptor and an environment | acquire, inherit, probe | every mutating script | one operation at a time; it does not refuse its own helpers; it comes back |
| settings transaction, `lifecycle/settings-transition.sh` | `settings-transition.phase`, backup and target manifests, their digests, markers of the activity before; `install.env`, the proxy units, the service unit | prepare, apply with its ERR trap, commit, rollback, recover | `install.sh`, operators | manifest, proxy and unit change together or not at all; no boot serves what is not decided; a deferred change does not touch the runtime |
| releases and update, `lifecycle/update-transition.sh`, `release-manager.sh`, `update-release.sh`, `qualify-release.sh`, `bootstrap-release.sh` | `releases/`, `qualified/`, `current` and `previous` links, `update-transition.env` | stage, qualify, activate, discard, swap; prepare, commit, rollback, recover; the cut-over of the service | operators, `install.sh` | the links never dangle; a pending update can always be taken back; it ends with its target or with both links as they were; the service runs what the link names |
| asset ownership, `lib/asset_ownership.py`, `uninstall.sh` | `asset-ownership.json`, the ownership flags of `install.env` | bootstrap, track, verify, purge, forget | `install.sh`, `uninstall.sh` | only what was created here, and is unchanged, is removed, dependents first; a purge can be repeated |
| model root, `model/relocate_model_root.py`, `model/migrate_orcarouter.py` | `./model`, `./models`, `$HOME/models` as directories or links | relocate with its undo, migrate | operators | no checkpoint is lost; a failed move is undone; a killed one can be repeated |
| checkpoint preparation, five `model/prepare-*.py`, `validate-orcarouter-hybrid.py`, `prepare-orcarouter-hybrid.sh` | a directory per stage: shards, links, index, config, manifest | build, reuse, force | `install.sh`, operators | an accepted stage is whole and holds the tensors it promises; its config fits them |
| repeat probes, `diagnostics/h20-nvfp4-moe.py` and the recorders patched into the server | a trigger file, a request file, the recorder's memory, the log | number, arm, send, disarm, collect; record, compare, print | operators | a report is about its own requests; leftovers of others do not stop it |
| canonical order, `patch-v029-marlin-canonical-order*.py` | none | repair, compare | the server | the order after a repair is a function of the routing |
| state file parser, `lib/state_file.py` | none | parse against a schema | all of the above | a file is data: known keys, known values |
| installer and wizard, `install.sh` and its libraries | `install.env` | plan, phases, resume, switch | operators | resumes where it stopped |
| swap, storage, doctor, benchmarks, vendored code | files of their own | single commands | operators | not protocols of their own |

The components meet in three places. The **runner** calls the runtime helper,
recovers an interrupted profile switch before it reads `install.env`, and writes
the attestation that the profile switch demands as proof. The **installer** holds
the operation lock while it drives the profile switch and restarts the unit,
whose runner therefore finds the lock busy and defers recovery to it.
**systemd** stops whichever container has the current name, kills the runner with
its helper and its monitor, and starts the runner again after a failure.

Hard behaviours, each listed at its line under `hazards` in `PROJECT.json`: a kill
or a failing docker command between any two writes; a reboot; recovery that is
itself interrupted and retried; two callers of a helper that does no locking; a
monitor that samples, marks and stops by *name*; a stop that races the trap of
the script being stopped; state read once and acted on for minutes; a rollback that fails in its turn; an
owner who puts his own files where the installer's were; a stage whose sources changed
under it; a recorder that outlives the tool that armed it.

## Modules

| module | models | lines of thought |
|---|---|---|
| `RuntimeReplacement` | what a replacement promises | an accepted runtime, a candidate, one atomic `Adopt` |
| `RuntimeTransition` | `runtime-transition.sh` | one action per docker command or file write |
| `ServiceRunner` | runner, monitor, unit; extends `RuntimeTransition` | the same helper actions, now called by the runner |
| `ServiceRunnerProofs` | theorems about both | two inductive invariants, safety, an action property, refinement on two levels |
| `ProfileChoice` | what a switch promises | a profile in force, `Begin`, `Decide`, `Finish` |
| `ProfileSwitch` | profile switch, installer, runner, lock | the runtime replacement inside it is the atomic one |
| `ProfileSwitchProofs` | theorems about it | inductive invariant, safety, refinement |
| `ReleaseChoice` | what an update promises | a release in force, `Move`, `Begin`, `Commit`, `GiveUp` |
| `ReleaseUpdate` | release store, update transaction, cut-over, installer's advance | a command is the sequence of writes it has left |
| `ReleaseUpdateProofs` | theorems about it | inductive invariants, safety, an action property, refinement |
| `OperationLock` | the lock, the scripts that share it, sudo, the monitor | an `flock` belongs to an open file description, which outlives who opened it |
| `OperationLockProofs` | theorems about it | inductive invariant, an invariant, an action property |
| `SettingsTransition` | settings transaction, its helpers' changes to proxy and unit | a command is the sequence of steps it has left |
| `SettingsTransitionProofs` | theorems about it | two inductive invariants, three action properties |
| `AssetOwnership` | registry, `install.sh` and `uninstall.sh` as its callers, the machine's owner | who made what is on the disk is known to the model and not to the code |
| `AssetOwnershipProofs` | theorems about it | inductive invariant, three action properties |
| `ModelLocations` | relocation and migration of the model root | two tools without a common lock on one tree of directories and links |
| `CheckpointChain` | five preparation tools, validator, driver | a tensor is named by the checkpoint it comes from |
| `ModelAssetsProofs` | theorems about `ModelLocations` and `CheckpointChain` | two inductive invariants, three invariants, two action properties |
| `RepeatProbe` | repeat probes and the recorders in the server | two files and a log between two processes |
| `RepeatProbeProofs` | theorems about it | two inductive invariants, two invariants |
| `CanonicalOrder` | repair and comparison of the token order | functions of a routing, checked against a reference |
| `MC...` | – | instances for TLC and the narrowed specifications of the violated statements |

**RuntimeTransition.** `current` and `preserved` are the containers that have the
two names; `phase` and `hadPrevious` are the state file, `phase = "idle"` its
absence. A caller's invocation is a program counter `step[p]` with the
`HAD_PREVIOUS` it loaded, and a last exit `status[p]`; `Invoke` are the helper's
seven entry points with their refusals, `Proceed` the commands that follow, up to
and including one that changes something. `Interrupt` stands for a kill as
well as for a docker command that fails under `set -e`. The helper has no lock:
`Serialized` says whether callers see to it that invocations never overlap.
Only the caller contract of the source is assumed: a container is served under
the current name after `prepare` (`Serve`), and `abort-protected` is called for
a stopped candidate (`AbortCalled`). A container id that was removed may be used
again, which lets three ids stand for any number of attempts.

**ServiceRunner.** `at` is the runner's place in the script and `Fail` its `ERR`
trap: roll back in an active transition, only forget the attestation in an
inactive one, exit when no trap is set. `watch`/`watched` is the monitor:
decide on a sample, write the marker, stop by name, as three steps. `unit` is
systemd, an external program modelled by what the unit file asks of it:
`ExecStop` runs on an operator's stop and after a *clean* exit (not after a
failed one), the control group is then signalled, and `Restart=on-failure`
starts the runner again unless the stop was asked for. The module extends
`RuntimeTransition`, so the helper is not modelled twice; `DrivesTransition`
checks that the runner's use of it is a behaviour of `RuntimeTransition!Spec`.

**ProfileSwitch.** `install`, `backup` and `candidate` are the three manifests, with
the two fields that the protocol reads, and `switch` is the state file; the
digests in it are represented by the manifests they are digests of. `lock` is the
holder of the operation lock, `step` the next write of the helper that the holder
runs, `cli` the installer or an operator's command, `runner` the service. `CliKilled`
has the two outcomes the source allows: the helper dies with its parent, or
lives on and keeps the lock through the inherited descriptor. Taken from the
modules before it: the runtime replacement is the atomic one that
`RuntimeTransition` is shown to implement (`PutBack` is its recovery), and the
attestation is a Boolean about the current container, which is what
`AttestationTruthful` establishes. Containers are told apart by the profile
they serve. The release a manifest names does not change in a switch
and is left out.

**ReleaseUpdate.** `current` and `previous` are the links, `intact`, `partial` and
`qualified` the store, `update` the state file with the two links it remembers. Every
command looks at the store once and then writes, so a command is its program: `todo`
is the sequence of writes it has left, `subject` its argument and `saved` the release
that was current when it began. The guards of a command are its checks before the
first write; a command they refuse changes nothing and is not a step. All commands
hold the operation lock, and `at` says who does: nobody, an operator's command,
`update-release.sh` at one of its places, or an orphan. `HelperFails` stops a
command between any two writes. `ScriptKilled` kills the script above it, and then
either the helper dies too or goes on as an orphan with the lock it inherited. An
orphan finishes the writes of its own process only (`Own`): the next helper checks
that the owner of the lock is among its ancestors and refuses. `serving` is the
release whose runner systemd runs. A release verifies or does not; what is in it is
left out.

**OperationLock.** A process has a place in `acquire_operation_lock` (or in the
`operation_lock_busy` that comes before it in `service-recover`), what it was told of the lock
by its environment (`owner`, `context`), and the description its descriptor refers to (`fd`,
named by the process that opened it). `lock` is the description that the file is locked on.
`RunHelper` copies all three, and through sudo all but the descriptor; `LeaveMonitor` is
`serve.sh`, whose monitor keeps the descriptor. `Exits` unlocks when nobody is left who has it.
What the kernel does is external: a process id is not given again while somebody alive
remembers it. `pending` is `settings-transition.phase`, which the guard asks for, and `other`
the state file of the other transactions.

**SettingsTransition.** `todo` is the sequence of steps a command has left, each a verb
with its argument: save an artifact, write the phase, copy a manifest, change the proxy or
the unit, verify, clear. The plans (`ProxySteps`, `ServiceSteps`, `RestoreSteps`, ...) follow
the functions of those names and are drawn up when a command starts: what they ask of
the units and the markers nobody else changes. `mode` says what a failing command
means: the end of the script (`set -e`), the ERR trap of `apply`, or, inside that trap, the
next command, since the trap has said `set +e`; there a step that belongs to a helper
takes the rest of that helper with it (`AfterChild`). When `restore_backup` cannot read the
target manifest, it puts back `install.env` alone, verifies nothing and clears the transaction
(`RestoreUnread`); `blind` remembers that this has happened. `die` is an exit, of which no trap is
told (`Dies`). The runner, an operator's `systemctl start`, the end of the runtime and a
reboot run beside it. A manifest is four fields, so that a change of each can be told
from a change of the others.

**AssetOwnership.** `registry` is the JSON file, `disk` what is at each path or image name,
reduced to the evidence the code looks at (no manifest, `downloading`, `complete`,
an image id), and `maker` who put it there. `phase` and `left` are the place of the running
operation and the assets it has still to treat, in any order the code does not fix;
`IsLeaf` is the order of a purge. An `rm -rf` is two steps, for it may delete the managed
manifest before the rest of the directory (`EmptyModel`, `Remove`). `UserRemoves` and `UserPuts`
are the owner between two operations; he may put something wherever nothing is. What he puts
at a path that still counts as installed is marked `contested` in `maker`: under a bare claim,
which `track_model` binds to whatever managed manifest it finds and `_verify_model` passes
with any, and at a path that `install.env` still flags although the registry forgot it. A
later purge deletes it, and `OnlyOursRemoved` excepts it, and nothing else of his.

**ModelLocations.** Two roots with the directories in them, `linked` and `legacy` the two
links, `relocation` and `migration` the places of the two tools. An exception in the
relocation is caught and undone change by change (`Undo...`); a kill is not.

**CheckpointChain.** A stage's directory has its files, its index, its config and its manifest.
A build is the list of what it has still to write, in the order of the tool; the files of one
loop are one item with a set of names, and which of them is next is left open. `Read` follows
the links through the directories that a container has mounted. `Expected` says what a
stage is to hold, tensor by tensor and without shards, so that a tool's arithmetic on
indices is checked against something that does not repeat it. `suspect` is a history variable,
unknown to the code: a stage is suspect when a forced build was killed while it emptied it, or
when it was made of a suspect stage or, an H4, of an H3 with another revision of the overlay
than the pinned one; building it anew or removing it ends that. The properties speak of the
stages that link to no suspect one. Both cases are needed and no other: see Further disagreements.

**RepeatProbe.** `files` are the trigger and the number, `mem` and `log` the recorder's memory and
the container's log, `pass` the forward pass that runs, stage by stage, `probe` the tool. The log is
a set: each record names the pass that printed it, so that the last record of a number, which a
later one replaces in the tools' tables, is the one of the greatest pass. The eight
kinds of recorder differ in when they compare, what they keep and what their tool demands
of a report; one instance looks at each. A tensor is named by the request whose pass it is.

**CanonicalOrder.** `Pass` aligns (what vLLM does, external), repairs where the installed patch
does, and records. `Canonicalize` is the patch's sort by key over the full blocks; `Canonical`
says what should come out of it, from the routing alone.

## Runs

| run | what it shows |
|---|---|
| `runtime_transition` | the helper under interruptions, failing commands, crashes of containers and reboots, callers taking turns: `AtMostOneRunning`, `NoOrphanedRollback`, `RefusalLosesNothing`, `PreviousSurvives`, the action property `DecisionIsFinished` (a recorded commit or rollback is carried to its end by whoever is not interrupted; while the rollback container is there that end is the previous runtime, even of a commit, as the tests of `recover` expect), and `ReplacesAtomically`, the refinement of `RuntimeReplacement` |
| `runtime_recover_wedge` | `AlwaysRecoverable` is violated, see Findings |
| `service_runner` | runner, helper, monitor and unit together: `AttestationTruthful`, `QuietStop`, `ServedProtectionIsFinal`, `HelpersTakeTurns`, `DrivesTransition`, and the liveness property `StartupEnds` |
| `profile_switch` | installer, operator, helper, runner and lock: `NoOrphanArtifacts`, `PreviousManifestKept`, `CutoverUndisturbed`, the liveness property `LockIsReleased`, and `SwitchesAtomically`, the refinement of `ProfileChoice` |
| `release_update` | commands, cut-over, orphans and the service together: `LinksResolve`, `UpdateReleasesKept`, `ServiceFollowsLink`, the action property `EndsEitherWay`, and `UpdatesAtomically`, the refinement of `ReleaseChoice` |
| `settings_transition` | every command of the transaction and of its helpers failing, the script killed, the host rebooted, the runtime ending or started by hand, the target unreadable to a restoration: `BootServesCommitted`, `SettledEitherWay`, `DeferredIsQuiet` |
| `operation_lock` | three processes that take, inherit, probe and lose the lock and are killed at any point: `OneOperation`, the action property `HelpersAreServed`, and the liveness property `LockComesBack` |
| `asset_ownership` | installations of two profiles, interrupted anywhere, an owner who removes and replaces assets, purges: `OnlyOursRemoved`, `DependentsGoFirst`, `PurgeCanResume` |
| `model_locations` | relocation, migration, downloads and containers side by side: `NothingLost`, `FailedMoveIsUndone`, `MigrationCanResume` |
| `checkpoint_chain` | builds killed (also while they empty a stage), resumed, forced, with sources, revisions of the overlay and earlier stages removed or replaced: `AcceptedStageIsWhole`, `ConfigFitsTensors` |
| `repeat_probe` | tools cut short or killed, restarts, users' requests, an old log: `ReportIsOwn`, `QuietProbeReports` |
| `canonical_order` | every routing, order, block size and padding within the bounds: `RepairedOrderIsCanonical`, `OrderOnlyIsExact` |

A type invariant stands in each of the modules with state of many parts. Those of
`RuntimeTransition`, `ReleaseUpdate`, `AssetOwnership` and, within `SpecTrusted`, `OperationLock` are
proved; the others are documentation of the state.

Every property of a passing run has a mutant in `PROJECT.json`: a definition of
the model changed the way a slip in that code would change it, on which TLC finds
the property violated. The mutants stand in the modules next to what they change.

**Bounds.** Three container ids: the previous runtime, a candidate, and a third
for a candidate of the next attempt or for the container an old marker names;
all three can exist only one after the other, since there are two names. Two
callers: the hazard of the helper is the *overlap* of two. `Attempts = 1` where the code
has 180: the readiness loop still has a first, a last and no further turn. Three
profiles: from, to, and one that belongs to neither, so that a leftover of
another switch can be told apart; the manifest run needs two. Three
releases: where an update comes from, where it goes, and what `previous` named before,
so that a link restored to the wrong one is told apart. They are a symmetry set: no
property of that run is a liveness property, and no release is named in the model. No other bound
exists in these four: no counter grows, so retries, crashes and reboots are unlimited.


`OperationLock` has three processes: two generations of helpers under an outer script, or a
script, its helper and a contender. `OperationLockFour.cfg` checks the safety properties for
four, with symmetry, and the proofs are about any number.

The newer modules: `SettingsTransition` has six manifests, which differ in one or several of
the access to the API, the service, the owner of the configuration and a tuning value, so
that the installation may begin with each and change to each other. `CopyFailsInTrap = FALSE`
excludes one failure in one place (see Further disagreements). `AssetOwnership` has a
downloaded base, a stage built from it and an image with two possible ids: a dependency, a
drift and a replacement each can happen. `ModelLocations` has the checkpoint, one other
stage and two names for backups, one more than a repeated migration takes.
`CheckpointChain` has three shards, so that a stage has a first, an inner and a last one, and one
build that fails or is killed between two files (`MaxStops = 1`); what it leaves is then resumed or forced without
limit. A build that is killed while it empties its stage has removed at most one entry of the
directory, any one (`MaxLost = 1`). There are two revisions of the overlay, which lay out their
tensors differently. The BF16 stage and the chain's are not there at the same time
(`Together`): no tool of the one reads the other. `RepeatProbe`: three requests and
as many kept, so that those of an earlier tool are dropped; three tools, two faults and two passes
of users, enough for a tool to find what two earlier ones left, and `Shared = FALSE`: users
send between tools, as the guide asks. `CanonicalOrder`: two experts here and one elsewhere,
blocks of one and two, three tokens, so that a block is full, padded, or not used.

**Deadlock** is checked, except in `repeat_probe` and `canonical_order`, whose counts run out, and in
the narrowed configurations, where only the steps of one story are left: they may stop and
say `CHECK_DEADLOCK FALSE`.

**Fairness.** `ServiceRunner` assumes weak fairness of the runner, its helper and
systemd: they are processes the kernel schedules, and every wait of theirs is a
docker command or a bounded loop. It assumes nothing of the monitor, the operator,
failures or reboots, and nothing of the container, whose end `ContainerGone`
waits for only after start-up. `ProfileSwitch` assumes it of the installer (its
one wait, for the restarted service, is bounded, and giving up is the EXIT trap),
of the helper, and of the runner's recovery. It assumes nothing of the rest of the
runner, so `LockIsReleased` does not depend on the service being there. `OperationLock` assumes weak
fairness of `acquire_operation_lock`, which waits for nothing (`flock -n`), and strong fairness
of the end of a script: it is disabled again and again by the helpers it runs, and a script
runs finitely many of them. A monitor is not assumed to end. In both modules a script with the
lock may sit at a prompt or in a download of hours; the assumption is that these end too, the
prompt by an answer or the terminal's hang-up and the download by its own retries running out.
`LockIsReleased` and `LockComesBack` say nothing of how long that takes. The other modules
assume none: everything said of them is safety.

## Proofs

The first part of `ServiceRunnerProofs` proves of the helper, for every set of containers and
callers:

* `TypeCorrect`: `Spec => []TypeOK`, with no assumption on the callers.
* `SafeInTurnHolds`: `Spec => []SafeInTurn` under `TakeTurns`: callers serialise
  their invocations (`Serialized`), or there is only one. None of the safety
  properties is inductive: that `clear` leaves no orphan, for instance, depends on
  the docker commands that came before it in the same invocation. `SafeInTurn` adds
  `Resting`, what holds between any two steps whoever was interrupted, and
  `InTurn`: at most one invocation is under way, the `HAD_PREVIOUS` it loaded is
  still the one in the file, and `Reached(step)`, what its steps so far have
  established. One lemma per group of actions shows that it is preserved.
* `OneRuntimeRuns`, `RollbackIsNeverOrphaned`, `RefusalsLoseNothing`,
  `PreviousAlwaysSurvives`: the safety properties of the run, each following
  from `SafeInTurn` alone.
* `DecisionsAreFinished`: the action property, from `SafeInTurn` and one lemma for
  each of its parts: `DecidedNotRefused`, `DecidedCompletes`, `DecidedOutcome`.
* `ReplacementImplemented`: `Spec => Replacement!Spec`, by mapping every step to
  a step of `RuntimeReplacement` or to a stutter. `accepted` is the preserved
  container, or the current one outside a first start; dropping the preserved
  container is the one step that maps to `Adopt`.

`TakeTurns` is what the callers owe. For the service alone the second part discharges it.
It is *not* kept when an operator runs `recover` beside the service, or when `rollback_to_previous` of a profile switch undoes a replacement
whose runner is still at work; `RuntimeTransitionRace.cfg` shows what is then lost.

The second part proves, of the service as the only caller and without an assumption on
how often it is restarted, killed, stopped or protected:

* `ServiceSafeHolds`, `ServiceSpec => []ServiceSafe`: `SafeInTurn` together with `RunnerSafe`,
  which relates the runner's place to what its helper is doing. A killed runner leaves its
  helper at work in the control group, and the unit counts as failed only when that is gone
  (`OneAtATime`, `Awaited`); at each place `Placed` says which phase the runner may find;
  `Attested` and `Quiet` say when an attestation is on the disk and when nothing may run; and
  `Watching` what a sample of the monitor is worth once it acts on it.
* `ServiceDrivesTransition`, `ServiceSpec => DrivesTransition`: every step is one of
  `RuntimeTransition` or leaves its variables alone. With it, all that is proved of the helper
  holds of the service (`ServiceLosesNothing`), down to the abstract replacement
  (`ServiceIsAtomic`): three levels, from systemd's restarts to one atomic `Adopt`.
* `HelpersAlwaysTakeTurns`, `AttestationsAreTrue`, `ProtectedStopsAreQuiet` and
  `ServedProtectionAlwaysFinal`: the safety properties of the run.
* `CallsAlwaysWelcome`: the guards of `Invoke` that the code does not have (the caller
  contract above) never hold the runner back.

`ReleaseUpdateProofs` proves, for every set of releases and
without an assumption beyond that a missing link is no release:

* `TypeCorrect`, `LinksAlwaysResolve`, `UpdateAlwaysReversible`: the state, the links and
  the releases of a pending update. A command acts on what it checked before its first
  write, and may by then be an orphan; the invariant behind these, `ReleasesSafe`, says
  for whatever is left in `todo` that the next write still finds what it needs
  (`Established`): a discard that has begun excludes a pending update, and the argument
  of an activation verifies.
* `UpdateEndsEitherWay`: `Spec => EndsEitherWay`, from `EndingSafe`, which adds the order
  of the writes that undo (`InOrder`).
* `ServiceAlwaysFollowsLink` and `ChoiceImplemented`, `Spec => Choice!Spec`, from
  `RecordSafe`, which adds what each place of `update-release.sh` may rely on
  (`Recorded`): it takes back and commits only an update that is recorded. `RecordPreparing`
  maps to `Begin`, `ClearUpdate` to `Commit` or `GiveUp`, and a link written outside an
  update to `Move`.

`ProfileSwitchProofs` proves, for every set of profiles and with no assumption beyond that
`NoProfile` and `NoFile` are neither profile nor manifest:

* `ArtifactsHaveAnOwner`, `WayBackIsKept` and `CutoverIsLeftAlone`, from the inductive
  `Agreed`. None of them is inductive: the state file does not say how far the writes of a
  killed helper came. `Manifests` says which files may be where in each state, `Underway`
  what the next write of the helper finds, `Driven` what `install.sh` relies on at each of its
  places, and `Holding` who has the lock and so why nobody else writes. That a target is only
  ever proved while its manifest is live (`ProvedIsLive`) is what makes the commit safe.
* `ImplementsProfileChoice`, `Spec => Choice!Spec`: `InstallPrepares` maps to `Begin`,
  `RecordCommitted` to `Decide`, `Clear` to `Finish`, and every other step, a crash included, to
  a stutter (`StateWriters`, `IdleManifestStays`).

`OperationLockProofs` proves, for any number of processes, under the assumption that
`NoProcess` is none:

* `OneOperationAtATime`, `Spec => []OneOperation`, from the inductive `Trusted`. A process
  believes in the lock because it has the descriptor or because it was told of an owner;
  `Held` says that a descriptor is of the description that is locked, and that an owner that
  is alive has the lock open. That the lock outlives its owner in a helper, and that an
  owner's id is not given again, is what makes it inductive (`ExitsTrusted`, `BirthTrusted`).
* `NoHelperIsLockedOut`, `Spec => HelpersAreServed`. It needs `Descent` too: an owner is the
  parent or the parent's parent, which is where `operation_lock_owner_is_ancestor` finds it,
  and what a settings transaction runs has its context.

`AssetOwnershipProofs` proves, for any assets, dependencies and profiles:

* `TypeCorrect`; `PurgesCanResume` and `DependentsAlwaysGoFirst`, both from `Ordered`: all that a
  full purge has left but the directory in hand passes the preflight (deleting assets and
  forgetting entries only makes it easier: `PreflightShrinks`), its plan stays everything that
  is owned, and what a partial one has still to delete stays unneeded. `PurgeCanResume` speaks
  of the state after each step, so of what a kill leaves: a model directory that lost its
  manifest in the middle of an `rm -rf` is what the next preflight refuses
  (`asset_ownership.py:337-340`), until its owner deletes it.
* `OwnersAssetsAreKept`, from `Honest`. The property is about one step, its reason is the whole
  history: an owned entry whose asset the owner has replaced is bound to a different
  fingerprint (`Drifted`), a flag of `install.env` without an entry is of nothing he made but
  what is contested, and each phase relies on what an earlier one has compared (`Vetted`).
  `AssetAdoption.cfg` shows how what is contested becomes owned.

The last part of `ModelAssetsProofs` proves of `ModelLocations`, for any sequence of names for
backups that are distinct from the two stages:

* `LocationsTypeCorrect`, `MigrationsCanResume`, `FailedMovesAreUndone` and `NothingIsLost`, from the
  inductive `LocationsSafe`. The tools share no lock, so neither may assume that what it has
  found stays where it was. What does stay: where a relocation is says where the root is
  (`RootPlaced`), a link into the destination goes before the destination does (`Pointed`), and a
  migration under way has its complete checkpoint at `./model` or in a root (`Kept`).
* `NothingLost` counts copies: the places that hold a content after a rename are mapped one to
  one onto those that held it before (`RootCount` for a whole root).

`SettingsTransitionProofs` proves, for any set of manifests (`partial`, the model's word for
one proxy unit of two, being no access a manifest can ask for):

* `SettingsSafe`, `Spec => []SettingsInv`. What a step may rely on is what the command has done
  before it, and the plan no longer says that: only what is left of it is in `todo`. So the
  proofs name a step by the number of steps *after* it (`FromEnd`), which neither the steps
  done nor those skipped in the trap change. Six shapes say which steps may be left
  (`PrepareShape`, `ApplyShape`, `RestoreShape`, `UnreadShape`, `FinishShape`, `ClearShape`), each
  closed under taking an end of it (`ApplyEnd`, `RestoreEnd`, ...), and `Preparing`, `Applying`,
  `Restoring`, `Unread`, `Finishing`, `Clearing` what holds of the files, the phase and the unit while they are.
  That the plans have these shapes is shown for all of them, whatever is installed
  (`ApplyPlan`, `RestorePlan`, `FinishPlan`, `PreparePlan`).
* `TypeCorrect`, and `DeferralsAreQuiet`, from `Quiet`: every step left of a deferred
  transaction leaves the runtime alone, and a transaction that may not touch the service
  finds none installed unless it keeps one.
* `SettingsSettle`, and from it `BootAlwaysServesCommitted` and `SettlesEitherWay`, under the
  assumption `CopyFailsInTrap = FALSE`; `SettingsTrap.cfg` shows that it is needed. `Settled`
  says what a restoration is good for: the manifest is back before any unit is touched, where
  the phase is still `preparing` nothing is to be changed, and where the files are about to be
  cleared everything agrees with one manifest, or, after a restoration without the target, the
  manifest is the backup. The trap skips what fails, so each of these
  rests on the check that comes last (`CheckedAgrees`). `apply` is the other half: it
  exchanges `install.env` only after the unit is disabled and never enables it (`ApplyHides`).

The first part of `ModelAssetsProofs` proves of `CheckpointChain`, for any modules, any shards
any layout of the tensors in them, any revisions of the overlay and any number of builds killed anywhere:

* `ChainOnCourse`, `Spec => []ChainInv`. `FilesOf`, `IndexOf` and `ConfigOf` say what a stage is
  to be, as functions of the sources and not of the directories: a delta is written in terms of
  what the stage before it is to be. `Whole` says that a stage with a complete manifest that is not
  suspect is just that; `Working` that a build on a stage that is not doubtful is on its way there,
  and `DoubtIsMarked` that any other makes its own stage suspect: whatever is no longer in its plan has been
  written (`Written`), the manifest is the last item and the stage before it is done (`Founded`).
  `WritesPlanned` shows that both orders of writes are such plans, `RestPlanned` that a write takes
  one name out and leaves the rest, `Matches` that a tool which reads a whole stage makes what
  the next one is to be. The plans make the proof independent of how many shards there are:
  no step of it is an induction over them.
* `AcceptedStagesAreWhole` and `AcceptedConfigsFit`, with no assumption. That a stage is `Whole` says nothing yet about its
  tensors: `BFRight` to `H5Right` show of the index that it sends each name to a file which has
  it and from the right checkpoint (that no two tensors of the base get one name in H4 is
  `RenamedApart`), and `ReadsBF` to `ReadsH6` that a reader who follows the links finds that file.

`RepeatProbeProofs` proves, for each recorder, any number of tools, faults, restarts and users'
passes, any number of repeats and any capacity of the recorders, under three assumptions: users
do not send requests while a tool runs (`~Shared`), a recorder keeps as many requests as a tool
sends (`Repeats <= Kept`; in the code 2 to 8 of 16 or 8), and the single and twin tools do not
start while a pass runs.

* `ReportOwn`, `Spec => []ReportIsOwn`, from the inductive `OwnInv`. A tool reads its own records
  out of a log that others wrote to, by number alone, so the proof follows the numbers: those in
  the log are below the tool's (`StartIdIs`), those still in memory or in the file at most reach
  into them (`Bounded`), where the tool's own requests replace them in the order of their
  numbers. `Course` says what the files hold in each phase and whose pass
  runs, `Underway` which stages of the request in hand are already in the recorder, and `Paired`,
  `Once` and `BothLatest`, one for each way of printing, what memory and log have of the requests
  that are answered. That a tool which finds as many pairs as it wants has found its own is a
  matter of counting: its requests have that many pairs (`OwnPairCount`), all of them are there,
  and no others fit (`AllPairsOwn`).
* `QuietReports`, `Spec => []QuietProbeReports`, for two repeats at least, from `QuietInv`. Here
  the log must have nothing else under the tool's numbers (`Clean`). A recorder that holds a
  number which the log does not know makes the next tool print one pair too many. `ModularHeld`
  says that modular's holds none as long as there is no fault; marlin's prints only when there is
  something to compare with, so its first request is always such a number, and `Firsts` says
  that it is the only one and the next tool's own; `Counted` how many faults lead to another.

The assumptions are needed: with `Shared = TRUE`, or with single or twin in `Slow`, TLC finds
`ReportIsOwn` violated, and with `Repeats = 1` or a recorder that keeps too few
`QuietProbeReports`.

In `ReleaseUpdate` and `AssetOwnership` the operation lock is taken for granted: one command at a time is the shape of the
model. It is what `OneOperationAtATime` says of scripts that the lock covers; the two modules
do not have the exception, a child under sudo whose script was killed.

Only model-checked: the liveness properties (`StartupEnds`, `LockIsReleased` and the like: fairness
and `ENABLED` are out of TLAPS's reach), and everything in `CanonicalOrder`, whose
properties are about what folds and sorts compute for every input, which is induction
over data. A violated property (`SettingsRollback.cfg`
and the others under [Findings](#findings)) has no theorem, of course.

## Findings

1. `runtime_recover_wedge`: `recover` of a phase between `previous_preserved` and
   `validating` restores the previous container without first recording that it
   does. Killed between the rename and the removal of the state file, it leaves a
   state that every later `recover` refuses, with the previous runtime in place under
   its own name. `RefusalLosesNothing` shows that nothing is lost in any refused state.

### Further disagreements

Each was met while modelling; the configuration named states what a guide, a comment or a
message says, and `tlc -config <cfg> <module>` finds it violated. They are kept beside the
runs as a record.

| configuration, module | what is violated |
|---|---|
| `RuntimeTransitionRace.cfg`, `MCRuntimeTransition` | nothing serialises `recover`; of two overlapping ones the second may remove the container that the first has just renamed back |
| `ServiceProtectedStart.cfg`, `MCServiceRunner` | memory protection during a start ends the service successfully only when the stop is noticed in the readiness loop; noticed by any other command of the start it is rolled back as a failure and systemd tries the same start again |
| `ServiceStopped.cfg`, `MCServiceRunner` | stopping the unit during validation stops the candidate; the runner's TERM trap then rolls back and starts the previous container, which goes on without a unit |
| `ProfileSwitchManifest.cfg`, `MCProfileSwitch` | an installer interrupted while it waits restores the old manifest, but the runner it restarted has already read the new one, and commits and attests the new profile's container beside the old manifest |
| `ReleaseUpdateFailure.cfg`, `MCReleaseUpdate` | `update-release.sh` promises to roll back on failure, but its trap does so only once `prepare` has returned; a failure or a signal before leaves the update pending, with the link possibly moved |
| `ReleaseRollback.cfg`, `MCReleaseUpdate` | `release-manager.sh rollback` is announced as atomic and replaces two links one after the other; killed in between, both name one release |
| `AssetBinding.cfg`, `MCAssetOwnership` | `scripts/model/README.md` says that a claimed checkpoint is finalized with its manifest's digest "after completion"; an interrupted download has a manifest too, and `_marker` does not look at its status, so the claim is bound to it and the finished download counts as drift |
| `AssetAdoption.cfg`, `MCAssetOwnership` | `docs/ARCHITECTURE.md`: reusing an existing asset never upgrades it to owned. After a partial purge `install.env` keeps its ownership flags; what its owner then puts at that path is tracked as owned by the next bootstrap |
| `SettingsRollback.cfg`, `MCSettingsTransition` | `docs/INSTALLER-PROFILE-MANAGER.md`: a rollback restores the backup manifest and its service. A service that was not active is given new settings with a start, and the new runtime does not come up. `apply` has disabled the unit before it activates the target; the rollback decides not to start the service, for which `apply_service_for_prefix` returns before it would enable the unit again, and then requires it to be enabled: it dies with the transaction kept, and so does every later `rollback` and `recover` |
| `SettingsTrap.cfg`, `MCSettingsTransition` | in the ERR trap failures are ignored: when the copy of the backup manifest is the one that fails (a full disk), the transaction is cleared with the target live and boot enabled |
| `OperationLockOrphan.cfg`, `MCOperationLock` | `STATE-FILES.md`: covered mutations cannot overlap. When the script that has the lock is killed, the helper that it runs under sudo has the environment of the lock and not its descriptor: the lock is free, and the next script works beside it |
| `OperationLockGuard.cfg`, `MCOperationLock` | `docs/INSTALLER-PROFILE-MANAGER.md`: a settings transaction cannot overlap profile, update or runtime transitions. `acquire_operation_lock` reads the guard before it takes the lock; a settings transaction that is prepared, and gives the lock back, in between is not seen |

Seen while reading or by changing a constant, without a configuration of their own:

* `CheckpointChain`: `--force` deletes in the order of the directory; killed before it reaches
  the manifest it leaves a complete one beside missing shards, which `hybrid_manifest` accepts.
  And an H4 made on an H3 with another revision of the overlay does not say so: when the H3 is
  made anew with the pinned one, the H4 is reused and mixes the two. These are the two
  exceptions of `AcceptedStageIsWhole`; with `Trusted(stage) == TRUE` TLC finds either within
  seconds, the first with the pinned revision alone and the second with `MaxLost = 0`.
* `ModelLocations`: a relocation killed between the rename and the link refuses to
  be repeated, and after a relocation `migrate_orcarouter.py` refuses to be.
* `RepeatProbe`: Humming's recorder pairs each request with itself, so its tool never
  reports; with `Shared = TRUE` (users send during a probe) `ReportIsOwn` is violated.
* Settings: when `restore_backup` cannot read the target manifest it clears the transaction with
  the proxy and the unit as `apply` left them, the unit perhaps disabled, and reports a rollback.
  `SettledEitherWay` makes exactly this exception (`blind`); without it, it is violated.
* Settings: `commit` killed after it has removed the released configuration, then
  `rollback`: the manifest restored names a file that is gone. `verify_service_for_prefix`
  does not look at what `wait-ready.sh` says of a managed service. A `die` inside `apply`
  does not start the automatic rollback. One of two proxy units makes `create` refuse.

## Not modelled

Docker arguments, image contents, network traffic, checksums, prompts, colours and reports:
data or wording without control state. The sampling arithmetic of the monitor
(`ServiceRunner` lets it decide at any time a container runs). The wording and the
quoting of state files: the parser's schemas are the value sets of the type
invariants. First installation: `ProfileSwitch` and `SettingsTransition` begin with a finished
one. The release a settings change is made from, and the children of a settings script that
was killed under `sudo`: they end before the next command here. Of the operation lock: the creation of its
file and the checks of its owner and path. The tensors' numbers and the text surgery of the patches,
`h20-nvfp4-moe.py`'s runtime trace and router capture, the conversion diagnostics.
Benchmarks and vendored code: not part of the lifecycle.

## Plan

1. Done: `RuntimeTransition`, `ServiceRunner`, `ReleaseUpdate`, `ProfileSwitch`, `OperationLock`,
   `AssetOwnership`, `ModelLocations`, `SettingsTransition`, `CheckpointChain` and `RepeatProbe`
   with their proofs; `CanonicalOrder`, checked only.
2. An abstract settings choice that `SettingsTransition` implements: from `Settled`, the
   clearing of the phase file is the choice, every other step a stutter.
3. `ProfileSwitch` and `ReleaseUpdate` on top of `OperationLock` instead of a lock of their own,
   with helpers under sudo that outlive their script.
