-------------------------- MODULE SettingsTransition --------------------------
(***************************************************************************)
(* scripts/lifecycle/settings-transition.sh: new settings for a complete   *)
(* installation.  The manifest, the proxy units and the service unit are   *)
(* changed one after the other between a phase file and its artifacts, and *)
(* put back after a failure or an interruption.                            *)
(*                                                                         *)
(* A command is the sequence of steps it has left, todo, each a verb and   *)
(* its argument.  What a plan depends on (which units are installed, the   *)
(* markers) is changed by no one but the command itself, so it is drawn up *)
(* when the command starts.  The operation lock makes it one command at a  *)
(* time.                                                                   *)
(***************************************************************************)
EXTENDS Naturals, Sequences

CONSTANTS
  Manifest,          \* what install.env may say: records [api, service, config, tune]
  None,              \* no manifest, no container
  CopyFailsInTrap    \* may the copy of the backup fail while the trap ignores failures?

\* "partial" is one of two proxy units, which no manifest asks for.
ASSUME ManifestAssumption ==
  /\ None \notin Manifest
  /\ \A m \in Manifest : /\ m.service \in BOOLEAN /\ m.config \in {"managed", "custom"}
                         /\ m.api # "partial"

VARIABLES
  live,       \* install.env
  phase,      \* settings-transition.phase, "none" when there is none
  files,      \* the transaction's other artifacts
  proxy,      \* the access that the proxy units give; "local" without, "partial" with one of two
  unit,       \* the service unit
  container,  \* the settings the running container was started with
  config,     \* is the managed config.vllm.json there?
  todo,       \* the steps that the command at work has left
  mode,       \* "plain": set -e; "guarded": apply's ERR trap; "undoing": in that trap, set +e
  blind       \* history: has a restoration gone on without the target?

vars == <<live, phase, files, proxy, unit, container, config, todo, mode, blind>>

NoFiles == [backup |-> None, target |-> None, digests |-> {}, start |-> "none",
            active |-> FALSE, running |-> FALSE]

Backup == files.backup
Target == files.target
Starts == files.start = "start"
ProxyInstalled == proxy \notin {"local", "partial"}
-----------------------------------------------------------------------------
(* The plans.                                                              *)

Step(verb, arg) == <<[verb |-> verb, arg |-> arg]>>
Verb == Head(todo).verb
Arg == Head(todo).arg

\* apply_proxy_for_prefix: an existing proxy of the same access is left alone.
ProxySteps(desired, current) ==
  IF desired.api = "local"
  THEN IF ProxyInstalled THEN Step("proxy", "partial") \o Step("proxy", "local") ELSE <<>>
  ELSE CASE ProxyInstalled /\ desired.api = current.api -> <<>>
         [] ProxyInstalled /\ desired.api # current.api -> Step("proxy", desired.api)
         [] OTHER -> Step("proxy", "partial") \o Step("proxy", desired.api)

\* apply_service_for_prefix, with the steps of manage-service.sh.
ServiceSteps(desired, current, start, boot) ==
  IF desired.service
  THEN IF unit.installed /\ current.service /\ ~start THEN <<>>
       ELSE Step("unit", "install") \o Step("unit", IF boot THEN "enable" ELSE "disable")
            \o IF start THEN Step("unit", "stop") \o Step("unit", "start") \o Step("unit", "await")
               ELSE <<>>
  ELSE (IF unit.installed THEN Step("unit", "disable_now") \o Step("unit", "remove") ELSE <<>>)
       \o IF start THEN Step("standalone", desired) ELSE <<>>

Verify(of, start, enabled) == Step("verify", [of |-> of, start |-> start, enabled |-> enabled])

\* clear_transaction: one rm that takes the files in this order.
ClearOrder == <<"phase", "start", "active", "running", "backup", "target", "digests">>
ClearSteps == [i \in 1..7 |-> [verb |-> "clear", arg |-> ClearOrder[i]]]

\* apply and rollback leave the runtime alone when its restart was deferred and
\* the unit stays what it is.
Untouched == ~Starts /\ Backup.service = Target.service

RestoreStarts == IF Backup.service THEN files.active ELSE files.running

\* restore_backup, for a runtime that is left alone or put back, with its check.
Restoration(quiet, checked) ==
  LET starts == ~quiet /\ RestoreStarts
      check == IF checked THEN Verify("backup", starts, TRUE) ELSE <<>>
  IN Step("phase", "rolling-back") \o Step("live", "backup") \o ProxySteps(Backup, Target)
     \o ServiceSteps(Backup, Target, starts, TRUE)
     \o (IF quiet
         THEN (IF Backup.service THEN Step("boot", TRUE) ELSE <<>>) \o Step("markers", "previous")
         ELSE IF starts THEN <<>> ELSE Step("halt", "runtime"))
     \o check \o ClearSteps

RestoreRecreates == Restoration(FALSE, TRUE)
RestoreUnverified == Restoration(Untouched, FALSE)
RestoreSteps == Restoration(Untouched, TRUE)

\* Without the target, whose file is the one that prepare has read, restore_backup
\* puts back and compares nothing but the manifest, and clears the transaction.
RestoreUnread == Step("phase", "rolling-back") \o Step("live", "backup") \o ClearSteps
Restores ==
  \/ todo' = RestoreSteps /\ UNCHANGED blind
  \/ todo' = RestoreUnread /\ blind' = TRUE

\* finalize_target_resources and the end of commit.
FinalizeSteps ==
  (IF Target.service THEN Step("boot", TRUE) ELSE <<>>)
  \o Verify("target", Starts, TRUE) \o Step("cleanup", "config") \o ClearSteps
-----------------------------------------------------------------------------
(* The commands.                                                           *)

Init ==
  /\ live \in Manifest
  /\ phase = "none" /\ files = NoFiles
  /\ proxy = live.api
  /\ \E active \in {FALSE, live.service} :
       unit = [installed |-> live.service, enabled |-> live.service, active |-> active]
  /\ container \in {None, live}
  /\ config = (live.config = "managed")
  /\ todo = <<>> /\ mode = "plain" /\ blind = FALSE

Begins(trap) ==
  /\ todo = <<>>
  /\ mode' = trap
  /\ UNCHANGED <<live, phase, files, proxy, unit, container, config>>

Command(steps, trap) == Begins(trap) /\ todo' = steps /\ UNCHANGED blind

\* validate_settings_pair and preflight_current_resources.
ConfigAllowed(new) == new.config = "managed" => live.config = "managed"
ResourcesAsRecorded ==
  /\ ProxyInstalled <=> live.api # "local"
  /\ unit.installed <=> live.service
  /\ unit.installed => unit.enabled
  /\ unit.active => live.service

Prepare(new, start) ==
  /\ phase = "none"
  /\ Backup = None /\ Target = None /\ files.digests = {} /\ files.start = "none"
  /\ ConfigAllowed(new) /\ ResourcesAsRecorded
  /\ Command(Step("backup", "live") \o Step("target", new)
             \o Step("digest", "backup") \o Step("digest", "target")
             \o Step("start", IF start THEN "start" ELSE "no-start")
             \o Step("active", "service") \o Step("running", "container")
             \o Step("phase", "preparing"), "plain")

GuardStepsLeftOut == Step("phase", "activation-guarded")

\* disable_service_boot_for_activation.
GuardSteps ==
  Step("phase", "activation-guarded")
  \o IF unit.installed THEN Step("boot", FALSE) ELSE <<>>

Apply ==
  /\ phase = "preparing"
  /\ live = Backup
  /\ Command(GuardSteps
             \o Step("live", "target") \o Step("phase", "activated")
             \o ProxySteps(Target, Backup) \o ServiceSteps(Target, Backup, Starts, FALSE)
             \o Verify("target", Starts, FALSE) \o Step("phase", "resources-applied"), "guarded")

Commit ==
  /\ phase \in {"resources-applied", "committing"}
  /\ live = Target
  /\ Command((IF phase = "committing" THEN <<>>
              ELSE Verify("target", Starts, FALSE) \o Step("phase", "committing"))
             \o FinalizeSteps, "plain")

Rollback == phase # "none" /\ Begins("plain") /\ Restores

\* recover_transaction; without a phase it refuses or has nothing to do.
Recover ==
  /\ phase # "none"
  /\ phase = "preparing" => live \in {Backup, Target}
  /\ CASE phase = "preparing" /\ live = Backup -> Command(ClearSteps, "plain")
       [] phase = "committing" /\ live = Target -> Command(FinalizeSteps, "plain")
       [] OTHER -> Begins("plain") /\ Restores
-----------------------------------------------------------------------------
(* The steps.                                                              *)

Doing(verb) == todo # <<>> /\ Verb = verb /\ todo' = Tail(todo) /\ UNCHANGED <<mode, blind>>

Record(new) == files' = new /\ UNCHANGED <<live, phase, proxy, unit, container, config>>

SaveArtifact ==
  \/ Doing("backup") /\ Record([files EXCEPT !.backup = live])
  \/ Doing("target") /\ Record([files EXCEPT !.target = Arg])
  \/ Doing("digest") /\ Record([files EXCEPT !.digests = @ \cup {Arg}])
  \/ Doing("start") /\ Record([files EXCEPT !.start = Arg])
  \/ Doing("active") /\ Record([files EXCEPT !.active = unit.active])
  \/ Doing("running") /\ Record([files EXCEPT !.running = container # None])

WritePhase ==
  /\ Doing("phase")
  /\ phase' = Arg
  /\ UNCHANGED <<live, files, proxy, unit, container, config>>

CopyManifest ==
  /\ Doing("live")
  /\ live' = IF Arg = "backup" THEN Backup ELSE Target
  /\ UNCHANGED <<phase, files, proxy, unit, container, config>>

\* manage-proxy.sh: the socket unit comes first and goes first, and create refuses
\* to work on one of the two.
ChangeProxy ==
  /\ Doing("proxy")
  /\ Arg = "partial" => proxy # "partial"
  /\ proxy' = Arg
  /\ UNCHANGED <<live, phase, files, unit, container, config>>

\* The container goes with a unit that is active.
StopsUnit ==
  /\ unit' = [unit EXCEPT !.active = FALSE, !.enabled = @ /\ Arg # "disable_now"]
  /\ container' = IF unit.active THEN None ELSE container

ChangeUnit ==
  /\ Doing("unit")
  /\ \/ Arg \in {"stop", "disable_now"} /\ StopsUnit
     \/ /\ Arg \in {"install", "enable", "disable", "start", "remove"}
        /\ unit' = CASE Arg = "install" -> [unit EXCEPT !.installed = TRUE]
                     [] Arg = "enable" -> [unit EXCEPT !.enabled = TRUE]
                     [] Arg = "disable" -> [unit EXCEPT !.enabled = FALSE]
                     [] Arg = "start" -> [unit EXCEPT !.active = TRUE]
                     [] Arg = "remove" -> [unit EXCEPT !.installed = FALSE]
        /\ UNCHANGED container
     \/ Arg = "await" /\ unit.active /\ container # None /\ UNCHANGED <<unit, container>>
  /\ UNCHANGED <<live, phase, files, proxy, config>>

SetBoot ==
  /\ Doing("boot")
  /\ unit.installed
  /\ unit' = [unit EXCEPT !.enabled = Arg]
  /\ UNCHANGED <<live, phase, files, proxy, container, config>>

\* start_standalone_for_prefix, whose replacement is that of RuntimeTransition.
StartStandalone ==
  /\ Doing("standalone")
  /\ container' = Arg
  /\ UNCHANGED <<live, phase, files, proxy, unit, config>>

HaltRuntime ==
  /\ Doing("halt")
  /\ container' = None
  /\ unit' = [unit EXCEPT !.active = FALSE]
  /\ UNCHANGED <<live, phase, files, proxy, config>>

\* verify_resources_for_prefix.  Of a managed service only the unit's state counts:
\* what wait-ready.sh says of the runtime is not looked at.
Holds(check) ==
  LET m == files[check.of] IN
  /\ IF m.api = "local" THEN ~ProxyInstalled ELSE proxy = m.api
  /\ unit.installed = m.service
  /\ m.service => unit.enabled = check.enabled
  /\ check.start => IF m.service THEN unit.active ELSE container # None

\* The markers of what was active before the transaction.
AsMarked == unit.active = files.active /\ (container # None) = files.running

Passes ==
  \/ Doing("verify") /\ Holds(Arg)
  \/ Doing("markers") /\ AsMarked

Check == Passes /\ UNCHANGED <<live, phase, files, proxy, unit, container, config>>

\* cleanup_released_owned_config.
CleanUp ==
  /\ Doing("cleanup")
  /\ config' = (config /\ ~(Backup.config = "managed" /\ Target.config # "managed"))
  /\ UNCHANGED <<live, phase, files, proxy, unit, container>>

ClearOne ==
  /\ Doing("clear")
  /\ phase' = IF Arg = "phase" THEN "none" ELSE phase
  /\ files' = IF Arg = "phase" THEN files ELSE [files EXCEPT ![Arg] = NoFiles[Arg]]
  /\ UNCHANGED <<live, proxy, unit, container, config>>

Proceed ==
  \/ SaveArtifact \/ WritePhase \/ CopyManifest \/ ChangeProxy \/ ChangeUnit \/ SetBoot
  \/ StartStandalone \/ HaltRuntime \/ Check \/ CleanUp \/ ClearOne
-----------------------------------------------------------------------------
(* What goes wrong.                                                        *)

\* die: the script exits, and no ERR trap is told.
Dies ==
  /\ todo # <<>>
  /\ (Verb = "verify" /\ ~Holds(Arg)) \/ (Verb = "markers" /\ ~AsMarked)
  /\ todo' = <<>>
  /\ UNCHANGED <<live, phase, files, proxy, unit, container, config, mode, blind>>

\* Where the script goes on that ignores the failure of a helper it has called.
AfterChild ==
  LET others == {i \in 1..Len(todo) : todo[i].verb # Verb} IN
  SubSeq(todo, CHOOSE i \in others : \A j \in others : i <= j, Len(todo))

\* A command of the script fails, or apply is interrupted; clear_transaction and the
\* halt of the runtime cannot fail, and the checks do not fail but die.
Fails ==
  /\ todo # <<>>
  /\ Verb \notin {"clear", "halt"}
  /\ Verb \in {"verify", "markers"} => mode = "guarded"
  /\ Verb = "live" /\ mode = "undoing" => CopyFailsInTrap
  /\ \/ mode = "plain" /\ todo' = <<>> /\ UNCHANGED <<mode, blind>>
     \/ mode = "guarded" /\ Restores /\ mode' = "undoing"
     \/ mode = "undoing" /\ todo' = AfterChild /\ UNCHANGED <<mode, blind>>
  /\ UNCHANGED <<live, phase, files, proxy, unit, container, config>>

Killed ==
  /\ todo # <<>>
  /\ todo' = <<>>
  /\ UNCHANGED <<live, phase, files, proxy, unit, container, config, mode, blind>>

\* What happens beside the commands: systemd's runner reads install.env and serves,
\* the runtime ends, an operator starts the unit, the host reboots.
RunnerServes ==
  /\ unit.active /\ container = None
  /\ container' = live
  /\ UNCHANGED <<live, phase, files, proxy, unit, config, todo, mode, blind>>

RuntimeEnds ==
  /\ unit.active \/ container # None
  /\ container' = None
  /\ \E active \in {FALSE, unit.active} : unit' = [unit EXCEPT !.active = active]
  /\ UNCHANGED <<live, phase, files, proxy, config, todo, mode, blind>>

OperatorStartsUnit ==
  /\ unit.installed
  /\ unit' = [unit EXCEPT !.active = TRUE]
  /\ UNCHANGED <<live, phase, files, proxy, container, config, todo, mode, blind>>

HostReboots ==
  /\ todo' = <<>>
  /\ container' = None
  /\ unit' = [unit EXCEPT !.active = unit.installed /\ unit.enabled]
  /\ UNCHANGED <<live, phase, files, proxy, config, mode, blind>>

Commands ==
  \/ \E new \in Manifest, start \in BOOLEAN : Prepare(new, start)
  \/ Apply \/ Commit \/ Rollback \/ Recover

Next ==
  \/ Commands \/ Proceed \/ Dies \/ Fails \/ Killed
  \/ RunnerServes \/ RuntimeEnds \/ OperatorStartsUnit \/ HostReboots

Spec == Init /\ [][Next]_vars
-----------------------------------------------------------------------------
(* Could the next boot serve settings that are not decided?                *)
Exposed ==
  /\ phase # "none"
  /\ unit.installed /\ unit.enabled
  /\ live = Target /\ live # Backup

\* However apply, commit, rollback and recover are interrupted, and in whatever order
\* they follow one another, it is only a commit under way that lets the next boot
\* serve the target.
BootServesCommitted == [][~Exposed /\ Exposed' => phase' = "committing"]_vars

Agrees(m) ==
  /\ live = m
  /\ proxy = m.api \/ (m.api = "local" /\ proxy = "partial")
  /\ unit.installed = m.service
  /\ m.service => unit.enabled

\* When the phase file goes, the manifest, the proxy and the unit all say the same:
\* what was before the transaction, or its target.  Where a restoration has once gone
\* on without the target, it may be the manifest alone that was put back.
SettledEitherWay ==
  [][phase # "none" /\ phase' = "none" =>
       Agrees(Backup) \/ Agrees(Target) \/ (blind /\ live = Backup)]_vars

\* A transaction whose restart is deferred and that keeps the unit as it is neither
\* stops nor starts the runtime, when it is applied, taken back or recovered.
DeferredIsQuiet ==
  [][Proceed /\ phase # "none" /\ Untouched => UNCHANGED <<container, unit.active>>]_vars

\* What rollback and recover restore is what they then verify, unless a command
\* fails: violated for a service that was not active before the transaction.
RollbackReachesBackup ==
  todo # <<>> /\ Verb = "verify" /\ Arg.of = "backup" => Holds(Arg)
===============================================================================
