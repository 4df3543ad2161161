--------------------------- MODULE ServiceRunner ---------------------------
(***************************************************************************)
(* The managed service: scripts/runtime/service-runner.sh, which drives    *)
(* one replacement of the runtime container through RuntimeTransition and  *)
(* then follows the container; the memory monitor that serve.sh starts     *)
(* beside it; and the systemd unit that manage-service.sh installs around  *)
(* both.                                                                   *)
(*                                                                         *)
(* systemd is external.  What the unit file asks of it: Type=simple,       *)
(* Restart=on-failure, ExecStop=docker stop of the current container,      *)
(* which systemd also runs after the main process has ended by itself with *)
(* status 0 but not after it has failed, and KillMode=control-group, which *)
(* takes the helper and the monitor down with the runner.                  *)
(***************************************************************************)
EXTENDS RuntimeTransition, Naturals

CONSTANTS
  Service,   \* the one caller of the helper: the service runner
  Attempts   \* probes of /health before the runner gives up (180 in the code)

ASSUME ServiceAssumption == Caller = {Service}
ASSUME AttemptsAssumption == Attempts \in Nat

VARIABLES
  at,         \* the runner's next step, "off" without a runner process
  attempt,    \* probes made so far
  unit,       \* what systemd is doing with the unit
  stopAsked,  \* TRUE iff an operator asked for the stop in progress
  lastExit,   \* how the last runner process ended
  attested,   \* RUNTIME_CONTAINER_ID of runtime-commit.env, or NoContainer
  marker,     \* STOP_CONTAINER_ID of runtime-stop.env, or NoContainer
  watch,      \* the monitor: off, sampling, decided, marked, or exited 2
  watched     \* the container id that the monitor read last

runtime == <<current, preserved, running, phase, hadPrevious, step, had, status>>
systemd == <<unit, stopAsked>>
monitor == <<watch, watched>>
serviceVars == <<current, preserved, running, phase, hadPrevious, step, had, status,
                 at, attempt, unit, stopAsked, lastExit, attested, marker,
                 watch, watched>>

\* Before `prepare` has succeeded, and after `commit` has, a failure does not roll
\* back (transition_active = 0).
Active == {"serve", "start_monitor", "candidate", "validate", "probe", "models",
           "commit", "committing", "abort", "aborting"}
\* The TERM trap is set from line 119 to line 171, or 144 on the protected path.
Trapped == Active \cup {"prepare", "preparing", "attest"}
Points == Trapped \cup {"off", "begin", "preflight", "recover", "recovering",
                        "forget", "rollback", "rolling", "follow", "stopped"}

ServiceTypeOK ==
  /\ TypeOK
  /\ at \in Points
  /\ attempt \in 0..Attempts
  /\ unit \in {"inactive", "active", "stopping", "killing", "ending", "restarting"}
  /\ stopAsked \in BOOLEAN
  /\ lastExit \in {"none", "clean", "failed", "rolled_back", "killed"}
  /\ {attested, marker, watched} \subseteq Container \cup {NoContainer}
  /\ watch \in {"off", "sampling", "decided", "marked", "stopped"}

ServiceInit ==
  /\ Init
  /\ at = "off" /\ attempt = 0
  /\ unit = "inactive" /\ stopAsked = FALSE /\ lastExit = "none"
  /\ attested = NoContainer /\ marker = NoContainer
  /\ watch = "off" /\ watched = NoContainer

-----------------------------------------------------------------------------
(* How the runner moves on. *)

Goto(point) == at' = point /\ UNCHANGED lastExit

RunnerExits(how) == at' = "off" /\ lastExit' = how

\* A command fails.  With the ERR trap set the runner goes to rollback_transition,
\* which forgets the attestation and rolls back only an active transition.
Fail ==
  IF at \in Active THEN Goto("rollback")
  ELSE IF at \in Trapped THEN Goto("forget") ELSE RunnerExits("failed")

\* The runner invokes the helper and waits for it at the point `waiting`.
Call(point, invocation, waiting) ==
  /\ at = point
  /\ invocation
  /\ Goto(waiting)
  /\ UNCHANGED <<attempt, systemd, attested, marker, monitor>>

\* Mutant: the helper's exit status is not looked at.
ReturnUnchecked(waiting, point) ==
  /\ at = waiting
  /\ step[Service] = "none"
  /\ Goto(point)
  /\ UNCHANGED <<runtime, attempt, systemd, attested, marker, monitor>>

Return(waiting, point) ==
  /\ at = waiting
  /\ step[Service] = "none"
  /\ IF status[Service] = "ok" THEN Goto(point) ELSE Fail
  /\ UNCHANGED <<runtime, attempt, systemd, attested, marker, monitor>>

-----------------------------------------------------------------------------
(* The runner, in the order of the script. *)

\* Mutant: the attestation of an earlier runner is kept.
BeginKeepsAttestation ==
  /\ at = "begin"
  /\ Goto("preflight") \/ Fail
  /\ UNCHANGED <<runtime, attempt, systemd, attested, marker, monitor>>

\* A previous attestation never proves that this process has committed.
Begin ==
  /\ at = "begin"
  /\ \/ attested' = NoContainer /\ Goto("preflight")
     \/ UNCHANGED attested /\ Fail
  /\ UNCHANGED <<runtime, attempt, systemd, marker, monitor>>

Preflight ==
  /\ at = "preflight"
  /\ Goto("recover") \/ Fail
  /\ UNCHANGED <<runtime, attempt, systemd, attested, marker, monitor>>

CallRecover == Call("recover", Recover(Service), "recovering")
CallPrepare ==
  Call("prepare", \/ PrepareRefused(Service)
                  \/ PrepareReplacement(Service)
                  \/ PrepareFirstStart(Service), "preparing")

\* serve.sh: docker run under the current name, which must be free.  The id is new,
\* so no marker names it.
ServeCandidate ==
  /\ at = "serve"
  /\ \/ /\ \E c \in Container \ {marker, watched} : RunContainer(c)
        /\ IF current' \in running' THEN Goto("start_monitor") ELSE Fail
     \/ UNCHANGED docker /\ Fail
  /\ UNCHANGED <<stateFile, helper, attempt, systemd, attested, marker, monitor>>

StartMonitor ==
  /\ at = "start_monitor"
  /\ watch' = "sampling" /\ watched' = NoContainer
  /\ Goto("candidate")
  /\ UNCHANGED <<runtime, attempt, systemd, attested, marker>>

\* The two bookkeeping calls change one file each and end.
CallAdvance(point, invocation, next) ==
  /\ at = point
  /\ invocation
  /\ IF status'[Service] = "ok" THEN Goto(next) ELSE Fail
  /\ attempt' = 0
  /\ UNCHANGED <<systemd, attested, marker, monitor>>

ReportStarted == CallAdvance("candidate", CandidateStarted(Service), "validate")
ReportValidating == CallAdvance("validate", Validating(Service), "probe")

\* protected_stop_matches_container
ProtectedStop == Exists(current) /\ marker = current

\* Mutant: the readiness loop has no last turn.
ProbeUnbounded ==
  /\ at = "probe"
  /\ Goto("probe") \/ (current \in running /\ Goto("models"))
  /\ UNCHANGED <<runtime, attempt, systemd, attested, marker, monitor>>

\* One turn of the readiness loop.
Probe ==
  /\ at = "probe"
  /\ \/ /\ current \in running                          \* healthy
        /\ Goto("models") /\ UNCHANGED attempt
     \/ /\ current \in running                          \* not yet
        /\ attempt < Attempts
        /\ attempt' = attempt + 1 /\ Goto("probe")
     \/ /\ current \notin running /\ ProtectedStop
        /\ Goto("abort") /\ UNCHANGED attempt
     \/ /\ current \notin running /\ ~ProtectedStop
        /\ Fail /\ UNCHANGED attempt
     \/ /\ attempt = Attempts
        /\ Fail /\ UNCHANGED attempt
  /\ UNCHANGED <<runtime, systemd, attested, marker, monitor>>

CallAbort == Call("abort", AbortProtected(Service), "aborting")

\* Mutant: exit 0 whether or not the transaction was aborted.
FinishAbortUnchecked ==
  /\ at = "aborting"
  /\ step[Service] = "none"
  /\ marker' = NoContainer
  /\ RunnerExits("clean")
  /\ UNCHANGED <<runtime, attempt, systemd, attested, monitor>>

FinishAbort ==
  /\ at = "aborting"
  /\ step[Service] = "none"
  /\ IF status[Service] = "ok" THEN marker' = NoContainer /\ RunnerExits("clean")
                               ELSE UNCHANGED marker /\ Fail
  /\ UNCHANGED <<runtime, attempt, systemd, attested, monitor>>

ValidateModels ==
  /\ at = "models"
  /\ (current \in running /\ Goto("commit")) \/ Fail
  /\ UNCHANGED <<runtime, attempt, systemd, attested, marker, monitor>>

CallCommit == Call("commit", Commit(Service), "committing")

\* The transaction is final: a failure from here on does not roll it back.
Attest ==
  /\ at = "attest"
  /\ \/ /\ Exists(current)
        /\ attested' = current /\ Goto("follow")
     \/ UNCHANGED attested /\ Fail
  /\ UNCHANGED <<runtime, attempt, systemd, marker, monitor>>

\* docker wait returns when the container has stopped.
ContainerGone ==
  /\ at = "follow"
  /\ current \notin running
  /\ attested' = NoContainer
  /\ Goto("stopped")
  /\ UNCHANGED <<runtime, attempt, systemd, marker, monitor>>

\* Exit 0 for the monitor's own stop; any other marker is stale, and discarded.
Conclude ==
  /\ at = "stopped"
  /\ RunnerExits(IF ProtectedStop THEN "clean" ELSE "failed")
  /\ marker' = NoContainer
  /\ UNCHANGED <<runtime, attempt, systemd, attested, monitor>>

-----------------------------------------------------------------------------
(* rollback_transition, the ERR, INT and TERM trap. *)

ForgetAndExit ==
  /\ at = "forget"
  /\ attested' = NoContainer
  /\ RunnerExits("failed")
  /\ UNCHANGED <<runtime, attempt, systemd, marker, monitor>>

CallRollback ==
  /\ at = "rollback"
  /\ attested' = NoContainer
  /\ Rollback(Service)
  /\ Goto("rolling")
  /\ UNCHANGED <<attempt, systemd, marker, monitor>>

\* Exit 70 after a failed rollback, the original status otherwise.
RolledBack ==
  /\ at = "rolling"
  /\ step[Service] = "none"
  /\ RunnerExits(IF status[Service] = "ok" THEN "rolled_back" ELSE "failed")
  /\ UNCHANGED <<runtime, attempt, systemd, attested, marker, monitor>>

RunnerStep ==
  \/ Begin \/ Preflight
  \/ CallRecover \/ Return("recovering", "prepare")
  \/ CallPrepare \/ Return("preparing", "serve")
  \/ ServeCandidate \/ StartMonitor
  \/ ReportStarted \/ ReportValidating
  \/ Probe \/ CallAbort \/ FinishAbort
  \/ ValidateModels
  \/ CallCommit \/ Return("committing", "attest")
  \/ Attest \/ ContainerGone \/ Conclude
  \/ ForgetAndExit \/ CallRollback \/ RolledBack

-----------------------------------------------------------------------------
(* The memory monitor, monitor-runtime.sh --protect.  It addresses the     *)
(* container by name at every command.                                     *)

MonitorDecides ==
  /\ watch = "sampling"
  /\ current \in running
  /\ watch' = "decided" /\ watched' = current
  /\ UNCHANGED <<runtime, at, attempt, systemd, lastExit, attested, marker>>

\* Mutant: the container is stopped before the marker is written.
MonitorStopsFirst ==
  /\ watch = "decided"
  /\ running' = running \ {current}
  /\ watch' = "stopped"
  /\ UNCHANGED <<current, preserved, stateFile, helper, at, attempt, systemd,
                 lastExit, attested, marker, watched>>

MonitorMarks ==
  /\ watch = "decided"
  /\ marker' = watched
  /\ watch' = "marked"
  /\ UNCHANGED <<runtime, at, attempt, systemd, lastExit, attested, watched>>

MonitorStops ==
  /\ watch = "marked"
  /\ IF Exists(current)
       THEN /\ running' = running \ {current}
            /\ watch' = "stopped"
            /\ UNCHANGED marker
       ELSE /\ marker' = NoContainer
            /\ watch' = "off"
            /\ UNCHANGED running
  /\ UNCHANGED <<current, preserved, stateFile, helper, at, attempt, systemd,
                 lastExit, attested, watched>>

MonitorEnds ==
  /\ watch = "sampling"
  /\ current \notin running
  /\ watch' = "off"
  /\ UNCHANGED <<runtime, at, attempt, systemd, lastExit, attested, marker, watched>>

MonitorStep == MonitorDecides \/ MonitorMarks \/ MonitorStops \/ MonitorEnds

-----------------------------------------------------------------------------
(* systemd and the operator. *)

\* systemctl start, the boot, or the end of RestartSec.
StartUnit ==
  /\ unit \in {"inactive", "restarting"}
  /\ unit' = "active" /\ stopAsked' = FALSE
  /\ at' = "begin" /\ lastExit' = "none"
  /\ UNCHANGED <<runtime, attempt, attested, marker, monitor>>

\* More than StartLimitBurst starts in StartLimitIntervalSec.
GiveUp ==
  /\ unit = "restarting"
  /\ unit' = "inactive"
  /\ UNCHANGED <<runtime, at, attempt, stopAsked, lastExit, attested, marker, monitor>>

\* manage-service.sh create --start forgets the attestation, then stops the unit.
AskStop ==
  /\ unit \in {"active", "restarting"}
  /\ attested' \in {attested, NoContainer}
  /\ unit' = IF unit = "active" THEN "stopping" ELSE "inactive"
  /\ stopAsked' = TRUE
  /\ UNCHANGED <<runtime, at, attempt, lastExit, marker, monitor>>

\* The main process has ended; after a failure ExecStop is left out.
NoticeExit ==
  /\ unit = "active" /\ at = "off"
  /\ unit' = IF lastExit = "clean" THEN "stopping" ELSE "killing"
  /\ UNCHANGED <<runtime, at, attempt, stopAsked, lastExit, attested, marker, monitor>>

\* ExecStop=-docker stop of whatever has the current name.
ExecStop ==
  /\ unit = "stopping"
  /\ running' = running \ {current}
  /\ unit' = "killing"
  /\ UNCHANGED <<current, preserved, stateFile, helper, at, attempt, stopAsked,
                 lastExit, attested, marker, monitor>>

\* SIGTERM to the control group: the runner's trap, the helper and the monitor.
KillGroup ==
  /\ unit = "killing"
  /\ unit' = "ending"
  /\ IF step[Service] # "none" THEN Interrupt(Service) ELSE UNCHANGED runtime
  /\ IF watch = "stopped" THEN UNCHANGED watch ELSE watch' = "off"
  /\ IF at \in Trapped THEN Fail
     ELSE IF at # "off" THEN RunnerExits("killed") ELSE UNCHANGED <<at, lastExit>>
  /\ UNCHANGED <<attempt, stopAsked, attested, marker, watched>>

\* Mutant: KillMode=process, so that a killed runner's helper is not waited for.
UnitEndsEarly ==
  /\ unit \in {"killing", "ending"}
  /\ at = "off"
  /\ unit' = IF stopAsked \/ lastExit = "clean" THEN "inactive" ELSE "restarting"
  /\ UNCHANGED <<runtime, at, attempt, stopAsked, lastExit, attested, marker, monitor>>

\* Restart=on-failure, unless the stop was asked for.
UnitEnds ==
  /\ unit = "ending"
  /\ at = "off" /\ step[Service] = "none"
  /\ unit' = IF stopAsked \/ lastExit = "clean" THEN "inactive" ELSE "restarting"
  /\ UNCHANGED <<runtime, at, attempt, stopAsked, lastExit, attested, marker, monitor>>

SystemdStep == NoticeExit \/ ExecStop \/ KillGroup \/ UnitEnds

-----------------------------------------------------------------------------
(* Failures. *)

\* The runner alone is killed; the helper it runs goes on.
RunnerKilled ==
  /\ at # "off"
  /\ RunnerExits("killed")
  /\ UNCHANGED <<runtime, attempt, systemd, attested, marker, monitor>>

\* A docker command of the helper fails, or a container stops by itself.
RuntimeFails ==
  /\ Interrupt(Service) \/ \E c \in Container : ContainerExits(c)
  /\ UNCHANGED <<at, attempt, systemd, lastExit, attested, marker, monitor>>

HostReboots ==
  /\ Reboot
  /\ at' = "off" /\ unit' = "inactive" /\ watch' = "off"
  /\ lastExit' = "killed" /\ stopAsked' = FALSE
  /\ UNCHANGED <<attempt, attested, marker, watched>>

HelperStep ==
  /\ Proceed(Service)
  /\ UNCHANGED <<at, attempt, systemd, lastExit, attested, marker, monitor>>

ServiceNext ==
  \/ RunnerStep
  \/ HelperStep
  \/ MonitorStep
  \/ SystemdStep
  \/ StartUnit
  \/ GiveUp
  \/ AskStop
  \/ RunnerKilled
  \/ RuntimeFails
  \/ HostReboots

\* The runner, its helper and systemd are scheduled; nothing else has to happen.
ServiceFairness ==
  /\ WF_serviceVars(RunnerStep)
  /\ WF_serviceVars(HelperStep)
  /\ WF_serviceVars(SystemdStep)

ServiceSpec == ServiceInit /\ [][ServiceNext]_serviceVars /\ ServiceFairness

-----------------------------------------------------------------------------
(* Properties. *)

\* The attestation that manage-service.sh, doctor.sh and the profile switch read
\* never outlives what it says: its container has the current name, and the
\* transaction that put it there is over.
AttestationTruthful ==
  Exists(attested) => attested = current /\ phase = "idle"

\* When the unit has ended after a clean exit of the runner, which only memory
\* protection causes, nothing runs and no transaction is left for the next start.
\* After an operator's stop of the unit both may be otherwise (ServiceStopped.cfg).
QuietStop ==
  unit = "inactive" /\ lastExit = "clean" => running = {} /\ phase = "idle"

\* A container that the monitor stopped while it was being served is never taken
\* for a failed one, so systemd does not start the same workload again.
ServedProtectionIsFinal ==
  [][at = "stopped" /\ watch = "stopped" /\ watched = current
       => lastExit' \notin {"failed", "rolled_back"}]_serviceVars

\* A killed runner leaves its helper behind, but no runner is started beside it:
\* this is what Serialized assumes of the service.
HelpersTakeTurns ==
  unit \in {"inactive", "restarting"} => at = "off" /\ step[Service] = "none"

\* The service uses the helper as RuntimeTransition assumes: it serves only what it
\* has prepared for, aborts only its own candidate, and lets invocations take turns.
\* What is proved of Spec therefore holds of the service.
DrivesTransition == Spec

\* A runner always ends its start-up: it serves, or it exits.
StartupEnds == at = "begin" ~> at \in {"follow", "off"}

-----------------------------------------------------------------------------
(* Statements of the guides and messages that the code does not keep.      *)

\* OPERATIONS.md: protection that fires while a candidate is starting ends the
\* service successfully rather than retrying the same startup.
ProtectedStartIsNotRetried ==
  unit = "restarting" /\ lastExit = "rolled_back" => watch # "stopped"

\* service-runner.sh: the container stays attached to the service's lifecycle, so
\* that nothing runs on after the unit was stopped.
StoppedUnitRunsNothing ==
  unit = "inactive" /\ stopAsked /\ lastExit = "rolled_back" => running = {}

=============================================================================
