--------------------------- MODULE OperationLock ---------------------------
(***************************************************************************)
(* The lifecycle operation lock, scripts/lib/operation-lock.sh, and the    *)
(* processes that share it: scripts that take it, the helpers they run     *)
(* under it, sudo, which passes its environment on and closes its          *)
(* descriptor, and the memory monitor, which outlives them with the        *)
(* descriptor open.                                                        *)
(*                                                                         *)
(* An flock belongs to the open file description it was taken on, which is *)
(* named here by the process that opened it, and lasts until every process *)
(* that has inherited the descriptor is gone or it is unlocked.            *)
(***************************************************************************)
CONSTANTS
  Process,   \* process ids; one is not used again while somebody remembers it
  NoProcess  \* no process, and no descriptor

ASSUME NoProcessAssumption == NoProcess \notin Process

VARIABLES
  proc,     \* what each process is, and knows
  lock,     \* the description that operation.lock is locked on, or NoProcess
  pending,  \* TRUE iff settings-transition.phase exists
  other     \* TRUE iff a profile switch or an update has its state file

vars == <<proc, lock, pending, other>>

\* Drivers are install.sh, update-release.sh and uninstall.sh, which run helpers; helpers
\* run no other; settings is settings-transition.sh; tool is relocate_model_root.py.
Kinds == {"driver", "helper", "settings", "tool", "monitor"}
\* Where a process is in acquire_operation_lock; before it, in operation_lock_busy; and after.
Points == {"none", "look", "looked", "guard", "ancestor", "probe", "probed", "open",
           "work", "refused"}

Gone == [at |-> "none", kind |-> "helper", ppid |-> NoProcess, sudo |-> FALSE,
         owner |-> NoProcess, fd |-> NoProcess, context |-> FALSE]

States == [at : Points, kind : Kinds,
           ppid : Process \cup {NoProcess},   \* who started it
           sudo : BOOLEAN,                    \* through sudo
           owner : Process \cup {NoProcess},  \* QWEN38_OPERATION_LOCK_OWNER_PID
           fd : Process \cup {NoProcess},     \* its descriptor of the lock
           context : BOOLEAN]                 \* QWEN38_SETTINGS_TRANSACTION_CONTEXT

TypeOK ==
  /\ proc \in [Process -> States]
  /\ lock \in Process \cup {NoProcess}
  /\ pending \in BOOLEAN /\ other \in BOOLEAN

Init ==
  /\ proc = [p \in Process |-> Gone]
  /\ lock = NoProcess
  /\ pending = FALSE /\ other = FALSE

At(p, point) == proc[p].at = point
Alive(p) == p # NoProcess /\ ~At(p, "none")
Working(p) == At(p, "work") /\ proc[p].kind # "monitor"

\* A script waits for the helper it runs, and for nothing that it leaves behind.
Waiting(p) == \E c \in Process : Alive(c) /\ proc[c].ppid = p /\ proc[c].kind # "monitor"

\* An id that is free, and that nobody alive remembers.
Unknown(p) ==
  /\ ~Alive(p)
  /\ \A q \in Process : Alive(q) => p \notin {proc[q].ppid, proc[q].owner, proc[q].fd}

Go(p, point) == proc' = [proc EXCEPT ![p].at = point]

-----------------------------------------------------------------------------
(* acquire_operation_lock                                                  *)

\* operation_lock_settings_guard, and the two ways on from it.
Guard(p) ==
  /\ At(p, "guard")
  /\ Go(p, IF pending /\ ~proc[p].context THEN "refused"
           ELSE IF proc[p].owner # NoProcess THEN "ancestor" ELSE "open")
  /\ UNCHANGED <<lock, pending, other>>

\* The parent of p as /proc has it: an orphan's is process 1.
Parent(p) == IF p # NoProcess /\ Alive(proc[p].ppid) THEN proc[p].ppid ELSE NoProcess

\* operation_lock_owner_is_ancestor begins with PPID, which the shell read when it started;
\* under sudo that is sudo, which is still there.
OwnerIsAncestor(p) ==
  \/ ~proc[p].sudo /\ proc[p].owner = proc[p].ppid
  \/ proc[p].owner \in {Parent(p), Parent(Parent(p))}

FindOwner(p) ==
  /\ At(p, "ancestor")
  /\ Go(p, IF OwnerIsAncestor(p) THEN "probe" ELSE "refused")
  /\ UNCHANGED <<lock, pending, other>>

\* Mutant: flock without -n, so that the probe waits for the lock.
ProbeWaits(p) ==
  /\ At(p, "probe") /\ lock = NoProcess
  /\ lock' = p /\ Go(p, "probed")
  /\ UNCHANGED <<pending, other>>

\* A descriptor of its own tells whether anyone has the lock, which it takes for a moment
\* if nobody has.
Probe(p) ==
  /\ At(p, "probe")
  /\ IF lock = NoProcess THEN lock' = p /\ Go(p, "probed")
                         ELSE UNCHANGED lock /\ Go(p, "work")
  /\ UNCHANGED <<pending, other>>

GiveProbeBack(p) ==
  /\ At(p, "probed")
  /\ lock' = NoProcess
  /\ Go(p, "refused")
  /\ UNCHANGED <<pending, other>>

\* Mutant: whoever wants the lock is given it.
OpenAnyway(p) ==
  /\ At(p, "open")
  /\ lock' = p
  /\ proc' = [proc EXCEPT ![p].at = "work", ![p].fd = p, ![p].owner = p]
  /\ UNCHANGED <<pending, other>>

Open(p) ==
  /\ At(p, "open")
  /\ IF lock = NoProcess
       THEN lock' = p /\ proc' = [proc EXCEPT ![p].at = "work", ![p].fd = p, ![p].owner = p]
       ELSE UNCHANGED lock /\ Go(p, "refused")
  /\ UNCHANGED <<pending, other>>

\* operation_lock_busy of service-recover, which leaves the recovery to whoever has the lock.
Look(p) ==
  /\ At(p, "look")
  /\ IF lock = NoProcess THEN lock' = p /\ Go(p, "looked")
                         ELSE UNCHANGED lock /\ Go(p, "refused")
  /\ UNCHANGED <<pending, other>>

LookedFree(p) ==
  /\ At(p, "looked")
  /\ lock' = NoProcess
  /\ Go(p, "guard")
  /\ UNCHANGED <<pending, other>>

-----------------------------------------------------------------------------
(* The life of a process.                                                  *)

Born(kind, point) == [Gone EXCEPT !.at = point, !.kind = kind, !.context = kind = "settings"]

\* A script of the operator or of systemd. The relocation tool takes the lock and looks at
\* nothing else.
Start(p, kind) ==
  /\ Unknown(p)
  /\ \E point \in CASE kind = "tool" -> {"open"}
                    [] kind = "helper" -> {"look", "guard"}
                    [] OTHER -> {"guard"} :
       proc' = [proc EXCEPT ![p] = Born(kind, point)]
  /\ UNCHANGED <<lock, pending, other>>

\* Mutant: sudo_locked does not pass the settings context.
InheritsNoContext(p, born, sudo) ==
  [born EXCEPT !.owner = proc[p].owner, !.ppid = p, !.sudo = sudo,
               !.fd = IF sudo THEN NoProcess ELSE proc[p].fd]

\* What a child has from its parent; sudo_with_operation_lock and sudo_locked name the
\* variables that go over.
Inherits(p, born, sudo) ==
  [born EXCEPT !.owner = proc[p].owner, !.ppid = p, !.sudo = sudo,
               !.fd = IF sudo THEN NoProcess ELSE proc[p].fd,
               !.context = born.context \/ proc[p].context]

\* install.sh runs settings-transition.sh and helpers, the other drivers helpers, and
\* settings-transition.sh manage-service.sh under sudo.
RunHelper(p, c, kind, sudo) ==
  /\ Working(p) /\ ~Waiting(p)
  /\ \/ proc[p].kind = "driver" /\ (kind = "settings" => ~sudo)
     \/ proc[p].kind = "settings" /\ kind = "helper" /\ sudo
  /\ Unknown(c)
  /\ proc' = [proc EXCEPT ![c] = Inherits(p, Born(kind, "guard"), sudo)]
  /\ UNCHANGED <<lock, pending, other>>

\* serve.sh, run by install.sh or settings-transition.sh when there is no service.
LeaveMonitor(p, c) ==
  /\ Working(p) /\ ~Waiting(p) /\ proc[p].kind \in {"driver", "settings"}
  /\ Unknown(c)
  /\ proc' = [proc EXCEPT ![c] = [Inherits(p, Born("monitor", "work"), FALSE)
                                    EXCEPT !.owner = NoProcess]]
  /\ UNCHANGED <<lock, pending, other>>

\* Who has the descriptor that the lock was taken on.
Has(p) == Alive(p) /\ lock \in {p, proc[p].fd}

\* The kernel closes what p has open, and unlocks a description that nobody has any more.
Exits(p) ==
  /\ proc' = [proc EXCEPT ![p] = Gone]
  /\ lock' = IF \E q \in Process \ {p} : Has(q) THEN lock ELSE NoProcess
  /\ UNCHANGED <<pending, other>>

Finish(p) == Working(p) /\ ~Waiting(p) /\ Exits(p)
GiveUp(p) == At(p, "refused") /\ Exits(p)

\* Killed alone, or a monitor whose container has stopped.
Killed(p) == Alive(p) /\ Exits(p)

HostReboots ==
  /\ proc' = [p \in Process |-> Gone]
  /\ lock' = NoProcess
  /\ UNCHANGED <<pending, other>>

-----------------------------------------------------------------------------
(* What the lock is for.                                                   *)

\* settings-transition.sh prepare, which refuses while another transaction is active, and
\* commit, rollback and recover.
ChangeSettings(p) ==
  /\ Working(p) /\ ~Waiting(p) /\ proc[p].kind = "settings"
  /\ ~pending => ~other
  /\ pending' = ~pending
  /\ UNCHANGED <<proc, lock, other>>

\* profile-switch-transition.sh and update-transition.sh, from prepare to the end.
ChangeOther(p) ==
  /\ Working(p) /\ proc[p].kind = "helper" /\ ~proc[p].sudo
  /\ other' = ~other
  /\ UNCHANGED <<proc, lock, pending>>

Acquires(p) ==
  \/ Guard(p) \/ FindOwner(p) \/ Probe(p) \/ GiveProbeBack(p) \/ Open(p)
  \/ Look(p) \/ LookedFree(p) \/ GiveUp(p)

Next ==
  \/ \E p \in Process :
       \/ \E kind \in Kinds \ {"monitor"} : Start(p, kind)
       \/ Acquires(p)
       \/ Finish(p) \/ Killed(p)
       \/ \E c \in Process :
            \/ \E kind \in {"helper", "settings"}, sudo \in BOOLEAN : RunHelper(p, c, kind, sudo)
            \/ LeaveMonitor(p, c)
       \/ ChangeSettings(p) \/ ChangeOther(p)
  \/ HostReboots

\* No wait is unbounded but for a helper, and a script runs finitely many of them.
Fairness == \A p \in Process : WF_vars(Acquires(p)) /\ SF_vars(Finish(p))

Spec == Init /\ [][Next]_vars /\ Fairness

-----------------------------------------------------------------------------
(* Properties.                                                             *)

\* The lock covers a mutation whose script has the descriptor, or whose outer script is alive.
Covered(p) == proc[p].fd # NoProcess \/ Alive(proc[p].owner)

\* Two mutations at a time, both covered, belong to the same outer operation: inheriting the
\* lock, probing it, losing it with a process and being killed never let a second one in.
OneOperation ==
  \A p, q \in Process :
    Working(p) /\ Covered(p) /\ Working(q) /\ Covered(q) => proc[p].owner = proc[q].owner

\* An operation is not stopped by its own lock: a helper is refused only when a script above
\* it has been killed, or when a settings transaction is pending that is not its own.
InSettings(p) == \E q \in {Parent(p), p} : q # NoProcess /\ proc[q].kind = "settings"
HelpersAreServed ==
  [][\A p \in Process :
       proc[p].owner # NoProcess /\ ~At(p, "refused") /\ proc'[p].at = "refused" =>
         \/ ~Alive(proc[p].owner) \/ ~Alive(proc[p].ppid)
         \/ pending /\ ~InSettings(p)]_vars

\* Whatever is killed while it has the lock or waits for another, the lock comes back, as
\* long as no monitor has been left with its descriptor.
LockComesBack ==
  []<>(lock = NoProcess \/ \E p \in Process : proc[p].kind = "monitor" /\ proc[p].fd = lock)

-----------------------------------------------------------------------------
(* Statements of the guides that the code does not keep.                   *)

\* STATE-FILES.md: covered mutations cannot overlap.
MutationsDoNotOverlap ==
  \A p, q \in Process : Working(p) /\ Working(q) => proc[p].owner = proc[q].owner

\* INSTALLER-PROFILE-MANAGER.md: a settings transaction cannot overlap the others.
OneTransactionAtATime == ~(pending /\ other)
=============================================================================
