------------------------- MODULE OperationLockProofs -------------------------
(***************************************************************************)
(* Proofs about OperationLock, for any number of processes.                *)
(*                                                                         *)
(* A process believes in the lock for one of two reasons: it has the       *)
(* descriptor, or it was told of an owner.  Held says what makes either a  *)
(* good reason, and Descent what operation_lock_owner_is_ancestor can rely *)
(* on when it looks for the owner.                                         *)
(***************************************************************************)
EXTENDS OperationLock, TLAPS

\* A process that took the lock and has its descriptor.
Opened(o) == Working(o) /\ proc[o].fd = o /\ proc[o].owner = o

\* Whoever remembers a lock remembers the one that is locked, or one whose owner is gone.
Held(p) ==
  /\ proc[p].fd # NoProcess =>
       /\ proc[p].fd = lock
       /\ Alive(proc[p].fd) => Opened(proc[p].fd)
       /\ proc[p].kind # "monitor" => proc[p].owner = proc[p].fd
  /\ Alive(proc[p].owner) => Opened(proc[p].owner)
  /\ proc[p].at \in {"probed", "looked"} => lock = p
  /\ proc[p].at \in {"look", "looked", "open"} => proc[p].owner = NoProcess
  /\ proc[p].at \in {"ancestor", "probe", "probed"} => proc[p].owner # NoProcess
  /\ Working(p) => proc[p].owner # NoProcess
  /\ proc[p].kind = "monitor" => proc[p].owner = NoProcess /\ proc[p].at = "work"

\* Who runs whom: drivers are run by the operator, and what a settings transaction runs is
\* marked as its own.
Descent(p) ==
  /\ proc[p].kind = "driver" => proc[p].owner \in {p, NoProcess}
  /\ proc[p].kind = "settings" =>
       proc[p].context /\ proc[p].owner \in {p, proc[p].ppid, NoProcess}
  /\ proc[p].owner # NoProcess /\ proc[p].owner # p /\ Alive(proc[p].ppid) =>
       proc[p].owner \in {proc[p].ppid, proc[proc[p].ppid].ppid}
  /\ Alive(proc[p].ppid) /\ proc[proc[p].ppid].kind = "settings" => proc[p].context

Trusted == TypeOK /\ \A p \in Process : Alive(p) => Held(p) /\ Descent(p)

-------------------------------------------------------------------------------
(* One process moves, and the others stay as they are. *)

LEMMA Known == ASSUME TypeOK, NEW p \in Process PROVE proc[p] \in States
  BY DEF TypeOK

LEMMA Moves ==
  ASSUME TypeOK, NEW p \in Process, NEW s \in States, proc' = [proc EXCEPT ![p] = s]
  PROVE  /\ proc' \in [Process -> States]
         /\ proc'[p] = s
         /\ \A q \in Process \ {p} : proc'[q] = proc[q]
  BY DEF TypeOK

LEMMA Goes ==
  ASSUME TypeOK, NEW p \in Process, NEW point \in Points, Go(p, point)
  PROVE  /\ proc' \in [Process -> States]
         /\ proc'[p].at = point /\ proc'[p].kind = proc[p].kind /\ proc'[p].ppid = proc[p].ppid
         /\ proc'[p].owner = proc[p].owner /\ proc'[p].fd = proc[p].fd
         /\ proc'[p].sudo = proc[p].sudo /\ proc'[p].context = proc[p].context
         /\ \A q \in Process \ {p} : proc'[q] = proc[q]
  BY DEF TypeOK, Go, States

\* Only who has opened the lock is remembered by others.
LEMMA Unremembered ==
  ASSUME Trusted, NEW p \in Process, Alive(p), ~Working(p), NEW q \in Process, Alive(q)
  PROVE  proc[q].fd # p /\ proc[q].owner # p
  <1>1. Held(q) /\ p # NoProcess
    BY NoProcessAssumption DEF Trusted
  <1>2. proc[q].fd # p
    <2>1. proc[q].fd = p => Opened(p)
      BY <1>1 DEF Held
    <2>2. QED BY <2>1 DEF Opened
  <1>3. proc[q].owner # p
    <2>1. proc[q].owner = p => Opened(p)
      BY <1>1 DEF Held
    <2>2. QED BY <2>1 DEF Opened
  <1>4. QED BY <1>2, <1>3

\* What q remembers of others, when they are as they were.
LEMMA OthersKeep ==
  ASSUME Trusted, NEW p \in Process, NEW q \in Process, q # p, Alive(q),
         proc' \in [Process -> States],
         \A r \in Process \ {p} : proc'[r] = proc[r],
         proc[q].fd # NoProcess => proc[q].fd # p /\ lock' = lock,
         proc[q].owner # p,
         proc[q].at \in {"probed", "looked"} => lock' = lock,
         \/ proc[q].ppid # p
         \/ proc'[p].at = "none"
         \/ /\ proc[p].at # "none" /\ proc'[p].kind = proc[p].kind /\ proc'[p].ppid = proc[p].ppid
  PROVE  Alive(q)' /\ Held(q)' /\ Descent(q)'
  <1>1. Held(q) /\ Descent(q) /\ TypeOK /\ proc'[q] = proc[q] /\ proc[q] \in States
    BY Known DEF Trusted
  <1>2. NoProcess \notin Process
    BY NoProcessAssumption
  <1>3. \A r \in Process \ {p} : (Alive(r)' <=> Alive(r)) /\ (Opened(r)' <=> Opened(r))
    BY <1>2 DEF Alive, Opened, Working, At
  <1>4. ~Alive(NoProcess) /\ ~Alive(NoProcess)'
    BY DEF Alive
  <1>5. proc[q].fd \in Process \cup {NoProcess} /\ proc[q].owner \in Process \cup {NoProcess}
        /\ proc[q].ppid \in Process \cup {NoProcess}
    BY <1>1 DEF States
  <1>6. Alive(q)' /\ (Working(q)' <=> Working(q))
    BY <1>1, <1>3 DEF Working, At
  <1>7. Held(q)'
    BY <1>1, <1>3, <1>4, <1>5, <1>6 DEF Held
  <1>8. Alive(proc[q].ppid)' => Alive(proc[q].ppid)
    BY <1>3, <1>4, <1>5 DEF Alive, At
  <1>9. Alive(proc[q].ppid)' => /\ proc'[proc[q].ppid].kind = proc[proc[q].ppid].kind
                                /\ proc'[proc[q].ppid].ppid = proc[proc[q].ppid].ppid
    BY <1>4, <1>5 DEF Alive, At
  <1>10. Descent(q)'
    BY <1>1, <1>8, <1>9 DEF Descent
  <1>11. QED BY <1>6, <1>7, <1>10

\* A step within acquire_operation_lock or operation_lock_busy that opens nothing.
LEMMA AdvanceTrusted ==
  ASSUME Trusted, NEW p \in Process, NEW point \in Points \ {"none"}, Go(p, point),
         proc[p].at \notin {"none", "work"},
         \/ lock' = lock
         \/ lock = NoProcess /\ lock' = p
         \/ lock = p /\ lock' = NoProcess,
         UNCHANGED <<pending, other>>,
         point \in {"probed", "looked"} => lock' = p,
         point \in {"look", "looked", "open"} => proc[p].owner = NoProcess,
         point \in {"ancestor", "probe", "probed", "work"} => proc[p].owner # NoProcess
  PROVE  Trusted'
  <1>1. TypeOK /\ Alive(p) /\ ~Working(p) /\ Held(p) /\ Descent(p) /\ proc[p] \in States
        /\ NoProcess \notin Process
    BY Known, NoProcessAssumption DEF Trusted, Alive, Working, At
  <1>2. /\ proc' \in [Process -> States]
        /\ proc'[p].at = point /\ proc'[p].kind = proc[p].kind /\ proc'[p].ppid = proc[p].ppid
        /\ proc'[p].owner = proc[p].owner /\ proc'[p].fd = proc[p].fd
        /\ proc'[p].context = proc[p].context
        /\ \A q \in Process \ {p} : proc'[q] = proc[q]
    BY <1>1, Goes
  <1>3. TypeOK'
    BY <1>1, <1>2 DEF TypeOK
  <1>4. ASSUME NEW q \in Process, Alive(q)', q # p
        PROVE  Held(q)' /\ Descent(q)'
    <2>1. Alive(q) /\ proc[q] \in States
      BY <1>1, <1>2, <1>4, Known DEF Alive, At
    <2>2. proc[q].fd # p /\ proc[q].owner # p
      BY <1>1, <2>1, Unremembered
    <2>3. proc[q].fd # NoProcess => lock' = lock
      BY <2>1, <2>2 DEF Trusted, Held
    <2>4. proc[q].at \in {"probed", "looked"} => lock' = lock
      BY <1>1, <1>4, <2>1 DEF Trusted, Held
    <2>5. QED BY <1>1, <1>2, <1>4, <2>1, <2>2, <2>3, <2>4, OthersKeep
  <1>5. Held(p)' /\ Descent(p)'
    <2>1. proc[p].fd # p /\ proc[p].owner # p /\ proc[p].kind # "monitor"
      BY <1>1, Unremembered DEF Held
    <2>2. \A r \in Process \ {p} : (Alive(r)' <=> Alive(r)) /\ (Opened(r)' <=> Opened(r))
      BY <1>1, <1>2 DEF Alive, Opened, Working, At
    <2>3. ~Alive(NoProcess) /\ ~Alive(NoProcess)'
      BY DEF Alive
    <2>4. proc[p].fd \in Process \cup {NoProcess} /\ proc[p].owner \in Process \cup {NoProcess}
          /\ proc[p].ppid \in Process \cup {NoProcess}
      BY <1>1 DEF States
    <2>5. proc[p].fd # NoProcess => lock' = lock
      BY <1>1, <2>1 DEF Held
    <2>6. Held(p)'
      BY <1>1, <1>2, <2>1, <2>2, <2>3, <2>4, <2>5 DEF Held, Working, At
    <2>7. proc[p].ppid # NoProcess =>
            /\ Alive(proc[p].ppid)' <=> Alive(proc[p].ppid)
            /\ proc'[proc[p].ppid].kind = proc[proc[p].ppid].kind
            /\ proc'[proc[p].ppid].ppid = proc[proc[p].ppid].ppid
      BY <1>1, <1>2, <2>2, <2>4 DEF Alive, At
    <2>8. Descent(p)'
      BY <1>1, <1>2, <2>3, <2>7 DEF Descent
    <2>9. QED BY <2>6, <2>8
  <1>6. QED BY <1>3, <1>4, <1>5 DEF Trusted

LEMMA GuardTrusted == ASSUME Trusted, NEW p \in Process, Guard(p) PROVE Trusted'
  <1>1. proc[p] \in States
    BY Known DEF Trusted
  <1>2. CASE pending /\ ~proc[p].context
    BY <1>2, AdvanceTrusted DEF Guard, At, Points
  <1>3. CASE ~(pending /\ ~proc[p].context) /\ proc[p].owner # NoProcess
    BY <1>3, AdvanceTrusted DEF Guard, At, Points
  <1>4. CASE ~(pending /\ ~proc[p].context) /\ proc[p].owner = NoProcess
    BY <1>4, AdvanceTrusted DEF Guard, At, Points
  <1>5. QED BY <1>2, <1>3, <1>4

LEMMA FindOwnerTrusted == ASSUME Trusted, NEW p \in Process, FindOwner(p) PROVE Trusted'
  <1>1. p # NoProcess
    BY NoProcessAssumption
  <1>2. proc[p].owner # NoProcess
    BY <1>1 DEF Trusted, Held, FindOwner, Alive, At
  <1>3. CASE OwnerIsAncestor(p)
    BY <1>2, <1>3, AdvanceTrusted DEF FindOwner, At, Points
  <1>4. CASE ~OwnerIsAncestor(p)
    BY <1>4, AdvanceTrusted DEF FindOwner, At, Points
  <1>5. QED BY <1>3, <1>4

LEMMA ProbeTrusted ==
  ASSUME Trusted, NEW p \in Process, Probe(p) \/ GiveProbeBack(p) PROVE Trusted'
  <1>1. p # NoProcess
    BY NoProcessAssumption
  <1>2. proc[p].owner # NoProcess /\ (At(p, "probed") => lock = p)
    BY <1>1 DEF Trusted, Held, Probe, GiveProbeBack, Alive, At
  <1>3. CASE Probe(p) /\ lock = NoProcess
    BY <1>2, <1>3, AdvanceTrusted DEF Probe, At, Points
  <1>4. CASE Probe(p) /\ lock # NoProcess
    BY <1>2, <1>4, AdvanceTrusted DEF Probe, At, Points
  <1>5. CASE GiveProbeBack(p)
    BY <1>2, <1>5, AdvanceTrusted DEF GiveProbeBack, At, Points
  <1>6. QED BY <1>3, <1>4, <1>5

LEMMA LookTrusted ==
  ASSUME Trusted, NEW p \in Process, Look(p) \/ LookedFree(p) PROVE Trusted'
  <1>1. p # NoProcess
    BY NoProcessAssumption
  <1>2. proc[p].owner = NoProcess /\ (At(p, "looked") => lock = p)
    BY <1>1 DEF Trusted, Held, Look, LookedFree, Alive, At
  <1>3. CASE Look(p) /\ lock = NoProcess
    BY <1>2, <1>3, AdvanceTrusted DEF Look, At, Points
  <1>4. CASE Look(p) /\ lock # NoProcess
    BY <1>2, <1>4, AdvanceTrusted DEF Look, At, Points
  <1>5. CASE LookedFree(p)
    BY <1>2, <1>5, AdvanceTrusted DEF LookedFree, At, Points
  <1>6. QED BY <1>3, <1>4, <1>5

LEMMA OpenTrusted == ASSUME Trusted, NEW p \in Process, Open(p) PROVE Trusted'
  <1>1. p # NoProcess /\ Alive(p) /\ ~Working(p) /\ TypeOK /\ proc[p] \in States
    BY NoProcessAssumption, Known DEF Trusted, Open, Alive, Working, At
  <1>2. Held(p) /\ Descent(p) /\ proc[p].owner = NoProcess /\ proc[p].kind # "monitor"
    BY <1>1 DEF Trusted, Held, Open, At
  <1>3. CASE lock # NoProcess
    BY <1>3, AdvanceTrusted DEF Open, At, Points
  <1>4. CASE lock = NoProcess
    <2> DEFINE s == [proc[p] EXCEPT !.at = "work", !.fd = p, !.owner = p]
    <2>1. s \in States
      BY <1>1 DEF States, Points
    <2>2. proc' = [proc EXCEPT ![p] = s] /\ lock' = p /\ UNCHANGED <<pending, other>>
      BY <1>1, <1>4 DEF Open, TypeOK
    <2>3. /\ proc' \in [Process -> States] /\ proc'[p] = s
          /\ \A q \in Process \ {p} : proc'[q] = proc[q]
      BY <1>1, <2>1, <2>2, Moves
    <2>4. /\ s.at = "work" /\ s.fd = p /\ s.owner = p /\ s.kind = proc[p].kind
          /\ s.ppid = proc[p].ppid /\ s.context = proc[p].context
      BY <1>1 DEF States
    <2> HIDE DEF s
    <2>5. TypeOK'
      BY <1>1, <2>2, <2>3 DEF TypeOK
    <2>6. ASSUME NEW q \in Process, Alive(q)', q # p
          PROVE  Held(q)' /\ Descent(q)'
      <3>1. Alive(q) /\ Held(q)
        BY <2>3, <2>6 DEF Alive, At, Trusted
      <3>2. proc[q].fd # p /\ proc[q].owner # p
        BY <1>1, <3>1, Unremembered
      <3>3. proc[q].fd \in Process \cup {NoProcess}
        BY <1>1, Known DEF States
      <3>4. proc[q].fd = NoProcess /\ proc[q].at \notin {"probed", "looked"}
        BY <1>1, <1>4, <3>1, <3>3, NoProcessAssumption DEF Held
      <3>5. QED BY <1>1, <2>3, <2>4, <2>6, <3>1, <3>2, <3>4, OthersKeep DEF Alive, At
    <2>7. Opened(p)' /\ Alive(p)'
      BY <1>1, <1>2, <2>3, <2>4 DEF Opened, Working, Alive, At
    <2>8. Held(p)'
      BY <1>1, <1>2, <2>2, <2>3, <2>4, <2>7 DEF Held, At
    <2>9. Descent(p)'
      <3>1. proc[p].ppid # NoProcess =>
              /\ Alive(proc[p].ppid)' <=> Alive(proc[p].ppid)
              /\ proc'[proc[p].ppid].kind = proc[proc[p].ppid].kind
        BY <1>1, <2>3, <2>4, <2>7 DEF States, Alive, At
      <3>2. QED BY <1>2, <2>3, <2>4, <3>1 DEF Descent, Alive
    <2>10. QED BY <2>5, <2>6, <2>8, <2>9 DEF Trusted
  <1>5. QED BY <1>3, <1>4

-------------------------------------------------------------------------------
(* A process begins or ends. *)

\* Nobody remembers the id of a new process, which is born with good reasons or with none.
LEMMA BirthTrusted ==
  ASSUME Trusted, NEW c \in Process, Unknown(c), NEW s \in States,
         proc' = [proc EXCEPT ![c] = s], UNCHANGED <<lock, pending, other>>,
         s.at \in {"look", "guard", "open", "work"},
         c \notin {s.fd, s.owner, s.ppid},
         s.fd # NoProcess => /\ s.fd = lock
                             /\ Alive(s.fd) => Opened(s.fd)
                             /\ s.kind # "monitor" => s.owner = s.fd,
         Alive(s.owner) => Opened(s.owner),
         s.at \in {"look", "open"} => s.owner = NoProcess,
         s.at = "work" <=> s.kind = "monitor",
         s.kind = "monitor" => s.owner = NoProcess,
         s.kind = "driver" => s.owner = NoProcess,
         s.kind = "settings" => s.context /\ s.owner \in {s.ppid, NoProcess},
         s.owner # NoProcess => s.owner \in {s.ppid, proc[s.ppid].ppid},
         Alive(s.ppid) /\ proc[s.ppid].kind = "settings" => s.context
  PROVE  Trusted'
  <1>1. TypeOK /\ ~Alive(c) /\ c # NoProcess /\ proc[c].at = "none"
    BY NoProcessAssumption DEF Trusted, Unknown, Alive, At
  <1>2. /\ proc' \in [Process -> States] /\ proc'[c] = s
        /\ \A q \in Process \ {c} : proc'[q] = proc[q]
    BY <1>1, Moves
  <1>3. TypeOK'
    BY <1>1, <1>2 DEF TypeOK
  <1>4. ASSUME NEW q \in Process, Alive(q)', q # c
        PROVE  Held(q)' /\ Descent(q)'
    <2>1. Alive(q)
      BY <1>2, <1>4 DEF Alive, At
    <2>2. c \notin {proc[q].ppid, proc[q].owner, proc[q].fd}
      BY <2>1 DEF Unknown
    <2>3. QED BY <1>2, <1>4, <2>1, <2>2, OthersKeep
  <1>5. \A r \in Process \ {c} : (Alive(r)' <=> Alive(r)) /\ (Opened(r)' <=> Opened(r))
    BY <1>2 DEF Alive, Opened, Working, At
  <1>6. ~Alive(NoProcess) /\ ~Alive(NoProcess)'
    BY DEF Alive
  <1>7. /\ s.fd \in Process \cup {NoProcess} /\ s.owner \in Process \cup {NoProcess}
        /\ s.ppid \in Process \cup {NoProcess}
    BY DEF States
  <1>8. Held(c)'
    BY <1>1, <1>2, <1>5, <1>6, <1>7 DEF Held, Working, At
  <1>9. Alive(s.ppid)' => /\ Alive(s.ppid) /\ proc'[s.ppid].kind = proc[s.ppid].kind
                         /\ proc'[s.ppid].ppid = proc[s.ppid].ppid
    BY <1>2, <1>5, <1>6, <1>7
  <1>10. Descent(c)'
    BY <1>2, <1>6, <1>9 DEF Descent
  <1>11. QED BY <1>3, <1>4, <1>8, <1>10 DEF Trusted

LEMMA StartTrusted ==
  ASSUME Trusted, NEW p \in Process, NEW kind \in Kinds \ {"monitor"}, Start(p, kind)
  PROVE  Trusted'
  <1>1. PICK point \in {"look", "guard", "open"} : proc' = [proc EXCEPT ![p] = Born(kind, point)]
    BY DEF Start, Kinds
  <1> DEFINE s == Born(kind, point)
  <1>2. /\ s \in States /\ s.at = point /\ s.kind = kind /\ s.ppid = NoProcess
        /\ s.owner = NoProcess /\ s.fd = NoProcess /\ s.context = (kind = "settings")
    BY DEF Born, Gone, States, Points, Kinds
  <1>3. proc' = [proc EXCEPT ![p] = s] /\ Unknown(p) /\ UNCHANGED <<lock, pending, other>>
    BY <1>1 DEF Start
  <1> HIDE DEF s
  <1>4. ~Alive(NoProcess) /\ p # NoProcess
    BY NoProcessAssumption DEF Alive
  <1>5. QED BY <1>2, <1>3, <1>4, BirthTrusted

LEMMA BornIsState ==
  ASSUME NEW kind \in Kinds, NEW point \in Points PROVE Born(kind, point) \in States
  BY DEF Born, Gone, States

LEMMA InheritsIsState ==
  ASSUME NEW p \in Process, NEW s \in States, NEW sudo \in BOOLEAN, proc[p] \in States
  PROVE  Inherits(p, s, sudo) \in States
  BY DEF Inherits, States

\* What a process that is at work may hand down.
LEMMA HandsDown ==
  ASSUME Trusted, NEW p \in Process, Working(p)
  PROVE  /\ TypeOK /\ p # NoProcess /\ Alive(p) /\ Held(p) /\ Descent(p) /\ proc[p] \in States
         /\ proc[p].owner # NoProcess
         /\ proc[p].kind = "driver" => proc[p].owner = p
         /\ proc[p].kind = "settings" => proc[p].owner \in {p, proc[p].ppid} /\ proc[p].context
  <1>1. TypeOK /\ p # NoProcess /\ Alive(p) /\ Held(p) /\ Descent(p) /\ proc[p] \in States
    BY NoProcessAssumption, Known DEF Trusted, Working, Alive, At
  <1>2. QED BY <1>1 DEF Held, Descent

LEMMA RunHelperTrusted ==
  ASSUME Trusted, NEW p \in Process, NEW c \in Process, NEW kind \in {"helper", "settings"},
         NEW sudo \in BOOLEAN, RunHelper(p, c, kind, sudo)
  PROVE  Trusted'
  <1>1. /\ Working(p) /\ Unknown(c) /\ UNCHANGED <<lock, pending, other>>
        /\ proc[p].kind = "driver" \/ (proc[p].kind = "settings" /\ kind = "helper")
    BY DEF RunHelper
  <1>2. /\ TypeOK /\ p # NoProcess /\ Alive(p) /\ Held(p) /\ Descent(p) /\ proc[p] \in States
        /\ proc[p].owner # NoProcess
        /\ proc[p].kind = "driver" => proc[p].owner = p
        /\ proc[p].kind = "settings" => proc[p].owner \in {p, proc[p].ppid} /\ proc[p].context
    BY <1>1, HandsDown
  <1> DEFINE s == Inherits(p, Born(kind, "guard"), sudo)
  <1>3. /\ s.at = "guard" /\ s.kind = kind /\ s.ppid = p
        /\ s.owner = proc[p].owner /\ s.fd \in {NoProcess, proc[p].fd}
        /\ s.context = (kind = "settings" \/ proc[p].context)
    BY DEF Inherits, Born, Gone
  <1>4. s \in States
    BY <1>2, BornIsState, InheritsIsState DEF Kinds, Points
  <1>5. proc' = [proc EXCEPT ![c] = s]
    BY DEF RunHelper
  <1> HIDE DEF s
  <1>6. c \notin {s.fd, s.owner, s.ppid}
    <2>1. c \notin {proc[p].owner, proc[p].fd} /\ ~Alive(c) /\ c # NoProcess
      BY <1>1, <1>2, NoProcessAssumption DEF Unknown
    <2>2. QED BY <1>2, <1>3, <2>1
  <1>7. /\ s.fd # NoProcess => s.fd = lock /\ (Alive(s.fd) => Opened(s.fd)) /\ s.owner = s.fd
        /\ Alive(s.owner) => Opened(s.owner)
    BY <1>1, <1>2, <1>3 DEF Held
  <1>8. /\ s.owner \in {s.ppid, proc[s.ppid].ppid}
        /\ s.kind = "settings" => s.context /\ s.owner = s.ppid
        /\ proc[s.ppid].kind = "settings" => s.context
    BY <1>1, <1>2, <1>3
  <1>9. QED BY <1>1, <1>3, <1>4, <1>5, <1>6, <1>7, <1>8, BirthTrusted

LEMMA LeaveMonitorTrusted ==
  ASSUME Trusted, NEW p \in Process, NEW c \in Process, LeaveMonitor(p, c)
  PROVE  Trusted'
  <1>1. Working(p) /\ Unknown(c) /\ UNCHANGED <<lock, pending, other>>
    BY DEF LeaveMonitor
  <1>2. /\ TypeOK /\ p # NoProcess /\ Alive(p) /\ Held(p) /\ proc[p] \in States
        /\ proc[p].kind = "settings" => proc[p].context
    BY <1>1, HandsDown
  <1> DEFINE s == [Inherits(p, Born("monitor", "work"), FALSE) EXCEPT !.owner = NoProcess]
  <1>3. /\ s.at = "work" /\ s.kind = "monitor" /\ s.ppid = p /\ s.owner = NoProcess
        /\ s.fd = proc[p].fd /\ s.context = proc[p].context
    BY <1>2 DEF Inherits, Born, Gone, States
  <1>4. s \in States
    <2>1. Inherits(p, Born("monitor", "work"), FALSE) \in States
      BY <1>2, BornIsState, InheritsIsState DEF Kinds, Points
    <2>2. QED BY <2>1 DEF States
  <1>5. proc' = [proc EXCEPT ![c] = s]
    BY DEF LeaveMonitor
  <1> HIDE DEF s
  <1>6. c \notin {s.fd, s.owner, s.ppid}
    <2>1. c # proc[p].fd /\ ~Alive(c) /\ c # NoProcess
      BY <1>1, <1>2, NoProcessAssumption DEF Unknown
    <2>2. QED BY <1>2, <1>3, <2>1
  <1>7. ~Alive(NoProcess) /\ (s.fd # NoProcess => s.fd = lock /\ (Alive(s.fd) => Opened(s.fd)))
    BY <1>2, <1>3 DEF Held, Alive
  <1>8. QED BY <1>1, <1>2, <1>3, <1>4, <1>5, <1>6, <1>7, BirthTrusted

\* The lock outlives the process that ends iff another one has its descriptor.
LEMMA ExitsTrusted == ASSUME Trusted, NEW p \in Process, Alive(p), Exits(p) PROVE Trusted'
  <1>1. TypeOK /\ p # NoProcess /\ NoProcess \notin Process /\ Gone \in States
        /\ Gone.at = "none" /\ UNCHANGED <<pending, other>>
    BY NoProcessAssumption DEF Trusted, Gone, States, Points, Kinds, Exits
  <1>2. /\ proc' \in [Process -> States] /\ proc'[p] = Gone
        /\ \A q \in Process \ {p} : proc'[q] = proc[q]
    BY <1>1, Moves DEF Exits
  <1>3. TypeOK'
    BY <1>1, <1>2 DEF TypeOK, Exits
  <1>4. ~Alive(p)'
    BY <1>1, <1>2 DEF Alive, At
  <1>5. \A r \in Process \ {p} : (Alive(r)' <=> Alive(r)) /\ (Opened(r)' <=> Opened(r))
    BY <1>2 DEF Alive, Opened, Working, At
  <1>6. ~Alive(NoProcess) /\ ~Alive(NoProcess)'
    BY DEF Alive
  <1>7. ASSUME NEW q \in Process, Alive(q)'
        PROVE  Held(q)' /\ Descent(q)'
    <2>1. q # p /\ Alive(q) /\ Held(q) /\ Descent(q) /\ proc'[q] = proc[q] /\ proc[q] \in States
      BY <1>2, <1>4, <1>5, <1>7, Known DEF Trusted
    <2>2. /\ proc[q].fd \in Process \cup {NoProcess} /\ proc[q].owner \in Process \cup {NoProcess}
          /\ proc[q].ppid \in Process \cup {NoProcess}
      BY <2>1 DEF States
    <2>3. proc[q].fd # NoProcess \/ proc[q].at \in {"probed", "looked"} => lock' = lock
      BY <2>1 DEF Held, Has, Exits
    <2>4. Held(q)'
      BY <1>4, <1>5, <1>6, <2>1, <2>2, <2>3 DEF Held, Working, At
    <2>5. Alive(proc[q].ppid)' => /\ Alive(proc[q].ppid)
                                 /\ proc'[proc[q].ppid].kind = proc[proc[q].ppid].kind
                                 /\ proc'[proc[q].ppid].ppid = proc[proc[q].ppid].ppid
      BY <1>2, <1>4, <1>5, <1>6, <2>1, <2>2
    <2>6. Descent(q)'
      BY <2>1, <2>5 DEF Descent
    <2>7. QED BY <2>4, <2>6
  <1>8. QED BY <1>3, <1>7 DEF Trusted

-------------------------------------------------------------------------------
(* Every reachable state. *)

LEMMA InitTrusted == Init => Trusted
  <1>1. Gone \in States /\ Gone.at = "none"
    BY DEF Gone, States, Points, Kinds
  <1>2. QED BY <1>1 DEF Init, Trusted, TypeOK, Alive, At

LEMMA NextTrusted == Trusted /\ [Next]_vars => Trusted'
  <1> SUFFICES ASSUME Trusted, [Next]_vars PROVE Trusted'
    OBVIOUS
  <1>1. TypeOK
    BY DEF Trusted
  <1>2. ASSUME UNCHANGED proc, UNCHANGED lock, pending' \in BOOLEAN, other' \in BOOLEAN
        PROVE  Trusted'
    BY <1>1, <1>2 DEF Trusted, TypeOK, Held, Descent, Alive, Opened, Working, At
  <1>3. CASE UNCHANGED vars
    BY <1>1, <1>2, <1>3 DEF vars, TypeOK
  <1>4. CASE HostReboots
    <2>1. TypeOK'
      BY <1>1, <1>4 DEF HostReboots, TypeOK, Gone, States, Points, Kinds
    <2>2. \A p \in Process : ~Alive(p)'
      BY <1>4 DEF HostReboots, Alive, At, Gone
    <2>3. QED BY <2>1, <2>2 DEF Trusted
  <1>5. ASSUME NEW p \in Process, NEW kind \in Kinds \ {"monitor"}, Start(p, kind) PROVE Trusted'
    BY <1>5, StartTrusted
  <1>6. ASSUME NEW p \in Process, Acquires(p) PROVE Trusted'
    <2>1. CASE GiveUp(p)
      BY <2>1, <1>6, ExitsTrusted, NoProcessAssumption DEF GiveUp, Alive, At
    <2>2. QED BY <1>6, <2>1, GuardTrusted, FindOwnerTrusted, ProbeTrusted, OpenTrusted, LookTrusted
              DEF Acquires
  <1>7. ASSUME NEW p \in Process, Finish(p) \/ Killed(p) PROVE Trusted'
    BY <1>7, ExitsTrusted, NoProcessAssumption DEF Finish, Killed, Working, Alive, At
  <1>8. ASSUME NEW p \in Process, NEW c \in Process, NEW kind \in {"helper", "settings"},
               NEW sudo \in BOOLEAN, RunHelper(p, c, kind, sudo)
        PROVE  Trusted'
    BY <1>8, RunHelperTrusted
  <1>9. ASSUME NEW p \in Process, NEW c \in Process, LeaveMonitor(p, c) PROVE Trusted'
    BY <1>9, LeaveMonitorTrusted
  <1>10. ASSUME NEW p \in Process, ChangeSettings(p) \/ ChangeOther(p) PROVE Trusted'
    <2>1. pending' \in BOOLEAN /\ other' \in BOOLEAN
      BY <1>1, <1>10 DEF ChangeSettings, ChangeOther, TypeOK
    <2>2. UNCHANGED proc /\ UNCHANGED lock
      BY <1>10 DEF ChangeSettings, ChangeOther
    <2>3. QED BY <1>2, <2>1, <2>2
  <1>11. QED BY <1>3, <1>4, <1>5, <1>6, <1>7, <1>8, <1>9, <1>10 DEF Next

\* Whoever remembers a lock remembers the one that is locked, in every reachable state
\* (operation-lock.sh, acquire_operation_lock, with everything that starts, forks or kills).
THEOREM SpecTrusted == Spec => []Trusted
  BY InitTrusted, NextTrusted, PTL DEF Spec

\* Whoever works under the lock works for the process that has it locked.
LEMMA TrustedIsOne == Trusted => OneOperation
  <1> SUFFICES ASSUME Trusted, NEW p \in Process, NEW q \in Process,
                      Working(p), Covered(p), Working(q), Covered(q)
               PROVE  proc[p].owner = proc[q].owner
    BY DEF OneOperation
  <1>1. ASSUME NEW r \in Process, Working(r), Covered(r) PROVE proc[r].owner = lock
    <2>1. Held(r) /\ proc[r].kind # "monitor"
      BY <1>1, NoProcessAssumption DEF Trusted, Working, Alive, At
    <2>2. CASE proc[r].fd # NoProcess
      BY <2>1, <2>2 DEF Held
    <2>3. CASE Alive(proc[r].owner)
      <3>1. Opened(proc[r].owner)
        BY <2>1, <2>3 DEF Held
      <3>2. proc[r].owner \in Process
        BY <1>1, <2>3, Known DEF Trusted, States, Alive
      <3>3. Held(proc[r].owner)
        BY <2>3, <3>2 DEF Trusted
      <3>4. QED BY <3>1, <3>2, <3>3, NoProcessAssumption DEF Held, Opened
    <2>4. QED BY <1>1, <2>2, <2>3 DEF Covered
  <1>2. QED BY <1>1

\* Two covered mutations at a time belong to the same outer operation (operation-lock.sh,
\* acquire_operation_lock).
THEOREM OneOperationAtATime == Spec => []OneOperation
  BY SpecTrusted, TrustedIsOne, PTL

-------------------------------------------------------------------------------
(* Refusals. *)

Refused(p) == ~At(p, "refused") /\ proc'[p].at = "refused"
Orphaned(p) == ~Alive(proc[p].owner) \/ ~Alive(proc[p].ppid)

\* An owner that is alive has the lock.
LEMMA OwnerHasIt ==
  ASSUME Trusted, NEW p \in Process, Alive(p), ~Working(p), Alive(proc[p].owner)
  PROVE  proc[p].owner # p /\ proc[p].owner = lock
  <1>1. Held(p) /\ proc[p].owner \in Process
    BY Known DEF Trusted, States, Alive
  <1>2. Opened(proc[p].owner) /\ Held(proc[p].owner)
    BY <1>1 DEF Trusted, Held
  <1>3. proc[p].owner # NoProcess
    BY DEF Alive
  <1>4. QED BY <1>2, <1>3 DEF Opened, Held

\* The guard knows a settings transaction's own helpers.
LEMMA GuardServes ==
  ASSUME Trusted, NEW p \in Process, Guard(p), proc'[p].at = "refused"
  PROVE  pending /\ ~InSettings(p)
  <1>1. TypeOK /\ Alive(p) /\ Descent(p)
    BY NoProcessAssumption DEF Trusted, Guard, Alive, At
  <1>2. pending /\ ~proc[p].context
    BY <1>1 DEF Guard, Go, TypeOK
  <1>3. ~InSettings(p)
    BY <1>1, <1>2 DEF InSettings, Parent, Descent
  <1>4. QED BY <1>2, <1>3

\* The owner is found two generations up, if both are still there.
LEMMA OwnerIsFound ==
  ASSUME Trusted, NEW p \in Process, FindOwner(p), proc'[p].at = "refused"
  PROVE  Orphaned(p)
  <1>1. TypeOK /\ Alive(p) /\ ~Working(p) /\ Held(p) /\ Descent(p)
    BY NoProcessAssumption DEF Trusted, FindOwner, Alive, Working, At
  <1>2. ~OwnerIsAncestor(p)
    BY <1>1 DEF FindOwner, Go, TypeOK
  <1> SUFFICES ASSUME Alive(proc[p].owner), Alive(proc[p].ppid) PROVE FALSE
    BY DEF Orphaned
  <1>3. proc[p].owner # p /\ proc[p].owner # NoProcess
    BY <1>1, OwnerHasIt DEF Alive
  <1>4. proc[p].owner \in {proc[p].ppid, proc[proc[p].ppid].ppid}
    BY <1>1, <1>3 DEF Descent
  <1>5. Parent(p) = proc[p].ppid /\ proc[p].ppid # NoProcess
    BY NoProcessAssumption DEF Parent, Alive
  <1>6. proc[p].owner = proc[proc[p].ppid].ppid => Parent(Parent(p)) = proc[p].owner
    BY <1>5 DEF Parent
  <1>7. QED BY <1>2, <1>4, <1>5, <1>6 DEF OwnerIsAncestor

\* A probe succeeds only on a lock that the owner has lost.
LEMMA ProbeFails ==
  ASSUME Trusted, NEW p \in Process, GiveProbeBack(p)
  PROVE  Orphaned(p)
  <1>1. Alive(p) /\ ~Working(p) /\ Held(p) /\ lock = p
    BY NoProcessAssumption DEF Trusted, GiveProbeBack, Alive, Working, At, Held
  <1>2. QED BY <1>1, OwnerHasIt DEF Orphaned

LEMMA AcquiresServes ==
  ASSUME Trusted, NEW p \in Process, Acquires(p), proc[p].owner # NoProcess, Refused(p)
  PROVE  Orphaned(p) \/ (pending /\ ~InSettings(p))
  <1>1. TypeOK /\ p # NoProcess
    BY NoProcessAssumption DEF Trusted
  <1>2. CASE Guard(p)
    BY <1>2, GuardServes DEF Refused
  <1>3. CASE FindOwner(p)
    BY <1>3, OwnerIsFound DEF Refused
  <1>4. CASE GiveProbeBack(p)
    BY <1>4, ProbeFails
  <1>5. CASE Probe(p)
    BY <1>1, <1>5, Goes DEF Refused, Probe, Points
  <1>6. CASE Open(p) \/ Look(p) \/ LookedFree(p)
    BY <1>1, <1>6 DEF Trusted, Held, Open, Look, LookedFree, Alive, At
  <1>7. CASE GiveUp(p)
    BY <1>7 DEF Refused, GiveUp
  <1>8. QED BY <1>2, <1>3, <1>4, <1>5, <1>6, <1>7 DEF Acquires

\* Nobody is refused by what another process does.
LEMMA OnlyItsOwn ==
  ASSUME TypeOK, Next, NEW p \in Process, Refused(p)
  PROVE  Acquires(p)
  <1>1. ASSUME NEW r \in Process, NEW s, s.at # "refused", proc' = [proc EXCEPT ![r] = s]
        PROVE  FALSE
    BY <1>1 DEF Refused, TypeOK, At
  <1>2. Gone.at = "none"
    BY DEF Gone
  <1>3. CASE HostReboots
    BY <1>2, <1>3 DEF HostReboots, Refused
  <1>4. ASSUME NEW r \in Process, NEW kind \in Kinds \ {"monitor"}, Start(r, kind) PROVE FALSE
    <2>1. PICK point \in {"look", "guard", "open"} : proc' = [proc EXCEPT ![r] = Born(kind, point)]
      BY <1>4 DEF Start, Kinds
    <2>2. Born(kind, point).at # "refused"
      BY DEF Born, Gone
    <2>3. QED BY <1>1, <2>1, <2>2
  <1>5. ASSUME NEW r \in Process, Acquires(r), r # p PROVE FALSE
    BY <1>5 DEF Acquires, Guard, FindOwner, Probe, GiveProbeBack, Open, Look, LookedFree, GiveUp,
                Exits, Go, Refused, At, TypeOK
  <1>6. ASSUME NEW r \in Process, Finish(r) \/ Killed(r) PROVE FALSE
    BY <1>1, <1>2, <1>6 DEF Finish, Killed, Exits
  <1>7. ASSUME NEW r \in Process, NEW c \in Process, NEW kind \in {"helper", "settings"},
               NEW sudo \in BOOLEAN, RunHelper(r, c, kind, sudo)
        PROVE  FALSE
    <2>1. Inherits(r, Born(kind, "guard"), sudo).at # "refused"
      BY DEF Inherits, Born, Gone
    <2>2. QED BY <1>1, <1>7, <2>1 DEF RunHelper
  <1>8. ASSUME NEW r \in Process, NEW c \in Process, LeaveMonitor(r, c) PROVE FALSE
    <2> DEFINE s == [Inherits(r, Born("monitor", "work"), FALSE) EXCEPT !.owner = NoProcess]
    <2>1. s.at # "refused"
      BY DEF Inherits, Born, Gone
    <2>2. proc' = [proc EXCEPT ![c] = s]
      BY <1>8 DEF LeaveMonitor
    <2> HIDE DEF s
    <2>3. QED BY <1>1, <2>1, <2>2
  <1>9. ASSUME NEW r \in Process, ChangeSettings(r) \/ ChangeOther(r) PROVE FALSE
    BY <1>9 DEF ChangeSettings, ChangeOther, Refused, At
  <1>10. QED BY <1>3, <1>4, <1>5, <1>6, <1>7, <1>8, <1>9 DEF Next

\* A helper is not refused by the lock its own outer script has (operation-lock.sh,
\* operation_lock_owner_is_ancestor; install.sh, sudo_with_operation_lock).
THEOREM NoHelperIsLockedOut == Spec => HelpersAreServed
  <1>1. ASSUME Trusted, Next, NEW p \in Process, proc[p].owner # NoProcess, Refused(p)
        PROVE  Orphaned(p) \/ (pending /\ ~InSettings(p))
    <2>1. TypeOK
      BY <1>1 DEF Trusted
    <2>2. Acquires(p)
      BY <1>1, <2>1, OnlyItsOwn
    <2>3. QED BY <1>1, <2>2, AcquiresServes
  <1>2. ASSUME Trusted, [Next]_vars
        PROVE  [\A p \in Process :
                 proc[p].owner # NoProcess /\ ~At(p, "refused") /\ proc'[p].at = "refused" =>
                   \/ ~Alive(proc[p].owner) \/ ~Alive(proc[p].ppid)
                   \/ pending /\ ~InSettings(p)]_vars
    BY <1>1, <1>2 DEF Refused, Orphaned
  <1>3. QED BY SpecTrusted, <1>2, PTL DEF Spec, HelpersAreServed

===============================================================================
