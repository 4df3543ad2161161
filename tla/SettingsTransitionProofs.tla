---------------------- MODULE SettingsTransitionProofs ----------------------
(***************************************************************************)
(* Proofs about SettingsTransition, for any set of manifests.              *)
(*                                                                         *)
(* A property of one step depends on what the command has done before it,  *)
(* and the plan no longer says: what is left of it does.  A step of a plan *)
(* is therefore named by the number of steps after it, which neither the   *)
(* steps done nor those skipped in the trap change.  The inductive         *)
(* invariant says which steps may be left (the shapes), and what holds     *)
(* when they are (Preparing, Applying, Restoring, Finishing, Clearing).    *)
(***************************************************************************)
EXTENDS SettingsTransition, Integers, SequenceTheorems, WellFoundedInduction, TLAPS

Accesses == {m.api : m \in Manifest} \cup {"local", "partial"}
Phases == {"none", "preparing", "activation-guarded", "activated", "resources-applied",
           "committing", "rolling-back"}

Verbs == {"backup", "target", "digest", "start", "active", "running", "phase", "live", "proxy",
          "unit", "boot", "standalone", "halt", "verify", "markers", "cleanup", "clear"}
Words == Phases
  \cup {"live", "backup", "target", "digests", "start", "no-start", "active", "running", "phase"}
  \cup {"install", "enable", "disable", "disable_now", "remove", "stop", "await"}
  \cup {"service", "container", "runtime", "previous", "config"}
Argument ==
  Words \cup BOOLEAN \cup Manifest \cup Accesses
    \cup [of : {"backup", "target"}, start : BOOLEAN, enabled : BOOLEAN]
Steps == [verb : Verbs, arg : Argument]

TypeOK ==
  /\ live \in Manifest
  /\ phase \in Phases
  /\ files \in [backup : Manifest \cup {None}, target : Manifest \cup {None},
                digests : SUBSET {"backup", "target"},
                start : {"none", "start", "no-start"}, active : BOOLEAN, running : BOOLEAN]
  /\ proxy \in Accesses
  /\ unit \in [installed : BOOLEAN, enabled : BOOLEAN, active : BOOLEAN]
  /\ container \in Manifest \cup {None}
  /\ config \in BOOLEAN
  /\ todo \in Seq(Steps)
  /\ mode \in {"plain", "guarded", "undoing"}
  /\ blind \in BOOLEAN
-----------------------------------------------------------------------------
(* Sequences, counted from their end.                                      *)

\* The element of s that d others follow.
FromEnd(s, d) == s[Len(s) - d]
Places(s) == 0..(Len(s) - 1)

\* t is the end of s.
Ends(t, s) ==
  /\ t \in Seq(Steps)
  /\ Len(t) <= Len(s)
  /\ \A d \in Places(t) : FromEnd(t, d) = FromEnd(s, d)

LEMMA TailEnds ==
  ASSUME NEW s \in Seq(Steps), s # <<>>
  PROVE  /\ Ends(Tail(s), s) /\ Len(Tail(s)) = Len(s) - 1 /\ Len(s) \in Nat \ {0}
         /\ Head(s) = FromEnd(s, Len(s) - 1) /\ Head(s) \in Steps
  <1>1. Len(s) \in Nat \ {0} /\ Tail(s) \in Seq(Steps) /\ Len(Tail(s)) = Len(s) - 1
    OBVIOUS
  <1>2. ASSUME NEW d \in 0..(Len(s) - 2) PROVE Tail(s)[Len(s) - 1 - d] = s[Len(s) - d]
    <2>1. Len(s) - 1 - d \in 1..(Len(s) - 1)
      BY <1>1
    <2>2. Tail(s)[Len(s) - 1 - d] = s[Len(s) - 1 - d + 1]
      BY <1>1, <2>1
    <2>3. QED BY <1>1, <2>2
  <1>3. QED BY <1>1, <1>2 DEF Ends, FromEnd, Places

LEMMA RestEnds ==
  ASSUME NEW s \in Seq(Steps), NEW k \in 1..Len(s)
  PROVE  /\ Ends(SubSeq(s, k, Len(s)), s) /\ Len(SubSeq(s, k, Len(s))) = Len(s) - k + 1
  <1> DEFINE t == SubSeq(s, k, Len(s))
  <1>1. Len(s) \in Nat /\ t \in Seq(Steps) /\ Len(t) = Len(s) - k + 1
    BY SubSeqProperties
  <1>2. ASSUME NEW d \in 0..(Len(t) - 1) PROVE t[Len(t) - d] = s[Len(s) - d]
    <2>1. Len(t) - d \in 1..(Len(s) - k + 1)
      BY <1>1
    <2>2. t[Len(t) - d] = s[k + (Len(t) - d) - 1]
      BY <1>1, <2>1, SubSeqProperties
    <2>3. QED BY <1>1, <2>2
  <1>3. QED BY <1>1, <1>2 DEF Ends, FromEnd, Places

LEMMA JoinFromEnd ==
  ASSUME NEW s \in Seq(Steps), NEW t \in Seq(Steps)
  PROVE  /\ s \o t \in Seq(Steps) /\ Len(s \o t) = Len(s) + Len(t)
         /\ Len(s) \in Nat /\ Len(t) \in Nat
         /\ \A d \in Places(t) : FromEnd(s \o t, d) = FromEnd(t, d)
         /\ \A d \in Places(s) : FromEnd(s \o t, d + Len(t)) = FromEnd(s, d)
  <1>1. /\ s \o t \in Seq(Steps) /\ Len(s \o t) = Len(s) + Len(t)
        /\ Len(s) \in Nat /\ Len(t) \in Nat
    OBVIOUS
  <1>2. ASSUME NEW d \in Places(t) PROVE FromEnd(s \o t, d) = FromEnd(t, d)
    <2> DEFINE i == Len(s \o t) - d
    <2>1. i \in 1..(Len(s) + Len(t)) /\ ~(i <= Len(s)) /\ i - Len(s) = Len(t) - d
      BY <1>1 DEF Places
    <2> HIDE DEF i
    <2>a. \A j \in 1..(Len(s) + Len(t)) :
            (s \o t)[j] = IF j <= Len(s) THEN s[j] ELSE t[j - Len(s)]
      BY ConcatProperties, Zenon
    <2>2. (s \o t)[i] = t[i - Len(s)]
      BY <2>1, <2>a
    <2>4. QED BY <2>1, <2>2 DEF FromEnd, i
  <1>3. ASSUME NEW d \in Places(s) PROVE FromEnd(s \o t, d + Len(t)) = FromEnd(s, d)
    <2> DEFINE i == Len(s) - d
    <2>1. i \in 1..(Len(s) + Len(t)) /\ i <= Len(s)
      BY <1>1 DEF Places
    <2>2. Len(s \o t) - (d + Len(t)) = i
      BY <1>1 DEF Places
    <2> HIDE DEF i
    <2>3. (s \o t)[i] = s[i]
      BY <2>1, ConcatProperties
    <2>4. QED BY <2>2, <2>3 DEF FromEnd, i
  <1>4. QED BY <1>1, <1>2, <1>3
-----------------------------------------------------------------------------
(* What is left of each plan.                                              *)

Does(x, verb, args) == x.verb = verb /\ x.arg \in args
Checks(x, m, enabled) == x.verb = "verify" /\ x.arg.of = m /\ x.arg.enabled = enabled

ClearsLast(s) ==
  \A d \in Places(s) : d <= 6 => Does(FromEnd(s, d), "clear", {ClearOrder[7 - d]})

ClearShape(s) == Len(s) <= 7 /\ ClearsLast(s)

PrepareShape(s) ==
  /\ s # <<>> /\ Len(s) <= 8
  /\ \A d \in Places(s) :
       /\ d = 7 => FromEnd(s, d).verb = "backup"
       /\ d = 6 => Does(FromEnd(s, d), "target", Manifest)
       /\ d \in {4, 5} => Does(FromEnd(s, d), "digest", {"backup", "target"})
       /\ d = 3 => Does(FromEnd(s, d), "start", {"start", "no-start"})
       /\ d = 2 => FromEnd(s, d).verb = "active"
       /\ d = 1 => FromEnd(s, d).verb = "running"
       /\ d = 0 => Does(FromEnd(s, d), "phase", {"preparing"})

\* What apply and restore_backup have in common.
ResourceStep(x) ==
  \/ Does(x, "proxy", Accesses)
  \/ Does(x, "unit", {"install", "disable_now", "remove", "stop", "start", "await"})
  \/ Does(x, "standalone", Manifest)

\* A unit is disabled before it is removed, and installed before it is enabled.
Paired(s) ==
  \A d \in 0..(Len(s) - 2) :
    /\ Does(FromEnd(s, d), "unit", {"remove"}) =>
         Does(FromEnd(s, d + 1), "unit", {"disable_now"})
    /\ Does(FromEnd(s, d), "unit", {"enable"}) =>
         Does(FromEnd(s, d + 1), "unit", {"install"})

ActivateStep(x) ==
  Does(x, "phase", {"activated"}) \/ Does(x, "unit", {"disable"}) \/ ResourceStep(x)
ApplyStep(x) ==
  \/ Does(x, "phase", {"activation-guarded"}) \/ Does(x, "boot", {FALSE})
  \/ Does(x, "live", {"target"}) \/ ActivateStep(x)

\* The first steps of apply: the phase, boot, the manifest.
Guards(s, d) == d = Len(s) - 1 /\ Does(FromEnd(s, d), "phase", {"activation-guarded"})
GuardsBoot(s, d) ==
  /\ FromEnd(s, d).verb = "boot"
  /\ d # Len(s) - 1 => d = Len(s) - 2 /\ Guards(s, d + 1)

ApplyShape(s) ==
  /\ s # <<>>
  /\ \A d \in Places(s) :
       /\ d = 0 => Does(FromEnd(s, d), "phase", {"resources-applied"})
       /\ d = 1 => Checks(FromEnd(s, d), "target", FALSE)
       /\ d > 1 => ApplyStep(FromEnd(s, d))
       /\ Does(FromEnd(s, d), "phase", {"activation-guarded"}) => Guards(s, d)
       /\ FromEnd(s, d).verb = "boot" => GuardsBoot(s, d)
       /\ FromEnd(s, d).verb = "live" =>
            \/ d = Len(s) - 1
            \/ d <= Len(s) - 2 /\ (Guards(s, d + 1) \/ GuardsBoot(s, d + 1))
  /\ Paired(s)

PutBackStep(x) ==
  \/ Does(x, "boot", {TRUE}) \/ Does(x, "unit", {"enable"})
  \/ x.verb \in {"markers", "halt"} \/ ResourceStep(x)
RestoreStep(x) ==
  Does(x, "phase", {"rolling-back"}) \/ Does(x, "live", {"backup"}) \/ PutBackStep(x)

RestoreShape(s) ==
  /\ Len(s) >= 8
  /\ ClearsLast(s)
  /\ Checks(FromEnd(s, 7), "backup", TRUE)
  /\ \A d \in 8..(Len(s) - 1) :
       /\ RestoreStep(FromEnd(s, d))
       /\ FromEnd(s, d).verb = "phase" => d = Len(s) - 1
       /\ FromEnd(s, d).verb = "live" =>
            \/ d = Len(s) - 1
            \/ d = Len(s) - 2 /\ FromEnd(s, d + 1).verb = "phase"
  /\ Paired(s)

UnreadShape(s) ==
  /\ Len(s) = 8 \/ Len(s) = 9
  /\ ClearsLast(s)
  /\ Does(FromEnd(s, 7), "live", {"backup"})
  /\ Len(s) = 9 => Does(FromEnd(s, 8), "phase", {"rolling-back"})

FinishShape(s) ==
  /\ Len(s) >= 8
  /\ ClearsLast(s)
  /\ FromEnd(s, 7).verb = "cleanup"
  /\ \A d \in 8..(Len(s) - 1) :
       /\ d = 8 => Checks(FromEnd(s, d), "target", TRUE)
       /\ d > 8 => \/ Does(FromEnd(s, d), "boot", {TRUE})
                   \/ Does(FromEnd(s, d), "phase", {"committing"})
                   \/ Checks(FromEnd(s, d), "target", FALSE)
       /\ (FromEnd(s, d).verb = "boot" /\ d < Len(s) - 1) =>
            Does(FromEnd(s, d + 1), "phase", {"committing"})

LEMMA UnreadPlaces ==
  ASSUME NEW s \in Seq(Steps), UnreadShape(s)
  PROVE  /\ s # <<>> /\ Len(s) - 1 >= 7 /\ Len(s) - 1 \in Places(s)
         /\ \A d \in 0..7 : d \in Places(s)
         /\ Len(s) = 8 \/ Len(s) = 9
         /\ \A d \in Places(s) : d \in 0..6 \/ d = 7 \/ (d = 8 /\ Len(s) = 9)
  <1> DEFINE n == Len(s)
  <1>1. (n = 8 \/ n = 9) /\ n \in Nat
    BY DEF UnreadShape
  <1>2. n # 0 => s # <<>>
    OBVIOUS
  <1> HIDE DEF n
  <1>3. /\ n # 0 /\ n - 1 >= 7 /\ n - 1 \in 0..(n - 1)
        /\ \A d \in 0..7 : d \in 0..(n - 1)
        /\ \A d \in 0..(n - 1) : d \in 0..6 \/ d = 7 \/ (d = 8 /\ n = 9)
    BY <1>1
  <1>4. QED BY <1>1, <1>2, <1>3 DEF n, Places

\* What is left of the end of a plan is of the same shape.
LEMMA ClearsEnd ==
  ASSUME NEW s \in Seq(Steps), NEW t, Ends(t, s), ClearsLast(s)
  PROVE  ClearsLast(t) /\ (Len(t) <= 7 => ClearShape(t))
  BY DEF Ends, ClearsLast, ClearShape, Places

LEMMA PrepareEnd ==
  ASSUME NEW s \in Seq(Steps), NEW t, Ends(t, s), PrepareShape(s), t # <<>>
  PROVE  PrepareShape(t)
  <1>1. Len(t) \in Nat \ {0} /\ Len(s) \in Nat /\ Len(t) <= Len(s)
    BY DEF Ends
  <1>2. ASSUME NEW d \in Places(t) PROVE d \in Places(s) /\ FromEnd(t, d) = FromEnd(s, d)
    BY <1>1 DEF Ends, Places
  <1>3. Len(t) <= 8
    BY <1>1 DEF PrepareShape
  <1> DEFINE Kinds(x, d) ==
               /\ d = 7 => x.verb = "backup"
               /\ d = 6 => Does(x, "target", Manifest)
               /\ d \in {4, 5} => Does(x, "digest", {"backup", "target"})
               /\ d = 3 => Does(x, "start", {"start", "no-start"})
               /\ d = 2 => x.verb = "active"
               /\ d = 1 => x.verb = "running"
               /\ d = 0 => Does(x, "phase", {"preparing"})
  <1>4. \A d \in Places(s) : Kinds(FromEnd(s, d), d)
    BY DEF PrepareShape
  <1> HIDE DEF Kinds
  <1>5. \A d \in Places(t) : Kinds(FromEnd(t, d), d)
    BY <1>2, <1>4
  <1>6. QED BY <1>3, <1>5 DEF PrepareShape, Kinds

LEMMA PairedEnd ==
  ASSUME NEW s \in Seq(Steps), NEW t, Ends(t, s), Paired(s)
  PROVE  Paired(t)
  BY DEF Ends, Paired, Places

LEMMA ApplyEnd ==
  ASSUME NEW s \in Seq(Steps), NEW t, Ends(t, s), ApplyShape(s), t # <<>>
  PROVE  ApplyShape(t)
  <1>1. Paired(t)
    BY PairedEnd DEF ApplyShape
  <1>2. Len(t) \in Nat /\ Len(s) \in Nat /\ Len(t) <= Len(s) /\ Places(t) \subseteq Places(s)
    BY DEF Ends, Places
  <1>3. ASSUME NEW d \in Places(t)
        PROVE  /\ Guards(s, d) => Guards(t, d)
               /\ GuardsBoot(s, d) => GuardsBoot(t, d)
    <2>2. FromEnd(t, d) = FromEnd(s, d)
      BY DEF Ends
    <2>4. d <= Len(t) - 1 /\ d \in Nat
      BY <1>2 DEF Places
    <2>1. Guards(s, d) => Guards(t, d)
      BY <1>2, <2>2, <2>4 DEF Guards
    <2>3. (d # Len(t) - 1 /\ Guards(s, d + 1)) => Guards(t, d + 1)
      <3>1. d # Len(t) - 1 => FromEnd(t, d + 1) = FromEnd(s, d + 1) /\ d + 1 <= Len(t) - 1
        BY <1>2, <2>4 DEF Ends, Places
      <3>2. QED BY <1>2, <2>4, <3>1 DEF Guards
    <2>5. ASSUME GuardsBoot(s, d) PROVE GuardsBoot(t, d)
      <3>1. d # Len(t) - 1 => Guards(t, d + 1)
        BY <1>2, <2>3, <2>4, <2>5 DEF GuardsBoot
      <3>2. (d # Len(t) - 1 /\ Guards(t, d + 1)) => d = Len(t) - 2
        BY <1>2, <2>4 DEF Guards
      <3>3. QED BY <2>2, <2>5, <3>1, <3>2 DEF GuardsBoot
    <2>6. QED BY <2>1, <2>5
  <1>4. ASSUME NEW d \in Places(t)
        PROVE  /\ d = 0 => Does(FromEnd(t, d), "phase", {"resources-applied"})
               /\ d = 1 => Checks(FromEnd(t, d), "target", FALSE)
               /\ d > 1 => ApplyStep(FromEnd(t, d))
               /\ Does(FromEnd(t, d), "phase", {"activation-guarded"}) => Guards(t, d)
               /\ FromEnd(t, d).verb = "boot" => GuardsBoot(t, d)
    BY <1>2, <1>3 DEF Ends, ApplyShape
  <1>5. ASSUME NEW d \in Places(t), FromEnd(t, d).verb = "live"
        PROVE  \/ d = Len(t) - 1
               \/ d <= Len(t) - 2 /\ (Guards(t, d + 1) \/ GuardsBoot(t, d + 1))
    <2>1. \/ d = Len(s) - 1
          \/ d <= Len(s) - 2 /\ (Guards(s, d + 1) \/ GuardsBoot(s, d + 1))
      BY <1>2, <1>5 DEF Ends, ApplyShape
    <2>2. CASE d = Len(t) - 1
      BY <2>2
    <2>3. CASE d # Len(t) - 1
      <3>1. d + 1 \in Places(t)
        BY <1>2, <2>3 DEF Places
      <3>2. QED BY <1>2, <1>3, <2>1, <3>1 DEF Places
    <2>4. QED BY <2>2, <2>3
  <1>6. QED BY <1>1, <1>4, <1>5 DEF ApplyShape

LEMMA RestoreEnd ==
  ASSUME NEW s \in Seq(Steps), NEW t, Ends(t, s), RestoreShape(s), Len(t) >= 8
  PROVE  RestoreShape(t)
  <1>1. Paired(t) /\ ClearsLast(t)
    BY PairedEnd, ClearsEnd DEF RestoreShape
  <1>2. Len(t) \in Nat /\ Len(s) \in Nat /\ Len(t) <= Len(s) /\ Places(t) \subseteq Places(s)
    BY DEF Ends, Places
  <1>3. Checks(FromEnd(t, 7), "backup", TRUE)
    <2>1. FromEnd(t, 7) = FromEnd(s, 7)
      BY <1>2 DEF Ends, Places
    <2>2. QED BY <2>1 DEF RestoreShape
  <1>4. ASSUME NEW d \in 8..(Len(t) - 1)
        PROVE  /\ RestoreStep(FromEnd(t, d))
               /\ FromEnd(t, d).verb = "phase" => d = Len(t) - 1
               /\ FromEnd(t, d).verb = "live" =>
                    \/ d = Len(t) - 1
                    \/ d = Len(t) - 2 /\ FromEnd(t, d + 1).verb = "phase"
    <2>1. FromEnd(t, d) = FromEnd(s, d) /\ d \in 8..(Len(s) - 1)
      BY <1>2 DEF Ends, Places
    <2>2. d # Len(t) - 1 => FromEnd(t, d + 1) = FromEnd(s, d + 1)
      BY <1>2 DEF Ends, Places
    <2>3. QED BY <1>2, <2>1, <2>2 DEF RestoreShape
  <1>5. QED BY <1>1, <1>3, <1>4 DEF RestoreShape

LEMMA FinishEnd ==
  ASSUME NEW s \in Seq(Steps), NEW t, Ends(t, s), FinishShape(s), Len(t) >= 8
  PROVE  FinishShape(t)
  <1>1. ClearsLast(t)
    BY ClearsEnd DEF FinishShape
  <1>2. Len(t) \in Nat /\ Len(s) \in Nat /\ Len(t) <= Len(s)
    BY DEF Ends
  <1>3. FromEnd(t, 7).verb = "cleanup"
    BY <1>2 DEF Ends, FinishShape, Places
  <1>4. ASSUME NEW d \in 8..(Len(t) - 1)
        PROVE  /\ FromEnd(t, d) = FromEnd(s, d) /\ d \in 8..(Len(s) - 1)
               /\ d < Len(t) - 1 => FromEnd(t, d + 1) = FromEnd(s, d + 1) /\ d < Len(s) - 1
    BY <1>2 DEF Ends, Places
  <1>5. QED BY <1>1, <1>2, <1>3, <1>4 DEF FinishShape
-----------------------------------------------------------------------------
(* The plans.                                                              *)

LEMMA Elements ==
  ASSUME NEW S, NEW s \in Seq(S)
  PROVE  \A d \in Places(s) : FromEnd(s, d) \in S
  <1>1. ASSUME NEW d \in Places(s) PROVE Len(s) - d \in 1..Len(s)
    BY DEF Places
  <1>2. QED BY <1>1 DEF FromEnd

LEMMA OneStep ==
  ASSUME NEW S, NEW verb, NEW arg, [verb |-> verb, arg |-> arg] \in S
  PROVE  /\ Step(verb, arg) \in Seq(S) /\ Len(Step(verb, arg)) = 1
         /\ Step(verb, arg)[1] = [verb |-> verb, arg |-> arg]
         /\ FromEnd(Step(verb, arg), 0) = [verb |-> verb, arg |-> arg]
  BY DEF Step, FromEnd

LEMMA StepType ==
  ASSUME NEW verb \in Verbs, NEW arg \in Argument
  PROVE  [verb |-> verb, arg |-> arg] \in Steps
  BY DEF Steps

\* s does not begin with the second of a pair.
Leads(s) ==
  s # <<>> => ~Does(FromEnd(s, Len(s) - 1), "unit", {"remove", "enable"})

LEMMA JoinPaired ==
  ASSUME NEW s \in Seq(Steps), NEW t \in Seq(Steps), Paired(s), Paired(t), Leads(t)
  PROVE  Paired(s \o t)
  <1>1. ASSUME NEW d \in 0..(Len(s \o t) - 2)
        PROVE  /\ Does(FromEnd(s \o t, d), "unit", {"remove"}) =>
                    Does(FromEnd(s \o t, d + 1), "unit", {"disable_now"})
               /\ Does(FromEnd(s \o t, d), "unit", {"enable"}) =>
                    Does(FromEnd(s \o t, d + 1), "unit", {"install"})
    <2>1. /\ Len(s \o t) = Len(s) + Len(t) /\ Len(s) \in Nat /\ Len(t) \in Nat
          /\ \A e \in Places(t) : FromEnd(s \o t, e) = FromEnd(t, e)
          /\ \A e \in Places(s) : FromEnd(s \o t, e + Len(t)) = FromEnd(s, e)
      BY JoinFromEnd
    <2>2. CASE d < Len(t) - 1
      <3>1. d \in Places(t) /\ d + 1 \in Places(t) /\ d \in 0..(Len(t) - 2)
        BY <2>1, <2>2 DEF Places
      <3>2. QED BY <2>1, <3>1 DEF Paired
    <2>3. CASE d = Len(t) - 1
      <3>1. t # <<>> /\ d \in Places(t)
        BY <2>1, <2>3 DEF Places
      <3>2. QED BY <2>1, <2>3, <3>1 DEF Leads, Does
    <2>4. CASE d >= Len(t)
      <3>1. d - Len(t) \in 0..(Len(s) - 2) /\ d - Len(t) + 1 \in Places(s)
            /\ d - Len(t) \in Places(s)
        BY <2>1, <2>4 DEF Places
      <3>2. d - Len(t) + Len(t) = d /\ d - Len(t) + 1 + Len(t) = d + 1
        BY <2>1
      <3>3. FromEnd(s \o t, d) = FromEnd(s, d - Len(t))
            /\ FromEnd(s \o t, d + 1) = FromEnd(s, d - Len(t) + 1)
        BY <2>1, <3>1, <3>2
      <3>4. QED BY <3>1, <3>3 DEF Paired
    <2>5. QED BY <2>1, <2>2, <2>3, <2>4
  <1>2. QED BY <1>1 DEF Paired

\* Steps that are not the second of a pair.
Singles == {x \in Steps : ~Does(x, "unit", {"remove", "enable"})}

LEMMA SinglesPaired ==
  ASSUME NEW s \in Seq(Singles)
  PROVE  Paired(s) /\ Leads(s)
  <1>1. \A d \in Places(s) : ~Does(FromEnd(s, d), "unit", {"remove", "enable"})
    BY Elements DEF Singles
  <1>2. Len(s) \in Nat /\ (s # <<>> => Len(s) - 1 \in Places(s))
    BY DEF Places
  <1>3. Leads(s)
    BY <1>1, <1>2 DEF Leads
  <1>4. Paired(s)
    BY <1>1, <1>2 DEF Paired, Does, Places
  <1>5. QED BY <1>3, <1>4

\* A sequence whose steps after the first n are of one kind.
Continues(s, n, S) ==
  /\ s \in Seq(Steps) /\ n <= Len(s)
  /\ \A i \in (n + 1)..Len(s) : s[i] \in S

LEMMA Continue ==
  ASSUME NEW S, S \subseteq Steps, NEW n \in Nat, NEW s, Continues(s, n, S), NEW t \in Seq(S)
  PROVE  /\ Continues(s \o t, n, S) /\ Len(s \o t) = Len(s) + Len(t)
         /\ \A i \in 1..n : (s \o t)[i] = s[i]
  <1>1. s \in Seq(Steps) /\ t \in Seq(Steps) /\ Len(s) \in Nat /\ Len(t) \in Nat /\ n <= Len(s)
    BY SeqMonotonic DEF Continues
  <1>2. s \o t \in Seq(Steps) /\ Len(s \o t) = Len(s) + Len(t)
    BY <1>1
  <1>3. \A i \in 1..(Len(s) + Len(t)) :
          (s \o t)[i] = IF i <= Len(s) THEN s[i] ELSE t[i - Len(s)]
    BY <1>1, ConcatProperties, Zenon
  <1>4. \A i \in 1..Len(t) : t[i] \in S
    OBVIOUS
  <1>5. ASSUME NEW i \in (n + 1)..(Len(s) + Len(t)) PROVE (s \o t)[i] \in S
    <2>1. CASE i <= Len(s)
      BY <1>1, <1>3, <2>1 DEF Continues
    <2>2. CASE i > Len(s)
      <3>1. i - Len(s) \in 1..Len(t)
        BY <1>1, <2>2
      <3>2. QED BY <1>1, <1>3, <1>4, <2>2, <3>1
    <2>3. QED BY <1>1, <2>1, <2>2
  <1>6. QED BY <1>1, <1>2, <1>3, <1>5 DEF Continues

LEMMA OneMore ==
  ASSUME NEW s \in Seq(Steps), NEW verb, NEW arg, [verb |-> verb, arg |-> arg] \in Steps
  PROVE  /\ s \o Step(verb, arg) \in Seq(Steps) /\ Len(s \o Step(verb, arg)) = Len(s) + 1
         /\ (s \o Step(verb, arg))[Len(s) + 1] = [verb |-> verb, arg |-> arg]
         /\ \A i \in 1..Len(s) : (s \o Step(verb, arg))[i] = s[i]
  <1> DEFINE x == [verb |-> verb, arg |-> arg]
  <1>1. x \in Steps /\ Step(verb, arg) = <<x>>
    BY DEF Step
  <1> HIDE DEF x
  <1>2. /\ s \o <<x>> \in Seq(Steps) /\ Len(s \o <<x>>) = Len(s) + 1
        /\ (s \o <<x>>)[Len(s) + 1] = x
        /\ \A i \in 1..Len(s) : (s \o <<x>>)[i] = s[i]
    BY <1>1
  <1>3. QED BY <1>1, <1>2 DEF x

LEMMA ContinuePaired ==
  ASSUME NEW S, S \subseteq Steps, NEW n \in Nat, NEW s, Continues(s, n, S), Paired(s),
         NEW t \in Seq(S), Paired(t), Leads(t)
  PROVE  /\ Continues(s \o t, n, S) /\ Paired(s \o t)
         /\ \A i \in 1..n : (s \o t)[i] = s[i]
  <1>1. s \in Seq(Steps) /\ t \in Seq(Steps)
    BY SeqMonotonic DEF Continues
  <1>2. Paired(s \o t)
    BY <1>1, JoinPaired
  <1>3. QED BY <1>2, Continue

LEMMA JoinTwo ==
  ASSUME NEW S, NEW s \in Seq(S), NEW t \in Seq(S), Len(s) = 1, Len(t) = 1
  PROVE  /\ s \o t \in Seq(S) /\ Len(s \o t) = 2
         /\ (s \o t)[1] = s[1] /\ (s \o t)[2] = t[1]
  <1>1. s \o t \in Seq(S) /\ Len(s \o t) = 2
    <2>1. s \o t \in Seq(S) /\ Len(s \o t) = Len(s) + Len(t)
      BY ConcatProperties, Zenon
    <2>2. QED BY <2>1
  <1>2. \A i \in 1..(Len(s) + Len(t)) :
          (s \o t)[i] = IF i <= Len(s) THEN s[i] ELSE t[i - Len(s)]
    BY ConcatProperties, Zenon
  <1>3. QED BY <1>1, <1>2

LEMMA FunctionSeq ==
  ASSUME NEW S, NEW n \in Nat, NEW s \in [1..n -> S]
  PROVE  s \in Seq(S) /\ Len(s) = n
  OBVIOUS

LEMMA ClearTuple ==
  ClearSteps \in Seq(Steps) /\ Len(ClearSteps) = 7 /\ ClearsLast(ClearSteps)
  <1>1. ASSUME NEW i \in 1..7
        PROVE  [verb |-> "clear", arg |-> ClearOrder[i]] \in Steps
    <2>1. ClearOrder[i] \in Words
      BY DEF ClearOrder, Words
    <2>2. QED BY <2>1, StepType DEF Verbs, Argument
  <1>2. ClearSteps \in [1..7 -> Steps]
    BY <1>1 DEF ClearSteps
  <1>3. ClearSteps \in Seq(Steps) /\ Len(ClearSteps) = 7
    BY <1>2, FunctionSeq
  <1>4. ASSUME NEW d \in 0..6
        PROVE  Does(FromEnd(ClearSteps, d), "clear", {ClearOrder[7 - d]})
    <2>1. 7 - d \in 1..7
      OBVIOUS
    <2>2. FromEnd(ClearSteps, d) = [verb |-> "clear", arg |-> ClearOrder[7 - d]]
      BY <1>3, <2>1 DEF FromEnd, ClearSteps
    <2>3. QED BY <2>2 DEF Does
  <1>5. Places(ClearSteps) = 0..6
    BY <1>3 DEF Places
  <1>6. QED BY <1>3, <1>4, <1>5 DEF ClearsLast

\* A plan that ends with one more step and clear_transaction.
LEMMA ClosingSteps ==
  ASSUME NEW s \in Seq(Steps), NEW v \in Seq(Steps), Len(v) = 1, Leads(v), Paired(s)
  PROVE  LET p == s \o v \o ClearSteps IN
         /\ p \in Seq(Steps) /\ Len(p) = Len(s) + 8 /\ ClearsLast(p)
         /\ FromEnd(p, 7) = v[1] /\ Paired(p)
         /\ \A d \in 8..(Len(p) - 1) : FromEnd(p, d) = FromEnd(s, d - 8)
  <1> DEFINE q == s \o v
  <1> DEFINE p == q \o ClearSteps
  <1>1. ClearSteps \in Seq(Steps) /\ Len(ClearSteps) = 7 /\ ClearsLast(ClearSteps)
    BY ClearTuple
  <1>2. /\ q \in Seq(Steps) /\ Len(q) = Len(s) + 1 /\ Len(s) \in Nat
        /\ \A d \in Places(v) : FromEnd(q, d) = FromEnd(v, d)
        /\ \A d \in Places(s) : FromEnd(q, d + 1) = FromEnd(s, d)
    <2>1. /\ q \in Seq(Steps) /\ Len(q) = Len(s) + Len(v) /\ Len(s) \in Nat
          /\ \A d \in Places(v) : FromEnd(q, d) = FromEnd(v, d)
          /\ \A d \in Places(s) : FromEnd(q, d + Len(v)) = FromEnd(s, d)
      BY JoinFromEnd, Zenon
    <2>2. QED BY <2>1
  <1>3. Paired(q)
    <2>1. Paired(v)
      BY DEF Paired
    <2>2. QED BY <2>1, JoinPaired
  <1> HIDE DEF q
  <1>4. /\ p \in Seq(Steps) /\ Len(p) = Len(q) + 7
        /\ \A d \in Places(ClearSteps) : FromEnd(p, d) = FromEnd(ClearSteps, d)
        /\ \A d \in Places(q) : FromEnd(p, d + 7) = FromEnd(q, d)
    <2>1. /\ p \in Seq(Steps) /\ Len(p) = Len(q) + Len(ClearSteps)
          /\ \A d \in Places(ClearSteps) : FromEnd(p, d) = FromEnd(ClearSteps, d)
          /\ \A d \in Places(q) : FromEnd(p, d + Len(ClearSteps)) = FromEnd(q, d)
      BY <1>1, <1>2, JoinFromEnd, Zenon
    <2>2. QED BY <1>1, <2>1
  <1>5. Paired(p)
    <2>1. Paired(ClearSteps) /\ Leads(ClearSteps)
      BY <1>1 DEF ClearsLast, Paired, Leads, Does, Places
    <2>2. QED BY <1>1, <1>2, <1>3, <2>1, JoinPaired
  <1> HIDE DEF p
  <1>6. ClearsLast(p)
    <2>1. \A d \in 0..6 : d \in Places(ClearSteps)
      BY <1>1 DEF Places
    <2>2. \A d \in Places(p) : d <= 6 => d \in 0..6
      BY DEF Places
    <2>3. QED BY <1>1, <1>4, <2>1, <2>2 DEF ClearsLast
  <1>7. FromEnd(p, 7) = v[1]
    <2>1. 0 \in Places(v) /\ 0 \in Places(q)
      BY <1>2 DEF Places
    <2>2. FromEnd(p, 0 + 7) = FromEnd(v, 0)
      BY <1>2, <1>4, <2>1
    <2>3. QED BY <2>2 DEF FromEnd
  <1>8. ASSUME NEW d \in 8..(Len(p) - 1) PROVE FromEnd(p, d) = FromEnd(s, d - 8)
    <2>1. d - 8 \in Places(s) /\ d - 7 \in Places(q)
      BY <1>2, <1>4 DEF Places
    <2>2. d - 8 + 1 = d - 7 /\ d - 7 + 7 = d
      OBVIOUS
    <2>3. FromEnd(q, d - 7) = FromEnd(s, d - 8)
      BY <1>2, <2>1, <2>2
    <2>4. FromEnd(p, d) = FromEnd(q, d - 7)
      BY <1>4, <2>1, <2>2
    <2>5. QED BY <2>3, <2>4
  <1>9. QED BY <1>2, <1>4, <1>5, <1>6, <1>7, <1>8 DEF p, q

\* The proxy gives the access that m asks for.
Serves(m) == proxy = m.api \/ (m.api = "local" /\ proxy = "partial")

LEMMA ProxyPlan ==
  ASSUME TypeOK, NEW desired \in Manifest, NEW current
  PROVE  /\ ProxySteps(desired, current) \in Seq({x \in Steps : Does(x, "proxy", Accesses)})
         /\ Serves(desired) =>
              ProxySteps(desired, current) \in Seq({x \in Steps : Does(x, "proxy", {desired.api})})
  <1> DEFINE P(a) == [verb |-> "proxy", arg |-> a]
  <1>1. desired.api \in Accesses /\ "partial" \in Accesses /\ "local" \in Accesses
    BY DEF Accesses
  <1>2. \A a \in Accesses : P(a) \in Steps /\ Does(P(a), "proxy", {a})
    BY StepType DEF Verbs, Argument, Does
  <1>3. ASSUME NEW S, P("partial") \in S, P("local") \in S, P(desired.api) \in S
        PROVE  ProxySteps(desired, current) \in Seq(S)
    <2>1. /\ Step("proxy", "partial") \in Seq(S) /\ Step("proxy", "local") \in Seq(S)
          /\ Step("proxy", desired.api) \in Seq(S)
      BY <1>3, OneStep
    <2>2. QED BY <2>1 DEF ProxySteps
  <1>4. ProxySteps(desired, current) \in Seq({x \in Steps : Does(x, "proxy", Accesses)})
    BY <1>1, <1>2, <1>3 DEF Does
  <1>5. ASSUME Serves(desired)
        PROVE  ProxySteps(desired, current) \in Seq({x \in Steps : Does(x, "proxy", {desired.api})})
    <2> DEFINE S == {x \in Steps : Does(x, "proxy", {desired.api})}
    <2>1. Step("proxy", desired.api) \in Seq(S)
      BY <1>1, <1>2, OneStep
    <2>2. \/ ProxySteps(desired, current) = <<>>
          \/ ProxySteps(desired, current) = Step("proxy", desired.api)
      BY <1>5, ManifestAssumption DEF Serves, ProxySteps, ProxyInstalled
    <2>3. <<>> \in Seq(S)
      OBVIOUS
    <2>4. QED BY <2>1, <2>2, <2>3
  <1>6. QED BY <1>4, <1>5

UnitStep(arg) == [verb |-> "unit", arg |-> arg]
BootWord(boot) == IF boot THEN "enable" ELSE "disable"

\* The plan for the service consists of these steps, each for its reason.
LEMMA ServiceSeq ==
  ASSUME NEW desired, NEW current, NEW start \in BOOLEAN, NEW boot \in BOOLEAN, NEW S,
         desired.service => UnitStep("install") \in S /\ UnitStep(BootWord(boot)) \in S,
         (desired.service /\ start) =>
           UnitStep("stop") \in S /\ UnitStep("start") \in S /\ UnitStep("await") \in S,
         (~desired.service /\ unit.installed) =>
           UnitStep("disable_now") \in S /\ UnitStep("remove") \in S,
         (~desired.service /\ start) => [verb |-> "standalone", arg |-> desired] \in S
  PROVE  ServiceSteps(desired, current, start, boot) \in Seq(S)
  <1>1. ASSUME NEW a, UnitStep(a) \in S PROVE Step("unit", a) \in Seq(S)
    BY <1>1, OneStep DEF UnitStep
  <1>2. CASE desired.service
    <2>1. Step("unit", "install") \in Seq(S) /\ Step("unit", BootWord(boot)) \in Seq(S)
      BY <1>1, <1>2
    <2>2. start => /\ Step("unit", "stop") \in Seq(S) /\ Step("unit", "start") \in Seq(S)
                   /\ Step("unit", "await") \in Seq(S)
      BY <1>1, <1>2
    <2>3. QED BY <1>2, <2>1, <2>2 DEF ServiceSteps, BootWord
  <1>3. CASE ~desired.service
    <2>1. unit.installed => Step("unit", "disable_now") \in Seq(S)
                            /\ Step("unit", "remove") \in Seq(S)
      BY <1>1, <1>3
    <2>2. start => Step("standalone", desired) \in Seq(S)
      BY <1>3, OneStep
    <2>3. QED BY <1>3, <2>1, <2>2 DEF ServiceSteps
  <1>4. QED BY <1>2, <1>3

LEMMA UnitSteps ==
  \A a \in {"install", "enable", "disable", "disable_now", "remove", "stop", "start", "await"} :
     UnitStep(a) \in Steps /\ Does(UnitStep(a), "unit", {a})
  <1>1. ASSUME NEW a \in {"install", "enable", "disable", "disable_now", "remove", "stop", "start",
                          "await"}
        PROVE  a \in Words
    BY DEF Words
  <1>2. QED BY <1>1, StepType DEF Verbs, Argument, UnitStep, Does

\* The steps of the plan for the service; those without a start, which leave the
\* runtime alone; those for a unit that is already as desired.
LEMMA ServicePlan ==
  ASSUME NEW desired \in Manifest, NEW current, NEW start \in BOOLEAN, NEW boot \in BOOLEAN
  PROVE  LET p == ServiceSteps(desired, current, start, boot) IN
         /\ p \in Seq({x \in Steps : ResourceStep(x) \/ Does(x, "unit", {BootWord(boot)})})
         /\ (~start /\ (desired.service \/ ~unit.installed)) =>
              p \in Seq({x \in Steps : desired.service
                                       /\ Does(x, "unit", {"install", "enable", "disable"})})
         /\ unit.installed = desired.service =>
              p \in Seq({x \in Steps : x.verb # "proxy" /\ (x.verb = "unit" =>
                           desired.service /\ x.arg \notin {"disable_now", "remove"})})
  <1> DEFINE A == [verb |-> "standalone", arg |-> desired]
  <1>1. A \in Steps /\ Does(A, "standalone", Manifest)
    BY StepType DEF Verbs, Argument, Does
  <1>2. BootWord(boot) \in {"enable", "disable"}
    BY DEF BootWord
  <1>3. ServiceSteps(desired, current, start, boot) \in
          Seq({x \in Steps : ResourceStep(x) \/ Does(x, "unit", {BootWord(boot)})})
    <2> DEFINE S == {x \in Steps : ResourceStep(x) \/ Does(x, "unit", {BootWord(boot)})}
    <2>1. A \in S /\ UnitStep(BootWord(boot)) \in S
      BY <1>1, <1>2, UnitSteps DEF ResourceStep
    <2>2. \A a \in {"install", "disable_now", "remove", "stop", "start", "await"} :
            UnitStep(a) \in S
      BY UnitSteps DEF ResourceStep, Does
    <2> HIDE DEF S, A
    <2>3. QED BY <2>1, <2>2, ServiceSeq DEF A, S
  <1>4. ASSUME ~start, desired.service \/ ~unit.installed
        PROVE  ServiceSteps(desired, current, start, boot) \in
                 Seq({x \in Steps : desired.service
                                    /\ Does(x, "unit", {"install", "enable", "disable"})})
    <2> DEFINE S == {x \in Steps : desired.service
                                    /\ Does(x, "unit", {"install", "enable", "disable"})}
    <2>1. desired.service => UnitStep("install") \in S /\ UnitStep(BootWord(boot)) \in S
      BY <1>2, UnitSteps DEF Does
    <2> HIDE DEF S
    <2>2. QED BY <1>4, <2>1, ServiceSeq DEF S
  <1>5. ASSUME unit.installed = desired.service
        PROVE  ServiceSteps(desired, current, start, boot) \in
                 Seq({x \in Steps : x.verb # "proxy" /\ (x.verb = "unit" =>
                           desired.service /\ x.arg \notin {"disable_now", "remove"})})
    <2> DEFINE S == {x \in Steps : x.verb # "proxy" /\ (x.verb = "unit" =>
                           desired.service /\ x.arg \notin {"disable_now", "remove"})}
    <2>1. A \in S
      BY <1>1 DEF Does
    <2>2. desired.service =>
            \A a \in {"install", BootWord(boot), "stop", "start", "await"} : UnitStep(a) \in S
      BY <1>2, UnitSteps DEF Does
    <2> HIDE DEF S, A
    <2>3. desired.service \in BOOLEAN
      BY ManifestAssumption
    <2>4. QED BY <1>5, <2>1, <2>2, <2>3, ServiceSeq DEF A, S
  <1>6. QED BY <1>3, <1>4, <1>5

\* Nothing of it is removed that was not disabled, or enabled that was not installed.
LEMMA ServicePaired ==
  ASSUME NEW desired, NEW current, NEW start \in BOOLEAN, NEW boot \in BOOLEAN,
         desired \in Manifest
  PROVE  LET p == ServiceSteps(desired, current, start, boot) IN Paired(p) /\ Leads(p)
  <1>1. ASSUME NEW a \in {"install", "enable", "disable", "disable_now", "remove", "stop",
                          "start", "await"}
        PROVE  /\ Step("unit", a) \in Seq(Steps) /\ Len(Step("unit", a)) = 1
               /\ FromEnd(Step("unit", a), 0) = UnitStep(a)
               /\ a \notin {"remove", "enable"} => Step("unit", a) \in Seq(Singles)
    <2>1. UnitStep(a) \in Steps /\ (a \notin {"remove", "enable"} => UnitStep(a) \in Singles)
      BY UnitSteps DEF Singles, Does, UnitStep
    <2>2. QED BY <2>1, OneStep DEF UnitStep
  <1>2. ASSUME NEW a \in {"install", "disable_now"}, NEW b \in {"enable", "disable", "remove"},
               b = "remove" => a = "disable_now", b = "enable" => a = "install"
        PROVE  LET q == Step("unit", a) \o Step("unit", b)
               IN  q \in Seq(Steps) /\ Paired(q) /\ Leads(q) /\ q # <<>>
    <2> DEFINE s == Step("unit", a)
    <2> DEFINE t == Step("unit", b)
    <2>1. /\ s \in Seq(Steps) /\ Len(s) = 1 /\ FromEnd(s, 0) = UnitStep(a)
          /\ t \in Seq(Steps) /\ Len(t) = 1 /\ FromEnd(t, 0) = UnitStep(b)
      BY <1>1
    <2> HIDE DEF s, t
    <2>2. 0 \in Places(s) /\ 0 \in Places(t)
      BY <2>1 DEF Places
    <2>3. /\ s \o t \in Seq(Steps) /\ Len(s \o t) = 1 + 1
          /\ FromEnd(s \o t, 0) = UnitStep(b) /\ FromEnd(s \o t, 0 + 1) = UnitStep(a)
      <3>1. /\ s \o t \in Seq(Steps) /\ Len(s \o t) = Len(s) + Len(t)
            /\ \A d \in Places(t) : FromEnd(s \o t, d) = FromEnd(t, d)
            /\ \A d \in Places(s) : FromEnd(s \o t, d + Len(t)) = FromEnd(s, d)
        BY <2>1, JoinFromEnd, Zenon
      <3>2. QED BY <2>1, <2>2, <3>1
    <2>4. Leads(s \o t)
      BY <1>2, <2>3, UnitSteps DEF Leads, Does
    <2>5. Paired(s \o t)
      BY <1>2, <2>3, UnitSteps DEF Paired, Does, UnitStep
    <2>6. s \o t # <<>>
      BY <2>3
    <2>7. QED BY <2>3, <2>4, <2>5, <2>6 DEF s, t
  <1>3. <<>> \in Seq(Singles)
    OBVIOUS
  <1>4. ASSUME NEW q \in Seq(Steps), Paired(q), Leads(q), q # <<>>, NEW r \in Seq(Singles)
        PROVE  Paired(q \o r) /\ Leads(q \o r)
    <2>1. r \in Seq(Steps) /\ Paired(r) /\ Leads(r)
      BY SinglesPaired, SeqMonotonic DEF Singles
    <2>2. Paired(q \o r)
      BY <1>4, <2>1, JoinPaired
    <2>3. /\ Len(q \o r) = Len(q) + Len(r) /\ Len(q) \in Nat \ {0} /\ Len(r) \in Nat
          /\ \A d \in Places(q) : FromEnd(q \o r, d + Len(r)) = FromEnd(q, d)
      BY <1>4, <2>1, JoinFromEnd
    <2>4. Len(q) - 1 \in Places(q) /\ Len(q) - 1 + Len(r) = Len(q \o r) - 1
      BY <2>3 DEF Places
    <2>5. QED BY <1>4, <2>2, <2>3, <2>4 DEF Leads
  <1>5. CASE desired.service
    <2> DEFINE q == Step("unit", "install") \o Step("unit", BootWord(boot))
    <2> DEFINE r == IF start THEN Step("unit", "stop") \o Step("unit", "start")
                                  \o Step("unit", "await") ELSE <<>>
    <2>1. q \in Seq(Steps) /\ Paired(q) /\ Leads(q) /\ q # <<>>
      <3>1. BootWord(boot) \in {"enable", "disable"}
        BY DEF BootWord
      <3>2. QED BY <1>2, <3>1
    <2>2. r \in Seq(Singles)
      BY <1>1, <1>3
    <2>3. \/ ServiceSteps(desired, current, start, boot) = <<>>
          \/ ServiceSteps(desired, current, start, boot) = q \o r
      BY <1>5 DEF ServiceSteps, BootWord
    <2> HIDE DEF q, r
    <2>4. QED BY <1>3, <1>4, <2>1, <2>2, <2>3, SinglesPaired
  <1>6. CASE ~desired.service
    <2> DEFINE q == Step("unit", "disable_now") \o Step("unit", "remove")
    <2> DEFINE r == IF start THEN Step("standalone", desired) ELSE <<>>
    <2>1. q \in Seq(Steps) /\ Paired(q) /\ Leads(q) /\ q # <<>>
      BY <1>2
    <2>2. r \in Seq(Singles)
      <3>1. [verb |-> "standalone", arg |-> desired] \in Singles
        BY StepType DEF Verbs, Argument, Singles, Does
      <3>2. QED BY <1>3, <3>1, OneStep
    <2>3. \/ ServiceSteps(desired, current, start, boot) = q \o r
          \/ ServiceSteps(desired, current, start, boot) = <<>> \o r
      BY <1>6 DEF ServiceSteps
    <2> HIDE DEF q, r
    <2>4. <<>> \o r = r
      BY <2>2
    <2>5. QED BY <1>4, <2>1, <2>2, <2>3, <2>4, SinglesPaired
  <1>7. QED BY <1>5, <1>6

Has(s, verb) == \E d \in Places(s) : FromEnd(s, d).verb = verb

QuietStep(x) ==
  /\ x.verb \notin {"standalone", "halt"}
  /\ x.verb = "unit" => Backup.service /\ x.arg \in {"install", "enable", "disable"}

HarmlessStep(x) ==
  /\ x.verb = "proxy" => x.arg = Backup.api
  /\ x.verb = "unit" => Backup.service /\ x.arg \notin {"disable_now", "remove"}

\* Every step of a sequence whose elements have a property has it.
AllOf(s, S) == \A d \in Places(s) : FromEnd(s, d) \in S

LEMMA CheckSteps ==
  ASSUME NEW of \in {"backup", "target"}, NEW start \in BOOLEAN, NEW enabled \in BOOLEAN
  PROVE  LET a == [of |-> of, start |-> start, enabled |-> enabled]
             x == [verb |-> "verify", arg |-> a] IN
         /\ x \in Steps /\ Checks(x, of, enabled)
         /\ Verify(of, start, enabled) = Step("verify", a)
  <1> DEFINE a == [of |-> of, start |-> start, enabled |-> enabled]
  <1>1. a \in [of : {"backup", "target"}, start : BOOLEAN, enabled : BOOLEAN]
    OBVIOUS
  <1>2. a \in Argument /\ "verify" \in Verbs
    BY <1>1 DEF Argument, Verbs
  <1>3. a.of = of /\ a.enabled = enabled /\ Verify(of, start, enabled) = Step("verify", a)
    BY DEF Verify
  <1> HIDE DEF a
  <1>4. /\ [verb |-> "verify", arg |-> a] \in Steps
        /\ Checks([verb |-> "verify", arg |-> a], of, enabled)
    BY <1>2, <1>3, StepType DEF Checks
  <1>5. QED BY <1>3, <1>4 DEF a

\* What restore_backup does about the runtime itself.
Settling(quiet, starts) ==
  IF quiet
  THEN (IF Backup.service THEN Step("boot", TRUE) ELSE <<>>) \o Step("markers", "previous")
  ELSE IF starts THEN <<>> ELSE Step("halt", "runtime")

LEMMA SettlingSeq ==
  ASSUME NEW T, [verb |-> "boot", arg |-> TRUE] \in T,
         [verb |-> "markers", arg |-> "previous"] \in T,
         NEW quiet \in BOOLEAN, NEW starts \in BOOLEAN,
         ~quiet => [verb |-> "halt", arg |-> "runtime"] \in T
  PROVE  Settling(quiet, starts) \in Seq(T)
  <1>1. <<>> \in Seq(T) /\ Step("boot", TRUE) \in Seq(T) /\ Step("markers", "previous") \in Seq(T)
    <2>1. Step("boot", TRUE) \in Seq(T) /\ Step("markers", "previous") \in Seq(T)
      BY OneStep, Zenon
    <2>2. <<>> \in Seq(T)
      OBVIOUS
    <2>3. QED BY <2>1, <2>2, Zenon
  <1>2. ~quiet => Step("halt", "runtime") \in Seq(T)
    BY OneStep
  <1> DEFINE B == Step("boot", TRUE)
  <1> DEFINE M == Step("markers", "previous")
  <1> DEFINE H == Step("halt", "runtime")
  <1> HIDE DEF B, M, H
  <1>3. CASE quiet /\ Backup.service
    <2>1. Settling(quiet, starts) = B \o M
      BY <1>3 DEF Settling, B, M
    <2>2. B \in Seq(T) /\ M \in Seq(T)
      BY <1>1, Zenon DEF B, M
    <2>3. QED BY <2>1, <2>2
  <1>4. CASE quiet /\ ~Backup.service
    <2>1. Settling(quiet, starts) = <<>> \o M
      BY <1>4 DEF Settling, M
    <2>2. QED BY <1>1, <2>1 DEF M
  <1>5. CASE ~quiet
    BY <1>1, <1>2, <1>5 DEF Settling
  <1>6. QED BY <1>3, <1>4, <1>5

\* restore_backup begins with the phase and the manifest, and ends with the check.
LEMMA RestorePlan ==
  ASSUME TypeOK, Backup \in Manifest, Target \in Manifest
  PROVE  /\ RestoreSteps \in Seq(Steps) /\ RestoreShape(RestoreSteps)
         /\ Has(RestoreSteps, "live")
         /\ RestoreSteps[1].verb = "phase"
         /\ (Serves(Backup) /\ unit.installed = Backup.service) =>
              \A d \in Places(RestoreSteps) : HarmlessStep(FromEnd(RestoreSteps, d))
         /\ (Untouched /\ (Backup.service \/ ~unit.installed)) =>
              \A d \in Places(RestoreSteps) : QuietStep(FromEnd(RestoreSteps, d))
  <1> DEFINE starts == ~Untouched /\ RestoreStarts
  <1> DEFINE P == ProxySteps(Backup, Target)
  <1> DEFINE S == ServiceSteps(Backup, Target, starts, TRUE)
  <1> DEFINE X == Settling(Untouched, starts)
  <1> DEFINE V == Verify("backup", starts, TRUE)
  <1> DEFINE A == Step("phase", "rolling-back")
  <1> DEFINE B == Step("live", "backup")
  <1>1. RestoreSteps = A \o B \o P \o S \o X \o V \o ClearSteps
    BY DEF RestoreSteps, Restoration, Settling
  <1>2. starts \in BOOLEAN /\ Untouched \in BOOLEAN /\ Backup.service \in BOOLEAN
    BY ManifestAssumption DEF TypeOK, RestoreStarts, Untouched, Starts, Backup, Target
  <1> DEFINE Late == {x \in Steps : PutBackStep(x)}
  <1>3. P \in Seq(Late) /\ P \in Seq(Singles) /\ P \in Seq({x \in Steps : QuietStep(x)})
        /\ (Serves(Backup) => P \in Seq({x \in Steps : HarmlessStep(x)}))
    <2>1. \A x \in {x \in Steps : Does(x, "proxy", Accesses)} :
            x \in Late /\ x \in Singles /\ x \in {y \in Steps : QuietStep(y)}
      BY DEF Does, PutBackStep, ResourceStep, Singles, QuietStep
    <2>2. \A x \in {x \in Steps : Does(x, "proxy", {Backup.api})} :
            x \in {y \in Steps : HarmlessStep(y)}
      BY DEF Does, HarmlessStep
    <2>3. QED BY <2>1, <2>2, ProxyPlan, SeqMonotonic
  <1>4. /\ S \in Seq(Late) /\ Paired(S) /\ Leads(S)
        /\ (Untouched /\ (Backup.service \/ ~unit.installed)) =>
             S \in Seq({x \in Steps : QuietStep(x)})
        /\ unit.installed = Backup.service => S \in Seq({x \in Steps : HarmlessStep(x)})
    <2>1. {x \in Steps : ResourceStep(x) \/ Does(x, "unit", {BootWord(TRUE)})} \subseteq Late
      BY DEF PutBackStep, BootWord
    <2>2. {x \in Steps : Backup.service /\ Does(x, "unit", {"install", "enable", "disable"})}
            \subseteq {x \in Steps : QuietStep(x)}
      BY DEF QuietStep, Does
    <2>3. {x \in Steps : x.verb # "proxy" /\ (x.verb = "unit" =>
                           Backup.service /\ x.arg \notin {"disable_now", "remove"})}
            \subseteq {x \in Steps : HarmlessStep(x)}
      BY DEF HarmlessStep
    <2>4. Untouched => ~starts
      OBVIOUS
    <2> HIDE DEF starts, Late
    <2>5. /\ S \in Seq({x \in Steps : ResourceStep(x) \/ Does(x, "unit", {BootWord(TRUE)})})
          /\ (~starts /\ (Backup.service \/ ~unit.installed)) =>
               S \in Seq({x \in Steps : Backup.service
                                        /\ Does(x, "unit", {"install", "enable", "disable"})})
          /\ unit.installed = Backup.service =>
               S \in Seq({x \in Steps : x.verb # "proxy" /\ (x.verb = "unit" =>
                           Backup.service /\ x.arg \notin {"disable_now", "remove"})})
      BY <1>2, ServicePlan
    <2>6. Paired(S) /\ Leads(S)
      BY <1>2, ServicePaired
    <2>7. QED BY <2>1, <2>2, <2>3, <2>4, <2>5, <2>6, SeqMonotonic
  <1>5. /\ X \in Seq(Late) /\ X \in Seq(Singles) /\ X \in Seq({x \in Steps : HarmlessStep(x)})
        /\ Untouched => X \in Seq({x \in Steps : QuietStep(x)})
    <2> DEFINE b == [verb |-> "boot", arg |-> TRUE]
    <2> DEFINE m == [verb |-> "markers", arg |-> "previous"]
    <2> DEFINE h == [verb |-> "halt", arg |-> "runtime"]
    <2>2. b \in Steps /\ m \in Steps /\ h \in Steps
      BY StepType DEF Verbs, Argument, Words
    <2>3a. b \in Late /\ m \in Late /\ h \in Late
      BY <2>2 DEF Does, PutBackStep
    <2>3b. b \in Singles /\ m \in Singles /\ h \in Singles
      BY <2>2 DEF Singles, Does
    <2>3. /\ b \in {x \in Steps : HarmlessStep(x)} /\ m \in {x \in Steps : HarmlessStep(x)}
          /\ h \in {x \in Steps : HarmlessStep(x)}
          /\ b \in {x \in Steps : QuietStep(x)} /\ m \in {x \in Steps : QuietStep(x)}
      BY <2>2 DEF HarmlessStep, QuietStep
    <2> HIDE DEF starts, Late
    <2>5. \A T : (b \in T /\ m \in T /\ (~Untouched => h \in T)) => X \in Seq(T)
      BY <1>2, SettlingSeq
    <2> HIDE DEF X, b, m, h
    <2>7. QED BY <2>3a, <2>3b, <2>3, <2>5
  <1>5a. Paired(P) /\ Leads(P) /\ Paired(X) /\ Leads(X)
    BY <1>3, <1>5, SinglesPaired
  <1> DEFINE v == [of |-> "backup", start |-> starts, enabled |-> TRUE]
  <1>6. /\ V \in Seq(Steps) /\ Len(V) = 1 /\ Leads(V) /\ Checks(V[1], "backup", TRUE)
        /\ V \in Seq({x \in Steps : HarmlessStep(x)}) /\ V \in Seq({x \in Steps : QuietStep(x)})
    <2> HIDE DEF starts
    <2>1. /\ [verb |-> "verify", arg |-> v] \in Steps
          /\ Checks([verb |-> "verify", arg |-> v], "backup", TRUE)
          /\ V = Step("verify", v)
      BY <1>2, CheckSteps
    <2> HIDE DEF V, v
    <2>2. /\ [verb |-> "verify", arg |-> v] \in {x \in Steps : HarmlessStep(x)}
          /\ [verb |-> "verify", arg |-> v] \in {x \in Steps : QuietStep(x)}
          /\ [verb |-> "verify", arg |-> v] \in Singles
      BY <2>1 DEF HarmlessStep, QuietStep, Singles, Does
    <2>3. /\ V \in Seq(Steps) /\ Len(V) = 1 /\ V[1] = [verb |-> "verify", arg |-> v]
          /\ V \in Seq({x \in Steps : HarmlessStep(x)})
          /\ V \in Seq({x \in Steps : QuietStep(x)}) /\ V \in Seq(Singles)
      BY <2>1, <2>2, OneStep
    <2>4. QED BY <2>1, <2>3, SinglesPaired
  <1> DEFINE a == [verb |-> "phase", arg |-> "rolling-back"]
  <1> DEFINE b == [verb |-> "live", arg |-> "backup"]
  <1>7. a \in Steps /\ b \in Steps
    BY StepType DEF Verbs, Argument, Words, Phases
  <1>8. /\ a \in Singles /\ b \in Singles
        /\ a \in {x \in Steps : HarmlessStep(x)} /\ b \in {x \in Steps : HarmlessStep(x)}
        /\ a \in {x \in Steps : QuietStep(x)} /\ b \in {x \in Steps : QuietStep(x)}
    BY <1>7 DEF Singles, Does, HarmlessStep, QuietStep
  <1>9. /\ \A T : a \in T => A \in Seq(T)
        /\ \A T : b \in T => B \in Seq(T)
        /\ Len(A) = 1 /\ Len(B) = 1 /\ A[1] = a /\ B[1] = b
    BY <1>7, OneStep
  <1>10. \A x \in ({ClearSteps[i] : i \in 1..7}) :
           x \in {y \in Steps : HarmlessStep(y)} /\ x \in {y \in Steps : QuietStep(y)}
    <2>1. ASSUME NEW i \in 1..7 PROVE ClearSteps[i] \in Steps /\ ClearSteps[i].verb = "clear"
      BY ClearTuple DEF ClearSteps
    <2>2. QED BY <2>1 DEF HarmlessStep, QuietStep
  <1>11. /\ ClearSteps \in Seq({x \in Steps : HarmlessStep(x)})
         /\ ClearSteps \in Seq({x \in Steps : QuietStep(x)})
    <2>1. ClearSteps \in [1..7 -> {ClearSteps[i] : i \in 1..7}]
      BY DEF ClearSteps
    <2>2. ClearSteps \in Seq({ClearSteps[i] : i \in 1..7})
      BY <2>1, FunctionSeq
    <2>3. QED BY <1>10, <2>2, SeqMonotonic
  <1> HIDE DEF Late, a, b, v, P, S, X, V, A, B, starts
  <1>12. Late \subseteq Steps /\ Singles \subseteq Steps /\ 2 \in Nat
    BY DEF Late, Singles
  <1>13. (Serves(Backup) /\ unit.installed = Backup.service) =>
           \A d \in Places(RestoreSteps) : HarmlessStep(FromEnd(RestoreSteps, d))
    <2> DEFINE H == {x \in Steps : HarmlessStep(x)}
    <2>1. SUFFICES ASSUME Serves(Backup), unit.installed = Backup.service
                   PROVE  RestoreSteps \in Seq(H)
      BY Elements
    <2>2. /\ A \in Seq(H) /\ B \in Seq(H) /\ P \in Seq(H) /\ S \in Seq(H) /\ X \in Seq(H)
          /\ V \in Seq(H) /\ ClearSteps \in Seq(H)
      BY <1>3, <1>4, <1>5, <1>6, <1>8, <1>9, <1>11, <2>1
    <2> HIDE DEF H
    <2>3. QED BY <1>1, <2>2
  <1>14. (Untouched /\ (Backup.service \/ ~unit.installed)) =>
           \A d \in Places(RestoreSteps) : QuietStep(FromEnd(RestoreSteps, d))
    <2> DEFINE Q == {x \in Steps : QuietStep(x)}
    <2>1. SUFFICES ASSUME Untouched, Backup.service \/ ~unit.installed
                   PROVE  RestoreSteps \in Seq(Q)
      BY Elements
    <2>2. /\ A \in Seq(Q) /\ B \in Seq(Q) /\ P \in Seq(Q) /\ S \in Seq(Q) /\ X \in Seq(Q)
          /\ V \in Seq(Q) /\ ClearSteps \in Seq(Q)
      BY <1>3, <1>4, <1>5, <1>6, <1>8, <1>9, <1>11, <2>1
    <2> HIDE DEF Q
    <2>3. QED BY <1>1, <2>2
  <1> DEFINE s == A \o B \o P \o S \o X
  <1>15. /\ Continues(s, 2, Late) /\ Paired(s) /\ s[1] = a /\ s[2] = b
    <2>1. /\ A \o B \in Seq(Singles) /\ Len(A \o B) = 2 /\ (A \o B)[1] = a /\ (A \o B)[2] = b
      BY <1>8, <1>9, JoinTwo
    <2>2. Continues(A \o B, 2, Late) /\ Paired(A \o B)
      <3>1. A \o B \in Seq(Steps) /\ Paired(A \o B)
        BY <1>12, <2>1, SeqMonotonic, SinglesPaired
      <3>2. QED BY <2>1, <3>1 DEF Continues
    <2>b. ASSUME NEW q, Continues(q, 2, Late), Paired(q), NEW t \in Seq(Late), Paired(t), Leads(t)
          PROVE  /\ Continues(q \o t, 2, Late) /\ Paired(q \o t)
                 /\ (q \o t)[1] = q[1] /\ (q \o t)[2] = q[2]
      <3>1. \A i \in 1..2 : (q \o t)[i] = q[i]
        BY <1>12, <2>b, ContinuePaired, Zenon
      <3>2. Continues(q \o t, 2, Late) /\ Paired(q \o t)
        BY <1>12, <2>b, ContinuePaired, Zenon
      <3>3. 1 \in 1..2 /\ 2 \in 1..2
        OBVIOUS
      <3>4. QED BY <3>1, <3>2, <3>3, Zenon
    <2>3. /\ Continues(A \o B \o P, 2, Late) /\ Paired(A \o B \o P)
          /\ (A \o B \o P)[1] = (A \o B)[1] /\ (A \o B \o P)[2] = (A \o B)[2]
      BY <1>3, <1>5a, <2>2, <2>b, Zenon
    <2>5. /\ Continues(A \o B \o P \o S, 2, Late) /\ Paired(A \o B \o P \o S)
          /\ (A \o B \o P \o S)[1] = (A \o B \o P)[1] /\ (A \o B \o P \o S)[2] = (A \o B \o P)[2]
      BY <1>4, <2>3, <2>b, Zenon
    <2>7. /\ Continues(s, 2, Late) /\ Paired(s)
          /\ s[1] = (A \o B \o P \o S)[1] /\ s[2] = (A \o B \o P \o S)[2]
      BY <1>5, <1>5a, <2>5, <2>b, Zenon
    <2>9. s[1] = a /\ s[2] = b
      BY <2>1, <2>3, <2>5, <2>7, Zenon
    <2>10. QED BY <2>7, <2>9
  <1>16. RestoreSteps = s \o V \o ClearSteps
    BY <1>1
  <1> HIDE DEF s
  <1>17. /\ RestoreSteps \in Seq(Steps) /\ Len(RestoreSteps) = Len(s) + 8
         /\ ClearsLast(RestoreSteps) /\ FromEnd(RestoreSteps, 7) = V[1] /\ Paired(RestoreSteps)
         /\ \A d \in 8..(Len(RestoreSteps) - 1) : FromEnd(RestoreSteps, d) = FromEnd(s, d - 8)
         /\ s \in Seq(Steps) /\ Len(s) \in Nat /\ Len(s) >= 2
    BY <1>6, <1>15, <1>16, ClosingSteps DEF Continues
  <1>18. /\ FromEnd(RestoreSteps, Len(RestoreSteps) - 1) = a
         /\ FromEnd(RestoreSteps, Len(RestoreSteps) - 2) = b
         /\ \A d \in 8..(Len(RestoreSteps) - 3) : PutBackStep(FromEnd(RestoreSteps, d))
    <2>1. \A d \in 8..(Len(RestoreSteps) - 1) :
            FromEnd(RestoreSteps, d) = s[Len(RestoreSteps) - d]
      BY <1>17 DEF FromEnd
    <2>2. /\ Len(RestoreSteps) - 1 \in 8..(Len(RestoreSteps) - 1)
          /\ Len(RestoreSteps) - 2 \in 8..(Len(RestoreSteps) - 1)
          /\ Len(RestoreSteps) - (Len(RestoreSteps) - 1) = 1
          /\ Len(RestoreSteps) - (Len(RestoreSteps) - 2) = 2
      BY <1>17
    <2>3. ASSUME NEW d \in 8..(Len(RestoreSteps) - 3) PROVE PutBackStep(FromEnd(RestoreSteps, d))
      <3>1. Len(RestoreSteps) - d \in 3..Len(s) /\ d \in 8..(Len(RestoreSteps) - 1)
        BY <1>17
      <3>2. QED BY <1>15, <2>1, <3>1 DEF Continues, Late
    <2>4. QED BY <1>15, <2>1, <2>2, <2>3
  <1>19. RestoreShape(RestoreSteps)
    <2>1. a.verb = "phase" /\ RestoreStep(a) /\ b.verb = "live" /\ RestoreStep(b)
      BY DEF a, b, RestoreStep, Does
    <2>2. ASSUME NEW d \in 8..(Len(RestoreSteps) - 3)
          PROVE  /\ RestoreStep(FromEnd(RestoreSteps, d))
                 /\ FromEnd(RestoreSteps, d).verb \notin {"phase", "live"}
      BY <1>18 DEF RestoreStep, PutBackStep, ResourceStep, Does
    <2>3. ASSUME NEW d \in 8..(Len(RestoreSteps) - 1)
          PROVE  /\ RestoreStep(FromEnd(RestoreSteps, d))
                 /\ FromEnd(RestoreSteps, d).verb = "phase" => d = Len(RestoreSteps) - 1
                 /\ FromEnd(RestoreSteps, d).verb = "live" =>
                      d = Len(RestoreSteps) - 2 /\ FromEnd(RestoreSteps, d + 1).verb = "phase"
      <3>1. \/ d \in 8..(Len(RestoreSteps) - 3)
            \/ d = Len(RestoreSteps) - 2 /\ d + 1 = Len(RestoreSteps) - 1
            \/ d = Len(RestoreSteps) - 1
        BY <1>17
      <3>2. QED BY <1>18, <2>1, <2>2, <3>1
    <2>4. Len(RestoreSteps) >= 8
      BY <1>17
    <2>5. Checks(FromEnd(RestoreSteps, 7), "backup", TRUE)
      BY <1>6, <1>17, Zenon
    <2>6. QED BY <1>17, <2>3, <2>4, <2>5 DEF RestoreShape
  <1>20. Has(RestoreSteps, "live")
    <2>1. Len(RestoreSteps) - 2 \in Places(RestoreSteps) /\ b.verb = "live"
      BY <1>17 DEF Places, b
    <2>2. QED BY <1>18, <2>1 DEF Has
  <1>21. RestoreSteps[1].verb = "phase"
    <2>1. Len(RestoreSteps) - (Len(RestoreSteps) - 1) = 1
      BY <1>17
    <2>2. QED BY <1>18, <2>1 DEF FromEnd, a
  <1>22. QED BY <1>13, <1>14, <1>17, <1>19, <1>20, <1>21

\* restore_backup without the target: the phase, the manifest and no check.
LEMMA UnreadPlan ==
  /\ RestoreUnread \in Seq(Steps) /\ UnreadShape(RestoreUnread)
  /\ RestoreUnread # <<>> /\ Head(RestoreUnread).verb = "phase"
  <1> DEFINE a == [verb |-> "phase", arg |-> "rolling-back"]
  <1> DEFINE b == [verb |-> "live", arg |-> "backup"]
  <1> DEFINE A == Step("phase", "rolling-back")
  <1> DEFINE B == Step("live", "backup")
  <1> DEFINE p == A \o B \o ClearSteps
  <1>1. a \in Singles /\ b \in Singles
    <2>1. a \in Steps /\ b \in Steps
      BY StepType DEF Verbs, Argument, Words, Phases
    <2>2. QED BY <2>1 DEF Singles, Does
  <1>2. /\ A \in Seq(Singles) /\ Len(A) = 1 /\ FromEnd(A, 0) = a
        /\ B \in Seq(Singles) /\ Len(B) = 1 /\ B[1] = b
    BY <1>1, OneStep
  <1>3. A \in Seq(Steps) /\ B \in Seq(Steps)
    BY <1>2, SeqMonotonic DEF Singles
  <1>4. Paired(A) /\ Leads(B)
    BY <1>2, SinglesPaired
  <1>5. RestoreUnread = p
    BY DEF RestoreUnread
  <1> HIDE DEF A, B
  <1>6. /\ p \in Seq(Steps) /\ Len(p) = Len(A) + 8 /\ ClearsLast(p)
        /\ FromEnd(p, 7) = B[1]
        /\ \A d \in 8..(Len(p) - 1) : FromEnd(p, d) = FromEnd(A, d - 8)
    BY <1>2, <1>3, <1>4, ClosingSteps
  <1> HIDE DEF p
  <1>7. Len(p) = 9 /\ FromEnd(p, 8) = a
    <2>1. Len(p) = 9
      BY <1>2, <1>6
    <2>2. 8 \in 8..(Len(p) - 1) /\ 8 - 8 = 0
      BY <2>1
    <2>3. QED BY <1>2, <1>6, <2>1, <2>2
  <1>8. UnreadShape(p)
    BY <1>2, <1>6, <1>7 DEF UnreadShape, Does
  <1>9. p # <<>> /\ Head(p).verb = "phase"
    <2>0. p # <<>>
      BY <1>6, <1>8, UnreadPlaces
    <2>1. p # <<>> /\ Len(p) - 1 = 8
      BY <1>7, <2>0
    <2>2. Head(p) = FromEnd(p, Len(p) - 1)
      BY <1>6, <2>1, TailEnds
    <2>3. QED BY <1>7, <2>1, <2>2
  <1>10. QED BY <1>5, <1>6, <1>7, <1>8, <1>9
-----------------------------------------------------------------------------
(* The plan of apply.                                                      *)

\* A plan that ends with two more steps.
LEMMA TwoMore ==
  ASSUME NEW s \in Seq(Steps), NEW v \in Seq(Singles), NEW w \in Seq(Singles),
         Len(v) = 1, Len(w) = 1, Paired(s)
  PROVE  LET p == s \o v \o w IN
         /\ p \in Seq(Steps) /\ Len(p) = Len(s) + 2 /\ Paired(p)
         /\ FromEnd(p, 0) = w[1] /\ FromEnd(p, 1) = v[1]
         /\ \A d \in 2..(Len(p) - 1) : FromEnd(p, d) = FromEnd(s, d - 2)
  <1> DEFINE q == s \o v
  <1> DEFINE p == q \o w
  <1>0. /\ v \in Seq(Steps) /\ w \in Seq(Steps) /\ Len(s) \in Nat
        /\ Paired(v) /\ Leads(v) /\ Paired(w) /\ Leads(w)
    BY SinglesPaired, SeqMonotonic DEF Singles
  <1>1. /\ q \in Seq(Steps) /\ Len(q) = Len(s) + Len(v)
        /\ \A d \in Places(v) : FromEnd(q, d) = FromEnd(v, d)
        /\ \A d \in Places(s) : FromEnd(q, d + Len(v)) = FromEnd(s, d)
    BY <1>0, JoinFromEnd, Zenon
  <1>2. Paired(q)
    BY <1>0, JoinPaired
  <1> HIDE DEF q
  <1>3. /\ p \in Seq(Steps) /\ Len(p) = Len(q) + Len(w)
        /\ \A d \in Places(w) : FromEnd(p, d) = FromEnd(w, d)
        /\ \A d \in Places(q) : FromEnd(p, d + Len(w)) = FromEnd(q, d)
    BY <1>0, <1>1, JoinFromEnd, Zenon
  <1>4. Paired(p)
    BY <1>0, <1>1, <1>2, JoinPaired
  <1> HIDE DEF p
  <1>5. 0 \in Places(w) /\ 0 \in Places(v) /\ 0 \in Places(q)
    BY <1>0, <1>1 DEF Places
  <1>6. FromEnd(p, 0) = w[1] /\ FromEnd(p, 1) = v[1]
    <2>1. FromEnd(p, 0) = FromEnd(w, 0) /\ FromEnd(p, 0 + Len(w)) = FromEnd(q, 0)
          /\ FromEnd(q, 0) = FromEnd(v, 0)
      BY <1>1, <1>3, <1>5
    <2>2. QED BY <2>1 DEF FromEnd
  <1>7. ASSUME NEW d \in 2..(Len(p) - 1) PROVE FromEnd(p, d) = FromEnd(s, d - 2)
    <2>1. d - 2 \in Places(s) /\ d - 1 \in Places(q)
      BY <1>0, <1>1, <1>3 DEF Places
    <2>2. d - 2 + 1 = d - 1 /\ d - 1 + 1 = d
      OBVIOUS
    <2>3. FromEnd(q, d - 1) = FromEnd(s, d - 2)
      BY <1>1, <2>1, <2>2
    <2>4. FromEnd(p, d) = FromEnd(q, d - 1)
      BY <1>3, <2>1, <2>2
    <2>5. QED BY <2>3, <2>4
  <1>8. QED BY <1>0, <1>1, <1>3, <1>4, <1>6, <1>7 DEF p, q

Opening == [verb |-> "phase", arg |-> "activation-guarded"]
Unboot == [verb |-> "boot", arg |-> FALSE]
TakeTarget == [verb |-> "live", arg |-> "target"]
Activating == {x \in Steps : ActivateStep(x)}

\* The first n steps of apply are the phase, the boot of a unit, the manifest.
Opens(s, n) ==
  /\ n \in {2, 3} /\ Continues(s, n, Activating) /\ Paired(s)
  /\ s[1] = Opening /\ s[n] = TakeTarget
  /\ n = 3 => s[2] = Unboot

\* Such a beginning and two last steps make the shape of apply.
LEMMA OpenedShape ==
  ASSUME NEW s, NEW n, Opens(s, n), NEW p \in Seq(Steps), Paired(p),
         Len(p) = Len(s) + 2,
         Does(FromEnd(p, 0), "phase", {"resources-applied"}),
         Checks(FromEnd(p, 1), "target", FALSE),
         \A d \in 2..(Len(p) - 1) : FromEnd(p, d) = FromEnd(s, d - 2)
  PROVE  /\ ApplyShape(p) /\ Guards(p, Len(p) - 1) /\ Len(p) >= 4
         /\ n = 3 => Has(p, "boot")
  <1>1. /\ Len(s) \in Nat /\ n \in {2, 3} /\ Len(s) >= n /\ Len(p) = Len(s) + 2
        /\ \A i \in (n + 1)..Len(s) : s[i] \in Activating
    BY DEF Opens, Continues
  <1>2. \A d \in 2..(Len(p) - 1) : FromEnd(p, d) = s[Len(p) - d]
    <2>1. \A d \in 2..(Len(p) - 1) : Len(s) - (d - 2) = Len(p) - d
      BY <1>1
    <2>2. QED BY <2>1 DEF FromEnd
  <1>3. /\ FromEnd(p, Len(p) - 1) = Opening /\ FromEnd(p, Len(p) - n) = TakeTarget
        /\ n = 3 => FromEnd(p, Len(p) - 2) = Unboot
    <2>1. /\ Len(p) - 1 \in 2..(Len(p) - 1) /\ Len(p) - n \in 2..(Len(p) - 1)
          /\ Len(p) - (Len(p) - 1) = 1 /\ Len(p) - (Len(p) - n) = n
          /\ n = 3 => Len(p) - 2 \in 2..(Len(p) - 1) /\ Len(p) - (Len(p) - 2) = 2
      BY <1>1
    <2>2. QED BY <1>2, <2>1 DEF Opens
  <1>4. \A d \in 2..(Len(p) - n - 1) : FromEnd(p, d) \in Activating
    <2>1. \A d \in 2..(Len(p) - n - 1) : Len(p) - d \in (n + 1)..Len(s) /\ d \in 2..(Len(p) - 1)
      BY <1>1
    <2>2. QED BY <1>1, <1>2, <2>1
  <1>5. Guards(p, Len(p) - 1)
    BY <1>3 DEF Guards, Opening, Does
  <1>6. n = 3 => GuardsBoot(p, Len(p) - 2)
    <2>1. Len(p) - 2 + 1 = Len(p) - 1
      BY <1>1
    <2>2. QED BY <1>3, <1>5, <2>1 DEF GuardsBoot, Unboot
  <1>6a. /\ Opening.verb = "phase" /\ ApplyStep(Opening)
         /\ Unboot.verb = "boot" /\ ApplyStep(Unboot)
         /\ TakeTarget.verb = "live" /\ ApplyStep(TakeTarget)
    BY DEF Opening, Unboot, TakeTarget, ApplyStep, Does
  <1>7. ASSUME NEW d \in Places(p)
        PROVE  /\ d > 1 => ApplyStep(FromEnd(p, d))
               /\ Does(FromEnd(p, d), "phase", {"activation-guarded"}) => Guards(p, d)
               /\ FromEnd(p, d).verb = "boot" => GuardsBoot(p, d)
               /\ FromEnd(p, d).verb = "live" =>
                    d <= Len(p) - 2 /\ (Guards(p, d + 1) \/ GuardsBoot(p, d + 1))
    <2>1. \/ d \in {0, 1}
          \/ d = Len(p) - 1 /\ d > 1
          \/ d = Len(p) - 2 /\ n = 3 /\ d > 1
          \/ d = Len(p) - n /\ d > 1 /\ d <= Len(p) - 2
          \/ d \in 2..(Len(p) - n - 1)
      BY <1>1 DEF Places
    <2>2. CASE d \in {0, 1}
      BY <2>2 DEF Does, Checks
    <2>3. CASE d = Len(p) - 1
      BY <1>3, <1>5, <1>6a, <2>3
    <2>4. CASE d = Len(p) - 2 /\ n = 3
      BY <1>3, <1>6, <1>6a, <2>4 DEF Does
    <2>5. CASE d = Len(p) - n /\ d <= Len(p) - 2
      <3>1. \/ n = 2 /\ d + 1 = Len(p) - 1
            \/ n = 3 /\ d + 1 = Len(p) - 2
        BY <1>1, <2>5
      <3>2. QED BY <1>3, <1>5, <1>6, <1>6a, <2>5, <3>1 DEF Does
    <2>6. CASE d \in 2..(Len(p) - n - 1)
      <3>1. ActivateStep(FromEnd(p, d))
        BY <1>4, <2>6 DEF Activating
      <3>2. QED BY <3>1 DEF ActivateStep, ApplyStep, ResourceStep, Does
    <2>7. QED BY <2>1, <2>2, <2>3, <2>4, <2>5, <2>6
  <1>8. p # <<>> /\ Len(p) >= 4
    BY <1>1
  <1>9. ApplyShape(p)
    BY <1>7, <1>8 DEF ApplyShape
  <1>10. n = 3 => Has(p, "boot")
    <2>1. n = 3 => Len(p) - 2 \in Places(p)
      BY <1>1 DEF Places
    <2>2. QED BY <1>3, <2>1 DEF Has, Unboot
  <1>11. QED BY <1>5, <1>8, <1>9, <1>10

LEMMA OpensOn ==
  ASSUME NEW s, NEW n, Opens(s, n), NEW t \in Seq(Activating), Paired(t), Leads(t)
  PROVE  Opens(s \o t, n)
  <1>1. n \in {2, 3}
    BY DEF Opens
  <1>2. n \in Nat /\ Activating \subseteq Steps /\ Continues(s, n, Activating) /\ Paired(s)
    BY <1>1 DEF Opens, Activating
  <1>3. Continues(s \o t, n, Activating) /\ Paired(s \o t)
    BY <1>2, ContinuePaired, Zenon
  <1>4. \A i \in 1..n : (s \o t)[i] = s[i]
    BY <1>2, ContinuePaired, Zenon
  <1>5. 1 \in 1..n /\ n \in 1..n /\ (n = 3 => 2 \in 1..n)
    BY <1>1
  <1>6. (s \o t)[1] = s[1] /\ (s \o t)[n] = s[n] /\ (n = 3 => (s \o t)[2] = s[2])
    BY <1>4, <1>5
  <1>7. QED BY <1>1, <1>3, <1>6 DEF Opens

\* The guard steps and the copy of the target.
LEMMA GuardPlan ==
  ASSUME TypeOK
  PROVE  /\ Opens(GuardSteps \o Step("live", "target"), IF unit.installed THEN 3 ELSE 2)
         /\ GuardSteps \o Step("live", "target") \in
              Seq({x \in Steps : x.verb \in {"phase", "boot", "live"}})
  <1> DEFINE S == {x \in Steps : x.verb \in {"phase", "boot", "live"} /\ x \in Singles}
  <1> DEFINE G == Step("phase", "activation-guarded")
  <1> DEFINE U == Step("boot", FALSE)
  <1> DEFINE L == Step("live", "target")
  <1>1. Opening \in S /\ TakeTarget \in S /\ Unboot \in S
    BY StepType DEF Opening, TakeTarget, Unboot, Verbs, Argument, Words, Phases, Singles, Does
  <1>2. /\ G \in Seq(S) /\ Len(G) = 1 /\ G[1] = Opening
        /\ L \in Seq(S) /\ Len(L) = 1 /\ L[1] = TakeTarget
    BY <1>1, OneStep DEF Opening, TakeTarget
  <1>3. U \in Seq(S) /\ Len(U) = 1 /\ U[1] = Unboot
    <2>1. U = <<Unboot>>
      BY DEF Step, Unboot
    <2> HIDE DEF U
    <2>2. QED BY <1>1, <2>1
  <1>4. S \subseteq Steps /\ S \subseteq Singles
        /\ S \subseteq {x \in Steps : x.verb \in {"phase", "boot", "live"}}
    BY DEF Singles
  <1>5. unit.installed \in BOOLEAN
    BY DEF TypeOK
  <1> HIDE DEF S
  <1>6. CASE unit.installed
    <2>1. GuardSteps = G \o U
      BY <1>6 DEF GuardSteps
    <2> HIDE DEF G, U, L
    <2>2. G \o U \in Seq(S) /\ Len(G \o U) = 2 /\ (G \o U)[1] = Opening /\ (G \o U)[2] = Unboot
      BY <1>2, <1>3, JoinTwo
    <2> DEFINE q == G \o U
    <2> DEFINE s == q \o L
    <2> HIDE DEF q
    <2>3. /\ s \in Seq(S) /\ Len(s) = 3 /\ s[1] = Opening /\ s[2] = Unboot /\ s[3] = TakeTarget
      <3>1. \A i \in 1..(Len(q) + Len(L)) : s[i] = IF i <= Len(q) THEN q[i] ELSE L[i - Len(q)]
        BY <1>2, <2>2, ConcatProperties, Zenon DEF q
      <3>2. q \in Seq(S) /\ L \in Seq(S)
        BY <1>2, <2>2 DEF q, L
      <3>4. s \in Seq(S) /\ Len(s) = Len(q) + Len(L)
        BY <3>2
      <3> HIDE DEF s
      <3>3. QED BY <1>2, <2>2, <3>1, <3>4 DEF q, L
    <2> HIDE DEF s
    <2>4. s \in Seq(Steps) /\ Paired(s)
      BY <1>4, <2>3, SeqMonotonic, SinglesPaired
    <2>5. Opens(s, 3)
      BY <2>3, <2>4 DEF Opens, Continues
    <2>6. s \in Seq({x \in Steps : x.verb \in {"phase", "boot", "live"}})
      BY <1>4, <2>3, SeqMonotonic
    <2>7. QED BY <1>6, <2>1, <2>5, <2>6 DEF s, q, L
  <1>7. CASE ~unit.installed
    <2>1. GuardSteps = G \o <<>>
      BY <1>7 DEF GuardSteps
    <2> HIDE DEF G, L
    <2>2. GuardSteps = G
      BY <1>2, <2>1
    <2>3. G \o L \in Seq(S) /\ Len(G \o L) = 2 /\ (G \o L)[1] = Opening /\ (G \o L)[2] = TakeTarget
      BY <1>2, JoinTwo
    <2> DEFINE s == G \o L
    <2> HIDE DEF s
    <2>4. s \in Seq(Steps) /\ Paired(s)
      BY <1>4, <2>3, SeqMonotonic, SinglesPaired DEF s
    <2>5. Opens(s, 2)
      BY <2>3, <2>4 DEF Opens, Continues, s
    <2>6. s \in Seq({x \in Steps : x.verb \in {"phase", "boot", "live"}})
      BY <1>4, <2>3, SeqMonotonic DEF s
    <2>7. QED BY <1>7, <2>2, <2>5, <2>6 DEF s, L
  <1>8. QED BY <1>5, <1>6, <1>7

ApplySteps ==
  GuardSteps \o Step("live", "target") \o Step("phase", "activated")
  \o ProxySteps(Target, Backup) \o ServiceSteps(Target, Backup, Starts, FALSE)
  \o Verify("target", Starts, FALSE) \o Step("phase", "resources-applied")

LEMMA ApplyPlan ==
  ASSUME TypeOK, Backup \in Manifest, Target \in Manifest
  PROVE  /\ ApplySteps \in Seq(Steps) /\ ApplyShape(ApplySteps) /\ Len(ApplySteps) >= 4
         /\ Guards(ApplySteps, Len(ApplySteps) - 1)
         /\ unit.installed => Has(ApplySteps, "boot")
         /\ (Untouched /\ (Backup.service \/ ~unit.installed)) =>
              \A d \in Places(ApplySteps) : QuietStep(FromEnd(ApplySteps, d))
  <1> DEFINE n == IF unit.installed THEN 3 ELSE 2
  <1> DEFINE L == GuardSteps \o Step("live", "target")
  <1> DEFINE D == Step("phase", "activated")
  <1> DEFINE P == ProxySteps(Target, Backup)
  <1> DEFINE S == ServiceSteps(Target, Backup, Starts, FALSE)
  <1> DEFINE V == Verify("target", Starts, FALSE)
  <1> DEFINE W == Step("phase", "resources-applied")
  <1> DEFINE Quiets == {x \in Steps : QuietStep(x)}
  <1>1. ApplySteps = L \o D \o P \o S \o V \o W
    BY DEF ApplySteps
  <1>2. Starts \in BOOLEAN /\ Target.service \in BOOLEAN /\ unit.installed \in BOOLEAN
    BY ManifestAssumption DEF TypeOK, Starts
  <1>3. Opens(L, n) /\ L \in Seq(Quiets)
    <2>1. {x \in Steps : x.verb \in {"phase", "boot", "live"}} \subseteq Quiets
      BY DEF QuietStep
    <2>2. QED BY <2>1, GuardPlan, SeqMonotonic
  <1> DEFINE d1 == [verb |-> "phase", arg |-> "activated"]
  <1> DEFINE w1 == [verb |-> "phase", arg |-> "resources-applied"]
  <1>4. d1 \in Steps /\ w1 \in Steps
    BY StepType DEF Verbs, Argument, Words, Phases
  <1>5. /\ d1 \in Activating /\ d1 \in Singles /\ d1 \in Quiets
        /\ w1 \in Singles /\ w1 \in Quiets /\ Does(w1, "phase", {"resources-applied"})
    BY <1>4 DEF Activating, ActivateStep, Singles, QuietStep, Does
  <1>6. /\ D \in Seq(Activating) /\ D \in Seq(Quiets) /\ Paired(D) /\ Leads(D)
        /\ W \in Seq(Singles) /\ W \in Seq(Quiets) /\ Len(W) = 1
        /\ Does(W[1], "phase", {"resources-applied"})
    <2>1. /\ D \in Seq(Activating) /\ D \in Seq(Quiets) /\ D \in Seq(Singles)
          /\ W \in Seq(Singles) /\ W \in Seq(Quiets) /\ Len(W) = 1 /\ W[1] = w1
      BY <1>5, OneStep
    <2>2. QED BY <1>5, <2>1, SinglesPaired
  <1>7. P \in Seq(Activating) /\ P \in Seq(Quiets) /\ Paired(P) /\ Leads(P)
    <2>1. \A x \in {x \in Steps : Does(x, "proxy", Accesses)} :
            x \in Activating /\ x \in Singles /\ x \in Quiets
      BY DEF Does, Activating, ActivateStep, ResourceStep, Singles, QuietStep
    <2>2. P \in Seq(Activating) /\ P \in Seq(Singles) /\ P \in Seq(Quiets)
      BY <2>1, ProxyPlan, SeqMonotonic
    <2>3. QED BY <2>2, SinglesPaired
  <1>8. /\ S \in Seq(Activating) /\ Paired(S) /\ Leads(S)
        /\ (Untouched /\ (Backup.service \/ ~unit.installed)) => S \in Seq(Quiets)
    <2>1. {x \in Steps : ResourceStep(x) \/ Does(x, "unit", {BootWord(FALSE)})}
            \subseteq Activating
      BY DEF Activating, ActivateStep, BootWord
    <2>2. Untouched => ~Starts /\ Backup.service = Target.service
      BY DEF Untouched
    <2>3. Backup.service = Target.service =>
            {x \in Steps : Target.service /\ Does(x, "unit", {"install", "enable", "disable"})}
              \subseteq Quiets
      BY DEF QuietStep, Does
    <2>4. /\ S \in Seq({x \in Steps : ResourceStep(x) \/ Does(x, "unit", {BootWord(FALSE)})})
          /\ (~Starts /\ (Target.service \/ ~unit.installed)) =>
               S \in Seq({x \in Steps : Target.service
                                        /\ Does(x, "unit", {"install", "enable", "disable"})})
      BY <1>2, ServicePlan
    <2>5. Paired(S) /\ Leads(S)
      BY <1>2, ServicePaired
    <2> HIDE DEF S, Quiets
    <2>6. QED BY <2>1, <2>2, <2>3, <2>4, <2>5, SeqMonotonic
  <1>9. /\ V \in Seq(Singles) /\ V \in Seq(Quiets) /\ Len(V) = 1
        /\ Checks(V[1], "target", FALSE)
    <2> DEFINE v == [of |-> "target", start |-> Starts, enabled |-> FALSE]
    <2>1. /\ [verb |-> "verify", arg |-> v] \in Steps
          /\ Checks([verb |-> "verify", arg |-> v], "target", FALSE)
          /\ V = Step("verify", v)
      BY <1>2, CheckSteps
    <2> HIDE DEF V, v
    <2>2. [verb |-> "verify", arg |-> v] \in Quiets /\ [verb |-> "verify", arg |-> v] \in Singles
      BY <2>1 DEF QuietStep, Singles, Does
    <2>3. /\ V[1] = [verb |-> "verify", arg |-> v] /\ Len(V) = 1
          /\ V \in Seq(Quiets) /\ V \in Seq(Singles)
      BY <2>1, <2>2, OneStep
    <2>4. QED BY <2>1, <2>3
  <1> HIDE DEF d1, w1, L, D, P, S, V, W, Quiets, n
  <1> DEFINE s == L \o D \o P \o S
  <1>10. Opens(s, n)
    <2>1. Opens(L \o D, n)
      BY <1>3, <1>6, OpensOn
    <2>2. Opens(L \o D \o P, n)
      BY <1>7, <2>1, OpensOn
    <2>3. QED BY <1>8, <2>2, OpensOn
  <1>11. ApplySteps = s \o V \o W
    BY <1>1
  <1> HIDE DEF s
  <1>12. s \in Seq(Steps) /\ Paired(s)
    BY <1>10 DEF Opens, Continues
  <1>13. /\ ApplySteps \in Seq(Steps) /\ Len(ApplySteps) = Len(s) + 2 /\ Paired(ApplySteps)
         /\ FromEnd(ApplySteps, 0) = W[1] /\ FromEnd(ApplySteps, 1) = V[1]
         /\ \A d \in 2..(Len(ApplySteps) - 1) : FromEnd(ApplySteps, d) = FromEnd(s, d - 2)
    BY <1>6, <1>9, <1>11, <1>12, TwoMore
  <1>14. /\ Does(FromEnd(ApplySteps, 0), "phase", {"resources-applied"})
         /\ Checks(FromEnd(ApplySteps, 1), "target", FALSE)
    BY <1>6, <1>9, <1>13, Zenon
  <1>15. /\ ApplyShape(ApplySteps) /\ Guards(ApplySteps, Len(ApplySteps) - 1)
         /\ Len(ApplySteps) >= 4 /\ (n = 3 => Has(ApplySteps, "boot"))
    BY <1>10, <1>13, <1>14, OpenedShape, Zenon
  <1>16. (Untouched /\ (Backup.service \/ ~unit.installed)) =>
           \A d \in Places(ApplySteps) : QuietStep(FromEnd(ApplySteps, d))
    <2>1. SUFFICES ASSUME Untouched, Backup.service \/ ~unit.installed
                   PROVE  ApplySteps \in Seq(Quiets)
      BY Elements DEF Quiets
    <2>2. QED BY <1>1, <1>3, <1>6, <1>7, <1>8, <1>9, <2>1
  <1>17. QED BY <1>13, <1>15, <1>16 DEF n
-----------------------------------------------------------------------------
(* The plans of commit and of prepare.                                     *)

Cleaning == [verb |-> "cleanup", arg |-> "config"]
Boot == [verb |-> "boot", arg |-> TRUE]
Committing == [verb |-> "phase", arg |-> "committing"]
Checking(enabled) ==
  [verb |-> "verify", arg |-> [of |-> "target", start |-> Starts, enabled |-> enabled]]

CommitSteps == (Verify("target", Starts, FALSE) \o Step("phase", "committing")) \o FinalizeSteps

LEMMA FinishTypes ==
  /\ Cleaning \in Singles /\ Boot \in Singles /\ Committing \in Singles
  /\ \A enabled \in BOOLEAN : /\ Checking(enabled) \in Singles
                              /\ Checks(Checking(enabled), "target", enabled)
  <1>1. Cleaning \in Steps /\ Boot \in Steps /\ Committing \in Steps
    BY StepType DEF Cleaning, Boot, Committing, Verbs, Argument, Words, Phases
  <1>2. Starts \in BOOLEAN
    BY DEF Starts
  <1>3. ASSUME NEW enabled \in BOOLEAN
        PROVE  Checking(enabled) \in Steps /\ Checks(Checking(enabled), "target", enabled)
    BY <1>2, CheckSteps DEF Checking
  <1>4. \A x \in Steps : x.verb # "unit" => x \in Singles
    BY DEF Singles, Does
  <1>5. /\ Cleaning.verb # "unit" /\ Boot.verb # "unit" /\ Committing.verb # "unit"
        /\ \A enabled : Checking(enabled).verb # "unit"
    BY DEF Cleaning, Boot, Committing, Checking
  <1>6. QED BY <1>1, <1>3, <1>4, <1>5

LEMMA FinishPlaces ==
  ASSUME NEW m \in {0, 2}, NEW n \in {1, 2}, NEW l, l = m + n + 8
  PROVE  /\ l \in 9..12 /\ 8 \in 8..(l - 1) /\ 8 - 8 = 0 /\ 9 - 8 = 1
         /\ n = 2 => 9 \in 8..(l - 1)
         /\ m = 2 => /\ n + 8 \in 8..(l - 1) /\ n + 8 - 8 = n
                     /\ n + 9 \in 8..(l - 1) /\ n + 9 - 8 = n + 1 /\ l - 1 = n + 9
         /\ 0 + n = n /\ 1 + n = n + 1
         /\ 0 \in 0..(n - 1) /\ (n = 2 => 1 \in 0..(n - 1))
         /\ (m = 2 => 0 \in 0..(m - 1) /\ 1 \in 0..(m - 1))
         /\ l >= 8 /\ l >= 9
  OBVIOUS

LEMMA FinishPlace ==
  ASSUME NEW m \in {0, 2}, NEW n \in {1, 2}, NEW l, l = m + n + 8, NEW d \in 8..(l - 1)
  PROVE  \/ d = 8 /\ ~(d > 8)
         \/ d = 9 /\ d > 8 /\ n = 2 /\ (d < l - 1 => m = 2 /\ d + 1 = n + 8)
         \/ d = n + 8 /\ m = 2 /\ d > 8
         \/ d = n + 9 /\ m = 2 /\ d > 8
  OBVIOUS

\* q: the start of a commit, when the phase is yet to be written.  r: what comes next.
LEMMA FinishShaped ==
  ASSUME NEW q \in Seq(Singles), NEW r \in Seq(Singles),
         Len(q) \in {0, 2}, Len(r) \in {1, 2},
         Len(q) = 2 => FromEnd(q, 1) = Checking(FALSE) /\ FromEnd(q, 0) = Committing,
         FromEnd(r, 0) = Checking(TRUE), Len(r) = 2 => FromEnd(r, 1) = Boot
  PROVE  LET p == (q \o r) \o Step("cleanup", "config") \o ClearSteps IN
         /\ p \in Seq(Steps) /\ FinishShape(p) /\ Len(p) >= 9
         /\ Len(q) = 2 => Head(p).verb = "verify"
  <1> DEFINE s == q \o r
  <1> DEFINE v == Step("cleanup", "config")
  <1> DEFINE p == s \o v \o ClearSteps
  <1>1. q \in Seq(Steps) /\ r \in Seq(Steps) /\ s \in Seq(Singles) /\ s \in Seq(Steps)
    BY SeqMonotonic DEF Singles
  <1>2. Paired(s)
    BY <1>1, SinglesPaired
  <1>3. /\ Len(s) = Len(q) + Len(r)
        /\ \A d \in Places(r) : FromEnd(s, d) = FromEnd(r, d)
        /\ \A d \in Places(q) : FromEnd(s, d + Len(r)) = FromEnd(q, d)
    BY <1>1, JoinFromEnd, Zenon
  <1>3b. /\ 0 \in Places(r) /\ (Len(r) = 2 => 1 \in Places(r))
         /\ (Len(q) = 2 => 0 \in Places(q) /\ 1 \in Places(q))
    BY FinishPlaces, Zenon DEF Places
  <1>4. FromEnd(s, 0) = Checking(TRUE) /\ (Len(r) = 2 => FromEnd(s, 1) = Boot)
    BY <1>3, <1>3b
  <1>5. Len(q) = 2 => /\ FromEnd(s, Len(r)) = Committing
                      /\ FromEnd(s, Len(r) + 1) = Checking(FALSE)
    <2>1. 0 + Len(r) = Len(r) /\ 1 + Len(r) = Len(r) + 1
      BY FinishPlaces, Zenon
    <2>2. Len(q) = 2 => /\ FromEnd(s, 0 + Len(r)) = FromEnd(q, 0)
                        /\ FromEnd(s, 1 + Len(r)) = FromEnd(q, 1)
      BY <1>3, <1>3b
    <2>3. QED BY <2>1, <2>2
  <1>6. v \in Seq(Steps) /\ Len(v) = 1 /\ Leads(v) /\ v[1] = Cleaning
    <2>1. v \in Seq(Singles) /\ Len(v) = 1 /\ v[1] = Cleaning
      BY FinishTypes, OneStep DEF Cleaning
    <2>2. QED BY <2>1, SinglesPaired, SeqMonotonic DEF Singles
  <1> HIDE DEF s, v
  <1>7. /\ p \in Seq(Steps) /\ Len(p) = Len(s) + 8 /\ ClearsLast(p)
        /\ FromEnd(p, 7) = v[1] /\ Paired(p)
        /\ \A d \in 8..(Len(p) - 1) : FromEnd(p, d) = FromEnd(s, d - 8)
    BY <1>1, <1>2, <1>6, ClosingSteps
  <1> HIDE DEF p
  <1>8. Len(p) = Len(q) + Len(r) + 8
    <2>1. Len(q) \in Nat /\ Len(r) \in Nat
      OBVIOUS
    <2>2. QED BY <1>3, <1>7, <2>1
  <1>9. /\ FromEnd(p, 8) = Checking(TRUE)
        /\ Len(r) = 2 => FromEnd(p, 9) = Boot
        /\ Len(q) = 2 => /\ FromEnd(p, Len(r) + 8) = Committing
                         /\ FromEnd(p, Len(r) + 9) = Checking(FALSE)
    <2>1. \A d \in 8..(Len(p) - 1) : FromEnd(p, d) = FromEnd(s, d - 8)
      BY <1>7
    <2>a. /\ 8 \in 8..(Len(p) - 1) /\ 8 - 8 = 0 /\ 9 - 8 = 1
          /\ Len(r) = 2 => 9 \in 8..(Len(p) - 1)
          /\ Len(q) = 2 => /\ Len(r) + 8 \in 8..(Len(p) - 1) /\ Len(r) + 8 - 8 = Len(r)
                           /\ Len(r) + 9 \in 8..(Len(p) - 1) /\ Len(r) + 9 - 8 = Len(r) + 1
      BY <1>8, FinishPlaces, Zenon
    <2>2. FromEnd(p, 8) = FromEnd(s, 0)
      BY <2>1, <2>a
    <2>3. Len(r) = 2 => FromEnd(p, 9) = FromEnd(s, 1)
      BY <2>1, <2>a
    <2>4. Len(q) = 2 => /\ FromEnd(p, Len(r) + 8) = FromEnd(s, Len(r))
                        /\ FromEnd(p, Len(r) + 9) = FromEnd(s, Len(r) + 1)
      BY <2>1, <2>a
    <2>5. QED BY <1>4, <1>5, <2>2, <2>3, <2>4
  <1>10. ASSUME NEW d \in 8..(Len(p) - 1)
         PROVE  /\ d = 8 => Checks(FromEnd(p, d), "target", TRUE)
                /\ d > 8 => \/ Does(FromEnd(p, d), "boot", {TRUE})
                            \/ Does(FromEnd(p, d), "phase", {"committing"})
                            \/ Checks(FromEnd(p, d), "target", FALSE)
                /\ (FromEnd(p, d).verb = "boot" /\ d < Len(p) - 1) =>
                     Does(FromEnd(p, d + 1), "phase", {"committing"})
    <2>1. \/ d = 8 /\ ~(d > 8)
          \/ d = 9 /\ d > 8 /\ Len(r) = 2
             /\ (d < Len(p) - 1 => Len(q) = 2 /\ d + 1 = Len(r) + 8)
          \/ d = Len(r) + 8 /\ Len(q) = 2 /\ d > 8
          \/ d = Len(r) + 9 /\ Len(q) = 2 /\ d > 8
      BY <1>8, FinishPlace, Zenon
    <2>2. /\ Checks(Checking(TRUE), "target", TRUE) /\ Checking(TRUE).verb = "verify"
          /\ Checks(Checking(FALSE), "target", FALSE) /\ Checking(FALSE).verb = "verify"
      BY FinishTypes DEF Checks
    <2>3. /\ Does(Boot, "boot", {TRUE})
          /\ Does(Committing, "phase", {"committing"}) /\ Committing.verb = "phase"
      BY DEF Boot, Committing, Does
    <2>4. CASE d = 8 /\ ~(d > 8)
      <3>1. FromEnd(p, d) = Checking(TRUE)
        BY <1>9, <2>4
      <3>2. FromEnd(p, d).verb # "boot" /\ Checks(FromEnd(p, d), "target", TRUE)
        BY <2>2, <3>1
      <3>3. QED BY <2>4, <3>2, Zenon
    <2>5. CASE d = 9 /\ d > 8 /\ Len(r) = 2
               /\ (d < Len(p) - 1 => Len(q) = 2 /\ d + 1 = Len(r) + 8)
      <3>1. FromEnd(p, d) = Boot /\ (d < Len(p) - 1 => FromEnd(p, d + 1) = Committing)
        BY <1>9, <2>5
      <3>2. d # 8
        BY <2>5
      <3>3. QED BY <2>3, <3>1, <3>2, Zenon
    <2>6. CASE d > 8 /\ FromEnd(p, d) \in {Committing, Checking(FALSE)}
      <3>1. d # 8
        BY <2>6
      <3>2. FromEnd(p, d).verb # "boot"
        BY <2>2, <2>3, <2>6
      <3>3. QED BY <2>2, <2>3, <2>6, <3>1, <3>2, Zenon
    <2>7. QED BY <1>9, <2>1, <2>4, <2>5, <2>6
  <1>11. FromEnd(p, 7).verb = "cleanup"
    BY <1>6, <1>7 DEF Cleaning
  <1>12. FinishShape(p) /\ Len(p) >= 9
    <2>1. Len(p) >= 9 /\ Len(p) >= 8
      BY <1>8, FinishPlaces, Zenon
    <2>2. ClearsLast(p)
      BY <1>7
    <2>3. QED BY <1>10, <1>11, <2>1, <2>2 DEF FinishShape
  <1>13. Len(q) = 2 => Head(p).verb = "verify"
    <2>1. p # <<>>
      BY <1>12
    <2>2. Head(p) = FromEnd(p, Len(p) - 1)
      BY <1>7, <2>1, TailEnds
    <2>3. Len(q) = 2 => Len(p) - 1 = Len(r) + 9
      BY <1>8, FinishPlaces, Zenon
    <2>4. QED BY <1>9, <2>2, <2>3 DEF Checking
  <1>14. QED BY <1>7, <1>12, <1>13 DEF p, s, v

LEMMA FinishPlan ==
  ASSUME TypeOK, Target \in Manifest
  PROVE  /\ FinalizeSteps \in Seq(Steps) /\ FinishShape(FinalizeSteps) /\ Len(FinalizeSteps) >= 9
         /\ CommitSteps \in Seq(Steps) /\ FinishShape(CommitSteps) /\ Len(CommitSteps) >= 9
         /\ Head(CommitSteps).verb = "verify"
  <1> DEFINE V == Verify("target", Starts, TRUE)
  <1> DEFINE W == Verify("target", Starts, FALSE)
  <1> DEFINE B == IF Target.service THEN Step("boot", TRUE) ELSE <<>>
  <1> DEFINE C == Step("phase", "committing")
  <1> DEFINE K == Step("cleanup", "config")
  <1> DEFINE q == W \o C
  <1> DEFINE r == B \o V
  <1>1. Target.service \in BOOLEAN
    BY ManifestAssumption
  <1> DEFINE v1 == Checking(TRUE)
  <1> DEFINE w1 == Checking(FALSE)
  <1>2. /\ V \in Seq(Singles) /\ Len(V) = 1 /\ V[1] = v1
        /\ W \in Seq(Singles) /\ Len(W) = 1 /\ W[1] = w1
    <2>1. v1 \in Singles /\ w1 \in Singles
      BY FinishTypes
    <2>2. V = <<v1>> /\ W = <<w1>>
      BY DEF Verify, Step, Checking
    <2> HIDE DEF V, W, v1, w1
    <2>3. QED BY <2>1, <2>2
  <1>3. C \in Seq(Singles) /\ Len(C) = 1 /\ C[1] = Committing
    BY FinishTypes, OneStep DEF Committing
  <1>4. q \in Seq(Singles) /\ Len(q) = 2 /\ q[1] = w1 /\ q[2] = Committing
    <2> HIDE DEF W, C, w1
    <2>1. QED BY <1>2, <1>3, JoinTwo
  <1>5. /\ r \in Seq(Singles)
        /\ \/ Len(r) = 1 /\ r[1] = v1
           \/ Len(r) = 2 /\ r[1] = Boot /\ r[2] = v1
    <2>1. CASE Target.service
      <3>1. B = <<Boot>>
        BY <2>1 DEF Step, Boot
      <3>2. B \in Seq(Singles) /\ Len(B) = 1 /\ B[1] = Boot
        <4>1. Boot \in Singles
          BY FinishTypes
        <4> HIDE DEF B
        <4>2. QED BY <3>1, <4>1
      <3> HIDE DEF V, B, v1
      <3>3. QED BY <1>2, <3>2, JoinTwo
    <2>2. CASE ~Target.service
      <3>1. B = <<>>
        BY <2>2
      <3> HIDE DEF V, B, v1
      <3>2. r = V
        BY <1>2, <3>1
      <3>3. QED BY <1>2, <3>2
    <2>3. QED BY <1>1, <2>1, <2>2
  <1>6. FinalizeSteps = r \o K \o ClearSteps
    BY DEF FinalizeSteps
  <1> DEFINE p == (q \o r) \o K \o ClearSteps
  <1>7. CommitSteps = p
    <2>1. CommitSteps = q \o (r \o K \o ClearSteps)
      BY <1>6 DEF CommitSteps
    <2>2. q \in Seq(Steps) /\ r \in Seq(Steps)
      BY <1>4, <1>5, SeqMonotonic DEF Singles
    <2>3. K \in Seq(Steps)
      BY FinishTypes, OneStep DEF Cleaning, Singles
    <2>4. ClearSteps \in Seq(Steps)
      BY ClearTuple
    <2> HIDE DEF q, r, K
    <2>5. (q \o r) \o K = q \o (r \o K) /\ r \o K \in Seq(Steps)
      BY <2>2, <2>3, ConcatAssociative
    <2>6. (q \o (r \o K)) \o ClearSteps = q \o ((r \o K) \o ClearSteps)
      <3> DEFINE rk == r \o K
      <3>1. rk \in Seq(Steps)
        BY <2>5
      <3> HIDE DEF rk
      <3>2. (q \o rk) \o ClearSteps = q \o (rk \o ClearSteps)
        BY <2>2, <2>4, <3>1, ConcatAssociative
      <3>3. QED BY <3>2 DEF rk
    <2>7. QED BY <2>1, <2>5, <2>6, Zenon
  <1> HIDE DEF q, r, K
  <1>8. /\ FromEnd(q, 1) = Checking(FALSE) /\ FromEnd(q, 0) = Committing
        /\ FromEnd(r, 0) = Checking(TRUE) /\ (Len(r) = 2 => FromEnd(r, 1) = Boot)
    <2>1. 2 - 1 = 1 /\ 2 - 0 = 2 /\ 1 - 0 = 1 /\ 1 # 2
      OBVIOUS
    <2>2. QED BY <1>4, <1>5, <2>1, Zenon DEF FromEnd
  <1>8a. Len(q) \in {0, 2} /\ Len(q) = 2 /\ Len(r) \in {1, 2}
    BY <1>4, <1>5, Zenon
  <1>9. CommitSteps \in Seq(Steps) /\ FinishShape(CommitSteps) /\ Len(CommitSteps) >= 9
        /\ Head(CommitSteps).verb = "verify"
    BY <1>4, <1>5, <1>7, <1>8, <1>8a, FinishShaped DEF K
  <1>10. FinalizeSteps \in Seq(Steps) /\ FinishShape(FinalizeSteps) /\ Len(FinalizeSteps) >= 9
    <2> DEFINE e == <<>>
    <2>1. e \in Seq(Singles) /\ Len(e) \in {0, 2} /\ Len(e) # 2
      OBVIOUS
    <2>2. e \o r = r
      BY <1>5
    <2>3. FinalizeSteps = (e \o r) \o Step("cleanup", "config") \o ClearSteps
      BY <1>6, <2>2 DEF K
    <2> HIDE DEF e
    <2>4. QED BY <1>5, <1>8, <1>8a, <2>1, <2>3, FinishShaped
  <1>11. QED BY <1>9, <1>10

PrepareSteps(new, start) ==
  Step("backup", "live") \o Step("target", new)
  \o Step("digest", "backup") \o Step("digest", "target")
  \o Step("start", IF start THEN "start" ELSE "no-start")
  \o Step("active", "service") \o Step("running", "container")
  \o Step("phase", "preparing")

LEMMA PreparePlan ==
  ASSUME NEW new \in Manifest, NEW start \in BOOLEAN
  PROVE  LET p == PrepareSteps(new, start) IN
         p \in Seq(Steps) /\ PrepareShape(p) /\ Len(p) = 8
  <1> DEFINE word == IF start THEN "start" ELSE "no-start"
  <1> DEFINE E(verb, arg) == [verb |-> verb, arg |-> arg]
  <1>1. /\ E("backup", "live") \in Steps /\ E("target", new) \in Steps
        /\ E("digest", "backup") \in Steps /\ E("digest", "target") \in Steps
        /\ E("start", word) \in Steps /\ E("active", "service") \in Steps
        /\ E("running", "container") \in Steps /\ E("phase", "preparing") \in Steps
    BY StepType DEF Verbs, Argument, Words, Phases
  <1>2. word \in {"start", "no-start"}
    OBVIOUS
  <1> DEFINE p1 == Step("backup", "live")
  <1> DEFINE p2 == p1 \o Step("target", new)
  <1> DEFINE p3 == p2 \o Step("digest", "backup")
  <1> DEFINE p4 == p3 \o Step("digest", "target")
  <1> DEFINE p5 == p4 \o Step("start", word)
  <1> DEFINE p6 == p5 \o Step("active", "service")
  <1> DEFINE p7 == p6 \o Step("running", "container")
  <1> DEFINE p8 == p7 \o Step("phase", "preparing")
  <1>3. PrepareSteps(new, start) = p8
    BY DEF PrepareSteps
  <1> DEFINE Grows(s, t, x) ==
               /\ t \in Seq(Steps) /\ Len(t) = Len(s) + 1 /\ t[Len(s) + 1] = x
               /\ \A i \in 1..Len(s) : t[i] = s[i]
  <1>4. ASSUME NEW s \in Seq(Steps), NEW verb, NEW arg, E(verb, arg) \in Steps
        PROVE  Grows(s, s \o Step(verb, arg), E(verb, arg)) /\ s \o Step(verb, arg) \in Seq(Steps)
    BY <1>4, OneMore
  <1>5. p1 \in Seq(Steps) /\ Len(p1) = 1 /\ p1[1] = E("backup", "live")
    BY <1>1, OneStep
  <1> HIDE DEF word, E, p1, Grows
  <1>6. Grows(p1, p2, E("target", new)) /\ p2 \in Seq(Steps)
    BY <1>1, <1>4, <1>5, Zenon
  <1> HIDE DEF p2
  <1>7. Grows(p2, p3, E("digest", "backup")) /\ p3 \in Seq(Steps)
    BY <1>1, <1>4, <1>6, Zenon
  <1> HIDE DEF p3
  <1>8. Grows(p3, p4, E("digest", "target")) /\ p4 \in Seq(Steps)
    BY <1>1, <1>4, <1>7, Zenon
  <1> HIDE DEF p4
  <1>9. Grows(p4, p5, E("start", word)) /\ p5 \in Seq(Steps)
    BY <1>1, <1>4, <1>8, Zenon
  <1> HIDE DEF p5
  <1>10. Grows(p5, p6, E("active", "service")) /\ p6 \in Seq(Steps)
    BY <1>1, <1>4, <1>9, Zenon
  <1> HIDE DEF p6
  <1>11. Grows(p6, p7, E("running", "container")) /\ p7 \in Seq(Steps)
    BY <1>1, <1>4, <1>10, Zenon
  <1> HIDE DEF p7
  <1>12. Grows(p7, p8, E("phase", "preparing")) /\ p8 \in Seq(Steps)
    BY <1>1, <1>4, <1>11, Zenon
  <1> HIDE DEF p8
  <1>12a. /\ Len(p2) = 2 /\ Len(p3) = 3 /\ Len(p4) = 4 /\ Len(p5) = 5
          /\ Len(p6) = 6 /\ Len(p7) = 7 /\ Len(p8) = 8
    BY <1>5, <1>6, <1>7, <1>8, <1>9, <1>10, <1>11, <1>12 DEF Grows
  <1>13. /\ p8[1] = E("backup", "live") /\ p8[2] = E("target", new)
         /\ p8[3] = E("digest", "backup") /\ p8[4] = E("digest", "target")
         /\ p8[5] = E("start", word) /\ p8[6] = E("active", "service")
         /\ p8[7] = E("running", "container") /\ p8[8] = E("phase", "preparing")
    <2>1. /\ p8[1] = p1[1] /\ p8[2] = p2[2] /\ p8[3] = p3[3] /\ p8[4] = p4[4]
          /\ p8[5] = p5[5] /\ p8[6] = p6[6] /\ p8[7] = p7[7]
      BY <1>5, <1>6, <1>7, <1>8, <1>9, <1>10, <1>11, <1>12, <1>12a DEF Grows
    <2>2. QED BY <1>5, <1>6, <1>7, <1>8, <1>9, <1>10, <1>11, <1>12, <1>12a, <2>1 DEF Grows
  <1>14. p8 \in Seq(Steps) /\ Len(p8) = 8
    BY <1>12, <1>12a
  <1>15. PrepareShape(p8)
    <2>1. ASSUME NEW d \in Places(p8)
          PROVE  d \in 0..7 /\ FromEnd(p8, d) = p8[8 - d]
      BY <1>14 DEF Places, FromEnd
    <2>2. ASSUME NEW d \in Places(p8)
          PROVE  /\ d = 7 => FromEnd(p8, d).verb = "backup"
                 /\ d = 6 => Does(FromEnd(p8, d), "target", Manifest)
                 /\ d \in {4, 5} => Does(FromEnd(p8, d), "digest", {"backup", "target"})
                 /\ d = 3 => Does(FromEnd(p8, d), "start", {"start", "no-start"})
                 /\ d = 2 => FromEnd(p8, d).verb = "active"
                 /\ d = 1 => FromEnd(p8, d).verb = "running"
                 /\ d = 0 => Does(FromEnd(p8, d), "phase", {"preparing"})
      BY <1>2, <1>13, <2>1 DEF E, Does
    <2>3. p8 # <<>> /\ Len(p8) <= 8
      BY <1>14
    <2>4. QED BY <2>2, <2>3 DEF PrepareShape
  <1>16. QED BY <1>3, <1>14, <1>15
-----------------------------------------------------------------------------
(* The inductive invariant.                                                *)

Preparing ==
  /\ PrepareShape(todo) /\ mode = "plain" /\ phase = "none"
  /\ Len(todo) <= 7 => Backup = live
  /\ Len(todo) <= 6 => Target \in Manifest
  /\ unit.installed = live.service

Applying ==
  /\ ApplyShape(todo) /\ mode = "guarded" /\ phase # "none"
  /\ Has(todo, "live") => ~unit.enabled \/ Has(todo, "boot")
  /\ phase = "preparing" => Guards(todo, Len(todo) - 1)

Restoring == RestoreShape(todo) /\ mode # "guarded" /\ phase # "none"
Unread == blind /\ UnreadShape(todo) /\ mode # "guarded" /\ phase # "none"

Finishing ==
  /\ FinishShape(todo) /\ mode = "plain" /\ phase \in {"resources-applied", "committing"}
  /\ live = Target
  /\ Verb = "boot" => phase = "committing"
  /\ Len(todo) = 8 => Agrees(Target)

Clearing ==
  /\ ClearShape(todo)
  /\ todo # <<>> => mode # "guarded"
  /\ Len(todo) \in 1..6 => phase = "none"
  /\ Len(todo) = 7 => phase # "none"

\* A unit is enabled when it is installed, and removed when it is disabled.
UnitReady ==
  /\ unit.enabled => unit.installed
  /\ (todo # <<>> /\ Does(Head(todo), "unit", {"remove"})) => ~unit.enabled
  /\ (todo # <<>> /\ Does(Head(todo), "unit", {"enable"})) => unit.installed

Recorded == phase # "none" => Backup \in Manifest /\ Target \in Manifest

Shaped ==
  /\ Recorded /\ UnitReady
  /\ Preparing \/ Applying \/ Restoring \/ Unread \/ Finishing \/ Clearing

Quiet ==
  (phase # "none" /\ Untouched) =>
    /\ \A d \in Places(todo) : QuietStep(FromEnd(todo, d))
    /\ Backup.service \/ ~unit.installed

\* What the restoration puts back is put back: only then do the steps of a
\* transaction agree with one another.
Settled ==
  /\ Restoring => live = Backup \/ Has(todo, "live")
  /\ (Clearing /\ Len(todo) = 7) =>
       Agrees(Backup) \/ Agrees(Target) \/ (blind /\ live = Backup)
  /\ phase = "none" /\ ~blind => Agrees(live)
  /\ phase = "preparing" /\ ~blind =>
       /\ Agrees(Backup)
       /\ Restoring => \A d \in Places(todo) : HarmlessStep(FromEnd(todo, d))

SettingsInv == TypeOK /\ Shaped /\ Quiet
-----------------------------------------------------------------------------
(* The step at the head of what is left.                                   *)

Typed(x) ==
  /\ x.verb = "phase" => x.arg \in Phases \ {"none"}
  /\ x.verb = "proxy" => x.arg \in Accesses
  /\ x.verb \in {"standalone", "target"} => x.arg \in Manifest
  /\ x.verb = "boot" => x.arg \in BOOLEAN
  /\ x.verb = "digest" => x.arg \in {"backup", "target"}
  /\ x.verb = "start" => x.arg \in {"start", "no-start"}
  /\ x.verb = "clear" => x.arg \in {"phase", "start", "active", "running", "backup", "target",
                                    "digests"}

ClearVerbs(s) ==
  \A d \in Places(s) : d <= 6 => FromEnd(s, d).verb = "clear" /\ Typed(FromEnd(s, d))

LEMMA ClearTyped ==
  ASSUME NEW s, ClearsLast(s)
  PROVE  ClearVerbs(s)
  <1>1. ASSUME NEW d \in 0..6, Does(FromEnd(s, d), "clear", {ClearOrder[7 - d]})
        PROVE  FromEnd(s, d).verb = "clear" /\ Typed(FromEnd(s, d))
    <2>1. 7 - d \in 1..7
      OBVIOUS
    <2>2. \A i \in 1..7 : ClearOrder[i] \in {"phase", "start", "active", "running", "backup",
                                             "target", "digests"}
      BY DEF ClearOrder
    <2>3. FromEnd(s, d).verb = "clear" /\ FromEnd(s, d).arg = ClearOrder[7 - d]
      BY <1>1 DEF Does
    <2>4. QED BY <2>1, <2>2, <2>3 DEF Typed
  <1>2. ASSUME NEW d \in Places(s), d <= 6
        PROVE  FromEnd(s, d).verb = "clear" /\ Typed(FromEnd(s, d))
    <2>1. d \in 0..6 /\ Does(FromEnd(s, d), "clear", {ClearOrder[7 - d]})
      BY <1>2 DEF ClearsLast, Places
    <2>2. QED BY <1>1, <2>1
  <1>3. QED BY <1>2 DEF ClearVerbs

LEMMA ResourceTyped ==
  ASSUME NEW x
  PROVE  /\ ResourceStep(x) => Typed(x) /\ x.verb \in {"proxy", "unit", "standalone"}
         /\ ApplyStep(x) => /\ Typed(x)
                            /\ x.verb \in {"proxy", "unit", "standalone", "phase", "boot", "live"}
         /\ RestoreStep(x) =>
              /\ Typed(x)
              /\ x.verb \in {"proxy", "unit", "standalone", "phase", "boot", "live", "markers",
                             "halt"}
  BY DEF ResourceStep, ApplyStep, ActivateStep, RestoreStep, PutBackStep, Typed, Does, Phases

LEMMA UnreadVerbs ==
  ASSUME NEW s \in Seq(Steps), UnreadShape(s), NEW d \in Places(s)
  PROVE  /\ Typed(FromEnd(s, d)) /\ FromEnd(s, d).verb \in {"clear", "live", "phase"}
         /\ d >= 7 => \/ Does(FromEnd(s, d), "live", {"backup"})
                      \/ Does(FromEnd(s, d), "phase", {"rolling-back"})
  <1>1. d \in 0..6 \/ d = 7 \/ (d = 8 /\ Len(s) = 9)
    BY UnreadPlaces
  <1>2. CASE d \in 0..6
    BY <1>2, ClearTyped DEF UnreadShape, ClearVerbs
  <1>3. CASE d = 7
    BY <1>3 DEF UnreadShape, Typed, Does
  <1>4. CASE d = 8 /\ Len(s) = 9
    BY <1>4 DEF UnreadShape, Typed, Does, Phases
  <1>5. QED BY <1>1, <1>2, <1>3, <1>4

LEMMA HeadTyped ==
  ASSUME NEW s \in Seq(Steps), s # <<>>,
         \/ PrepareShape(s) \/ ApplyShape(s) \/ RestoreShape(s) \/ UnreadShape(s)
         \/ FinishShape(s) \/ ClearShape(s)
  PROVE  Typed(Head(s))
  <1> DEFINE d == Len(s) - 1
  <1> DEFINE x == FromEnd(s, d)
  <1>1. Head(s) = x /\ d \in Places(s) /\ d \in Nat
    BY TailEnds DEF Places
  <1>2. CASE PrepareShape(s)
    <2>1. d \in 0..7
      <3> DEFINE n == Len(s)
      <3>1. n <= 8
        BY <1>2 DEF PrepareShape
      <3>2. n \in Nat \ {0}
        BY TailEnds
      <3> HIDE DEF n
      <3>3. n - 1 \in 0..7
        BY <3>1, <3>2
      <3>4. QED BY <3>3 DEF n
    <2> HIDE DEF d
    <2>2. /\ d = 7 => FromEnd(s, d).verb = "backup"
          /\ d = 6 => Does(FromEnd(s, d), "target", Manifest)
          /\ d \in {4, 5} => Does(FromEnd(s, d), "digest", {"backup", "target"})
          /\ d = 3 => Does(FromEnd(s, d), "start", {"start", "no-start"})
          /\ d = 2 => FromEnd(s, d).verb = "active"
          /\ d = 1 => FromEnd(s, d).verb = "running"
          /\ d = 0 => Does(FromEnd(s, d), "phase", {"preparing"})
      BY <1>1, <1>2 DEF PrepareShape
    <2>3. QED BY <1>1, <2>1, <2>2 DEF Typed, Does, Phases
  <1> HIDE DEF d
  <1>3. CASE ApplyShape(s)
    <2>1. d = 0 \/ d = 1 \/ d > 1
      BY <1>1
    <2>2. CASE d = 0
      BY <1>1, <1>3, <2>2 DEF ApplyShape, Typed, Does, Phases
    <2>3. CASE d = 1
      BY <1>1, <1>3, <2>3 DEF ApplyShape, Typed, Checks
    <2>4. CASE d > 1
      BY <1>1, <1>3, <2>4, ResourceTyped DEF ApplyShape
    <2>5. QED BY <2>1, <2>2, <2>3, <2>4
  <1>4. CASE RestoreShape(s)
    <2>1. d \in 0..6 \/ d = 7 \/ d \in 8..(Len(s) - 1)
      BY <1>1 DEF Places
    <2>2. CASE d \in 0..6
      BY <1>1, <1>4, <2>2, ClearTyped DEF RestoreShape, ClearVerbs
    <2>3. CASE d = 7
      BY <1>1, <1>4, <2>3 DEF RestoreShape, Typed, Checks
    <2>4. CASE d \in 8..(Len(s) - 1)
      BY <1>1, <1>4, <2>4, ResourceTyped DEF RestoreShape
    <2>5. QED BY <2>1, <2>2, <2>3, <2>4
  <1>5. CASE FinishShape(s)
    <2>1. d \in 0..6 \/ d = 7 \/ d \in 8..(Len(s) - 1)
      BY <1>1 DEF Places
    <2>2. CASE d \in 0..6
      BY <1>1, <1>5, <2>2, ClearTyped DEF FinishShape, ClearVerbs
    <2>3. CASE d = 7
      BY <1>1, <1>5, <2>3 DEF FinishShape, Typed
    <2>4. CASE d \in 8..(Len(s) - 1)
      <3>1. \/ Checks(x, "target", TRUE) \/ Checks(x, "target", FALSE)
            \/ Does(x, "boot", {TRUE}) \/ Does(x, "phase", {"committing"})
        <4>1. d = 8 \/ d > 8
          BY <1>1, <2>4
        <4>2. QED BY <1>5, <2>4, <4>1 DEF FinishShape
      <3>2. QED BY <1>1, <3>1 DEF Typed, Does, Checks, Phases
    <2>5. QED BY <2>1, <2>2, <2>3, <2>4
  <1>6. CASE ClearShape(s)
    <2>1. d <= 6
      BY <1>1, <1>6 DEF ClearShape, d
    <2>2. QED BY <1>1, <1>6, <2>1, ClearTyped DEF ClearShape, ClearVerbs
  <1>7. CASE UnreadShape(s)
    BY <1>1, <1>7, UnreadVerbs
  <1>8. QED BY <1>2, <1>3, <1>4, <1>5, <1>6, <1>7
-----------------------------------------------------------------------------
(* What a step changes.                                                    *)

Saves == {"backup", "target", "digest", "start", "active", "running"}

\* What a step leaves alone, and what it does.
LEMMA Frames ==
  ASSUME Proceed
  PROVE  /\ todo # <<>> /\ todo' = Tail(todo) /\ mode' = mode /\ blind' = blind
         /\ Verb \notin Saves \cup {"clear"} => files' = files
         /\ Verb \notin {"phase", "clear"} => phase' = phase
         /\ Verb # "live" => live' = live
         /\ Verb # "proxy" => proxy' = proxy
         /\ Verb \notin {"unit", "boot", "halt"} => unit' = unit
         /\ Verb \notin {"unit", "standalone", "halt"} => container' = container
  BY DEF Proceed, SaveArtifact, WritePhase, CopyManifest, ChangeProxy, ChangeUnit, SetBoot,
         StartStandalone, HaltRuntime, Check, Passes, CleanUp, ClearOne, Doing, Record, Saves

LEMMA Doings ==
  ASSUME Proceed
  PROVE  /\ Verb = "phase" => phase' = Arg
         /\ Verb = "live" => live' = IF Arg = "backup" THEN Backup ELSE Target
         /\ Verb = "proxy" => proxy' = Arg
         /\ Verb = "unit" => ChangeUnit
         /\ Verb = "boot" => unit.installed /\ unit' = [unit EXCEPT !.enabled = Arg]
         /\ Verb = "standalone" => container' = Arg
         /\ Verb = "halt" => unit' = [unit EXCEPT !.active = FALSE] /\ container' = None
         /\ Verb = "verify" => Holds(Arg)
         /\ Verb = "clear" => ClearOne
         /\ Verb \in Saves => SaveArtifact
  BY DEF Proceed, SaveArtifact, WritePhase, CopyManifest, ChangeProxy, ChangeUnit, SetBoot,
         StartStandalone, HaltRuntime, Check, Passes, CleanUp, ClearOne, Doing, Saves

\* The unit after a step of the service.
LEMMA UnitChange ==
  ASSUME TypeOK, ChangeUnit
  PROVE  /\ unit' \in [installed : BOOLEAN, enabled : BOOLEAN, active : BOOLEAN]
         /\ Arg \in {"stop", "disable_now", "install", "enable", "disable", "start", "remove",
                     "await"}
         /\ unit'.installed = (IF Arg = "install" THEN TRUE
                               ELSE IF Arg = "remove" THEN FALSE ELSE unit.installed)
         /\ unit'.enabled = (IF Arg = "enable" THEN TRUE
                             ELSE IF Arg \in {"disable", "disable_now"} THEN FALSE
                             ELSE unit.enabled)
         /\ Arg \in {"install", "enable", "disable"} =>
              unit'.active = unit.active /\ container' = container
         /\ container' \in {container, None}
  <1>1. unit \in [installed : BOOLEAN, enabled : BOOLEAN, active : BOOLEAN]
    BY DEF TypeOK
  <1>2. CASE Arg \in {"stop", "disable_now"} /\ StopsUnit
    BY <1>1, <1>2 DEF StopsUnit
  <1>3. CASE Arg = "install" /\ unit' = [unit EXCEPT !.installed = TRUE] /\ container' = container
    BY <1>1, <1>3
  <1>4. CASE Arg = "enable" /\ unit' = [unit EXCEPT !.enabled = TRUE] /\ container' = container
    BY <1>1, <1>4
  <1>5. CASE Arg = "disable" /\ unit' = [unit EXCEPT !.enabled = FALSE] /\ container' = container
    BY <1>1, <1>5
  <1>6. CASE Arg = "start" /\ unit' = [unit EXCEPT !.active = TRUE] /\ container' = container
    BY <1>1, <1>6
  <1>7. CASE Arg = "remove" /\ unit' = [unit EXCEPT !.installed = FALSE] /\ container' = container
    BY <1>1, <1>7
  <1>8. CASE Arg = "await" /\ unit' = unit /\ container' = container
    BY <1>1, <1>8
  <1>9. QED BY <1>2, <1>3, <1>4, <1>5, <1>6, <1>7, <1>8 DEF ChangeUnit
-----------------------------------------------------------------------------
(* Types.                                                                  *)

FileTypes == [backup : Manifest \cup {None}, target : Manifest \cup {None},
              digests : SUBSET {"backup", "target"},
              start : {"none", "start", "no-start"}, active : BOOLEAN, running : BOOLEAN]

LEMMA ProceedType ==
  ASSUME TypeOK, Proceed, Typed(Head(todo)),
         Verb = "live" => Backup \in Manifest /\ Target \in Manifest
  PROVE  TypeOK'
  <1> DEFINE x == Head(todo)
  <1>1. /\ todo # <<>> /\ todo' = Tail(todo) /\ mode' = mode /\ blind' = blind
        /\ todo' \in Seq(Steps)
    <2>1. /\ todo # <<>> /\ todo' = Tail(todo) /\ mode' = mode /\ blind' = blind
          /\ todo \in Seq(Steps)
      BY Frames DEF TypeOK
    <2>2. QED BY <2>1, TailEnds DEF Ends
  <1>2. files \in FileTypes /\ unit \in [installed : BOOLEAN, enabled : BOOLEAN, active : BOOLEAN]
    BY DEF TypeOK, FileTypes
  <1>3. files' \in FileTypes
    <2>1. CASE Verb \notin Saves \cup {"clear"}
      BY <1>2, <2>1, Frames
    <2>2. CASE Verb = "clear"
      <3>1. /\ Arg \in {"phase", "start", "active", "running", "backup", "target", "digests"}
            /\ files' = IF Arg = "phase" THEN files ELSE [files EXCEPT ![Arg] = NoFiles[Arg]]
        BY <2>2, Doings DEF Typed, Verb, Arg, ClearOne
      <3>2. CASE Arg = "phase"
        BY <1>2, <3>1, <3>2
      <3>3. CASE Arg = "start" \/ Arg = "digests"
        BY <1>2, <3>1, <3>3 DEF FileTypes, NoFiles
      <3>4. CASE Arg = "active" \/ Arg = "running"
        <4>1. NoFiles.active = FALSE /\ NoFiles.running = FALSE
          BY Zenon DEF NoFiles
        <4>2. files' = [files EXCEPT !.active = FALSE] \/ files' = [files EXCEPT !.running = FALSE]
          BY <3>1, <3>4, <4>1
        <4>3. QED BY <1>2, <4>2 DEF FileTypes
      <3>5. CASE Arg = "backup" \/ Arg = "target"
        BY <1>2, <3>1, <3>5 DEF FileTypes, NoFiles
      <3>6. QED BY <3>1, <3>2, <3>3, <3>4, <3>5
    <2>3. CASE Verb \in Saves
      <3>1. \/ files' = [files EXCEPT !.backup = live]
            \/ Verb = "target" /\ files' = [files EXCEPT !.target = Arg]
            \/ Verb = "digest" /\ files' = [files EXCEPT !.digests = @ \cup {Arg}]
            \/ Verb = "start" /\ files' = [files EXCEPT !.start = Arg]
            \/ files' = [files EXCEPT !.active = unit.active]
            \/ files' = [files EXCEPT !.running = container # None]
        BY <2>3, Doings DEF SaveArtifact, Record, Doing
      <3>2. live \in Manifest /\ unit.active \in BOOLEAN
        BY DEF TypeOK
      <3>3. /\ Verb = "target" => Arg \in Manifest
            /\ Verb = "digest" => Arg \in {"backup", "target"}
            /\ Verb = "start" => Arg \in {"start", "no-start"}
        BY DEF Typed, Verb, Arg
      <3>4. CASE files' = [files EXCEPT !.backup = live]
        BY <1>2, <3>2, <3>4 DEF FileTypes
      <3>5. CASE Verb = "target" /\ files' = [files EXCEPT !.target = Arg]
        BY <1>2, <3>3, <3>5 DEF FileTypes
      <3>6. CASE Verb = "digest" /\ files' = [files EXCEPT !.digests = @ \cup {Arg}]
        BY <1>2, <3>3, <3>6 DEF FileTypes
      <3>7. CASE Verb = "start" /\ files' = [files EXCEPT !.start = Arg]
        BY <1>2, <3>3, <3>7 DEF FileTypes
      <3>8. CASE files' = [files EXCEPT !.active = unit.active]
        BY <1>2, <3>2, <3>8 DEF FileTypes
      <3>9. CASE files' = [files EXCEPT !.running = container # None]
        BY <1>2, <3>9 DEF FileTypes
      <3>10. QED BY <3>1, <3>4, <3>5, <3>6, <3>7, <3>8, <3>9
    <2>4. QED BY <2>1, <2>2, <2>3
  <1>4. phase' \in Phases
    <2>1. Verb = "clear" => phase' \in {"none", phase}
      BY Doings DEF ClearOne
    <2>2. Verb = "phase" => Arg \in Phases
      BY DEF Typed, Verb, Arg
    <2>3. phase \in Phases /\ "none" \in Phases
      BY DEF TypeOK, Phases
    <2>4. QED BY <2>1, <2>2, <2>3, Frames, Doings
  <1>5. live' \in Manifest
    BY Frames, Doings DEF TypeOK
  <1>6. proxy' \in Accesses
    <2>1. Verb = "proxy" => Arg \in Accesses
      BY DEF Typed, Verb, Arg
    <2>2. QED BY <2>1, Frames, Doings DEF TypeOK
  <1>7. unit' \in [installed : BOOLEAN, enabled : BOOLEAN, active : BOOLEAN]
    <2>1. CASE Verb = "unit"
      BY <2>1, Doings, UnitChange
    <2>2. CASE Verb = "boot"
      <3>1. Arg \in BOOLEAN /\ unit' = [unit EXCEPT !.enabled = Arg]
        BY <2>2, Doings DEF Typed, Verb, Arg
      <3>2. QED BY <1>2, <3>1
    <2>3. CASE Verb = "halt"
      BY <1>2, <2>3, Doings
    <2>4. QED BY <1>2, <2>1, <2>2, <2>3, Frames
  <1>8. container' \in Manifest \cup {None}
    <2>1. CASE Verb = "unit"
      BY <2>1, Doings, UnitChange DEF TypeOK
    <2>2. CASE Verb = "standalone"
      BY <2>2, Doings DEF Typed, Verb, Arg
    <2>3. QED BY <2>1, <2>2, Frames, Doings DEF TypeOK
  <1>9. config' \in BOOLEAN
    BY DEF Proceed, SaveArtifact, WritePhase, CopyManifest, ChangeProxy, ChangeUnit, SetBoot,
           StartStandalone, HaltRuntime, Check, Passes, CleanUp, ClearOne, Doing, Record, TypeOK
  <1>10. QED BY <1>1, <1>3, <1>4, <1>5, <1>6, <1>7, <1>8, <1>9 DEF TypeOK, FileTypes
-----------------------------------------------------------------------------
(* A step of a command keeps what is left in shape.                        *)

LEMMA EmptyShapes == ClearShape(<<>>) /\ Paired(<<>>)
  BY DEF ClearShape, ClearsLast, Paired, Places

LEMMA FinishVerbs ==
  ASSUME NEW s \in Seq(Steps), FinishShape(s), NEW d \in Places(s)
  PROVE  FromEnd(s, d).verb \in {"clear", "cleanup", "verify", "boot", "phase"}
  <1>1. \/ d \in 0..6 \/ d = 7
        \/ d = 8 /\ d \in 8..(Len(s) - 1)
        \/ d > 8 /\ d \in 8..(Len(s) - 1)
    BY DEF Places
  <1>2. CASE d \in 0..6
    BY <1>2, ClearTyped DEF FinishShape, ClearVerbs
  <1>3. CASE d = 7
    BY <1>3 DEF FinishShape
  <1>4. CASE d = 8 /\ d \in 8..(Len(s) - 1)
    BY <1>4 DEF FinishShape, Checks
  <1>5. CASE d > 8 /\ d \in 8..(Len(s) - 1)
    BY <1>5 DEF FinishShape, Checks, Does
  <1>6. QED BY <1>1, <1>2, <1>3, <1>4, <1>5

LEMMA ShapesPaired ==
  ASSUME NEW s \in Seq(Steps),
         \/ PrepareShape(s) \/ ApplyShape(s) \/ RestoreShape(s) \/ UnreadShape(s)
         \/ FinishShape(s) \/ ClearShape(s)
  PROVE  Paired(s)
  <1>1. Len(s) \in Nat
    OBVIOUS
  <1>2. CASE PrepareShape(s)
    <2>1. \A d \in Places(s) : d \in 0..7
      <3>1. Len(s) <= 8
        BY <1>2 DEF PrepareShape
      <3>2. QED BY <1>1, <3>1 DEF Places
    <2>2. \A d \in Places(s) : FromEnd(s, d).verb # "unit"
      BY <1>2, <2>1 DEF PrepareShape, Does
    <2>3. QED BY <1>1, <2>2 DEF Paired, Does, Places
  <1>3. CASE FinishShape(s)
    <2>2. \A d \in Places(s) : FromEnd(s, d).verb # "unit"
      BY <1>3, FinishVerbs
    <2>3. QED BY <1>1, <2>2 DEF Paired, Does, Places
  <1>4. CASE ClearShape(s)
    <2>1. \A d \in Places(s) : d <= 6
      <3>1. Len(s) <= 7
        BY <1>4 DEF ClearShape
      <3>2. QED BY <1>1, <3>1 DEF Places
    <2>2. \A d \in Places(s) : FromEnd(s, d).verb # "unit"
      BY <1>4, <2>1 DEF ClearShape, ClearsLast, Does
    <2>3. QED BY <1>1, <2>2 DEF Paired, Does, Places
  <1>5. CASE UnreadShape(s)
    <2>1. \A d \in Places(s) : FromEnd(s, d).verb # "unit"
      BY <1>5, UnreadVerbs
    <2>2. QED BY <1>1, <2>1 DEF Paired, Does, Places
  <1>6. QED BY <1>2, <1>3, <1>4, <1>5 DEF ApplyShape, RestoreShape

\* The steps that are left after this one.
LEMMA Leaving ==
  ASSUME TypeOK, Proceed
  PROVE  /\ todo \in Seq(Steps) /\ Ends(todo', todo) /\ Len(todo') = Len(todo) - 1
         /\ Len(todo) \in Nat \ {0} /\ todo' \in Seq(Steps)
         /\ Head(todo) = FromEnd(todo, Len(todo) - 1)
         /\ Len(todo) = 1 => todo' = <<>>
         /\ Len(todo) > 1 => todo' # <<>> /\ Head(todo') = FromEnd(todo, Len(todo) - 2)
         /\ \A d \in Places(todo') : d \in Places(todo) /\ FromEnd(todo', d) = FromEnd(todo, d)
  <1>1. todo \in Seq(Steps) /\ todo # <<>> /\ todo' = Tail(todo)
    BY Frames DEF TypeOK
  <1>2. /\ Ends(todo', todo) /\ Len(todo') = Len(todo) - 1 /\ Len(todo) \in Nat \ {0}
        /\ Head(todo) = FromEnd(todo, Len(todo) - 1) /\ todo' \in Seq(Steps)
    BY <1>1, TailEnds DEF Ends
  <1>3. Len(todo) = 1 => todo' = <<>>
    BY <1>2
  <1>4. ASSUME Len(todo) > 1
        PROVE  todo' # <<>> /\ Head(todo') = FromEnd(todo, Len(todo) - 2)
    <2>1. todo' # <<>>
      BY <1>2, <1>4
    <2>2. Head(todo') = FromEnd(todo', Len(todo') - 1)
      BY <1>2, <2>1, TailEnds
    <2>3. Len(todo') - 1 = Len(todo) - 2 /\ Len(todo') - 1 \in Places(todo')
      BY <1>2, <1>4 DEF Places
    <2>4. QED BY <1>2, <2>1, <2>2, <2>3 DEF Ends
  <1>5. ASSUME NEW d \in Places(todo')
        PROVE  d \in Places(todo) /\ FromEnd(todo', d) = FromEnd(todo, d)
    BY <1>2 DEF Ends, Places
  <1>6. QED BY <1>1, <1>2, <1>3, <1>4, <1>5

LEMMA ReadyStep ==
  ASSUME TypeOK, Typed(Head(todo)), Paired(todo), UnitReady, Proceed
  PROVE  UnitReady'
  <1>1. unit \in [installed : BOOLEAN, enabled : BOOLEAN, active : BOOLEAN] /\ todo # <<>>
    BY Frames DEF TypeOK
  <1>2. unit'.enabled => unit'.installed
    <2>1. CASE Verb = "unit"
      <3>1. /\ Arg = "remove" => ~unit.enabled
            /\ Arg = "enable" => unit.installed
        BY <1>1, <2>1 DEF UnitReady, Does, Verb, Arg
      <3>2. QED BY <2>1, <3>1, Doings, UnitChange DEF UnitReady
    <2>2. CASE Verb = "boot"
      BY <1>1, <2>2, Doings
    <2>3. CASE Verb = "halt"
      BY <1>1, <2>3, Doings DEF UnitReady
    <2>4. QED BY <2>1, <2>2, <2>3, Frames DEF UnitReady
  <1>3. ASSUME todo' # <<>>
        PROVE  /\ Does(Head(todo'), "unit", {"remove"}) => Does(Head(todo), "unit", {"disable_now"})
               /\ Does(Head(todo'), "unit", {"enable"}) => Does(Head(todo), "unit", {"install"})
    <2>1. Len(todo) > 1
      BY <1>3, Leaving
    <2>2. /\ Head(todo') = FromEnd(todo, Len(todo) - 2)
          /\ Head(todo) = FromEnd(todo, Len(todo) - 1) /\ Len(todo) \in Nat
      BY <2>1, Leaving
    <2>3. Len(todo) - 2 \in 0..(Len(todo) - 2) /\ Len(todo) - 2 + 1 = Len(todo) - 1
      BY <2>1, <2>2
    <2>4. QED BY <2>2, <2>3 DEF Paired
  <1>4. /\ Does(Head(todo), "unit", {"disable_now"}) => ~unit'.enabled
        /\ Does(Head(todo), "unit", {"install"}) => unit'.installed
    BY Doings, UnitChange DEF Does, Verb, Arg
  <1>5. QED BY <1>2, <1>3, <1>4 DEF UnitReady

LEMMA PreparingHead ==
  ASSUME todo \in Seq(Steps), PrepareShape(todo)
  PROVE  LET d == Len(todo) - 1 IN
         /\ d \in 0..7
         /\ d = 7 => Verb = "backup"
         /\ d = 6 => Verb = "target" /\ Arg \in Manifest
         /\ d \in {4, 5} => Verb = "digest"
         /\ d = 3 => Verb = "start"
         /\ d = 2 => Verb = "active"
         /\ d = 1 => Verb = "running"
         /\ d = 0 => Verb = "phase" /\ Arg = "preparing"
         /\ Verb # "live"
  <1> DEFINE n == Len(todo)
  <1>1. n <= 8 /\ n \in Nat \ {0} /\ Head(todo) = FromEnd(todo, n - 1)
    BY TailEnds DEF PrepareShape
  <1>2. n - 1 \in Places(todo)
    BY <1>1 DEF Places
  <1> DEFINE d == n - 1
  <1> HIDE DEF n
  <1>3. d \in 0..7
    BY <1>1
  <1> HIDE DEF d
  <1>4. /\ d = 7 => Verb = "backup"
        /\ d = 6 => Verb = "target" /\ Arg \in Manifest
        /\ d \in {4, 5} => Verb = "digest"
        /\ d = 3 => Verb = "start"
        /\ d = 2 => Verb = "active"
        /\ d = 1 => Verb = "running"
        /\ d = 0 => Verb = "phase" /\ Arg = "preparing"
    BY <1>1, <1>2 DEF PrepareShape, Does, Verb, Arg, d
  <1>5. Verb # "live"
    BY <1>3, <1>4
  <1>6. QED BY <1>3, <1>4, <1>5 DEF d, n

LEMMA PreparingStep ==
  ASSUME TypeOK, Preparing, Proceed
  PROVE  Recorded' /\ (Preparing' \/ Clearing')
  <1> DEFINE d == Len(todo) - 1
  <1>1. /\ PrepareShape(todo) /\ mode = "plain" /\ phase = "none"
        /\ Len(todo) <= 7 => Backup = live
        /\ Len(todo) <= 6 => Target \in Manifest
        /\ unit.installed = live.service
    BY DEF Preparing
  <1>2. /\ todo \in Seq(Steps) /\ Ends(todo', todo) /\ Len(todo') = d
        /\ Len(todo) \in Nat \ {0} /\ Head(todo) = FromEnd(todo, d)
        /\ Len(todo) = 1 => todo' = <<>>
        /\ Len(todo) > 1 => todo' # <<>>
    BY Leaving
  <1>3. d \in 0..7
    BY <1>1, <1>2, PreparingHead
  <1>4. /\ d = 7 => Verb = "backup"
        /\ d = 6 => Verb = "target" /\ Arg \in Manifest
        /\ d \in {4, 5} => Verb = "digest"
        /\ d = 3 => Verb = "start"
        /\ d = 2 => Verb = "active"
        /\ d = 1 => Verb = "running"
        /\ d = 0 => Verb = "phase" /\ Arg = "preparing"
    BY <1>1, <1>2, PreparingHead
  <1>5. mode' = mode /\ files \in FileTypes /\ live \in Manifest
    BY Frames DEF TypeOK, FileTypes
  <1>6. (d <= 6 <=> Len(todo) <= 7) /\ (d <= 5 <=> Len(todo) <= 6)
    BY <1>2
  <1> HIDE DEF d
  <1>7. CASE d = 0
    <2>1. phase' = "preparing" /\ files' = files
      BY <1>4, <1>7, Frames, Doings DEF Saves
    <2>2. todo' = <<>>
      BY <1>2, <1>7 DEF d
    <2>3. Clearing'
      BY <2>2, EmptyShapes DEF Clearing
    <2>4. Backup' \in Manifest /\ Target' \in Manifest
      BY <1>1, <1>5, <1>6, <1>7, <2>1 DEF Backup, Target
    <2>5. QED BY <2>3, <2>4 DEF Recorded
  <1>8. CASE d > 0
    <2>1. Verb \in Saves /\ (Verb = "backup" => d = 7) /\ (Verb = "target" => d = 6)
      BY <1>3, <1>4, <1>8 DEF Saves
    <2>2. phase' = "none" /\ live' = live /\ unit' = unit
      BY <1>1, <2>1, Frames DEF Saves
    <2>3. PrepareShape(todo')
      <3>1. todo' # <<>>
        BY <1>2, <1>8 DEF d
      <3>2. QED BY <1>1, <1>2, <3>1, PrepareEnd
    <2>4. /\ Verb = "backup" => Backup' = live
          /\ Verb # "backup" => Backup' = Backup
          /\ Verb = "target" => Target' = Arg
          /\ Verb # "target" => Target' = Target
      <3>1. SaveArtifact
        BY <2>1, Doings
      <3>2. \/ Verb = "backup" /\ files' = [files EXCEPT !.backup = live]
            \/ Verb = "target" /\ files' = [files EXCEPT !.target = Arg]
            \/ Verb = "digest" /\ files' = [files EXCEPT !.digests = @ \cup {Arg}]
            \/ Verb = "start" /\ files' = [files EXCEPT !.start = Arg]
            \/ Verb = "active" /\ files' = [files EXCEPT !.active = unit.active]
            \/ Verb = "running" /\ files' = [files EXCEPT !.running = container # None]
        BY <3>1 DEF SaveArtifact, Doing, Record
      <3>3. QED BY <1>5, <3>2 DEF Backup, Target, FileTypes
    <2>5. Len(todo') <= 7 => Backup' = live'
      BY <1>1, <1>2, <1>3, <1>4, <1>6, <2>2, <2>4
    <2>6. Len(todo') <= 6 => Target' \in Manifest
      BY <1>1, <1>2, <1>3, <1>4, <1>6, <2>4
    <2>7. Preparing'
      BY <1>1, <1>5, <2>2, <2>3, <2>5, <2>6 DEF Preparing
    <2>8. Recorded'
      BY <2>2 DEF Recorded
    <2>9. QED BY <2>7, <2>8
  <1>9. QED BY <1>3, <1>7, <1>8

LEMMA ClearingHead ==
  ASSUME todo \in Seq(Steps), todo # <<>>, Clearing
  PROVE  /\ Len(todo) - 1 \in 0..6 /\ Len(todo) \in 1..7
         /\ Verb = "clear" /\ Arg = ClearOrder[7 - (Len(todo) - 1)]
  <1> DEFINE n == Len(todo)
  <1>1. n <= 7 /\ n \in Nat \ {0} /\ ClearsLast(todo) /\ Head(todo) = FromEnd(todo, n - 1)
    BY TailEnds DEF Clearing, ClearShape
  <1>2. n - 1 \in Places(todo)
    BY <1>1 DEF Places
  <1> HIDE DEF n
  <1>3. n - 1 \in 0..6 /\ n \in 1..7
    BY <1>1
  <1>4. Verb = "clear" /\ Arg = ClearOrder[7 - (n - 1)]
    BY <1>1, <1>2, <1>3 DEF ClearsLast, Does, Verb, Arg
  <1>5. QED BY <1>3, <1>4 DEF n

LEMMA ClearingStep ==
  ASSUME TypeOK, Clearing, Proceed
  PROVE  Recorded' /\ Clearing' /\ phase' = "none"
  <1> DEFINE d == Len(todo) - 1
  <1>1. /\ ClearShape(todo) /\ mode # "guarded"
        /\ Len(todo) \in 1..6 => phase = "none"
    BY Frames DEF Clearing
  <1>2. todo \in Seq(Steps) /\ todo # <<>> /\ Ends(todo', todo) /\ Len(todo') = d
    BY Leaving, Frames
  <1>3. /\ d \in 0..6 /\ Len(todo) \in 1..7 /\ Verb = "clear" /\ Arg = ClearOrder[7 - d]
        /\ d # 6 => Len(todo) \in 1..6
    BY <1>2, ClearingHead
  <1> HIDE DEF d
  <1>5. phase' = IF Arg = "phase" THEN "none" ELSE phase
    BY <1>3, Doings DEF ClearOne
  <1>6. phase' = "none"
    <2>1. d = 6 => Arg = "phase"
      BY <1>3 DEF ClearOrder
    <2>2. QED BY <1>1, <1>3, <1>5, <2>1
  <1>7. ClearShape(todo') /\ Len(todo') \in 0..6
    BY <1>1, <1>2, <1>3, ClearsEnd DEF ClearShape
  <1>8. mode' = mode
    BY Frames
  <1>9. Clearing'
    <2>1. Len(todo') # 7
      BY <1>7
    <2>2. QED BY <1>1, <1>6, <1>7, <1>8, <2>1, Zenon DEF Clearing
  <1>10. QED BY <1>6, <1>9 DEF Recorded

\* What is left of apply after its first step.
LEMMA ApplyingStep ==
  ASSUME TypeOK, Applying, Recorded, UnitReady, Proceed
  PROVE  /\ Recorded' /\ (Applying' \/ Clearing')
         /\ files' = files /\ mode' = "guarded" /\ phase' \notin {"none", "preparing"}
         /\ Verb = "boot" => Arg = FALSE
         /\ Verb = "unit" => Arg # "enable"
  <1> DEFINE d == Len(todo) - 1
  <1>1. /\ ApplyShape(todo) /\ mode = "guarded" /\ phase # "none"
        /\ Has(todo, "live") => ~unit.enabled \/ Has(todo, "boot")
        /\ phase = "preparing" => Guards(todo, d)
    BY DEF Applying
  <1>2. /\ todo \in Seq(Steps) /\ Ends(todo', todo) /\ Len(todo') = d
        /\ Len(todo) \in Nat \ {0} /\ Head(todo) = FromEnd(todo, d)
        /\ Len(todo) = 1 => todo' = <<>>
        /\ Len(todo) > 1 => todo' # <<>>
        /\ \A e \in Places(todo') : e \in Places(todo) /\ FromEnd(todo', e) = FromEnd(todo, e)
    BY Leaving
  <1>3. d \in Nat /\ d \in Places(todo) /\ Typed(Head(todo))
    <2>1. d \in Nat /\ d \in Places(todo)
      BY <1>2 DEF Places
    <2>2. Typed(Head(todo))
      BY <1>1, <1>2, HeadTyped DEF ApplyShape
    <2>3. QED BY <2>1, <2>2
  <1>4. /\ d = 0 => Verb = "phase" /\ Arg = "resources-applied"
        /\ d = 1 => Verb = "verify"
        /\ d > 1 => ApplyStep(Head(todo))
    BY <1>1, <1>2, <1>3 DEF ApplyShape, Does, Checks, Verb, Arg
  <1> HIDE DEF d
  <1>5. /\ Verb \notin Saves \cup {"clear", "halt"}
        /\ Verb = "phase" => Arg \in {"activation-guarded", "activated", "resources-applied"}
        /\ Verb = "boot" => Arg = FALSE
        /\ Verb = "unit" => Arg # "enable"
    <2>1. ApplyStep(Head(todo)) =>
            /\ Verb \notin Saves \cup {"clear", "halt"}
            /\ Verb = "phase" => Arg \in {"activation-guarded", "activated"}
            /\ Verb = "boot" => Arg = FALSE
            /\ Verb = "unit" => Arg # "enable"
      BY DEF ApplyStep, ActivateStep, ResourceStep, Does, Verb, Arg, Saves
    <2>2. d = 0 \/ d = 1 \/ d > 1
      BY <1>3
    <2>3. QED BY <1>4, <2>1, <2>2 DEF Saves
  <1>6. /\ mode' = mode /\ files' = files
        /\ Verb # "phase" => phase' = phase
        /\ Verb = "phase" => phase' = Arg
    BY <1>5, Frames, Doings
  <1>7. phase' # "none" /\ Recorded'
    BY <1>1, <1>5, <1>6 DEF Recorded, Backup, Target
  <1>8. CASE d = 0
    <2>1. todo' = <<>>
      BY <1>2, <1>8 DEF d
    <2>2. phase' # "preparing"
      BY <1>4, <1>6, <1>8
    <2>3. Clearing'
      BY <2>1, EmptyShapes DEF Clearing
    <2>4. mode' = "guarded" /\ phase' \notin {"none", "preparing"}
      BY <1>1, <1>6, <1>7, <2>2
    <2>5. QED BY <1>5, <1>6, <1>7, <2>3, <2>4, Zenon
  <1>9. CASE d > 0
    <2>1. todo' # <<>>
      BY <1>2, <1>9 DEF d
    <2>2. ApplyShape(todo')
      BY <1>1, <1>2, <2>1, ApplyEnd
    <2>3. Has(todo', "live") => ~unit'.enabled \/ Has(todo', "boot")
      <3>1. Has(todo', "live") => Has(todo, "live")
        BY <1>2 DEF Has
      <3>2. (Has(todo, "boot") /\ Verb # "boot") => Has(todo', "boot")
        <4>1. ASSUME NEW e \in Places(todo), FromEnd(todo, e).verb = "boot", Verb # "boot"
              PROVE  e \in Places(todo')
          <5>1. e # d
            BY <1>2, <4>1 DEF Verb
          <5>2. QED BY <1>2, <5>1 DEF Places, d
        <4>2. QED BY <1>2, <4>1 DEF Has
      <3>3. Verb = "boot" => ~unit'.enabled
        BY <1>5, Doings DEF TypeOK
      <3>4. ~unit.enabled => ~unit'.enabled
        <4>1. CASE Verb = "unit"
          BY <1>5, <4>1, Doings, UnitChange
        <4>2. CASE Verb # "unit"
          BY <1>5, <3>3, <4>2, Frames
        <4>3. QED BY <4>1, <4>2
      <3>5. QED BY <1>1, <3>1, <3>2, <3>3, <3>4
    <2>4. phase' # "preparing"
      BY <1>1, <1>2, <1>5, <1>6 DEF Guards, Does, Verb
    <2>5. Applying'
      BY <1>1, <1>6, <1>7, <2>2, <2>3, <2>4 DEF Applying
    <2>6. mode' = "guarded" /\ phase' \notin {"none", "preparing"}
      BY <1>1, <1>6, <1>7, <2>4
    <2>7. QED BY <1>5, <1>6, <1>7, <2>5, <2>6, Zenon
  <1>10. d = 0 \/ d > 0
    BY <1>3
  <1>11. QED BY <1>8, <1>9, <1>10, Zenon

\* What restore_backup does next.
LEMMA RestoringHead ==
  ASSUME todo \in Seq(Steps), RestoreShape(todo)
  PROVE  /\ todo # <<>>
         /\ \/ Len(todo) - 1 = 7 /\ Checks(Head(todo), "backup", TRUE) /\ Verb = "verify"
            \/ Len(todo) - 1 \in 8..(Len(todo) - 1) /\ RestoreStep(Head(todo))
         /\ Verb \notin Saves \cup {"clear"}
         /\ Verb = "phase" => Arg = "rolling-back"
         /\ Verb = "live" => Arg = "backup"
         /\ Verb = "boot" => Arg = TRUE
         /\ Verb = "unit" => Arg # "disable"
  <1> DEFINE d == Len(todo) - 1
  <1>1. Len(todo) >= 8 /\ Len(todo) \in Nat /\ todo # <<>>
    BY DEF RestoreShape
  <1>2. Head(todo) = FromEnd(todo, d) /\ (d = 7 \/ d \in 8..(Len(todo) - 1))
    <2> DEFINE n == Len(todo)
    <2>1. n >= 8 /\ n \in Nat /\ Head(todo) = FromEnd(todo, n - 1)
      BY <1>1, TailEnds
    <2> HIDE DEF n
    <2>2. n - 1 = 7 \/ n - 1 \in 8..(n - 1)
      BY <2>1
    <2>3. QED BY <2>1, <2>2 DEF n
  <1> HIDE DEF d
  <1>3. /\ d = 7 => Checks(Head(todo), "backup", TRUE)
        /\ d # 7 => RestoreStep(Head(todo))
    BY <1>2 DEF RestoreShape
  <1>4. Checks(Head(todo), "backup", TRUE) => Verb = "verify"
    BY DEF Checks, Verb
  <1>5. RestoreStep(Head(todo)) =>
          /\ Verb \notin Saves \cup {"clear"}
          /\ Verb = "phase" => Arg = "rolling-back"
          /\ Verb = "live" => Arg = "backup"
          /\ Verb = "boot" => Arg = TRUE
          /\ Verb = "unit" => Arg # "disable"
    BY DEF RestoreStep, PutBackStep, ResourceStep, Does, Verb, Arg, Saves
  <1>6. Verb = "verify" => Verb \notin Saves \cup {"clear", "phase", "live", "boot", "unit"}
    BY DEF Saves
  <1>7. QED BY <1>1, <1>2, <1>3, <1>4, <1>5, <1>6 DEF d

\* The manifest is put back before anything but the phase.
LEMMA PutBackFirst ==
  ASSUME todo \in Seq(Steps), RestoreShape(todo), Verb \notin {"phase", "live"}
  PROVE  ~Has(todo, "live")
  <1> DEFINE n == Len(todo)
  <1>1. n >= 8 /\ n \in Nat /\ Head(todo) = FromEnd(todo, n - 1)
    BY TailEnds DEF RestoreShape
  <1>2. ASSUME NEW d \in Places(todo), FromEnd(todo, d).verb = "live" PROVE FALSE
    <2>1. d \in 0..6 \/ d = 7 \/ d \in 8..(n - 1)
      BY <1>1 DEF Places
    <2>2. d \notin 0..6
      BY <1>2, ClearTyped DEF RestoreShape, ClearVerbs
    <2>3. d # 7
      BY <1>2 DEF RestoreShape, Checks
    <2>4. d \in 8..(n - 1)
      BY <2>1, <2>2, <2>3
    <2>5. \/ d = n - 1
          \/ d = n - 2 /\ FromEnd(todo, d + 1).verb = "phase"
      BY <1>2, <2>4 DEF RestoreShape
    <2>6. d = n - 2 => d + 1 = n - 1
      BY <1>1
    <2>7. QED BY <1>1, <1>2, <2>5, <2>6 DEF Verb
  <1>3. QED BY <1>2 DEF Has

LEMMA RestoringStep ==
  ASSUME TypeOK, Restoring, Recorded, Proceed
  PROVE  /\ Recorded' /\ (Restoring' \/ Clearing')
         /\ files' = files /\ phase' # "none"
         /\ Verb # "phase" => phase' = phase
         /\ Verb = "phase" => phase' = "rolling-back"
         /\ Verb # "live" => live' = live
         /\ Verb = "live" => live' = Backup
         /\ Clearing' => Verb = "verify" /\ Arg.of = "backup" /\ Arg.enabled = TRUE
  <1> DEFINE d == Len(todo) - 1
  <1>1. RestoreShape(todo) /\ mode # "guarded" /\ phase # "none"
    BY DEF Restoring
  <1>2. /\ todo \in Seq(Steps) /\ Ends(todo', todo) /\ Len(todo') = d
        /\ Len(todo) \in Nat \ {0}
    BY Leaving
  <1>3. /\ \/ d = 7 /\ Checks(Head(todo), "backup", TRUE) /\ Verb = "verify"
           \/ d \in 8..(Len(todo) - 1)
        /\ Verb \notin Saves \cup {"clear"}
        /\ Verb = "phase" => Arg = "rolling-back"
        /\ Verb = "live" => Arg = "backup"
    BY <1>1, <1>2, RestoringHead
  <1> HIDE DEF d
  <1>4. /\ mode' = mode /\ files' = files /\ phase' # "none"
        /\ Verb # "phase" => phase' = phase
        /\ Verb = "phase" => phase' = "rolling-back"
        /\ Verb # "live" => live' = live
        /\ Verb = "live" => live' = Backup
    BY <1>1, <1>3, Frames, Doings
  <1>5. Recorded'
    BY <1>1, <1>4 DEF Recorded, Backup, Target
  <1>6. CASE d = 7
    <2>1. ClearShape(todo')
      <3>1. ClearsLast(todo) /\ Len(todo') <= 7
        BY <1>1, <1>2, <1>6 DEF RestoreShape
      <3>2. QED BY <1>2, <3>1, ClearsEnd
    <2>2. Len(todo') = 7 /\ Len(todo') \notin 1..6
      BY <1>2, <1>6
    <2>3. Clearing'
      BY <1>1, <1>4, <2>1, <2>2, Zenon DEF Clearing
    <2>4. Verb = "verify" /\ Arg.of = "backup" /\ Arg.enabled = TRUE
      BY <1>3, <1>6 DEF Checks, Verb, Arg
    <2>5. QED BY <1>4, <1>5, <2>3, <2>4
  <1>7. CASE d # 7
    <2>a. d \in 8..(Len(todo) - 1)
      BY <1>3, <1>7, Zenon
    <2>0. d \in Nat /\ d >= 8
      BY <1>2, <2>a
    <2>1. Len(todo') >= 8 /\ ~(Len(todo') <= 7)
      BY <1>2, <2>0
    <2>2. RestoreShape(todo')
      BY <1>1, <1>2, <2>1, RestoreEnd
    <2>4. ~Clearing'
      BY <2>1 DEF Clearing, ClearShape
    <2>5. QED BY <1>1, <1>4, <1>5, <2>2, <2>4 DEF Restoring
  <1>8. QED BY <1>6, <1>7

LEMMA UnreadHead ==
  ASSUME todo \in Seq(Steps), UnreadShape(todo)
  PROVE  /\ todo # <<>> /\ Verb \in {"live", "phase"}
         /\ Verb = "phase" => Arg = "rolling-back"
         /\ Verb = "live" => Arg = "backup"
  <1> DEFINE d == Len(todo) - 1
  <1>1. todo # <<>> /\ d >= 7 /\ d \in Places(todo)
    BY UnreadPlaces
  <1>2. Head(todo) = FromEnd(todo, d)
    BY <1>1, TailEnds
  <1> HIDE DEF d
  <1>3. QED BY <1>1, <1>2, UnreadVerbs DEF Does, Verb, Arg

LEMMA UnreadStep ==
  ASSUME TypeOK, Unread, Recorded, Proceed
  PROVE  /\ Recorded' /\ (Unread' \/ Clearing')
         /\ files' = files /\ phase' # "none" /\ proxy' = proxy /\ unit' = unit
         /\ Verb # "live" => live' = live
         /\ Verb = "live" => live' = Backup
         /\ Clearing' => Verb = "live"
  <1>1. UnreadShape(todo) /\ mode # "guarded" /\ phase # "none" /\ blind
    BY DEF Unread
  <1>2. /\ todo \in Seq(Steps) /\ Ends(todo', todo) /\ Len(todo') = Len(todo) - 1
        /\ todo' \in Seq(Steps)
    BY Leaving
  <1>3. /\ Verb \in {"live", "phase"}
        /\ Verb = "phase" => Arg = "rolling-back"
        /\ Verb = "live" => Arg = "backup"
    BY <1>1, <1>2, UnreadHead
  <1>4. /\ mode' = mode /\ files' = files /\ phase' # "none" /\ proxy' = proxy /\ unit' = unit
        /\ blind' = blind
        /\ Verb # "live" => live' = live
        /\ Verb = "live" => live' = Backup
    BY <1>1, <1>3, Frames, Doings DEF Saves
  <1>5. Recorded'
    BY <1>1, <1>4 DEF Recorded, Backup, Target
  <1>6. ClearsLast(todo') /\ (Len(todo') <= 7 => ClearShape(todo'))
    BY <1>1, <1>2, ClearsEnd DEF UnreadShape
  <1>7. CASE Len(todo) = 8
    <2>1. Len(todo') = 7
      BY <1>2, <1>7
    <2>2. Verb = "live"
      BY <1>1, <1>2, <1>7, Leaving DEF UnreadShape, Does, Verb
    <2>3. QED BY <1>1, <1>4, <1>5, <1>6, <2>1, <2>2 DEF Clearing
  <1>8. CASE Len(todo) = 9
    <2>1. Len(todo') = 8 /\ 7 \in Places(todo')
      BY <1>2, <1>8 DEF Places
    <2>2. FromEnd(todo', 7) = FromEnd(todo, 7)
      BY <1>2, <2>1 DEF Ends
    <2>3. UnreadShape(todo')
      BY <1>1, <1>6, <2>1, <2>2 DEF UnreadShape
    <2>4. ~Clearing'
      BY <2>1 DEF Clearing, ClearShape
    <2>5. QED BY <1>1, <1>4, <1>5, <2>3, <2>4 DEF Unread
  <1>9. QED BY <1>1, <1>7, <1>8 DEF UnreadShape

\* A check that passes compares the resources with a manifest.
LEMMA CheckedAgrees ==
  ASSUME TypeOK, NEW of \in {"backup", "target"}, Holds(Arg), Arg.of = of, Arg.enabled = TRUE,
         files[of] \in Manifest, live = files[of]
  PROVE  Agrees(files[of])
  <1> DEFINE m == files[of]
  <1>1. m.service \in BOOLEAN
    BY ManifestAssumption
  <1>2. /\ IF m.api = "local" THEN ~ProxyInstalled ELSE proxy = m.api
        /\ unit.installed = m.service
        /\ m.service => unit.enabled = TRUE
    BY DEF Holds
  <1>3. QED BY <1>1, <1>2 DEF Agrees, ProxyInstalled

LEMMA FinishingStep ==
  ASSUME TypeOK, Finishing, Recorded, Proceed
  PROVE  /\ Recorded' /\ (Finishing' \/ Clearing') /\ files' = files
         /\ Verb \in {"cleanup", "verify", "boot", "phase"}
         /\ phase' \in {"resources-applied", "committing"} /\ live' = live
         /\ Verb # "phase" => phase' = phase
         /\ Verb = "boot" => phase = "committing"
         /\ Clearing' => Agrees(Target) /\ proxy' = proxy /\ unit' = unit
  <1> DEFINE d == Len(todo) - 1
  <1>1. /\ FinishShape(todo) /\ mode = "plain" /\ phase \in {"resources-applied", "committing"}
        /\ live = Target
    BY DEF Finishing
  <1>0. Verb = "boot" => phase = "committing"
    BY DEF Finishing
  <1>2. /\ todo \in Seq(Steps) /\ Ends(todo', todo) /\ Len(todo') = d
        /\ Len(todo) \in Nat \ {0} /\ Head(todo) = FromEnd(todo, d)
        /\ Len(todo) > 1 => todo' # <<>> /\ Head(todo') = FromEnd(todo, Len(todo) - 2)
    BY Leaving
  <1>3. \/ d = 7
        \/ d = 8 /\ d \in 8..(Len(todo) - 1)
        \/ d > 8 /\ d \in 8..(Len(todo) - 1)
    <2> DEFINE n == Len(todo)
    <2>1. n >= 8 /\ n \in Nat
      BY <1>1, <1>2 DEF FinishShape
    <2> HIDE DEF n
    <2>2. \/ n - 1 = 7
          \/ n - 1 = 8 /\ n - 1 \in 8..(n - 1)
          \/ n - 1 > 8 /\ n - 1 \in 8..(n - 1)
      BY <2>1
    <2>3. QED BY <2>2 DEF n
  <1> HIDE DEF d
  <1>5. /\ d = 7 => Verb = "cleanup"
        /\ d = 8 => Checks(Head(todo), "target", TRUE)
        /\ d > 8 => \/ Does(Head(todo), "boot", {TRUE})
                    \/ Does(Head(todo), "phase", {"committing"})
                    \/ Checks(Head(todo), "target", FALSE)
    <2>1. d = 7 => FromEnd(todo, d).verb = "cleanup"
      BY <1>1 DEF FinishShape
    <2>2. ASSUME NEW e \in 8..(Len(todo) - 1)
          PROVE  /\ e = 8 => Checks(FromEnd(todo, e), "target", TRUE)
                 /\ e > 8 => \/ Does(FromEnd(todo, e), "boot", {TRUE})
                             \/ Does(FromEnd(todo, e), "phase", {"committing"})
                             \/ Checks(FromEnd(todo, e), "target", FALSE)
      BY <1>1 DEF FinishShape
    <2>3. d = 7 => Verb = "cleanup"
      BY <1>2, <2>1 DEF Verb
    <2>4. d = 8 => Checks(Head(todo), "target", TRUE)
      <3>1. d = 8 => d \in 8..(Len(todo) - 1)
        BY <1>3
      <3>2. QED BY <1>2, <2>2, <3>1, Zenon
    <2>5. d > 8 => \/ Does(Head(todo), "boot", {TRUE})
                   \/ Does(Head(todo), "phase", {"committing"})
                   \/ Checks(Head(todo), "target", FALSE)
      <3>1. d > 8 => d \in 8..(Len(todo) - 1)
        BY <1>3
      <3>2. QED BY <1>2, <2>2, <3>1, Zenon
    <2>6. QED BY <2>3, <2>4, <2>5
  <1>6. Verb \in {"cleanup", "verify", "boot", "phase"} /\ (Verb = "phase" => Arg = "committing")
    BY <1>3, <1>5 DEF Checks, Does, Verb, Arg
  <1>7. /\ mode' = mode /\ files' = files /\ live' = live
        /\ Verb # "phase" => phase' = phase
        /\ Verb = "phase" => phase' = "committing"
    BY <1>6, Frames, Doings DEF Saves
  <1>8. /\ Recorded' /\ phase' \in {"resources-applied", "committing"} /\ live' = Target'
    BY <1>1, <1>6, <1>7 DEF Recorded, Backup, Target
  <1>9. CASE d = 7
    <2>1. Len(todo') = 7 /\ Len(todo') \notin 1..6
      BY <1>2, <1>9
    <2>2. ClearShape(todo')
      <3>1. ClearsLast(todo) /\ Len(todo') <= 7
        BY <1>1, <2>1 DEF FinishShape
      <3>2. QED BY <1>2, <3>1, ClearsEnd
    <2>3. mode' # "guarded" /\ phase' # "none"
      BY <1>1, <1>7, <1>8
    <2>4. Clearing'
      BY <2>1, <2>2, <2>3, Zenon DEF Clearing
    <2>5. Agrees(Target)
      <3> DEFINE n == Len(todo)
      <3>0. n \in Nat /\ n - 1 = 7
        BY <1>2, <1>9 DEF d
      <3> HIDE DEF n
      <3>1. n = 8
        BY <3>0
      <3>2. QED BY <3>1 DEF Finishing, n
    <2>6. proxy' = proxy /\ unit' = unit
      BY <1>5, <1>9, Frames
    <2>7. QED BY <1>0, <1>6, <1>7, <1>8, <2>4, <2>5, <2>6
  <1>10. CASE d # 7
    <2>1. Len(todo') >= 8 /\ Len(todo) > 1
      BY <1>2, <1>3, <1>10
    <2>2. FinishShape(todo')
      BY <1>1, <1>2, <2>1, FinishEnd
    <2>3. Verb' = "boot" => phase' = "committing"
      <3>1. Verb' = FromEnd(todo, Len(todo) - 2).verb
        BY <1>2, <2>1 DEF Verb
      <3>2. Len(todo) - 2 \in 7..(Len(todo) - 1) /\ Len(todo) - 2 < Len(todo) - 1
            /\ Len(todo) - 2 + 1 = Len(todo) - 1
        BY <1>2, <2>1 DEF d
      <3>3. Verb' = "boot" => Len(todo) - 2 \in 8..(Len(todo) - 1)
        <4>1. FromEnd(todo, 7).verb = "cleanup"
          BY <1>1 DEF FinishShape
        <4>2. Len(todo) - 2 # 7 => Len(todo) - 2 \in 8..(Len(todo) - 1)
          BY <3>2
        <4>3. QED BY <3>1, <4>1, <4>2
      <3>4. Verb' = "boot" => Does(FromEnd(todo, Len(todo) - 2 + 1), "phase", {"committing"})
        BY <1>1, <3>1, <3>2, <3>3 DEF FinishShape
      <3>5. Verb' = "boot" => Does(Head(todo), "phase", {"committing"})
        BY <1>2, <3>2, <3>4 DEF d
      <3>6. QED BY <1>7, <3>5 DEF Does, Verb
    <2>4. Len(todo') = 8 => Agrees(Target)'
      <3>1. SUFFICES ASSUME d = 8 PROVE Agrees(Target)'
        BY <1>2
      <3>2. /\ Verb = "verify" /\ Arg.of = "target" /\ Arg.enabled = TRUE
        BY <1>5, <3>1 DEF Checks, Verb, Arg
      <3>3. Holds(Arg) /\ proxy' = proxy /\ unit' = unit
        BY <3>2, Frames, Doings
      <3>4. Target \in Manifest
        BY <1>1 DEF Recorded
      <3>5. Agrees(Target)
        BY <1>1, <3>2, <3>3, <3>4, CheckedAgrees DEF Target
      <3>6. QED BY <1>7, <3>3, <3>5 DEF Agrees, Target
    <2>5. ~(Len(todo') <= 7)
      BY <1>2, <2>1
    <2>6. ~Clearing'
      BY <2>5 DEF Clearing, ClearShape
    <2>7. QED BY <1>0, <1>1, <1>6, <1>7, <1>8, <2>2, <2>3, <2>4, <2>6 DEF Finishing
  <1>11. QED BY <1>9, <1>10

LEMMA ProceedShaped ==
  ASSUME TypeOK, Shaped, Proceed
  PROVE  TypeOK' /\ Shaped'
  <1>1. todo \in Seq(Steps) /\ todo # <<>>
    BY Frames DEF TypeOK
  <1>2. \/ PrepareShape(todo) \/ ApplyShape(todo) \/ RestoreShape(todo) \/ UnreadShape(todo)
        \/ FinishShape(todo) \/ ClearShape(todo)
    BY DEF Shaped, Preparing, Applying, Restoring, Unread, Finishing, Clearing
  <1>3. Typed(Head(todo)) /\ Paired(todo)
    BY <1>1, <1>2, HeadTyped, ShapesPaired
  <1>4. UnitReady'
    BY <1>3, ReadyStep DEF Shaped
  <1>5. Recorded' /\ (Preparing \/ Applying \/ Restoring \/ Unread \/ Finishing \/ Clearing)'
    BY PreparingStep, ApplyingStep, RestoringStep, UnreadStep, FinishingStep, ClearingStep
       DEF Shaped
  <1>6. Verb = "live" => Backup \in Manifest /\ Target \in Manifest
    <2>1. (Applying \/ Restoring \/ Unread \/ Finishing) => phase # "none"
      BY DEF Applying, Restoring, Unread, Finishing
    <2>2. Preparing => Verb # "live"
      BY <1>1, PreparingHead DEF Preparing
    <2>3. Clearing => Verb # "live"
      BY <1>1, ClearingHead
    <2>4. QED BY <2>1, <2>2, <2>3 DEF Shaped, Recorded
  <1>7. TypeOK'
    BY <1>3, <1>6, ProceedType
  <1>8. QED BY <1>4, <1>5, <1>7 DEF Shaped
-----------------------------------------------------------------------------
(* Commands, failures and interruptions keep the shape.                    *)

LEMMA Least ==
  ASSUME NEW T \in SUBSET Nat, T # {}
  PROVE  \E i \in T : \A j \in T : i <= j
  <1> DEFINE R == {ss \in Nat \X Nat : ss[1] < ss[2]}
  <1>1. IsWellFoundedOn(R, Nat)
    BY NatLessThanWellFounded DEF OpToRel
  <1>2. \E i \in T : \A j \in T : ~(<<j, i>> \in R)
    BY <1>1, WFMin
  <1>3. \A i, j \in Nat : i < j => <<i, j>> \in R
    OBVIOUS
  <1> HIDE DEF R
  <1>4. \A i, j \in Nat : ~(i < j) => j <= i
    OBVIOUS
  <1>5. QED BY <1>2, <1>3, <1>4

\* A failure that is ignored skips the steps of the helper that failed, and no others.
LEMMA AfterChildEnds ==
  ASSUME todo \in Seq(Steps), todo # <<>>,
         NEW e \in Places(todo), FromEnd(todo, e).verb # Verb
  PROVE  /\ Ends(AfterChild, todo) /\ AfterChild # <<>> /\ AfterChild \in Seq(Steps)
         /\ Len(AfterChild) > e /\ Len(AfterChild) < Len(todo)
         /\ Head(AfterChild) = FromEnd(todo, Len(AfterChild) - 1)
         /\ Head(AfterChild).verb # Verb
         /\ \A d \in Places(todo) : d >= Len(AfterChild) => FromEnd(todo, d).verb = Verb
  <1> DEFINE n == Len(todo)
  <1> DEFINE others == {i \in 1..n : todo[i].verb # Verb}
  <1> DEFINE k == CHOOSE i \in others : \A j \in others : i <= j
  <1>1. n \in Nat \ {0} /\ Head(todo) = todo[1]
    OBVIOUS
  <1>2. others \in SUBSET Nat /\ n - e \in others
    BY <1>1 DEF Places, FromEnd
  <1>3. k \in others /\ \A j \in others : k <= j
    BY <1>2, Least
  <1>4. k \in 1..n /\ k # 1
    BY <1>1, <1>3 DEF Verb
  <1>5. AfterChild = SubSeq(todo, k, n)
    BY DEF AfterChild
  <1>6. \A i \in 1..n : i < k => todo[i].verb = Verb
    BY <1>1, <1>3
  <1>7. todo[k].verb # Verb /\ k <= n - e
    BY <1>2, <1>3
  <1> HIDE DEF k
  <1> DEFINE t == SubSeq(todo, k, n)
  <1>8. Ends(t, todo) /\ Len(t) = n - k + 1 /\ t \in Seq(Steps)
    BY <1>4, RestEnds DEF Ends
  <1> HIDE DEF t, n
  <1>9. /\ Len(t) > e /\ Len(t) < n /\ t # <<>> /\ Len(t) - 1 \in Places(t)
        /\ n - (Len(t) - 1) = k
    <2>1. e \in Nat
      BY DEF Places
    <2>2. Len(t) > e /\ Len(t) < n /\ Len(t) \in Nat \ {0} /\ n - (Len(t) - 1) = k
      BY <1>1, <1>4, <1>7, <1>8, <2>1
    <2>3. t # <<>>
      BY <2>2
    <2>4. QED BY <2>2, <2>3 DEF Places
  <1>10. Head(t) = FromEnd(todo, Len(t) - 1) /\ FromEnd(todo, Len(t) - 1) = todo[k]
    BY <1>8, <1>9, TailEnds DEF Ends, FromEnd, n
  <1>11. ASSUME NEW d \in Places(todo), d >= Len(t) PROVE FromEnd(todo, d).verb = Verb
    <2>1. n - d \in 1..n /\ n - d < k
      BY <1>1, <1>4, <1>8, <1>11 DEF Places, n
    <2>2. QED BY <1>6, <2>1 DEF FromEnd, n
  <1>12. QED BY <1>5, <1>7, <1>8, <1>9, <1>10, <1>11 DEF t, n

LEMMA ReadyPlan ==
  ASSUME UnitReady, unit' = unit, todo' # <<>> => Head(todo').verb # "unit"
  PROVE  UnitReady'
  BY DEF UnitReady, Does

LEMMA PlanHead ==
  ASSUME NEW s \in Seq(Steps), s # <<>>, FinishShape(s) \/ ClearShape(s)
  PROVE  Head(s).verb # "unit"
  <1>1. Head(s) = FromEnd(s, Len(s) - 1) /\ Len(s) - 1 \in Places(s)
    BY TailEnds DEF Places
  <1>2. CASE FinishShape(s)
    BY <1>1, <1>2, FinishVerbs
  <1>3. CASE ClearShape(s)
    <2>1. Len(s) - 1 <= 6
      BY <1>1, <1>3 DEF ClearShape
    <2>2. QED BY <1>1, <1>3, <2>1 DEF ClearShape, ClearsLast, Does
  <1>4. QED BY <1>2, <1>3

LEMMA PrepareShaped ==
  ASSUME TypeOK, Shaped, NEW new \in Manifest, NEW start \in BOOLEAN, Prepare(new, start)
  PROVE  TypeOK' /\ Shaped' /\ Preparing'
  <1>1. /\ phase = "none" /\ ResourcesAsRecorded /\ todo' = PrepareSteps(new, start)
        /\ mode' = "plain"
        /\ UNCHANGED <<live, phase, files, proxy, unit, container, config, blind>>
    BY DEF Prepare, Command, Begins, PrepareSteps
  <1>2. todo' \in Seq(Steps) /\ PrepareShape(todo') /\ Len(todo') = 8
    BY <1>1, PreparePlan
  <1>3. TypeOK'
    BY <1>1, <1>2 DEF TypeOK
  <1>4. unit'.installed = live'.service
    BY <1>1, ManifestAssumption DEF ResourcesAsRecorded, TypeOK
  <1>5. Preparing'
    BY <1>1, <1>2, <1>4 DEF Preparing
  <1>6. Recorded'
    BY <1>1 DEF Recorded
  <1>7. UnitReady'
    <2>1. todo' # <<>> /\ Head(todo') = FromEnd(todo', 7) /\ 7 \in Places(todo')
      <3>1. todo' # <<>>
        BY <1>2
      <3>2. Head(todo') = FromEnd(todo', Len(todo') - 1)
        BY <1>2, <3>1, TailEnds
      <3>3. QED BY <1>2, <3>1, <3>2 DEF Places
    <2>2. Head(todo').verb # "unit"
      BY <1>2, <2>1 DEF PrepareShape
    <2>3. QED BY <1>1, <2>2, ReadyPlan DEF Shaped
  <1>8. QED BY <1>1, <1>3, <1>5, <1>6, <1>7 DEF Shaped

LEMMA ApplyShaped ==
  ASSUME TypeOK, Shaped, Apply
  PROVE  TypeOK' /\ Shaped' /\ Applying'
  <1>1. /\ phase = "preparing" /\ todo' = ApplySteps /\ mode' = "guarded"
        /\ UNCHANGED <<live, phase, files, proxy, unit, container, config, blind>>
    BY DEF Apply, Command, Begins, ApplySteps
  <1>2. Backup \in Manifest /\ Target \in Manifest
    BY <1>1 DEF Shaped, Recorded
  <1>3. /\ todo' \in Seq(Steps) /\ ApplyShape(todo') /\ Guards(todo', Len(todo') - 1)
        /\ unit.installed => Has(todo', "boot")
    BY <1>1, <1>2, ApplyPlan
  <1>4. TypeOK'
    BY <1>1, <1>3 DEF TypeOK
  <1>5. Applying'
    BY <1>1, <1>3 DEF Applying, Shaped, UnitReady
  <1>6. Recorded'
    BY <1>1, <1>2 DEF Recorded, Backup, Target
  <1>7. UnitReady'
    <2>1. todo' # <<>> /\ Head(todo') = FromEnd(todo', Len(todo') - 1)
      BY <1>3, TailEnds DEF ApplyShape
    <2>2. Head(todo').verb # "unit"
      BY <1>3, <2>1 DEF Guards, Does
    <2>3. QED BY <1>1, <2>2, ReadyPlan DEF Shaped
  <1>8. QED BY <1>4, <1>5, <1>6, <1>7 DEF Shaped

\* restore_backup, by rollback, by recover or in the trap, with the target or without.
LEMMA RestoreShaped ==
  ASSUME TypeOK, Shaped, phase # "none", Restores, mode' \in {"plain", "undoing"},
         UNCHANGED <<live, phase, files, proxy, unit, container, config>>
  PROVE  /\ TypeOK' /\ Shaped'
         /\ \/ todo' = RestoreSteps /\ Restoring' /\ blind' = blind
            \/ todo' = RestoreUnread /\ Unread'
  <1>1. Backup \in Manifest /\ Target \in Manifest
    BY DEF Shaped, Recorded
  <1>2. \/ todo' = RestoreSteps /\ blind' = blind
        \/ todo' = RestoreUnread /\ blind' = TRUE
    BY DEF Restores
  <1>3. /\ todo' \in Seq(Steps) /\ Head(todo').verb = "phase"
        /\ todo' = RestoreSteps => RestoreShape(todo')
        /\ todo' = RestoreUnread => UnreadShape(todo')
    BY <1>1, <1>2, RestorePlan, UnreadPlan
  <1>4. TypeOK'
    <2>1. blind' \in BOOLEAN
      BY <1>2 DEF TypeOK
    <2>2. QED BY <1>3, <2>1 DEF TypeOK
  <1>5. Recorded'
    BY <1>1 DEF Recorded, Backup, Target
  <1>6. \/ todo' = RestoreSteps /\ Restoring' /\ blind' = blind
        \/ todo' = RestoreUnread /\ Unread'
    BY <1>2, <1>3 DEF Restoring, Unread
  <1>7. UnitReady'
    BY <1>3, ReadyPlan DEF Shaped
  <1>8. QED BY <1>4, <1>5, <1>6, <1>7 DEF Shaped

LEMMA CommitShaped ==
  ASSUME TypeOK, Shaped, phase \in {"resources-applied", "committing"}, live = Target,
         todo' \in Seq(Steps), FinishShape(todo'), Len(todo') >= 9,
         phase = "committing" \/ Head(todo').verb = "verify", mode' = "plain",
         UNCHANGED <<live, phase, files, proxy, unit, container, config, blind>>
  PROVE  TypeOK' /\ Shaped' /\ Finishing'
  <1>1. TypeOK'
    BY DEF TypeOK
  <1>2. Finishing' /\ Recorded'
    <2>1. Len(todo') # 8
      <3>1. Len(todo') \in Nat
        OBVIOUS
      <3>2. QED BY <3>1
    <2>2. Verb' = "boot" => phase' = "committing"
      BY DEF Verb
    <2>3. QED BY <2>1, <2>2 DEF Finishing, Shaped, Recorded, Backup, Target
  <1>3. UnitReady'
    <2>1. todo' # <<>>
      BY DEF FinishShape
    <2>2. Head(todo').verb # "unit"
      BY <2>1, PlanHead
    <2>3. QED BY <2>2, ReadyPlan DEF Shaped
  <1>4. QED BY <1>1, <1>2, <1>3 DEF Shaped

LEMMA ClearShaped ==
  ASSUME TypeOK, Shaped, phase # "none", todo' = ClearSteps, mode' = "plain",
         UNCHANGED <<live, phase, files, proxy, unit, container, config, blind>>
  PROVE  TypeOK' /\ Shaped' /\ Clearing' /\ Len(todo') = 7
  <1>1. todo' \in Seq(Steps) /\ Len(todo') = 7 /\ ClearsLast(todo')
    BY ClearTuple
  <1>2. TypeOK'
    BY <1>1 DEF TypeOK
  <1>3. ClearShape(todo')
    BY <1>1 DEF ClearShape
  <1>4. Clearing' /\ Recorded'
    BY <1>1, <1>3 DEF Clearing, Shaped, Recorded, Backup, Target
  <1>5. UnitReady'
    <2>1. todo' # <<>>
      BY <1>1
    <2>2. Head(todo').verb # "unit"
      BY <1>1, <1>3, <2>1, PlanHead
    <2>3. QED BY <2>2, ReadyPlan DEF Shaped
  <1>6. QED BY <1>1, <1>2, <1>4, <1>5 DEF Shaped

\* A command that starts: what it is left to do.
LEMMA CommandsShaped ==
  ASSUME TypeOK, Shaped, Commands
  PROVE  /\ TypeOK' /\ Shaped' /\ todo = <<>>
         /\ UNCHANGED <<live, phase, files, proxy, unit, container, config>>
         /\ (todo' = RestoreUnread /\ Unread') \/ blind' = blind
         /\ \/ phase = "none" /\ Preparing'
            \/ Apply /\ Applying'
            \/ phase # "none" /\ todo' = RestoreSteps /\ Restoring'
            \/ phase # "none" /\ todo' = RestoreUnread /\ Unread'
            \/ phase \in {"resources-applied", "committing"} /\ Finishing'
            \/ /\ phase = "preparing" /\ live = Backup /\ todo' = ClearSteps
               /\ Clearing' /\ Len(todo') = 7
  <1>1. CASE \E new \in Manifest, start \in BOOLEAN : Prepare(new, start)
    <2>1. PICK new \in Manifest, start \in BOOLEAN : Prepare(new, start)
      BY <1>1
    <2>2. /\ phase = "none" /\ todo = <<>>
          /\ UNCHANGED <<live, phase, files, proxy, unit, container, config, blind>>
          /\ todo' = PrepareSteps(new, start) /\ mode' = "plain" /\ ResourcesAsRecorded
      BY <2>1 DEF Prepare, Command, Begins, PrepareSteps
    <2>3. TypeOK' /\ Shaped' /\ Preparing'
      BY <2>1, PrepareShaped
    <2>4. QED BY <2>2, <2>3
  <1>2. CASE Apply
    <2>1. todo = <<>> /\ UNCHANGED <<live, phase, files, proxy, unit, container, config, blind>>
      BY <1>2 DEF Apply, Command, Begins
    <2>2. QED BY <1>2, <2>1, ApplyShaped
  <1>3. ASSUME NEW steps, Command(steps, "plain")
        PROVE  /\ todo = <<>> /\ todo' = steps /\ mode' = "plain"
               /\ UNCHANGED <<live, phase, files, proxy, unit, container, config, blind>>
    BY <1>3 DEF Command, Begins
  <1>4. ASSUME phase # "none", Begins("plain"), Restores
        PROVE  /\ TypeOK' /\ Shaped' /\ todo = <<>>
               /\ \/ todo' = RestoreSteps /\ Restoring' /\ blind' = blind
                  \/ todo' = RestoreUnread /\ Unread'
               /\ UNCHANGED <<live, phase, files, proxy, unit, container, config>>
    BY <1>4, RestoreShaped DEF Begins
  <1>5. ASSUME phase = "committing", live = Target, Command(FinalizeSteps, "plain")
        PROVE  /\ TypeOK' /\ Shaped' /\ todo = <<>> /\ Finishing'
               /\ UNCHANGED <<live, phase, files, proxy, unit, container, config, blind>>
    <2>1. Target \in Manifest
      BY <1>5 DEF Shaped, Recorded
    <2>2. /\ FinalizeSteps \in Seq(Steps) /\ FinishShape(FinalizeSteps)
          /\ Len(FinalizeSteps) >= 9
      BY <2>1, FinishPlan
    <2>3. QED BY <1>3, <1>5, <2>2, CommitShaped
  <1>6. ASSUME Commit
        PROVE  /\ TypeOK' /\ Shaped' /\ todo = <<>> /\ Finishing'
               /\ phase \in {"resources-applied", "committing"}
               /\ UNCHANGED <<live, phase, files, proxy, unit, container, config, blind>>
    <2>1. phase \in {"resources-applied", "committing"} /\ live = Target
      BY <1>6 DEF Commit
    <2>2. Target \in Manifest
      BY <2>1 DEF Shaped, Recorded
    <2>3. /\ CommitSteps \in Seq(Steps) /\ FinishShape(CommitSteps)
          /\ Len(CommitSteps) >= 9 /\ Head(CommitSteps).verb = "verify"
          /\ FinalizeSteps \in Seq(Steps)
      BY <2>2, FinishPlan
    <2>4. CASE phase = "committing"
      <3>1. <<>> \o FinalizeSteps = FinalizeSteps
        BY <2>3
      <3>2. Command(<<>> \o FinalizeSteps, "plain")
        BY <1>6, <2>4 DEF Commit
      <3>3. QED BY <1>5, <2>1, <2>4, <3>1, <3>2
    <2>5. CASE phase # "committing"
      <3>1. Command(CommitSteps, "plain")
        BY <1>6, <2>5 DEF Commit, CommitSteps
      <3>2. QED BY <1>3, <2>1, <2>3, <3>1, CommitShaped
    <2>6. QED BY <2>4, <2>5
  <1>7. CASE Rollback
    BY <1>4, <1>7 DEF Rollback
  <1>8. CASE Recover
    <2>1. phase # "none"
      BY <1>8 DEF Recover
    <2>2. CASE phase = "preparing" /\ live = Backup
      <3>1. Command(ClearSteps, "plain")
        BY <1>8, <2>2 DEF Recover
      <3>2. QED BY <1>3, <2>1, <2>2, <3>1, ClearShaped
    <2>3. CASE phase = "committing" /\ live = Target
      <3>1. Command(FinalizeSteps, "plain")
        BY <1>8, <2>3 DEF Recover
      <3>2. QED BY <1>5, <2>3, <3>1
    <2>4. CASE ~(phase = "preparing" /\ live = Backup) /\ ~(phase = "committing" /\ live = Target)
      <3>1. Begins("plain") /\ Restores
        BY <1>8, <2>4 DEF Recover
      <3>2. QED BY <1>4, <2>1, <3>1
    <2>5. QED BY <2>2, <2>3, <2>4
  <1>9. QED BY <1>1, <1>2, <1>6, <1>7, <1>8 DEF Commands

\* A failure: the command ends, apply turns to the restoration, or the trap goes on.
LEMMA FailsShaped ==
  ASSUME TypeOK, Shaped, Fails
  PROVE  /\ TypeOK' /\ Shaped'
         /\ UNCHANGED <<live, phase, files, proxy, unit, container, config>>
         /\ (todo' = RestoreUnread /\ Unread') \/ blind' = blind
         /\ \/ todo' = <<>>
            \/ Applying /\ todo' = RestoreSteps /\ Restoring'
            \/ Applying /\ todo' = RestoreUnread /\ Unread'
            \/ /\ Unread /\ (Unread' \/ Clearing') /\ Ends(todo', todo)
               /\ Clearing' => CopyFailsInTrap
            \/ /\ Restoring /\ Restoring' /\ todo' = AfterChild /\ Ends(todo', todo)
               /\ Verb # "live" \/ CopyFailsInTrap
               /\ \A d \in Places(todo) : d >= Len(todo') => FromEnd(todo, d).verb = Verb
  <1>1. /\ todo \in Seq(Steps) /\ todo # <<>> /\ Verb \notin {"clear", "halt"}
        /\ UNCHANGED <<live, phase, files, proxy, unit, container, config>>
    BY DEF Fails, TypeOK
  <1>2. Clearing => Verb = "clear"
    BY <1>1, ClearingHead
  <1>3. CASE mode = "plain"
    <2>1. todo' = <<>> /\ mode' = "plain" /\ blind' = blind
      BY <1>3 DEF Fails
    <2>2. TypeOK'
      BY <1>1, <2>1 DEF TypeOK
    <2>3. Clearing' /\ Recorded' /\ UnitReady'
      BY <1>1, <2>1, EmptyShapes DEF Clearing, Shaped, Recorded, Backup, Target, UnitReady
    <2>4. QED BY <1>1, <2>1, <2>2, <2>3 DEF Shaped
  <1>4. CASE mode = "guarded"
    <2>1. Applying
      BY <1>1, <1>2, <1>4 DEF Shaped, Preparing, Restoring, Unread, Finishing
    <2>2. Restores /\ mode' = "undoing" /\ phase # "none"
      BY <1>4, <2>1 DEF Fails, Applying
    <2>3. QED BY <1>1, <2>1, <2>2, RestoreShaped
  <1>6. CASE mode = "undoing" /\ Unread
    <2>1. UnreadShape(todo) /\ phase # "none" /\ blind
      BY <1>6 DEF Unread
    <2>2. /\ todo' = AfterChild /\ mode' = "undoing" /\ Verb \in {"live", "phase"}
          /\ blind' = blind /\ (Verb = "live" => CopyFailsInTrap)
      BY <1>1, <1>6, <2>1, UnreadHead DEF Fails
    <2>3. 6 \in Places(todo) /\ FromEnd(todo, 6).verb # Verb
      <3>1. 6 \in Places(todo)
        BY <1>1, <2>1, UnreadPlaces
      <3>2. FromEnd(todo, 6).verb = "clear"
        BY <2>1, <3>1 DEF UnreadShape, ClearsLast, Does
      <3>3. QED BY <2>2, <3>1, <3>2
    <2>4. /\ Ends(todo', todo) /\ todo' # <<>> /\ todo' \in Seq(Steps)
          /\ Len(todo') > 6 /\ Len(todo') < Len(todo)
          /\ Head(todo') = FromEnd(todo, Len(todo') - 1)
      BY <1>1, <2>2, <2>3, AfterChildEnds
    <2>4b. \A d \in Places(todo) : d >= Len(todo') => FromEnd(todo, d).verb = Verb
      BY <1>1, <2>2, <2>3, AfterChildEnds
    <2>5. TypeOK' /\ Recorded'
      BY <1>1, <2>2, <2>4 DEF TypeOK, Shaped, Recorded, Backup, Target
    <2>6. ClearsLast(todo') /\ (Len(todo') <= 7 => ClearShape(todo'))
      BY <1>1, <2>1, <2>4, ClearsEnd DEF UnreadShape
    <2>7. Len(todo') = 7 \/ Len(todo') = 8
      <3> DEFINE n == Len(todo)
      <3> DEFINE k == Len(todo')
      <3>1. (n = 8 \/ n = 9) /\ k \in Nat /\ k > 6 /\ k < n
        BY <1>1, <2>1, <2>4, UnreadPlaces
      <3> HIDE DEF n, k
      <3>2. k = 7 \/ k = 8
        BY <3>1
      <3>3. QED BY <3>2 DEF k
    <2>8. Unread' \/ Clearing'
      <3>1. CASE Len(todo') = 7
        BY <1>1, <2>1, <2>2, <2>6, <3>1 DEF Clearing
      <3>2. CASE Len(todo') = 8
        <4>1. FromEnd(todo', 7) = FromEnd(todo, 7)
          BY <2>4, <3>2 DEF Ends, Places
        <4>2. UnreadShape(todo')
          BY <2>1, <2>6, <3>2, <4>1 DEF UnreadShape
        <4>3. QED BY <1>1, <2>1, <2>2, <4>2 DEF Unread
      <3>3. QED BY <2>7, <3>1, <3>2
    <2>9. UnitReady'
      <3>1. Len(todo') - 1 \in Places(todo)
        BY <1>1, <2>4 DEF Places
      <3>2. Head(todo').verb # "unit"
        BY <1>1, <2>1, <2>4, <3>1, UnreadVerbs
      <3>3. QED BY <1>1, <3>2, ReadyPlan DEF Shaped
    <2>10. Clearing' => Verb = "live"
      <3>1. ASSUME Verb = "phase", Len(todo') <= 7 PROVE FALSE
        <4>1. Len(todo) - 1 \in Places(todo) /\ Head(todo) = FromEnd(todo, Len(todo) - 1)
          BY <1>1, <2>1, TailEnds DEF UnreadShape, Places
        <4>2. 7 \in Places(todo) /\ 7 >= Len(todo')
          BY <2>1, <3>1, <2>4 DEF UnreadShape, Places
        <4>3. FromEnd(todo, 7).verb = Verb
          BY <4>2, <2>4b
        <4>4. QED BY <2>1, <3>1, <4>3 DEF UnreadShape, Does
      <3>2. Clearing' => Len(todo') <= 7
        BY DEF Clearing, ClearShape
      <3>3. QED BY <2>2, <3>1, <3>2
    <2>11. QED BY <1>1, <1>6, <2>2, <2>4, <2>5, <2>8, <2>9, <2>10 DEF Shaped
  <1>5. CASE mode = "undoing" /\ ~Unread
    <2>1. Restoring
      BY <1>1, <1>2, <1>5 DEF Shaped, Preparing, Applying, Finishing
    <2>2. /\ todo' = AfterChild /\ mode' = "undoing" /\ blind' = blind
          /\ Verb # "verify" /\ (Verb # "live" \/ CopyFailsInTrap)
      BY <1>5 DEF Fails
    <2>3. RestoreShape(todo) /\ phase # "none"
      BY <2>1 DEF Restoring
    <2>4. FromEnd(todo, 7).verb # Verb /\ 7 \in Places(todo)
      BY <1>1, <2>2, <2>3 DEF RestoreShape, Checks, Places
    <2>5. /\ Ends(todo', todo) /\ todo' # <<>> /\ todo' \in Seq(Steps)
          /\ Len(todo') > 7 /\ Len(todo') < Len(todo)
          /\ Head(todo') = FromEnd(todo, Len(todo') - 1)
          /\ Head(todo').verb # Verb
          /\ \A d \in Places(todo) : d >= Len(todo') => FromEnd(todo, d).verb = Verb
      BY <1>1, <2>2, <2>4, AfterChildEnds
    <2>6. RestoreShape(todo')
      <3>1. Len(todo') >= 8
        BY <2>5
      <3>2. QED BY <1>1, <2>3, <2>5, <3>1, RestoreEnd
    <2>7. TypeOK'
      BY <1>1, <2>2, <2>5 DEF TypeOK
    <2>8. Restoring' /\ Recorded'
      BY <1>1, <2>2, <2>3, <2>6 DEF Restoring, Shaped, Recorded, Backup, Target
    <2>9. UnitReady'
      <3> DEFINE d == Len(todo') - 1
      <3>1. d \in 0..(Len(todo) - 2) /\ d + 1 \in Places(todo) /\ d + 1 >= Len(todo')
        BY <1>1, <2>5 DEF Places
      <3>2. FromEnd(todo, d + 1).verb = Verb
        BY <2>5, <3>1
      <3>3. ~Does(Head(todo'), "unit", {"remove", "enable"})
        BY <2>3, <2>5, <3>1, <3>2 DEF RestoreShape, Paired, Does
      <3>4. QED BY <1>1, <3>3 DEF Shaped, UnitReady, Does
    <2>10. QED BY <1>1, <2>1, <2>2, <2>5, <2>7, <2>8, <2>9 DEF Shaped
  <1>7. QED BY <1>3, <1>4, <1>5, <1>6 DEF TypeOK
-----------------------------------------------------------------------------
(* What happens beside the steps.                                          *)

\* The settings stay, and the command goes on or is gone.
Kept ==
  /\ UNCHANGED <<live, phase, files, proxy, mode, blind>>
  /\ unit'.installed = unit.installed /\ unit'.enabled = unit.enabled
  /\ todo' = todo \/ todo' = <<>>

LEMMA Beside ==
  ASSUME TypeOK,
         \/ Dies \/ Killed \/ RunnerServes \/ RuntimeEnds \/ OperatorStartsUnit \/ HostReboots
         \/ UNCHANGED vars
  PROVE  TypeOK' /\ Kept
  <1>1. /\ unit \in [installed : BOOLEAN, enabled : BOOLEAN, active : BOOLEAN]
        /\ <<>> \in Seq(Steps)
    BY DEF TypeOK
  <1>2. CASE Dies
    BY <1>1, <1>2 DEF Dies, TypeOK, Kept
  <1>3. CASE Killed
    BY <1>1, <1>3 DEF Killed, TypeOK, Kept
  <1>4. CASE RunnerServes
    BY <1>1, <1>4 DEF RunnerServes, TypeOK, Kept
  <1>5. CASE RuntimeEnds
    <2>1. PICK active \in {FALSE, unit.active} : unit' = [unit EXCEPT !.active = active]
      BY <1>5 DEF RuntimeEnds
    <2>2. active \in BOOLEAN
      BY <1>1, <2>1
    <2>3. /\ unit' \in [installed : BOOLEAN, enabled : BOOLEAN, active : BOOLEAN]
          /\ unit'.installed = unit.installed /\ unit'.enabled = unit.enabled
      BY <1>1, <2>1, <2>2
    <2>4. QED BY <1>5, <2>3 DEF RuntimeEnds, TypeOK, Kept
  <1>6. CASE OperatorStartsUnit
    BY <1>1, <1>6 DEF OperatorStartsUnit, TypeOK, Kept
  <1>7. CASE HostReboots
    <2>1. /\ unit' \in [installed : BOOLEAN, enabled : BOOLEAN, active : BOOLEAN]
          /\ unit'.installed = unit.installed /\ unit'.enabled = unit.enabled
      BY <1>1, <1>7 DEF HostReboots
    <2>2. QED BY <1>1, <1>7, <2>1 DEF HostReboots, TypeOK, Kept
  <1>8. CASE UNCHANGED vars
    BY <1>1, <1>8 DEF vars, TypeOK, Kept
  <1>9. QED BY <1>2, <1>3, <1>4, <1>5, <1>6, <1>7, <1>8

LEMMA KeptShaped ==
  ASSUME Shaped, Kept
  PROVE  /\ Shaped'
         /\ todo' = <<>> \/ /\ Preparing' <=> Preparing
                            /\ Restoring' <=> Restoring
                            /\ Clearing' <=> Clearing
  <1>1. Recorded'
    BY DEF Shaped, Recorded, Kept, Backup, Target
  <1>2. UnitReady'
    BY DEF Shaped, UnitReady, Kept
  <1>3. CASE todo' = <<>>
    BY <1>1, <1>2, <1>3, EmptyShapes DEF Shaped, Clearing
  <1>4. CASE todo' = todo
    <2>1. Preparing' <=> Preparing
      BY <1>4 DEF Preparing, Kept, Backup, Target
    <2>2. Applying' <=> Applying
      BY <1>4 DEF Applying, Kept
    <2>3. Restoring' <=> Restoring
      BY <1>4 DEF Restoring, Kept
    <2>4. Finishing' <=> Finishing
      BY <1>4 DEF Finishing, Kept, Agrees, Target, Verb
    <2>5. Clearing' <=> Clearing
      BY <1>4 DEF Clearing, Kept
    <2>6. Unread' <=> Unread
      BY <1>4 DEF Unread, Kept
    <2>7. QED BY <1>1, <1>2, <2>1, <2>2, <2>3, <2>4, <2>5, <2>6 DEF Shaped
  <1>5. QED BY <1>3, <1>4 DEF Kept

\* Every step keeps the types and the shape.
LEMMA ShapedStep ==
  ASSUME TypeOK, Shaped, [Next]_vars
  PROVE  TypeOK' /\ Shaped'
  <1>1. CASE Commands
    BY <1>1, CommandsShaped
  <1>2. CASE Proceed
    BY <1>2, ProceedShaped
  <1>3. CASE Fails
    BY <1>3, FailsShaped
  <1>4. CASE \/ Dies \/ Killed \/ RunnerServes \/ RuntimeEnds \/ OperatorStartsUnit
             \/ HostReboots \/ UNCHANGED vars
    BY <1>4, Beside, KeptShaped
  <1>5. QED BY <1>1, <1>2, <1>3, <1>4 DEF Next
-----------------------------------------------------------------------------
(* A deferred transaction stays quiet.                                     *)

AllQuiet(s) == \A d \in Places(s) : QuietStep(FromEnd(s, d))

\* What is decided outside the transaction's steps is untouched as before.
LEMMA UntouchedKept ==
  ASSUME files' = files
  PROVE  Untouched' = Untouched /\ Backup' = Backup /\ Target' = Target
  BY DEF Untouched, Starts, Backup, Target

LEMMA QuietPlaces ==
  ASSUME NEW s \in Seq(Steps), FinishShape(s) \/ ClearShape(s) \/ s = <<>>
  PROVE  AllQuiet(s)
  <1>1. ASSUME NEW d \in Places(s)
        PROVE  FromEnd(s, d).verb \in {"clear", "cleanup", "verify", "boot", "phase"}
    <2>1. s # <<>>
      BY DEF Places
    <2>2. CASE FinishShape(s)
      BY <2>2, FinishVerbs
    <2>3. CASE ClearShape(s)
      <3> DEFINE n == Len(s)
      <3>1. n <= 7 /\ n \in Nat /\ d \in 0..(n - 1)
        BY <2>3 DEF ClearShape, Places
      <3> HIDE DEF n
      <3>2. d <= 6
        BY <3>1
      <3>3. QED BY <2>3, <3>2, ClearTyped DEF ClearShape, ClearVerbs
    <2>4. QED BY <2>1, <2>2, <2>3
  <1>2. QED BY <1>1 DEF AllQuiet, QuietStep

LEMMA QuietEnd ==
  ASSUME NEW s, NEW t, Ends(t, s), Len(s) \in Nat, AllQuiet(s)
  PROVE  AllQuiet(t)
  <1>1. \A d \in Places(t) : d \in Places(s) /\ FromEnd(t, d) = FromEnd(s, d)
    BY DEF Ends, Places
  <1>2. QED BY <1>1 DEF AllQuiet

\* Whether a step is quiet depends on the backup alone.
LEMMA QuietNext ==
  ASSUME files' = files \/ todo' = <<>>, AllQuiet(todo')
  PROVE  AllQuiet(todo)'
  <1>1. CASE files' = files
    BY <1>1 DEF AllQuiet, QuietStep, Backup
  <1>2. CASE todo' = <<>>
    BY <1>2 DEF AllQuiet, Places
  <1>3. QED BY <1>1, <1>2

LEMMA ProceedQuiet ==
  ASSUME TypeOK, Shaped, Quiet, Proceed, phase' # "none", Untouched'
  PROVE  /\ files' = files \/ todo' = <<>>
         /\ AllQuiet(todo') /\ (Backup'.service \/ ~unit'.installed)
  <1>1. /\ todo \in Seq(Steps) /\ todo # <<>> /\ Ends(todo', todo) /\ Len(todo) \in Nat
        /\ Head(todo) = FromEnd(todo, Len(todo) - 1) /\ Len(todo) - 1 \in Places(todo)
    BY Leaving, Frames DEF Places
  <1>2. CASE Preparing
    <2>1. Verb = "phase" /\ Len(todo) = 1
      <3>1. phase = "none" /\ PrepareShape(todo)
        BY <1>2 DEF Preparing
      <3>2. Verb \in {"phase", "clear"}
        BY <3>1, Frames
      <3> DEFINE d == Len(todo) - 1
      <3>3. /\ d \in 0..7
            /\ d = 7 => Verb = "backup"
            /\ d = 6 => Verb = "target" /\ Arg \in Manifest
            /\ d \in {4, 5} => Verb = "digest"
            /\ d = 3 => Verb = "start"
            /\ d = 2 => Verb = "active"
            /\ d = 1 => Verb = "running"
            /\ d = 0 => Verb = "phase" /\ Arg = "preparing"
        BY <1>1, <3>1, PreparingHead
      <3> HIDE DEF d
      <3>4. d = 0
        BY <3>2, <3>3
      <3>5. Verb = "phase"
        BY <3>3, <3>4
      <3>6. Len(todo) = 1
        BY <1>1, <3>4 DEF d
      <3>7. QED BY <3>5, <3>6
    <2>2. todo' = <<>>
      BY <2>1, Leaving
    <2>3. Backup' = live /\ unit' = unit
      <3>1. Len(todo) <= 7
        BY <2>1
      <3>2. Backup = live /\ files' = files /\ unit' = unit
        BY <1>2, <2>1, <3>1, Frames DEF Preparing, Saves
      <3>3. QED BY <3>2, UntouchedKept
    <2>4. AllQuiet(todo')
      <3>1. todo' \in Seq(Steps)
        BY Leaving
      <3>2. QED BY <2>2, <3>1, QuietPlaces
    <2>5. unit.installed = live.service
      BY <1>2 DEF Preparing
    <2>6. QED BY <2>2, <2>3, <2>4, <2>5
  <1>3. CASE Clearing
    BY <1>3, ClearingStep
  <1>4. CASE Applying \/ Restoring \/ Unread \/ Finishing
    <2>1. files' = files /\ phase # "none"
      BY <1>4, ApplyingStep, RestoringStep, UnreadStep, FinishingStep
         DEF Shaped, Applying, Restoring, Unread, Finishing
    <2>2. Untouched /\ Backup' = Backup
      BY <2>1, UntouchedKept
    <2>3. AllQuiet(todo) /\ (Backup.service \/ ~unit.installed)
      BY <2>1, <2>2 DEF Quiet, AllQuiet
    <2>4. AllQuiet(todo')
      BY <1>1, <2>3, QuietEnd
    <2>5. ~Backup.service => unit'.installed = unit.installed
      <3>1. CASE Verb = "unit"
        BY <1>1, <2>3, <3>1 DEF AllQuiet, QuietStep, Verb
      <3>2. CASE Verb \in {"boot", "halt"}
        BY <3>2, Doings DEF TypeOK
      <3>3. QED BY <3>1, <3>2, Frames
    <2>6. QED BY <2>1, <2>2, <2>3, <2>4, <2>5
  <1>5. QED BY <1>2, <1>3, <1>4 DEF Shaped

LEMMA PlansQuiet ==
  ASSUME TypeOK, Shaped, Quiet, phase # "none", Untouched
  PROVE  /\ AllQuiet(RestoreSteps) /\ AllQuiet(RestoreUnread) /\ AllQuiet(ApplySteps)
         /\ AllQuiet(todo) /\ (Backup.service \/ ~unit.installed)
  <1>1. Backup \in Manifest /\ Target \in Manifest
    BY DEF Shaped, Recorded
  <1>2. AllQuiet(todo) /\ (Backup.service \/ ~unit.installed)
    BY DEF Quiet, AllQuiet
  <1>3. AllQuiet(RestoreSteps)
    BY <1>1, <1>2, RestorePlan DEF AllQuiet
  <1>4. AllQuiet(ApplySteps)
    BY <1>1, <1>2, ApplyPlan DEF AllQuiet
  <1>5. AllQuiet(RestoreUnread)
    <2>1. /\ RestoreUnread \in Seq(Steps) /\ UnreadShape(RestoreUnread)
      BY UnreadPlan
    <2>2. QED BY <2>1, UnreadVerbs DEF AllQuiet, QuietStep
  <1>6. QED BY <1>2, <1>3, <1>4, <1>5

LEMMA StaysQuiet ==
  ASSUME TypeOK, Shaped, Quiet, [Next]_vars
  PROVE  Quiet'
  <1> SUFFICES ASSUME phase' # "none", Untouched'
               PROVE  /\ files' = files \/ todo' = <<>>
                      /\ AllQuiet(todo') /\ (Backup'.service \/ ~unit'.installed)
    <2>1. (phase' # "none" /\ Untouched') =>
            AllQuiet(todo)' /\ (Backup.service \/ ~unit.installed)'
      BY QuietNext
    <2>2. QED BY <2>1, Zenon DEF Quiet, AllQuiet
  <1>0. TypeOK' /\ <<>> \in Seq(Steps)
    BY ShapedStep
  <1>1. ASSUME phase' = phase, files' = files, unit'.installed = unit.installed
        PROVE  /\ phase # "none" /\ Untouched
               /\ AllQuiet(RestoreSteps) /\ AllQuiet(RestoreUnread) /\ AllQuiet(ApplySteps)
               /\ AllQuiet(todo)
               /\ Backup'.service \/ ~unit'.installed
    BY <1>1, UntouchedKept, PlansQuiet
  <1>2. CASE Commands
    <2>1. /\ todo' \in Seq(Steps)
          /\ UNCHANGED <<live, phase, files, proxy, unit, container, config>>
          /\ \/ phase = "none" /\ Preparing'
             \/ Apply /\ Applying'
             \/ phase # "none" /\ todo' = RestoreSteps /\ Restoring'
             \/ phase # "none" /\ todo' = RestoreUnread
             \/ phase \in {"resources-applied", "committing"} /\ Finishing'
             \/ /\ phase = "preparing" /\ live = Backup /\ todo' = ClearSteps
                /\ Clearing' /\ Len(todo') = 7
      BY <1>0, <1>2, CommandsShaped DEF TypeOK
    <2>2. /\ phase # "none" /\ AllQuiet(RestoreSteps) /\ AllQuiet(ApplySteps)
          /\ AllQuiet(RestoreUnread)
          /\ Backup'.service \/ ~unit'.installed
      BY <1>1, <2>1
    <2>3. CASE Apply
      BY <2>2, <2>3 DEF Apply, Command, Begins, ApplySteps
    <2>4. CASE Finishing' \/ Clearing'
      BY <2>1, <2>2, <2>4, QuietPlaces DEF Finishing, Clearing
    <2>5. QED BY <2>1, <2>2, <2>3, <2>4
  <1>3. CASE Proceed
    BY <1>3, ProceedQuiet
  <1>4. CASE Fails
    <2>1. /\ UNCHANGED <<live, phase, files, proxy, unit, container, config>>
          /\ \/ todo' = <<>>
             \/ todo' \in {RestoreSteps, RestoreUnread}
             \/ Ends(todo', todo)
      BY <1>4, FailsShaped
    <2>2. /\ AllQuiet(RestoreSteps) /\ AllQuiet(RestoreUnread) /\ AllQuiet(todo)
          /\ Backup'.service \/ ~unit'.installed
      BY <1>1, <2>1
    <2>3. Len(todo) \in Nat
      BY DEF TypeOK
    <2>4. AllQuiet(<<>>)
      BY <1>0, QuietPlaces
    <2>5. QED BY <2>1, <2>2, <2>3, <2>4, QuietEnd
  <1>5. CASE \/ Dies \/ Killed \/ RunnerServes \/ RuntimeEnds \/ OperatorStartsUnit
             \/ HostReboots \/ UNCHANGED vars
    <2>1. /\ phase' = phase /\ unit'.installed = unit.installed
          /\ todo' = todo \/ todo' = <<>>
      BY <1>5, Beside DEF Kept
    <2>2. files' = files
      BY <1>5, Beside DEF Kept
    <2>3. AllQuiet(todo) /\ (Backup'.service \/ ~unit'.installed)
      BY <1>1, <2>1, <2>2
    <2>4. AllQuiet(<<>>)
      BY <1>0, QuietPlaces
    <2>5. QED BY <2>1, <2>2, <2>3, <2>4
  <1>6. QED BY <1>2, <1>3, <1>4, <1>5 DEF Next
-----------------------------------------------------------------------------
(* The steps of a transaction agree with one another.                      *)

AllHarmless(s) == \A d \in Places(s) : HarmlessStep(FromEnd(s, d))

LEMMA HarmlessNext ==
  ASSUME files' = files \/ todo' = <<>>, AllHarmless(todo')
  PROVE  AllHarmless(todo)'
  <1>1. CASE files' = files
    BY <1>1 DEF AllHarmless, HarmlessStep, Backup
  <1>2. CASE todo' = <<>>
    BY <1>2 DEF AllHarmless, Places
  <1>3. QED BY <1>1, <1>2

LEMMA HarmlessEnd ==
  ASSUME NEW s, NEW t, Ends(t, s), Len(s) \in Nat, AllHarmless(s)
  PROVE  AllHarmless(t)
  <1>1. \A d \in Places(t) : d \in Places(s) /\ FromEnd(t, d) = FromEnd(s, d)
    BY DEF Ends, Places
  <1>2. QED BY <1>1 DEF AllHarmless

\* The steps of a restoration, and of none other, are counted twice.
LEMMA Apart ==
  ASSUME todo \in Seq(Steps)
  PROVE  /\ Restoring => ~Clearing
         /\ (Preparing \/ Applying \/ Finishing) => ~Restoring /\ ~(Clearing /\ Len(todo) = 7)
         /\ todo = <<>> => ~Restoring
  <1> DEFINE n == Len(todo)
  <1>1. n \in Nat
    OBVIOUS
  <1>2. Restoring => n >= 8 /\ todo # <<>> /\ FromEnd(todo, 7).verb = "verify" /\ mode # "guarded"
                     /\ phase # "none"
    BY DEF Restoring, RestoreShape, Checks
  <1>3. Clearing => n <= 7 /\ (todo # <<>> => mode # "guarded") /\ (n = 7 => phase # "none")
    BY DEF Clearing, ClearShape
  <1>4. n = 7 => todo # <<>>
    OBVIOUS
  <1>5. Preparing => phase = "none"
    BY DEF Preparing
  <1>6. Applying => mode = "guarded"
    BY DEF Applying
  <1>7. Finishing => n >= 8 /\ FromEnd(todo, 7).verb = "cleanup"
    BY DEF Finishing, FinishShape
  <1> HIDE DEF n
  <1>8. n >= 8 => n # 7 /\ ~(n <= 7)
    BY <1>1
  <1>9. QED BY <1>2, <1>3, <1>4, <1>5, <1>6, <1>7, <1>8 DEF n

\* A step that keeps to the backup's proxy and unit leaves them in agreement with it.
LEMMA HarmlessAgrees ==
  ASSUME TypeOK, Proceed, Restoring, Recorded, UnitReady, Agrees(Backup), HarmlessStep(Head(todo))
  PROVE  Agrees(Backup)'
  <1>1. /\ files' = files /\ live' = Backup /\ Backup' = Backup
    BY RestoringStep, UntouchedKept DEF Agrees
  <1>2. proxy' = Backup.api \/ (Backup.api = "local" /\ proxy' = "partial")
    <2>1. Verb = "proxy" => proxy' = Backup.api
      BY Doings DEF HarmlessStep, Verb, Arg
    <2>2. QED BY <2>1, Frames DEF Agrees
  <1>3. unit'.installed = Backup.service /\ (Backup.service => unit'.enabled)
    <2>0. /\ Verb = "boot" => Arg = TRUE
          /\ Verb = "unit" => Arg # "disable"
          /\ Backup.service \in BOOLEAN
      BY RestoringHead, ManifestAssumption DEF TypeOK, Restoring, Recorded
    <2>1. CASE Verb = "unit"
      <3>1. Backup.service /\ Arg \notin {"disable_now", "remove", "disable"}
        BY <2>0, <2>1 DEF HarmlessStep, Verb, Arg
      <3>2. unit.installed = TRUE /\ unit.enabled = TRUE
        BY <3>1 DEF Agrees, TypeOK
      <3>3. unit'.installed = TRUE /\ unit'.enabled = TRUE
        BY <2>1, <3>1, <3>2, Doings, UnitChange
      <3>4. QED BY <2>0, <3>1, <3>3
    <2>2. CASE Verb = "boot"
      <3> DEFINE yes == Arg
      <3>1. yes = TRUE /\ unit' = [unit EXCEPT !.enabled = yes]
        BY <2>0, <2>2, Doings, Zenon
      <3>2. unit'.installed = unit.installed /\ unit'.enabled = yes
        BY <3>1 DEF TypeOK
      <3>3. QED BY <3>1, <3>2 DEF Agrees
    <2>3. CASE Verb = "halt"
      BY <2>3, Doings DEF Agrees, TypeOK
    <2>4. QED BY <2>1, <2>2, <2>3, Frames DEF Agrees
  <1>4. QED BY <1>1, <1>2, <1>3 DEF Agrees

LEMMA RestoringSettled ==
  ASSUME TypeOK, Shaped, Settled, Restoring, Proceed
  PROVE  Settled'
  <1>1. /\ Recorded' /\ (Restoring' \/ Clearing')
        /\ files' = files /\ phase' # "none"
        /\ Verb # "phase" => phase' = phase
        /\ Verb = "phase" => phase' = "rolling-back"
        /\ Verb # "live" => live' = live
        /\ Verb = "live" => live' = Backup
        /\ Clearing' => Verb = "verify" /\ Arg.of = "backup" /\ Arg.enabled = TRUE
        /\ Backup' = Backup /\ blind' = blind
    BY RestoringStep, UntouchedKept, Frames DEF Shaped
  <1>2. /\ todo \in Seq(Steps) /\ todo # <<>> /\ Ends(todo', todo) /\ Len(todo) \in Nat
        /\ Len(todo') = Len(todo) - 1
        /\ Head(todo) = FromEnd(todo, Len(todo) - 1) /\ Len(todo) - 1 \in Places(todo)
    BY Leaving, Frames DEF Places
  <1>3. RestoreShape(todo) /\ (live = Backup \/ Has(todo, "live"))
    BY DEF Settled, Restoring
  <1>4. live' = Backup' \/ Has(todo, "live")'
    <2>1. ASSUME Has(todo, "live"), Verb # "live" PROVE Has(todo', "live")
      <3>1. PICK e \in Places(todo) : FromEnd(todo, e).verb = "live"
        BY <2>1 DEF Has
      <3>2. e # Len(todo) - 1
        BY <1>2, <2>1, <3>1 DEF Verb
      <3>3. e \in Places(todo')
        BY <1>2, <3>2 DEF Places
      <3>4. QED BY <1>2, <3>1, <3>3 DEF Has, Ends
    <2>2. Has(todo', "live") => Has(todo, "live")'
      BY DEF Has
    <2>3. QED BY <1>1, <1>3, <2>1, <2>2
  <1>5. ASSUME Clearing' PROVE Agrees(Backup)'
    <2>1. Verb = "verify" /\ Arg.of = "backup" /\ Arg.enabled = TRUE
      BY <1>1, <1>5
    <2>2. ~Has(todo, "live")
      BY <1>2, <1>3, <2>1, PutBackFirst
    <2>3. live = Backup /\ Backup \in Manifest /\ Holds(Arg)
      BY <1>3, <2>1, <2>2, Doings DEF Shaped, Recorded, Restoring
    <2>4. Agrees(Backup)
      BY <2>1, <2>3, CheckedAgrees DEF Backup
    <2>5. proxy' = proxy /\ unit' = unit /\ live' = live
      BY <2>1, Frames
    <2>6. QED BY <1>1, <2>4, <2>5 DEF Agrees
  <1>6. ASSUME phase' = "preparing", ~blind
        PROVE  Agrees(Backup)' /\ AllHarmless(todo)'
    <2>1. phase = "preparing"
      BY <1>1, <1>6
    <2>2. Agrees(Backup) /\ AllHarmless(todo)
      BY <1>6, <2>1 DEF Settled, AllHarmless
    <2>3. Agrees(Backup)'
      BY <1>2, <2>2, HarmlessAgrees DEF AllHarmless, Shaped
    <2>4. AllHarmless(todo')
      BY <1>2, <2>2, HarmlessEnd
    <2>5. QED BY <1>1, <2>3, <2>4, HarmlessNext
  <1>7. QED BY <1>1, <1>4, <1>5, <1>6, Zenon DEF Settled, AllHarmless

LEMMA PreparingSettled ==
  ASSUME TypeOK, Shaped, Settled, Preparing, Proceed
  PROVE  Settled' /\ (phase' # "none" => live' = Backup')
  <1>1. PrepareShape(todo) /\ phase = "none" /\ (~blind => Agrees(live))
    BY DEF Preparing, Settled
  <1>2. todo \in Seq(Steps) /\ Len(todo) \in Nat \ {0} /\ todo' \in Seq(Steps)
    BY Leaving
  <1> DEFINE d == Len(todo) - 1
  <1>3. /\ d \in 0..7
        /\ d = 7 => Verb = "backup"
        /\ d = 6 => Verb = "target" /\ Arg \in Manifest
        /\ d \in {4, 5} => Verb = "digest"
        /\ d = 3 => Verb = "start"
        /\ d = 2 => Verb = "active"
        /\ d = 1 => Verb = "running"
        /\ d = 0 => Verb = "phase" /\ Arg = "preparing"
    BY <1>1, <1>2, PreparingHead
  <1> HIDE DEF d
  <1>4. Verb \in Saves \cup {"phase"} /\ (Verb = "phase" => d = 0 /\ Arg = "preparing")
    BY <1>3 DEF Saves
  <1>5. live' = live /\ proxy' = proxy /\ unit' = unit /\ blind' = blind
    BY <1>4, Frames DEF Saves
  <1>6. ~blind' => Agrees(live)'
    BY <1>1, <1>5 DEF Agrees
  <1>7. CASE Verb = "phase"
    <2>1. phase' = "preparing" /\ todo' = <<>> /\ files' = files
      <3>1. Len(todo) = 1
        BY <1>2, <1>4, <1>7 DEF d
      <3>2. QED BY <1>4, <1>7, <3>1, Leaving, Frames, Doings DEF Saves
    <2>2. Backup' = live'
      <3>0. Len(todo) = 1
        BY <1>2, <1>4, <1>7 DEF d
      <3>1. Len(todo) <= 7
        BY <3>0
      <3>2. QED BY <1>5, <2>1, <3>1, UntouchedKept DEF Preparing
    <2>3. ~blind' => Agrees(Backup)'
      BY <1>6, <2>2 DEF Agrees
    <2>4. ~Restoring' /\ ~(Clearing' /\ Len(todo') = 7)
      BY <1>2, <2>1, Apart DEF Restoring, RestoreShape
    <2>5. phase' # "none"
      BY <2>1
    <2>6. QED BY <2>2, <2>3, <2>4, <2>5, Zenon DEF Settled
  <1>8. CASE Verb # "phase"
    <2>1. phase' = "none"
      BY <1>1, <1>4, <1>8, Frames DEF Saves
    <2>2. ~Restoring' /\ ~(Clearing' /\ Len(todo') = 7) /\ phase' # "preparing"
      BY <2>1 DEF Restoring, Clearing
    <2>3. QED BY <1>6, <2>1, <2>2, Zenon DEF Settled
  <1>9. QED BY <1>7, <1>8

\* After a restoration without the target nothing but the manifest is promised.
LEMMA BlindSettled ==
  ASSUME blind', ~Restoring', (Clearing' /\ Len(todo') = 7) => live' = Backup'
  PROVE  Settled'
  BY Zenon DEF Settled

LEMMA ApartNext ==
  ASSUME todo' \in Seq(Steps), Unread' \/ Clearing'
  PROVE  ~Restoring' /\ (Unread' => ~Clearing')
  <1> DEFINE n == Len(todo')
  <1>1. n \in Nat
    OBVIOUS
  <1>2. Restoring' => n >= 8 /\ FromEnd(todo', 7).verb = "verify"
    BY DEF Restoring, RestoreShape, Checks
  <1>3. Unread' => (n = 8 \/ n = 9) /\ FromEnd(todo', 7).verb = "live"
    BY DEF Unread, UnreadShape, Does
  <1>4. Clearing' => n <= 7
    BY DEF Clearing, ClearShape
  <1> HIDE DEF n
  <1>5. (n <= 7 => ~(n >= 8)) /\ (n = 8 \/ n = 9 => ~(n <= 7))
    BY <1>1
  <1>6. QED BY <1>2, <1>3, <1>4, <1>5

LEMMA ProceedSettled ==
  ASSUME TypeOK, Shaped, Settled, Proceed
  PROVE  Settled'
  <1>1. CASE Applying
    <2>1. phase' \notin {"none", "preparing"} /\ mode' = "guarded"
      BY <1>1, ApplyingStep DEF Shaped
    <2>2. Len(todo') = 7 => todo' # <<>>
      OBVIOUS
    <2>3. ~Restoring' /\ ~(Clearing' /\ Len(todo') = 7)
      BY <2>1, <2>2 DEF Restoring, Clearing
    <2>4. phase' # "none" /\ phase' # "preparing"
      BY <2>1
    <2>5. QED BY <2>3, <2>4, Zenon DEF Settled
  <1>2. CASE Finishing
    <2>1. /\ files' = files /\ phase' # "none" /\ phase' # "preparing" /\ live' = live
          /\ Finishing' \/ Clearing'
          /\ Clearing' => Agrees(Target) /\ proxy' = proxy /\ unit' = unit
          /\ todo' \in Seq(Steps)
      BY <1>2, FinishingStep, Leaving DEF Shaped
    <2>2. ~Restoring'
      <3>1. /\ Restoring' => ~Clearing'
            /\ Finishing' => ~Restoring'
        <4> DEFINE n == Len(todo')
        <4>1. Restoring' => n >= 8 /\ FromEnd(todo', 7).verb = "verify"
          BY DEF Restoring, RestoreShape, Checks
        <4>2. Clearing' => n <= 7
          BY DEF Clearing, ClearShape
        <4>3. Finishing' => FromEnd(todo', 7).verb = "cleanup"
          BY DEF Finishing, FinishShape
        <4>4. n \in Nat
          BY <2>1
        <4> HIDE DEF n
        <4>5. n <= 7 => ~(n >= 8)
          BY <4>4
        <4>6. QED BY <4>1, <4>2, <4>3, <4>5
      <3>2. QED BY <2>1, <3>1
    <2>3. Clearing' => Agrees(Target)'
      BY <2>1, UntouchedKept DEF Agrees
    <2>4. QED BY <2>1, <2>2, <2>3, Zenon DEF Settled
  <1>3. CASE Clearing
    <2>1. Clearing' /\ phase' = "none"
      BY <1>3, ClearingStep
    <2>2. todo \in Seq(Steps) /\ todo # <<>>
      BY Frames DEF TypeOK
    <2>3. Verb = "clear" /\ Len(todo) \in 1..7
      BY <1>3, <2>2, ClearingHead
    <2>4. ~blind => Agrees(live)
      <3>1. Len(todo) \in 1..6 \/ Len(todo) = 7
        BY <2>3
      <3>2. Len(todo) \in 1..6 => phase = "none"
        BY <1>3 DEF Clearing
      <3>3. Len(todo) = 7 => Agrees(Backup) \/ Agrees(Target) \/ blind
        BY <1>3 DEF Settled
      <3>4. Agrees(Backup) \/ Agrees(Target) => Agrees(live)
        BY DEF Agrees
      <3>5. QED BY <3>1, <3>2, <3>3, <3>4 DEF Settled
    <2>5. live' = live /\ proxy' = proxy /\ unit' = unit /\ blind' = blind
      BY <2>3, Frames
    <2>6. ~blind' => Agrees(live)'
      BY <2>4, <2>5 DEF Agrees
    <2>7. ~Restoring' /\ ~(Clearing' /\ Len(todo') = 7) /\ phase' # "preparing"
      BY <2>1 DEF Restoring, Clearing
    <2>8. QED BY <2>6, <2>7, Zenon DEF Settled
  <1>4. CASE Unread
    <2>1. /\ blind' /\ (Unread' \/ Clearing') /\ todo' \in Seq(Steps)
          /\ Clearing' => live' = Backup'
      BY <1>4, UnreadStep, UntouchedKept, Frames, Leaving DEF Shaped, Unread
    <2>2. ~Restoring'
      BY <2>1, ApartNext
    <2>3. QED BY <2>1, <2>2, BlindSettled
  <1>5. QED BY <1>1, <1>2, <1>3, <1>4, RestoringSettled, PreparingSettled DEF Shaped

\* A restoration begins with everything to do; while the phase is preparing it has
\* nothing to change.
LEMMA PlannedSettled ==
  ASSUME TypeOK, Shaped, Settled, phase # "none", todo' = RestoreSteps, Restoring',
         todo' \in Seq(Steps),
         UNCHANGED <<live, phase, files, proxy, unit, container, config, blind>>
  PROVE  Settled'
  <1>1. Backup \in Manifest /\ Target \in Manifest
    BY DEF Shaped, Recorded
  <1>2. Has(todo', "live")
    BY <1>1, RestorePlan
  <1>3. Has(todo, "live")'
    BY <1>2 DEF Has
  <1>4. ~Clearing'
    <2> DEFINE n == Len(todo')
    <2>1. n \in Nat /\ n >= 8 /\ (Clearing' => n <= 7)
      BY DEF Restoring, RestoreShape, Clearing, ClearShape
    <2> HIDE DEF n
    <2>2. QED BY <2>1
  <1>5. ASSUME phase' = "preparing", ~blind' PROVE Agrees(Backup)' /\ AllHarmless(todo)'
    <2>1. Agrees(Backup)
      BY <1>5 DEF Settled
    <2>2. Agrees(Backup)'
      BY <2>1 DEF Agrees, Backup
    <2>3. Serves(Backup) /\ unit.installed = Backup.service
      BY <2>1 DEF Agrees, Serves
    <2>4. AllHarmless(todo')
      BY <1>1, <2>3, RestorePlan DEF AllHarmless
    <2>5. QED BY <2>2, <2>4, HarmlessNext
  <1>6. QED BY <1>3, <1>4, <1>5, Zenon DEF Settled, AllHarmless

\* No restoration and no clearing begins, and nothing else changes.
LEMMA SameSettled ==
  ASSUME Settled, UNCHANGED <<live, phase, files, proxy, blind>>,
         unit'.installed = unit.installed, unit'.enabled = unit.enabled,
         ~Restoring', ~(Clearing' /\ Len(todo') = 7)
  PROVE  Settled'
  <1>1. (phase = "none" /\ ~blind) => Agrees(live)'
    BY DEF Settled, Agrees
  <1>2. (phase = "preparing" /\ ~blind) => Agrees(Backup)'
    BY DEF Settled, Agrees, Backup
  <1>3. QED BY <1>1, <1>2, Zenon DEF Settled

LEMMA CommandsSettled ==
  ASSUME TypeOK, Shaped, Settled, Commands
  PROVE  Settled'
  <1>0. todo' \in Seq(Steps) /\ (Unread' \/ blind' = blind)
    BY CommandsShaped DEF TypeOK
  <1>u. CASE Unread'
    BY <1>0, <1>u, ApartNext, BlindSettled DEF Unread
  <1> SUFFICES ASSUME ~Unread' PROVE Settled'
    BY <1>u
  <1>1. /\ TypeOK' /\ UNCHANGED <<live, phase, files, proxy, unit, container, config, blind>>
        /\ \/ phase = "none" /\ Preparing'
           \/ Apply /\ Applying'
           \/ phase # "none" /\ todo' = RestoreSteps /\ Restoring'
           \/ phase \in {"resources-applied", "committing"} /\ Finishing'
           \/ /\ phase = "preparing" /\ live = Backup /\ todo' = ClearSteps
              /\ Clearing' /\ Len(todo') = 7
    BY CommandsShaped
  <1>2. todo' \in Seq(Steps)
    BY <1>1 DEF TypeOK
  <1>3. CASE Preparing' \/ Applying' \/ Finishing'
    <2> DEFINE n == Len(todo')
    <2>1. Preparing' => phase' = "none"
      BY DEF Preparing
    <2>2. Applying' => mode' = "guarded"
      BY DEF Applying
    <2>3. Finishing' => n >= 8 /\ FromEnd(todo', 7).verb = "cleanup"
      BY DEF Finishing, FinishShape
    <2>4. Restoring' => n >= 8 /\ FromEnd(todo', 7).verb = "verify" /\ mode' # "guarded"
                        /\ phase' # "none"
      BY DEF Restoring, RestoreShape, Checks
    <2>5. (Clearing' /\ n = 7) => mode' # "guarded" /\ phase' # "none"
      <3>1. n = 7 => todo' # <<>>
        BY <1>2
      <3>2. QED BY <3>1 DEF Clearing
    <2>6. n \in Nat
      BY <1>2
    <2> HIDE DEF n
    <2>7. n >= 8 => n # 7
      BY <2>6
    <2>8. ~Restoring' /\ ~(Clearing' /\ n = 7)
      BY <1>3, <2>1, <2>2, <2>3, <2>4, <2>5, <2>7
    <2>9. QED BY <1>1, <2>8, SameSettled DEF n
  <1>4. CASE phase # "none" /\ todo' = RestoreSteps /\ Restoring'
    BY <1>1, <1>2, <1>4, PlannedSettled
  <1>5. CASE phase = "preparing" /\ live = Backup /\ Clearing' /\ Len(todo') = 7
    <2>1. ~blind => Agrees(Backup)
      BY <1>5 DEF Settled
    <2>2. /\ ~blind' => Agrees(Backup)'
          /\ phase' # "none" /\ live' = Backup'
      BY <1>1, <1>5, <2>1 DEF Agrees, Backup
    <2>3. ~Restoring'
      BY <1>5 DEF Restoring, RestoreShape
    <2>4. blind' \in BOOLEAN
      BY <1>1 DEF TypeOK
    <2>5. QED BY <2>2, <2>3, <2>4, Zenon DEF Settled
  <1>6. QED BY <1>1, <1>3, <1>4, <1>5

LEMMA FailsSettled ==
  ASSUME TypeOK, Shaped, Settled, Fails, ~CopyFailsInTrap
  PROVE  Settled'
  <1>0. todo' \in Seq(Steps) /\ (Unread' \/ blind' = blind)
    BY FailsShaped DEF TypeOK
  <1>u. CASE Unread'
    BY <1>0, <1>u, ApartNext, BlindSettled DEF Unread
  <1> SUFFICES ASSUME ~Unread' PROVE Settled'
    BY <1>u
  <1>1. /\ TypeOK' /\ UNCHANGED <<live, phase, files, proxy, unit, container, config, blind>>
        /\ \/ todo' = <<>>
           \/ Applying /\ todo' = RestoreSteps /\ Restoring'
           \/ /\ Restoring /\ Restoring' /\ todo' = AfterChild /\ Ends(todo', todo)
              /\ Verb # "live" \/ CopyFailsInTrap
              /\ \A d \in Places(todo) : d >= Len(todo') => FromEnd(todo, d).verb = Verb
    BY FailsShaped
  <1>2. todo' \in Seq(Steps) /\ todo \in Seq(Steps) /\ Len(todo') \in Nat /\ Len(todo) \in Nat
    BY <1>1 DEF TypeOK
  <1>3. CASE todo' = <<>>
    <2>1. Len(todo') = 0
      BY <1>3
    <2>2. ~Restoring' /\ ~(Clearing' /\ Len(todo') = 7)
      BY <2>1 DEF Restoring, RestoreShape
    <2>3. QED BY <1>1, <2>2, SameSettled
  <1>4. CASE Applying /\ todo' = RestoreSteps /\ Restoring'
    <2>1. phase # "none"
      BY <1>4 DEF Applying
    <2>2. QED BY <1>1, <1>2, <1>4, <2>1, PlannedSettled
  <1>5. CASE /\ Restoring /\ Restoring' /\ Ends(todo', todo) /\ Verb # "live"
             /\ \A d \in Places(todo) : d >= Len(todo') => FromEnd(todo, d).verb = Verb
    <2>1. live' = Backup' \/ Has(todo, "live")'
      <3>1. ASSUME NEW e \in Places(todo), FromEnd(todo, e).verb = "live"
            PROVE  e \in Places(todo')
        BY <1>2, <1>5, <3>1 DEF Places
      <3>2. Has(todo, "live") => Has(todo', "live")
        BY <1>5, <3>1 DEF Has, Ends
      <3>3. Has(todo', "live") => Has(todo, "live")'
        BY DEF Has
      <3>4. live = Backup => live' = Backup'
        BY <1>1 DEF Backup
      <3>5. QED BY <1>5, <3>2, <3>3, <3>4 DEF Settled
    <2>2. ~Clearing'
      <3> DEFINE n == Len(todo')
      <3>1. n \in Nat /\ n >= 8 /\ (Clearing' => n <= 7)
        BY <1>2, <1>5 DEF Restoring, RestoreShape, Clearing, ClearShape
      <3> HIDE DEF n
      <3>2. QED BY <3>1
    <2>3. ASSUME phase' = "preparing", ~blind' PROVE Agrees(Backup)' /\ AllHarmless(todo)'
      <3>1. Agrees(Backup) /\ AllHarmless(todo)
        BY <1>1, <1>5, <2>3 DEF Settled, AllHarmless
      <3>2. Agrees(Backup)'
        BY <1>1, <3>1 DEF Agrees, Backup
      <3>3. AllHarmless(todo')
        BY <1>2, <1>5, <3>1, HarmlessEnd
      <3>4. QED BY <1>1, <3>2, <3>3, HarmlessNext
    <2>4. phase' # "none"
      BY <1>5 DEF Restoring
    <2>5. QED BY <2>1, <2>2, <2>3, <2>4, Zenon DEF Settled, AllHarmless
  <1>6. QED BY <1>1, <1>3, <1>4, <1>5

LEMMA KeptSettled ==
  ASSUME TypeOK, Shaped, Settled, Kept, files' = files
  PROVE  Settled'
  <1>1. /\ UNCHANGED <<live, phase, files, proxy, blind>>
        /\ unit'.installed = unit.installed /\ unit'.enabled = unit.enabled
    BY DEF Kept
  <1>2. CASE todo' = <<>>
    <2>1. Len(todo') = 0
      BY <1>2
    <2>2. ~Restoring' /\ ~(Clearing' /\ Len(todo') = 7)
      BY <2>1 DEF Restoring, RestoreShape
    <2>3. QED BY <1>1, <2>2, SameSettled
  <1>3. CASE todo' = todo
    <2>1. Restoring' = Restoring /\ Clearing' = Clearing
      BY <1>3 DEF Restoring, Clearing, Kept
    <2>3. /\ Agrees(Backup) => Agrees(Backup)'
          /\ Agrees(Target) => Agrees(Target)'
          /\ Agrees(live) => Agrees(live)'
      BY <1>1 DEF Agrees, Backup, Target
    <2>4. AllHarmless(todo) => AllHarmless(todo)'
      BY <1>3, HarmlessNext
    <2>5. /\ live = Backup => live' = Backup'
          /\ Has(todo, "live") => Has(todo, "live")'
      BY <1>1, <1>3 DEF Backup, Has
    <2>6. QED BY <1>1, <1>3, <2>1, <2>3, <2>4, <2>5 DEF Settled, AllHarmless
  <1>4. QED BY <1>2, <1>3 DEF Kept

LEMMA StaysSettled ==
  ASSUME TypeOK, Shaped, Settled, ~CopyFailsInTrap, [Next]_vars
  PROVE  Settled'
  <1>1. CASE \/ Dies \/ Killed \/ RunnerServes \/ RuntimeEnds \/ OperatorStartsUnit
             \/ HostReboots \/ UNCHANGED vars
    BY <1>1, Beside, KeptSettled DEF Kept
  <1>2. QED BY <1>1, CommandsSettled, ProceedSettled, FailsSettled DEF Next
-----------------------------------------------------------------------------
(* The theorems.                                                           *)

LEMMA Starting ==
  ASSUME Init
  PROVE  SettingsInv /\ Settled
  <1>1. /\ live \in Manifest /\ phase = "none" /\ files = NoFiles /\ proxy = live.api
        /\ container \in {None, live} /\ todo = <<>> /\ mode = "plain" /\ blind = FALSE
        /\ config = (live.config = "managed")
    BY DEF Init
  <1>2. PICK active \in {FALSE, live.service} :
          unit = [installed |-> live.service, enabled |-> live.service, active |-> active]
    BY DEF Init
  <1>3. live.service \in BOOLEAN /\ active \in BOOLEAN
    BY <1>1, <1>2, ManifestAssumption
  <1>4. /\ unit \in [installed : BOOLEAN, enabled : BOOLEAN, active : BOOLEAN]
        /\ unit.installed = live.service /\ unit.enabled = live.service
    <2> DEFINE serves == live.service
    <2>1. /\ serves \in BOOLEAN
          /\ unit = [installed |-> serves, enabled |-> serves, active |-> active]
      BY <1>2, <1>3
    <2> HIDE DEF serves
    <2>2. /\ unit \in [installed : BOOLEAN, enabled : BOOLEAN, active : BOOLEAN]
          /\ unit.installed = serves /\ unit.enabled = serves
      BY <1>3, <2>1
    <2>3. QED BY <2>2 DEF serves
  <1>5. files \in FileTypes
    <2>1. FALSE \in BOOLEAN
      OBVIOUS
    <2>2. QED BY <1>1, <2>1 DEF NoFiles, FileTypes
  <1>6. TypeOK
    <2>1. proxy \in Accesses /\ phase \in Phases
      BY <1>1 DEF Accesses, Phases
    <2>2. config \in BOOLEAN
      BY <1>1
    <2>3. todo \in Seq(Steps)
      BY <1>1
    <2>4. QED BY <1>1, <1>4, <1>5, <2>1, <2>2, <2>3 DEF TypeOK, FileTypes
  <1>7. Clearing /\ UnitReady /\ Recorded
    BY <1>1, <1>4, EmptyShapes DEF Clearing, UnitReady, Recorded
  <1>8. Agrees(live)
    BY <1>1, <1>3, <1>4 DEF Agrees
  <1>9. Settled
    BY <1>1, <1>8 DEF Settled, Restoring
  <1>10. QED BY <1>1, <1>6, <1>7, <1>9 DEF SettingsInv, Shaped, Quiet

\* Whatever command of settings-transition.sh runs, however it fails or is killed, and
\* in whatever order they follow one another, what it has left is the end of one of the
\* six plans, with the files, the phase and the unit that this end needs: a unit is
\* not removed while it is enabled, and a restoration never lacks its backup.
THEOREM SettingsSafe == Spec => []SettingsInv
  <1>1. Init => SettingsInv
    BY Starting
  <1>2. SettingsInv /\ [Next]_vars => SettingsInv'
    BY ShapedStep, StaysQuiet DEF SettingsInv
  <1>3. QED BY <1>1, <1>2, PTL DEF Spec

\* Every artifact, unit state and pending step of the settings transaction has its type.
THEOREM TypeCorrect == Spec => []TypeOK
  <1>1. SettingsInv => TypeOK
    BY DEF SettingsInv
  <1>2. QED BY <1>1, SettingsSafe, PTL

\* Unless the copy of the backup fails in the trap, the restoration has put the manifest
\* back whenever it goes on to the units, and what is cleared or was never begun agrees;
\* where a restoration has gone on without the target, the manifest alone is promised.
THEOREM SettingsSettle ==
  ASSUME ~CopyFailsInTrap
  PROVE  Spec => [](SettingsInv /\ Settled)
  <1>1. Init => SettingsInv /\ Settled
    BY Starting
  <1>2. SettingsInv /\ Settled /\ [Next]_vars => (SettingsInv /\ Settled)'
    BY ShapedStep, StaysQuiet, StaysSettled DEF SettingsInv
  <1>3. QED BY <1>1, <1>2, PTL DEF Spec

\* A transaction whose restart is deferred and that keeps the unit as it is (--no-start)
\* stops and starts nothing, whichever of apply, commit, rollback, recover or the trap
\* is at work: restore_backup must then neither halt nor recreate the runtime.
THEOREM DeferralsAreQuiet == Spec => DeferredIsQuiet
  <1>1. ASSUME SettingsInv, Proceed, phase # "none", Untouched
        PROVE  UNCHANGED <<container, unit.active>>
    <2>1. todo \in Seq(Steps) /\ todo # <<>>
      BY <1>1, Frames DEF SettingsInv, TypeOK
    <2>2. Head(todo) = FromEnd(todo, Len(todo) - 1) /\ Len(todo) - 1 \in Places(todo)
      BY <2>1, TailEnds DEF Places
    <2>3. QuietStep(Head(todo))
      BY <1>1, <2>2 DEF SettingsInv, Quiet
    <2>4. /\ Verb \notin {"standalone", "halt"}
          /\ Verb = "unit" => Arg \in {"install", "enable", "disable"}
      BY <2>3 DEF QuietStep, Verb, Arg
    <2>5. CASE Verb = "unit"
      BY <1>1, <2>4, <2>5, Doings, UnitChange DEF SettingsInv
    <2>6. CASE Verb = "boot"
      BY <1>1, <2>6, Doings, Frames DEF SettingsInv, TypeOK
    <2>7. QED BY <1>1, <2>4, <2>5, <2>6, Frames
  <1>2. SettingsInv /\ [Next]_vars =>
          [Proceed /\ phase # "none" /\ Untouched => UNCHANGED <<container, unit.active>>]_vars
    BY <1>1
  <1>3. QED BY <1>2, SettingsSafe, PTL DEF Spec, DeferredIsQuiet

\* A step of apply does not expose the target: the manifest is only exchanged when the
\* unit has been disabled, and nothing in apply enables it.
LEMMA ApplyHides ==
  ASSUME TypeOK, Shaped, Applying, Proceed, Exposed'
  PROVE  Exposed
  <1>1. /\ files' = files /\ phase # "none"
        /\ Verb = "boot" => Arg = FALSE
        /\ Verb = "unit" => Arg # "enable"
    BY ApplyingStep DEF Shaped, Applying
  <1>2. Backup' = Backup /\ Target' = Target
    BY <1>1, UntouchedKept
  <1>3. unit'.installed /\ unit'.enabled /\ live' = Target /\ live' # Backup
    BY <1>2 DEF Exposed
  <1>4. /\ todo \in Seq(Steps) /\ todo # <<>> /\ Len(todo) \in Nat
        /\ Head(todo) = FromEnd(todo, Len(todo) - 1) /\ Len(todo) - 1 \in Places(todo)
    BY Leaving, Frames DEF Places
  <1>5. CASE Verb = "live"
    <2>1. ~Has(todo, "boot")
      <3>1. ASSUME NEW e \in Places(todo), FromEnd(todo, e).verb = "boot" PROVE FALSE
        <4>1. GuardsBoot(todo, e)
          BY <3>1 DEF Applying, ApplyShape
        <4>2. e # Len(todo) - 1
          BY <1>4, <1>5, <3>1 DEF Verb
        <4>3. e + 1 = Len(todo) - 1 /\ FromEnd(todo, e + 1).verb = "phase"
          BY <1>4, <4>1, <4>2 DEF GuardsBoot, Guards, Does
        <4>4. QED BY <1>4, <1>5, <4>3 DEF Verb
      <3>2. QED BY <3>1 DEF Has
    <2>2. Has(todo, "live")
      BY <1>4, <1>5 DEF Has, Verb
    <2>3. ~unit.enabled
      BY <2>1, <2>2 DEF Applying
    <2>4. unit' = unit
      BY <1>5, Frames
    <2>5. QED BY <1>3, <2>3, <2>4
  <1>6. CASE Verb # "live"
    <2>1. live' = live
      BY <1>6, Frames
    <2>2. unit.enabled
      <3>1. CASE Verb = "unit"
        BY <1>1, <1>3, <3>1, Doings, UnitChange
      <3>2. CASE Verb = "boot"
        <4> DEFINE no == Arg
        <4>1. no = FALSE /\ unit' = [unit EXCEPT !.enabled = no]
          BY <1>1, <3>2, Doings, Zenon
        <4>2. unit'.enabled = no
          BY <4>1 DEF TypeOK
        <4>3. QED BY <1>3, <4>1, <4>2
      <3>3. CASE Verb = "halt"
        BY <1>3, <3>3, Doings DEF TypeOK
      <3>4. QED BY <1>3, <3>1, <3>2, <3>3, Frames
    <2>3. unit.installed
      BY <2>2 DEF Shaped, UnitReady
    <2>4. QED BY <1>1, <1>3, <2>1, <2>2, <2>3 DEF Exposed
  <1>7. QED BY <1>5, <1>6

\* Nor does a step of restore_backup: the manifest is put back first.
LEMMA RestoreHides ==
  ASSUME TypeOK, Shaped, Settled, Restoring, Proceed, Exposed'
  PROVE  Exposed
  <1>1. /\ files' = files /\ phase # "none"
        /\ Verb # "live" => live' = live
        /\ Verb = "live" => live' = Backup
    BY RestoringStep DEF Shaped, Restoring
  <1>2. Backup' = Backup /\ Target' = Target
    BY <1>1, UntouchedKept
  <1>3. unit'.installed /\ unit'.enabled /\ live' = Target /\ live' # Backup
    BY <1>2 DEF Exposed
  <1>4. Verb # "live" /\ live' = live
    BY <1>1, <1>3
  <1>5. Verb = "phase"
    <2>1. ASSUME Verb \notin {"phase", "live"} PROVE live = Backup
      <3>1. todo \in Seq(Steps) /\ RestoreShape(todo)
        BY DEF TypeOK, Restoring
      <3>2. ~Has(todo, "live")
        BY <2>1, <3>1, PutBackFirst
      <3>3. QED BY <3>2 DEF Settled
    <2>2. QED BY <1>3, <1>4, <2>1
  <1>6. unit' = unit
    BY <1>5, Frames
  <1>7. QED BY <1>1, <1>3, <1>4, <1>6 DEF Exposed

\* Without the target it touches nothing but the manifest.
LEMMA UnreadHides ==
  ASSUME TypeOK, Shaped, Unread, Proceed, Exposed'
  PROVE  Exposed
  <1>1. /\ files' = files /\ phase # "none" /\ unit' = unit
        /\ Verb # "live" => live' = live
        /\ Verb = "live" => live' = Backup
    BY UnreadStep DEF Shaped, Unread
  <1>2. Backup' = Backup /\ Target' = Target
    BY <1>1, UntouchedKept
  <1>3. QED BY <1>1, <1>2 DEF Exposed

\* finalize_target_resources enables the unit, under the phase committing.
LEMMA FinishExposes ==
  ASSUME TypeOK, Shaped, Finishing, Proceed, Exposed', ~Exposed
  PROVE  phase' = "committing"
  <1>1. /\ files' = files /\ live' = live /\ phase # "none"
        /\ Verb \in {"cleanup", "verify", "boot", "phase"}
        /\ Verb # "phase" => phase' = phase
        /\ Verb = "boot" => phase = "committing"
    BY FinishingStep DEF Shaped, Finishing
  <1>2. Backup' = Backup /\ Target' = Target
    BY <1>1, UntouchedKept
  <1>3. unit' # unit
    BY <1>1, <1>2 DEF Exposed
  <1>4. Verb = "boot"
    BY <1>1, <1>3, Frames
  <1>5. QED BY <1>1, <1>4

\* Only a commit under way (the phase committing) lets the next boot serve a target that
\* is not decided: apply disables the unit before it exchanges install.env, and
\* restore_backup puts install.env back before it enables the unit.
THEOREM BootAlwaysServesCommitted ==
  ASSUME ~CopyFailsInTrap
  PROVE  Spec => BootServesCommitted
  <1>1. ASSUME SettingsInv, Settled, Next, ~Exposed, Exposed'
        PROVE  phase' = "committing"
    <2>1. TypeOK /\ Shaped
      BY <1>1 DEF SettingsInv
    <2>2. ASSUME phase' = phase, files' = files, live' = live,
                 unit'.installed = unit.installed, unit'.enabled = unit.enabled
          PROVE  FALSE
      BY <1>1, <2>2, UntouchedKept DEF Exposed
    <2>3. ~Commands /\ ~Fails
      BY <2>1, <2>2, CommandsShaped, FailsShaped
    <2>4. ~(Dies \/ Killed \/ RunnerServes \/ RuntimeEnds \/ OperatorStartsUnit \/ HostReboots)
      BY <2>1, <2>2, Beside DEF Kept
    <2>5. Proceed
      BY <1>1, <2>3, <2>4 DEF Next
    <2>6. ~Preparing
      BY <1>1, <2>1, <2>5, PreparingSettled DEF Exposed
    <2>7. ~Clearing
      BY <1>1, <2>1, <2>5, ClearingStep DEF Exposed
    <2>8. ~Applying /\ ~Restoring /\ ~Unread
      BY <1>1, <2>1, <2>5, ApplyHides, RestoreHides, UnreadHides
    <2>9. Finishing
      BY <2>1, <2>6, <2>7, <2>8 DEF Shaped
    <2>10. QED BY <1>1, <2>1, <2>5, <2>9, FinishExposes
  <1>2. SettingsInv /\ Settled /\ [Next]_vars =>
          [~Exposed /\ Exposed' => phase' = "committing"]_vars
    BY <1>1
  <1>3. QED BY <1>2, SettingsSettle, PTL DEF Spec, BootServesCommitted

\* When the phase file goes, the manifest, the proxy and the unit all say what was before
\* the transaction, or all say its target, unless a restoration has gone on without the
\* target: then install.env is still the one that was there before.
THEOREM SettlesEitherWay ==
  ASSUME ~CopyFailsInTrap
  PROVE  Spec => SettledEitherWay
  <1>1. ASSUME SettingsInv, Settled, Next, phase # "none", phase' = "none"
        PROVE  Agrees(Backup) \/ Agrees(Target) \/ (blind /\ live = Backup)
    <2>1. TypeOK /\ Shaped
      BY <1>1 DEF SettingsInv
    <2>2. ~Commands /\ ~Fails
      BY <1>1, <2>1, CommandsShaped, FailsShaped
    <2>3. ~(Dies \/ Killed \/ RunnerServes \/ RuntimeEnds \/ OperatorStartsUnit \/ HostReboots)
      BY <1>1, <2>1, Beside DEF Kept
    <2>4. Proceed
      BY <1>1, <2>2, <2>3 DEF Next
    <2>5. ~Preparing
      BY <1>1 DEF Preparing
    <2>6. ~Applying /\ ~Restoring /\ ~Unread /\ ~Finishing
      BY <1>1, <2>1, <2>4, ApplyingStep, RestoringStep, UnreadStep, FinishingStep DEF Shaped
    <2>7. Clearing /\ todo \in Seq(Steps) /\ todo # <<>>
      BY <2>1, <2>4, <2>5, <2>6, Frames DEF Shaped, TypeOK
    <2>8. Len(todo) \in 1..6 \/ Len(todo) = 7
      BY <2>7, ClearingHead
    <2>9. Len(todo) = 7
      BY <1>1, <2>7, <2>8 DEF Clearing
    <2>10. QED BY <1>1, <2>7, <2>9 DEF Settled
  <1>2. SettingsInv /\ Settled /\ [Next]_vars =>
          [phase # "none" /\ phase' = "none" =>
             Agrees(Backup) \/ Agrees(Target) \/ (blind /\ live = Backup)]_vars
    BY <1>1
  <1>3. QED BY <1>2, SettingsSettle, PTL DEF Spec, SettledEitherWay
=============================================================================
