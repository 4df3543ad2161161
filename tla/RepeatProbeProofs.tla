-------------------------- MODULE RepeatProbeProofs --------------------------
(***************************************************************************)
(* Proofs about RepeatProbe, for any number of tools, faults and requests  *)
(* of users, any choice of recorders, any number of repeats and any        *)
(* capacity of a recorder that holds them.                                 *)
(*                                                                         *)
(* That a report is the tool's own (ReportOwn) needs to be known long      *)
(* before the report: OwnInv follows a tool from its number to its report. *)
(* Course says what the files hold in each phase, and that no pass but the *)
(* tool's runs while they do; Underway what the pass in hand has left so   *)
(* far; Bounded that whatever is left in memory has a smaller number than  *)
(* the requests still to come; Paired, Once and BothLatest what memory and *)
(* log have of the requests that are answered, for the three ways in which *)
(* recorders print them.                                                   *)
(*                                                                         *)
(* That no tool refuses for what others left (QuietReports) needs more:    *)
(* the log must have none of the tool's numbers but in its own records     *)
(* (Clean).  A recorder that holds a number the log does not know would    *)
(* break that; Counted, Firsts and ModularHeld say what it costs in faults *)
(* to bring one about.                                                     *)
(*                                                                         *)
(* Three hypotheses, all of them the tools' own conditions: no user sends  *)
(* requests while a tool runs; a recorder keeps all requests of a tool,    *)
(* and there are two of them at least (2, 4 or 8 of 16 or 8); and a tool   *)
(* of the last patch does not start while a pass is recorded.              *)
(***************************************************************************)
EXTENDS RepeatProbe, FiniteSetTheorems, WellFoundedInduction, TLAPS

(* What the tables are. *)

\* A table with an entry, without one, and with a stage of a request.
LEMMA WithIs ==
  ASSUME NEW table, NEW key, NEW value
  PROVE  /\ DOMAIN With(table, key, value) = DOMAIN table \cup {key}
         /\ With(table, key, value)[key] = value
         /\ \A k \in DOMAIN table \ {key} : With(table, key, value)[k] = table[k]
  BY DEF With

LEMMA WithoutIs ==
  ASSUME NEW table, NEW key
  PROVE  /\ DOMAIN Without(table, key) = DOMAIN table \ {key}
         /\ \A k \in DOMAIN table \ {key} : Without(table, key)[k] = table[k]
  BY DEF Without

LEMMA StoredIs ==
  ASSUME NEW store, NEW id, NEW stage
  PROVE  /\ DOMAIN Stored(store, id, stage) = DOMAIN store \cup {id}
         /\ \A k \in DOMAIN store \ {id} : Stored(store, id, stage)[k] = store[k]
         /\ Stored(store, id, stage)[id] = With(Snapshot(store, id), stage, pass.request)
  BY DEF Stored, With

\* What is kept of a table is unchanged, and the newest is kept.
LEMMA NewestIs ==
  ASSUME NEW store
  PROVE  /\ DOMAIN Newest(store) \subseteq DOMAIN store
         /\ \A i \in DOMAIN Newest(store) : Newest(store)[i] = store[i]
         /\ \A i \in DOMAIN store : Cardinality(Newer(store, i)) < Kept => i \in DOMAIN Newest(store)
  BY DEF Newest

\* A finite set of numbers has a greatest one.
LEMMA GreatestNumber ==
  ASSUME NEW S, S \subseteq Int, IsFiniteSet(S), S # {}
  PROVE  \E i \in S : \A j \in S : j <= i
  <1> DEFINE Over(i) == {j \in S : j > i}
             Overs == {Over(i) : i \in S}
  <1>1. Overs \subseteq FiniteSubsetsOf(S) /\ Overs # {}
    <2>1. \A i \in S : Over(i) \in SUBSET S /\ IsFiniteSet(Over(i))
      <3> TAKE i \in S
      <3> HIDE DEF Over
      <3>1. Over(i) \in SUBSET S BY DEF Over
      <3>2. QED BY <3>1, FS_Subset
    <2>2. QED BY <2>1 DEF FiniteSubsetsOf
  <1>2. PICK T \in Overs : \A U \in Overs : <<U, T>> \notin StrictSubsetOrdering(S)
    <2> HIDE DEF Overs
    <2>1. IsWellFoundedOn(StrictSubsetOrdering(S), FiniteSubsetsOf(S))
      BY FS_StrictSubsetOrderingWellFounded
    <2>2. QED BY <1>1, <2>1, WFMin
  <1>3. PICK i \in S : T = Over(i)
    OBVIOUS
  <1>4. ASSUME NEW j \in S, j > i PROVE FALSE
    <2>0. i \in Int /\ j \in Int /\ \A k \in S : k \in Int
      OBVIOUS
    <2> HIDE DEF Overs
    <2>1. Over(j) \subseteq Over(i) /\ j \in Over(i) /\ j \notin Over(j)
      <3>1. \A k \in S : k > j => k > i BY <1>4, <2>0
      <3>2. Over(j) \subseteq Over(i) BY <3>1
      <3>3. j \in Over(i) BY <1>4
      <3>4. ~(j > j) BY <2>0
      <3>5. QED BY <3>2, <3>3, <3>4
    <2>2. <<Over(j), Over(i)>> \in StrictSubsetOrdering(S)
      BY <2>1 DEF StrictSubsetOrdering
    <2>3. QED BY <1>2, <1>3, <2>2 DEF Overs
  <1>5. QED BY <1>4

\* Of numbers in a range no longer than what is kept, all are.
LEMMA NewestInRange ==
  ASSUME NEW store, NEW first \in Int, NEW length \in Nat, length <= Kept,
         DOMAIN store \subseteq Int, \A i \in DOMAIN store : i < first + length
  PROVE  \A i \in DOMAIN store : i >= first => i \in DOMAIN Newest(store)
  <1> SUFFICES ASSUME NEW i \in DOMAIN store, i >= first
               PROVE  Cardinality(Newer(store, i)) < Kept
    BY NewestIs
  <1>1. i \in Int
    OBVIOUS
  <1>2. Newer(store, i) \in SUBSET ((i + 1)..(first + length - 1))
    BY <1>1 DEF Newer
  <1>3. /\ IsFiniteSet((i + 1)..(first + length - 1))
        /\ Cardinality((i + 1)..(first + length - 1)) <= length - 1
    <2>1. (i + 1) \in Int /\ (first + length - 1) \in Int BY <1>1
    <2>2. i < first + length OBVIOUS
    <2>3. Cardinality((i + 1)..(first + length - 1))
            = IF i + 1 > first + length - 1 THEN 0 ELSE (first + length - 1) - (i + 1) + 1
      BY <2>1, FS_Interval
    <2>4. first + length - 1 - i <= length - 1 /\ 0 <= length - 1
      BY <1>1, <2>2
    <2>5. Cardinality((i + 1)..(first + length - 1)) <= length - 1
      <3>1. (first + length - 1) - (i + 1) + 1 = first + length - 1 - i BY <1>1
      <3>2. QED BY <2>3, <2>4, <3>1
    <2>6. QED BY <2>1, <2>5, FS_Interval
  <1>4. Cardinality(Newer(store, i)) <= Cardinality((i + 1)..(first + length - 1))
    BY <1>2, <1>3, FS_Subset
  <1>5. IsFiniteSet(Newer(store, i)) BY <1>2, <1>3, FS_Subset
  <1>6. /\ Cardinality(Newer(store, i)) \in Nat
        /\ Cardinality((i + 1)..(first + length - 1)) \in Nat
    BY <1>3, <1>5, FS_CardinalityType
  <1>7. QED BY <1>3, <1>4, <1>6, ProbeAssumption

\* Who is alone among the newest was alone.
LEMMA NewestAlone ==
  ASSUME NEW store, DOMAIN store \subseteq Int, IsFiniteSet(DOMAIN store), Kept >= 2,
         NEW x, DOMAIN Newest(store) \subseteq {x}
  PROVE  DOMAIN store \subseteq {x}
  <1> SUFFICES ASSUME DOMAIN store \ {x} # {} PROVE FALSE
    OBVIOUS
  <1>1. (DOMAIN store \ {x}) \subseteq Int /\ IsFiniteSet(DOMAIN store \ {x})
    BY FS_Difference
  <1>2. PICK i \in DOMAIN store \ {x} : \A j \in DOMAIN store \ {x} : j <= i
    BY <1>1, GreatestNumber
  <1>3. Newer(store, i) \in SUBSET {x}
    BY <1>2 DEF Newer
  <1>4. IsFiniteSet({x}) /\ Cardinality({x}) = 1
    BY FS_Singleton
  <1>5. Cardinality(Newer(store, i)) <= 1 /\ Cardinality(Newer(store, i)) \in Nat
    BY <1>3, <1>4, FS_Subset, FS_CardinalityType
  <1>6. i \in DOMAIN Newest(store)
    BY <1>5, NewestIs, ProbeAssumption
  <1>7. QED BY <1>6

\* The pairs of n things.
LEMMA PairCount ==
  ASSUME NEW n \in Nat
  PROVE  LET less == {p \in (1..n) \X (1..n) : p[1] < p[2]}
         IN IsFiniteSet(less) /\ Cardinality(less) = (n * (n - 1)) \div 2
  <1> DEFINE all == (1..n) \X (1..n)
             less == {p \in all : p[1] < p[2]}
             more == {p \in all : p[1] > p[2]}
             same == {p \in all : p[1] = p[2]}
             flip == [p \in less |-> <<p[2], p[1]>>]
             twice == [i \in 1..n |-> <<i, i>>]
  <1>1. IsFiniteSet(1..n) /\ Cardinality(1..n) = n
    BY FS_Interval
  <1>2. IsFiniteSet(all) /\ Cardinality(all) = n * n
    BY <1>1, FS_Product
  <1>3. IsFiniteSet(less) /\ IsFiniteSet(more) /\ IsFiniteSet(same)
    <2>1. less \in SUBSET all /\ more \in SUBSET all /\ same \in SUBSET all
      OBVIOUS
    <2> HIDE DEF all, less, more, same
    <2>2. QED BY <1>2, <2>1, FS_Subset
  <1>4. Cardinality(more) = Cardinality(less)
    <2>1. flip \in Bijection(less, more)
      <3>1. flip \in [less -> more]
        OBVIOUS
      <3>2. \A p, q \in less : flip[p] = flip[q] => p = q
        OBVIOUS
      <3>3. \A p \in more : <<p[2], p[1]>> \in less /\ flip[<<p[2], p[1]>>] = p
        OBVIOUS
      <3> HIDE DEF less, more, flip
      <3>4. flip \in Injection(less, more) BY <3>1, <3>2 DEF Injection, IsInjective
      <3>5. flip \in Surjection(less, more) BY <3>1, <3>3 DEF Surjection
      <3>6. QED BY <3>4, <3>5 DEF Bijection
    <2> HIDE DEF less, more, flip
    <2>2. QED BY <1>3, <2>1, FS_Bijection DEF ExistsBijection
  <1>5. Cardinality(same) = n
    <2>1. twice \in Bijection(1..n, same)
      <3>1. twice \in [1..n -> same]
        OBVIOUS
      <3>2. \A i, j \in 1..n : twice[i] = twice[j] => i = j
        OBVIOUS
      <3>3. \A p \in same : p[1] \in 1..n /\ twice[p[1]] = p
        OBVIOUS
      <3> HIDE DEF same, twice
      <3>4. twice \in Injection(1..n, same) BY <3>1, <3>2 DEF Injection, IsInjective
      <3>5. twice \in Surjection(1..n, same) BY <3>1, <3>3 DEF Surjection
      <3>6. QED BY <3>4, <3>5 DEF Bijection
    <2> HIDE DEF same, twice
    <2>2. QED BY <1>1, <2>1, FS_Bijection DEF ExistsBijection
  <1>6. Cardinality(all) = Cardinality(less) + Cardinality(more) + Cardinality(same)
    <2>1. all = (less \cup more) \cup same
      OBVIOUS
    <2>2. less \cap more = {} /\ (less \cup more) \cap same = {}
      OBVIOUS
    <2> HIDE DEF all, less, more, same
    <2>3. Cardinality({}) = 0 BY FS_EmptySet
    <2>4. /\ IsFiniteSet(less \cup more)
          /\ Cardinality(less \cup more) = Cardinality(less) + Cardinality(more) - 0
      BY <1>3, <2>2, <2>3, FS_Union
    <2>5. Cardinality(all) = Cardinality(less \cup more) + Cardinality(same) - 0
      BY <1>3, <2>1, <2>2, <2>3, <2>4, FS_Union
    <2>6. /\ Cardinality(less) \in Nat /\ Cardinality(more) \in Nat
          /\ Cardinality(same) \in Nat
      BY <1>3, FS_CardinalityType
    <2>7. QED BY <2>4, <2>5, <2>6
  <1> HIDE DEF all, less, more, same
  <1>7. Cardinality(less) \in Nat
    BY <1>3, FS_CardinalityType
  <1>8. n * n = 2 * Cardinality(less) + n
    BY <1>2, <1>4, <1>5, <1>6, <1>7
  <1>9. n * (n - 1) = n * n - n
    OBVIOUS
  <1>10. Cardinality(less) = (n * (n - 1)) \div 2
    <2> DEFINE c == Cardinality(less)
               m == n * (n - 1)
    <2>1. m = 2 * c
      <3>1. \A x, y, z \in Int : x = 2 * y + z => x - z = 2 * y
        OBVIOUS
      <3>2. n * n \in Int /\ n \in Int /\ Cardinality(less) \in Int BY <1>7
      <3>3. n * n - n = 2 * Cardinality(less) BY <1>8, <3>1, <3>2
      <3>4. QED BY <1>9, <3>3
    <2>2. m \in Int BY <2>1, <1>7
    <2> HIDE DEF c, m
    <2>3. c \in Nat BY <1>7 DEF c
    <2>4. c = m \div 2 BY <2>1, <2>3
    <2>5. QED BY <2>4 DEF c, m
  <1>11. QED BY <1>3, <1>10 DEF less, all
-----------------------------------------------------------------------------
(* Types. *)

\* Recorders that print pairs of requests, each request, or requests 0 and 1.
PairKinds == {"marlin", "humming", "modular"}
OnceKinds == {"single", "twin"}
BothKinds == {"linear", "upstream", "qkvz"}
Phases == {"off", "numbered", "armed", "written", "waiting", "disarmed"}
Numbers == Nat \cup {None}
IsSnapshot(s) == DOMAIN s \subseteq AllStages /\ s \in [DOMAIN s -> Nat]
IsTable(t) == DOMAIN t \subseteq Nat /\ \A i \in DOMAIN t : IsSnapshot(t[i])
\* A record has this many numbers.
Compared == IF kind \in PairKinds THEN 2 ELSE 1

PassType ==
  \/ pass = NoPass
  \/ /\ pass \in [request : Nat \ {0}, at : 1..3, id : Numbers]
     /\ pass.request = served /\ up

MemType ==
  /\ mem = [active |-> mem.active, kept |-> mem.kept, done |-> mem.done]
  /\ IsTable(mem.active)
  /\ IsTable(mem.kept) /\ IsFiniteSet(DOMAIN mem.kept)
  /\ mem.done \subseteq Nat
  /\ ~up => mem = NoMemory

LogType ==
  /\ IsFiniteSet(log)
  /\ \A r \in log : r.ids \in Seq(Nat) /\ Len(r.ids) = Compared /\ r.pass \in 0..served

TypeOK ==
  /\ kind \in Kinds /\ up \in BOOLEAN
  /\ files \in [trigger : BOOLEAN, id : Numbers] /\ (~files.trigger => files.id = None)
  /\ MemType /\ LogType /\ PassType
  /\ probe \in [phase : Phases, start : Nat, sent : Seq(Nat), alone : BOOLEAN]
  /\ served \in Nat /\ faults \in Nat /\ probes \in Nat /\ traffic \in Nat

\* A recorder is one of the eight.
LEMMA KindIs == TypeOK => kind \in AllKinds
  BY ProbeAssumption DEF TypeOK

\* There is no number without the trigger.
LEMMA RequestIdIs == TypeOK => RequestId = files.id /\ files.id \in Numbers
  BY DEF TypeOK, RequestId

\* Tables stay tables: an empty one, and all that the recorders do with them.
LEMMA EmptyIs == DOMAIN Empty = {} /\ IsTable(Empty) /\ IsSnapshot(Empty)
  BY DEF Empty, IsTable, IsSnapshot

LEMMA SnapshotWith ==
  ASSUME NEW s, IsSnapshot(s), NEW stage \in AllStages, NEW n \in Nat
  PROVE  IsSnapshot(With(s, stage, n))
  BY DEF IsSnapshot, With

LEMMA SnapshotIs ==
  ASSUME NEW t, IsTable(t), NEW i PROVE IsSnapshot(Snapshot(t, i))
  BY EmptyIs DEF IsTable, Snapshot

LEMMA TableWith ==
  ASSUME NEW t, IsTable(t), NEW i \in Nat, NEW s, IsSnapshot(s)
  PROVE  IsTable(With(t, i, s))
  BY DEF IsTable, With

LEMMA TableNewest == ASSUME NEW t, IsTable(t) PROVE IsTable(Newest(t))
  BY DEF IsTable, Newest

LEMMA TableWithout ==
  ASSUME NEW t, IsTable(t), NEW i PROVE IsTable(Without(t, i))
  BY DEF IsTable, Without

LEMMA TableFinite ==
  ASSUME NEW t, IsFiniteSet(DOMAIN t), NEW i, NEW s
  PROVE  /\ IsFiniteSet(DOMAIN With(t, i, s))
         /\ IsFiniteSet(DOMAIN Newest(With(t, i, s)))
  <1>1. IsFiniteSet({i}) BY FS_Singleton
  <1>2. IsFiniteSet(DOMAIN t \cup {i}) BY <1>1, FS_Union
  <1>3. DOMAIN With(t, i, s) = DOMAIN t \cup {i} BY WithIs
  <1>4. DOMAIN Newest(With(t, i, s)) \in SUBSET (DOMAIN t \cup {i}) BY <1>3, NewestIs
  <1>5. QED BY <1>2, <1>3, <1>4, FS_Subset

\* Snapshots and records are of the pass that runs.
LEMMA LocalIs ==
  ASSUME NEW S \in SUBSET AllStages, pass.request \in Nat PROVE IsSnapshot(Local(S))
  BY DEF IsSnapshot, Local

LEMMA PairsFinite ==
  ASSUME NEW t, NEW S, IsFiniteSet(S), NEW i, NEW s PROVE IsFiniteSet(Pairs(t, S, i, s))
  <1> DEFINE f == [k \in S |-> Record(<<k, i>>, <<t[k], s>>)]
  <1>1. f \in Surjection(S, Pairs(t, S, i, s))
    BY DEF Surjection, Pairs
  <1> HIDE DEF f
  <1>2. QED BY <1>1, FS_Surjection
-----------------------------------------------------------------------------
(* What a stage does, recorder by recorder. *)

\* The stages by their place in the pass.
LEMMA StageNames ==
  ASSUME NEW a \in 1..3
  PROVE  /\ Stages[a] \in AllStages
         /\ Stages[a] = "entry" <=> a = 1
         /\ Stages[a] = "middle" <=> a = 2
         /\ Stages[a] = "final" <=> a = 3
  BY DEF Stages, AllStages

ReadKinds == {"modular", "single", "twin"}

\* What a stage changes, whatever the recorder.
LEMMA StageIs ==
  ASSUME TypeOK, Stage
  PROVE  /\ pass # NoPass /\ pass.at \in 1..3 /\ pass.request = served /\ up
         /\ pass.id \in Numbers /\ served \in Nat \ {0}
         /\ log' = log \cup Captured(Stages[pass.at]).records
         /\ mem' = IF pass.at = 1 /\ kind \in OnceKinds /\ files.id # None
                   THEN [mem EXCEPT !.done = @ \cup {files.id}]
                   ELSE Captured(Stages[pass.at]).mem
         /\ pass.at = 3 => pass' = NoPass
         /\ pass.at # 3 =>
              pass' = [request |-> served, at |-> pass.at + 1,
                       id |-> IF pass.at = 1 /\ kind \in ReadKinds
                              THEN IF kind \in OnceKinds /\ files.id \in mem.done THEN None
                                   ELSE files.id
                              ELSE pass.id]
         /\ UNCHANGED <<kind, files, up, probe, report, served, faults, probes, traffic>>
  <1>1. pass # NoPass
    BY DEF Stage
  <1>2. /\ pass \in [request : Nat \ {0}, at : 1..3, id : Numbers]
        /\ pass.request = served /\ up
    BY <1>1 DEF TypeOK, PassType
  <1>4. RequestId = files.id
    BY RequestIdIs
  <1>5. ReadsNumber(Stages[pass.at]) <=> kind \in ReadKinds /\ pass.at = 1
    BY <1>2, StageNames DEF ReadsNumber, ReadKinds
  <1>6. KeepsTable <=> kind \in OnceKinds
    BY DEF KeepsTable, OnceKinds
  <1>7. NumberRead = IF kind \in OnceKinds /\ files.id \in mem.done THEN None ELSE files.id
    BY <1>4, <1>6 DEF NumberRead
  <1>8. OnceKinds \subseteq ReadKinds
    BY DEF OnceKinds, ReadKinds
  <1>9. log' = log \cup Captured(Stages[pass.at]).records
    BY DEF Stage
  <1>10. mem' = IF pass.at = 1 /\ kind \in OnceKinds /\ files.id # None
                THEN [mem EXCEPT !.done = @ \cup {files.id}]
                ELSE Captured(Stages[pass.at]).mem
    BY <1>4, <1>5, <1>6, <1>8 DEF Stage
  <1>11. pass.at = 3 => pass' = NoPass
    BY <1>2, StageNames DEF Stage
  <1>12. ASSUME pass.at # 3
         PROVE  pass' = [request |-> served, at |-> pass.at + 1,
                         id |-> IF pass.at = 1 /\ kind \in ReadKinds
                                THEN IF kind \in OnceKinds /\ files.id \in mem.done THEN None
                                     ELSE files.id
                                ELSE pass.id]
    <2>1. pass' = [request |-> pass.request, at |-> pass.at + 1,
                   id |-> IF ReadsNumber(Stages[pass.at]) THEN NumberRead ELSE pass.id]
      BY <1>2, <1>12, StageNames DEF Stage
    <2>2. (IF ReadsNumber(Stages[pass.at]) THEN NumberRead ELSE pass.id)
            = IF pass.at = 1 /\ kind \in ReadKinds
              THEN IF kind \in OnceKinds /\ files.id \in mem.done THEN None ELSE files.id
              ELSE pass.id
      BY <1>5, <1>7
    <2>3. QED BY <1>2, <2>1, <2>2
  <1>13. UNCHANGED <<kind, files, up, probe, report, served, faults, probes, traffic>>
    BY DEF Stage
  <1>14. QED BY <1>1, <1>2, <1>9, <1>10, <1>11, <1>12, <1>13
\* And recorder by recorder: memory and records after each stage.
LEMMA MarlinStage ==
  ASSUME TypeOK, Stage, kind = "marlin"
  PROVE  LET f == files.id
             active == IF pass.at = 1 THEN With(mem.active, f, Local({"entry"}))
                       ELSE Stored(mem.active, f, Stages[pass.at])
         IN /\ f = None => mem' = mem /\ log' = log
            /\ f # None /\ pass.at # 3 =>
                 mem' = [active |-> active, kept |-> mem.kept, done |-> mem.done] /\ log' = log
            /\ f # None /\ pass.at = 3 =>
                 /\ mem' = Committed(f, active[f])
                 /\ log' = log \cup Pairs(mem.kept, DOMAIN mem.kept \ {f}, f, active[f])
  <1> DEFINE a == pass.at
             f == files.id
             active == IF a = 1 THEN With(mem.active, f, Local({"entry"}))
                       ELSE Stored(mem.active, f, Stages[a])
  <1>1. a \in 1..3 BY StageIs
  <1>2. mem' = Captured(Stages[a]).mem /\ log' = log \cup Captured(Stages[a]).records
    BY StageIs DEF OnceKinds
  <1>3. Captured(Stages[a]) = Marlin(Stages[a])
    BY DEF Captured
  <1>4. RequestId = f BY RequestIdIs
  <1>5. Marlin(Stages[a]) =
          IF f = None THEN Nothing
          ELSE IF a = 3 THEN MarlinCommit(f, active[f])
          ELSE Outcome([mem EXCEPT !.active = active], {})
    BY <1>1, <1>4, StageNames DEF Marlin
  <1>6. [mem EXCEPT !.active = active]
          = [active |-> active, kept |-> mem.kept, done |-> mem.done]
    BY DEF TypeOK, MemType
  <1> HIDE DEF a, f, active
  <1>7. CASE f = None
    BY <1>2, <1>3, <1>5, <1>7 DEF Nothing, Outcome, a, f, active
  <1>8. CASE f # None /\ a # 3
    BY <1>2, <1>3, <1>5, <1>6, <1>8 DEF Outcome, a, f, active
  <1>9. CASE f # None /\ a = 3
    BY <1>2, <1>3, <1>5, <1>9 DEF MarlinCommit, Outcome, a, f, active
  <1>10. QED BY <1>7, <1>8, <1>9 DEF a, f, active

LEMMA HummingStage ==
  ASSUME TypeOK, Stage, kind = "humming"
  PROVE  LET f == files.id
             kept == Stored(mem.kept, f, Stages[pass.at])
         IN /\ f = None => mem' = mem /\ log' = log
            /\ f # None /\ pass.at # 3 =>
                 mem' = [active |-> mem.active, kept |-> kept, done |-> mem.done] /\ log' = log
            /\ f # None /\ pass.at = 3 =>
                 /\ mem' = [active |-> mem.active, kept |-> Newest(kept), done |-> mem.done]
                 /\ log' = log \cup Pairs(kept, DOMAIN kept, f, kept[f])
  <1> DEFINE a == pass.at
             f == files.id
             kept == Stored(mem.kept, f, Stages[a])
  <1>1. a \in 1..3 BY StageIs
  <1>2. mem' = Captured(Stages[a]).mem /\ log' = log \cup Captured(Stages[a]).records
    BY StageIs DEF OnceKinds
  <1>3. Captured(Stages[a]) = Humming(Stages[a])
    BY DEF Captured
  <1>4. RequestId = f BY RequestIdIs
  <1>5. Humming(Stages[a]) =
          IF f = None THEN Nothing
          ELSE IF a # 3 THEN Outcome([mem EXCEPT !.kept = kept], {})
          ELSE Outcome([mem EXCEPT !.kept = Newest(kept)], Pairs(kept, DOMAIN kept, f, kept[f]))
    BY <1>1, <1>4, StageNames DEF Humming
  <1>6. ASSUME NEW t
        PROVE  [mem EXCEPT !.kept = t] = [active |-> mem.active, kept |-> t, done |-> mem.done]
    BY DEF TypeOK, MemType
  <1> HIDE DEF a, f, kept
  <1>7. CASE f = None
    BY <1>2, <1>3, <1>5, <1>7 DEF Nothing, Outcome, a, f, kept
  <1>8. CASE f # None /\ a # 3
    BY <1>2, <1>3, <1>5, <1>6, <1>8 DEF Outcome, a, f, kept
  <1>9. CASE f # None /\ a = 3
    BY <1>2, <1>3, <1>5, <1>6, <1>9 DEF Outcome, a, f, kept
  <1>10. QED BY <1>7, <1>8, <1>9 DEF a, f, kept

LEMMA ModularStage ==
  ASSUME TypeOK, Stage, kind = "modular"
  PROVE  LET f == pass.id
         IN /\ f = None \/ pass.at # 3 => mem' = mem /\ log' = log
            /\ f # None /\ pass.at = 3 =>
                 /\ mem' = [active |-> mem.active, done |-> mem.done,
                            kept |-> Newest(With(mem.kept, f, Local(AllStages)))]
                 /\ log' = log \cup Pairs(mem.kept, DOMAIN mem.kept, f, Local(AllStages))
  <1> DEFINE a == pass.at
             f == pass.id
  <1>1. a \in 1..3 BY StageIs
  <1>2. mem' = Captured(Stages[a]).mem /\ log' = log \cup Captured(Stages[a]).records
    BY StageIs DEF OnceKinds
  <1>3. Captured(Stages[a]) = Modular(Stages[a])
    BY DEF Captured
  <1>4. Modular(Stages[a]) =
          IF a # 3 \/ f = None THEN Nothing
          ELSE Outcome([mem EXCEPT !.kept = Newest(With(@, f, Local(AllStages)))],
                       Pairs(mem.kept, DOMAIN mem.kept, f, Local(AllStages)))
    BY <1>1, StageNames DEF Modular
  <1>5. ASSUME NEW t
        PROVE  [mem EXCEPT !.kept = t] = [active |-> mem.active, done |-> mem.done, kept |-> t]
    BY DEF TypeOK, MemType
  <1> HIDE DEF a, f
  <1>6. CASE f = None \/ a # 3
    BY <1>2, <1>3, <1>4, <1>6 DEF Nothing, Outcome, a, f
  <1>7. CASE f # None /\ a = 3
    BY <1>2, <1>3, <1>4, <1>5, <1>7 DEF Outcome, a, f
  <1>8. QED BY <1>6, <1>7 DEF a, f

LEMMA OnceStage ==
  ASSUME TypeOK, Stage, kind \in OnceKinds
  PROVE  /\ mem' = IF pass.at = 1 /\ files.id # None
                   THEN [mem EXCEPT !.done = @ \cup {files.id}] ELSE mem
         /\ pass.id = None \/ pass.at # 3 => log' = log
         /\ pass.id # None /\ pass.at = 3 =>
              log' = log \cup {Record(<<pass.id>>, <<Local({"entry", "final"})>>)}
  <1> DEFINE a == pass.at
  <1>1. a \in 1..3 BY StageIs
  <1>2. /\ mem' = IF a = 1 /\ files.id # None THEN [mem EXCEPT !.done = @ \cup {files.id}]
                  ELSE Captured(Stages[a]).mem
        /\ log' = log \cup Captured(Stages[a]).records
    BY StageIs
  <1>3. Captured(Stages[a]) = Single(Stages[a])
    BY DEF Captured, OnceKinds, Twin
  <1>4. Single(Stages[a]) =
          IF a # 3 \/ pass.id = None THEN Nothing
          ELSE Outcome(mem, {Record(<<pass.id>>, <<Local({"entry", "final"})>>)})
    BY <1>1, StageNames DEF Single
  <1>5. Captured(Stages[a]).mem = mem
    BY <1>3, <1>4 DEF Nothing, Outcome
  <1>6. QED BY <1>1, <1>2, <1>3, <1>4, <1>5 DEF Nothing, Outcome

LEMMA BothStage ==
  ASSUME TypeOK, Stage, kind \in {"linear", "upstream"}
  PROVE  LET f == files.id
             kept == Stored(mem.kept, f, Stages[pass.at])
             full == \A i \in {0, 1} : IF kind = "linear" THEN "final" \in DOMAIN kept[i]
                                       ELSE DOMAIN kept[i] = AllStages
             prints == f = 1 /\ pass.at = 3 /\ 0 \in DOMAIN kept /\ full
         IN /\ f \notin {0, 1} => mem' = mem /\ log' = log
            /\ f \in {0, 1} /\ ~prints =>
                 mem' = [active |-> mem.active, kept |-> kept, done |-> mem.done] /\ log' = log
            /\ prints => /\ mem' = [active |-> mem.active, kept |-> Empty, done |-> mem.done]
                         /\ log' = log \cup Both(kept)
  <1> DEFINE a == pass.at
             f == files.id
             kept == Stored(mem.kept, f, Stages[a])
             full == \A i \in {0, 1} : IF kind = "linear" THEN "final" \in DOMAIN kept[i]
                                       ELSE DOMAIN kept[i] = AllStages
             prints == f = 1 /\ a = 3 /\ 0 \in DOMAIN kept /\ full
  <1>1. a \in 1..3 BY StageIs
  <1>2. mem' = Captured(Stages[a]).mem /\ log' = log \cup Captured(Stages[a]).records
    BY StageIs DEF OnceKinds
  <1>3. Captured(Stages[a]) = IF kind = "linear" THEN Linear(Stages[a]) ELSE Upstream(Stages[a])
    BY DEF Captured
  <1>4. RequestId = f BY RequestIdIs
  <1>5. Captured(Stages[a]) =
          IF f \notin {0, 1} THEN Nothing
          ELSE IF prints THEN Outcome([mem EXCEPT !.kept = Empty], Both(kept))
          ELSE Outcome([mem EXCEPT !.kept = kept], {})
    <2>1. CASE kind = "linear"
      BY <1>1, <1>3, <1>4, <2>1, StageNames DEF Linear
    <2>2. CASE kind = "upstream"
      BY <1>1, <1>3, <1>4, <2>2, StageNames DEF Upstream
    <2>3. QED BY <2>1, <2>2
  <1>6. ASSUME NEW t
        PROVE  [mem EXCEPT !.kept = t] = [active |-> mem.active, kept |-> t, done |-> mem.done]
    BY DEF TypeOK, MemType
  <1> HIDE DEF a, f, kept, full, prints
  <1>7. f \notin {0, 1} => mem' = mem /\ log' = log
    BY <1>2, <1>5 DEF Nothing, Outcome
  <1>8. f \in {0, 1} /\ ~prints =>
          mem' = [active |-> mem.active, kept |-> kept, done |-> mem.done] /\ log' = log
    BY <1>2, <1>5, <1>6 DEF Outcome
  <1>9. prints => /\ f \in {0, 1}
                  /\ mem' = [active |-> mem.active, kept |-> Empty, done |-> mem.done]
                  /\ log' = log \cup Both(kept)
    <2>1. prints => f = 1 BY DEF prints
    <2>2. QED BY <1>2, <1>5, <1>6, <2>1 DEF Outcome
  <1>10. QED BY <1>7, <1>8, <1>9, Zenon DEF a, f, kept, full, prints

LEMMA QkvzStage ==
  ASSUME TypeOK, Stage, kind = "qkvz"
  PROVE  /\ mem' = mem
         /\ files.id \notin {0, 1} \/ pass.at # 2 => log' = log
         /\ files.id \in {0, 1} /\ pass.at = 2 =>
              log' = log \cup {Record(<<files.id>>, <<Local({"middle"})>>)}
  <1> DEFINE a == pass.at
  <1>1. a \in 1..3 BY StageIs
  <1>2. mem' = Captured(Stages[a]).mem /\ log' = log \cup Captured(Stages[a]).records
    BY StageIs DEF OnceKinds
  <1>3. Captured(Stages[a]) = Qkvz(Stages[a])
    BY DEF Captured
  <1>4. RequestId = files.id BY RequestIdIs
  <1>5. Qkvz(Stages[a]) =
          IF a # 2 \/ files.id \notin {0, 1} THEN Nothing
          ELSE Outcome(mem, {Record(<<files.id>>, <<Local({Stages[a]})>>)})
    BY <1>1, <1>4, StageNames DEF Qkvz
  <1>6. QED BY <1>1, <1>2, <1>3, <1>5, StageNames DEF Nothing, Outcome
-----------------------------------------------------------------------------
(* Numbers. *)

\* The numbers in the log are finitely many.
LEMMA LoggedIs ==
  ASSUME TypeOK
  PROVE  IsFiniteSet(Logged) /\ Logged \subseteq Nat
  <1> DEFINE last == IF kind \in PairKinds THEN 2 ELSE 1
             first(r) == r.ids[1]
             other(r) == r.ids[last]
             firsts == [r \in log |-> r.ids[1]]
             others == [r \in log |-> r.ids[last]]
             F == {r.ids[1] : r \in log}
             O == {r.ids[last] : r \in log}
  <1>1. IsFiniteSet(log) BY DEF TypeOK, LogType
  <1>2. IsFiniteSet(F)
    <2>1. firsts \in Surjection(log, F) BY DEF Surjection
    <2> HIDE DEF firsts, F
    <2>2. QED BY <1>1, <2>1, FS_Surjection
  <1>3. IsFiniteSet(O)
    <2>1. others \in Surjection(log, O) BY DEF Surjection
    <2> HIDE DEF others, O
    <2>2. QED BY <1>1, <2>1, FS_Surjection
  <1>4. ASSUME NEW r \in log
        PROVE  /\ DOMAIN r.ids = 1..last
               /\ \A i \in DOMAIN r.ids : r.ids[i] \in Nat /\ r.ids[i] \in F \cup O
    <2>1. r.ids \in Seq(Nat) /\ Len(r.ids) = last
      BY DEF TypeOK, LogType, Compared
    <2>2. DOMAIN r.ids = 1..last BY <2>1
    <2>3. \A i \in 1..last : i = 1 \/ i = last OBVIOUS
    <2>4. r.ids[1] \in F /\ r.ids[last] \in O OBVIOUS
    <2>5. \A i \in 1..last : r.ids[i] \in Nat BY <2>1
    <2> HIDE DEF F, O, last
    <2>6. QED BY <2>2, <2>3, <2>4, <2>5
  <1>5. Logged \in SUBSET (F \cup O) /\ Logged \subseteq Nat
    <2> HIDE DEF F, O
    <2>1. QED BY <1>4 DEF Logged
  <1>6. IsFiniteSet(F \cup O)
    <2> HIDE DEF F, O
    <2>1. QED BY <1>2, <1>3, FS_Union
  <1>7. QED
    <2> HIDE DEF F, O
    <2>1. QED BY <1>5, <1>6, FS_Subset

\* It follows the numbers in the log.
StartIdFits ==
  /\ StartId \in Nat
  /\ kind \in Numbered => \A i \in Logged : i < StartId
  /\ StartId # 0 => kind \in Numbered /\ StartId - 1 \in Logged

LEMMA StartIdIs == TypeOK => StartIdFits
  <1> SUFFICES ASSUME TypeOK PROVE StartIdFits
    OBVIOUS
  <1> USE DEF StartIdFits
  <1>1. CASE kind \in Numbered /\ Logged # {}
    <2> DEFINE top == CHOOSE i \in Logged : \A j \in Logged : j <= i
    <2>1. \E i \in Logged : \A j \in Logged : j <= i
      BY <1>1, LoggedIs, GreatestNumber
    <2>2. top \in Logged /\ \A j \in Logged : j <= top
      BY <2>1
    <2>3. StartId = 1 + top
      BY <1>1 DEF StartId
    <2> HIDE DEF top
    <2>4. top \in Nat /\ Logged \subseteq Nat
      BY <2>2, LoggedIs
    <2>5. QED BY <1>1, <2>2, <2>3, <2>4
  <1>2. CASE ~(kind \in Numbered /\ Logged # {})
    BY <1>2 DEF StartId
  <1>3. QED BY <1>1, <1>2

\* The log only grows, and so does the number that follows it.
LEMMA StartIdGrows ==
  ASSUME TypeOK, TypeOK', kind' = kind, log \subseteq log'
  PROVE  /\ Logged \subseteq Logged' /\ StartId <= StartId'
         /\ StartId \in Nat /\ StartId' \in Nat
         /\ log' = log => StartId' = StartId /\ Logged' = Logged
  <1>1. Logged \subseteq Logged' BY DEF Logged
  <1>2. StartId \in Nat /\ (StartId # 0 => kind \in Numbered /\ StartId - 1 \in Logged)
    BY StartIdIs DEF StartIdFits
  <1>3. StartId' \in Nat /\ (kind' \in Numbered => \A i \in Logged' : i < StartId')
    <2>1. StartIdFits' BY StartIdIs, PTL
    <2>2. QED BY <2>1 DEF StartIdFits
  <1>4. log' = log => StartId' = StartId /\ Logged' = Logged
    BY DEF StartId, Logged
  <1>5. CASE StartId = 0 BY <1>1, <1>2, <1>3, <1>4, <1>5
  <1>6. CASE StartId # 0
    <2>1. StartId - 1 < StartId' BY <1>1, <1>2, <1>3, <1>6
    <2>2. QED BY <1>1, <1>2, <1>3, <1>4, <2>1
  <1>7. QED BY <1>5, <1>6
-----------------------------------------------------------------------------
(* The course of a tool. *)

\* How far the tool is: its requests sent, in hand and answered, and their numbers.
Working == probe.phase # "off"
Length == Len(probe.sent)
InHand == probe.phase = "waiting" /\ pass # NoPass
Answered == IF InHand THEN Length - 1 ELSE Length
Id(k) == probe.start + k - 1

\* What the files hold in each phase, and whose pass runs.
Course ==
  /\ ~Working => probe = NoProbe
  /\ probe.phase = "numbered" => probe.sent = <<>>
  /\ probe.phase = "armed" =>
       files = [trigger |-> TRUE, id |-> IF Length = 0 THEN None ELSE Id(Length)]
  /\ probe.phase = "written" =>
       files = [trigger |-> TRUE, id |-> Id(Length + 1)] /\ Length < Requests
  /\ probe.phase = "waiting" =>
       files = [trigger |-> TRUE, id |-> Id(Length)] /\ Length > 0 /\ up
  /\ probe.phase = "disarmed" => files = Disarmed /\ Length = Requests
  /\ Length <= Requests
  /\ Length > 0 => probe.sent[Length] = served
  /\ Length > 0 /\ pass # NoPass => probe.phase = "waiting"
  /\ Working /\ pass # NoPass /\ probe.phase # "waiting" => kind \in Slow /\ ~probe.alone
  /\ kind \notin Numbered => probe.start = 0
  /\ kind \notin ReadKinds \/ pass.at = 1 => pass.id = None

\* A stage leaves memory and log well-formed.
LEMMA CaptureType ==
  ASSUME TypeOK, Stage
  PROVE  MemType' /\ LogType'
  <1> DEFINE f == files.id
  <1>0. /\ pass # NoPass /\ pass.at \in 1..3 /\ pass.request = served /\ up /\ up'
        /\ pass.id \in Numbers /\ served \in Nat /\ f \in Numbers
        /\ served' = served /\ kind' = kind
    BY StageIs, RequestIdIs
  <1>1. IsTable(mem.active) /\ IsTable(mem.kept) /\ IsFiniteSet(DOMAIN mem.kept)
        /\ mem.done \subseteq Nat /\ mem = [active |-> mem.active, kept |-> mem.kept, done |-> mem.done]
    BY DEF TypeOK, MemType
  <1>2. IsFiniteSet(log)
        /\ \A r \in log : r.ids \in Seq(Nat) /\ Len(r.ids) = Compared /\ r.pass \in 0..served
    BY DEF TypeOK, LogType
  <1>3. Compared' = Compared BY <1>0 DEF Compared
  <1>4. ASSUME f # None, NEW t, IsTable(t)
        PROVE  /\ f \in Nat
               /\ IsSnapshot(With(Snapshot(t, f), Stages[pass.at], pass.request))
               /\ IsTable(Stored(t, f, Stages[pass.at]))
    <2>1. f \in Nat BY <1>0, <1>4 DEF Numbers
    <2>2. IsSnapshot(With(Snapshot(t, f), Stages[pass.at], pass.request))
      BY <1>0, <1>4, SnapshotIs, SnapshotWith, StageNames
    <2>3. QED BY <1>4, <2>1, <2>2, TableWith DEF Stored
  <1>5. ASSUME NEW S \in SUBSET AllStages PROVE IsSnapshot(Local(S))
    BY <1>0, LocalIs
  <1>6. ASSUME NEW t, NEW S, NEW i, NEW x, IsFiniteSet(S), S \subseteq Nat, i \in Nat,
               kind \in PairKinds, log' = log \cup Pairs(t, S, i, x)
        PROVE  LogType'
    <2>1. IsFiniteSet(log') BY <1>2, <1>6, PairsFinite, FS_Union
    <2>2. ASSUME NEW r \in Pairs(t, S, i, x)
          PROVE  r.ids \in Seq(Nat) /\ Len(r.ids) = 2 /\ r.pass = served
      <3>1. PICK j \in S : r = Record(<<j, i>>, <<t[j], x>>) BY DEF Pairs
      <3>2. r.ids = <<j, i>> /\ r.pass = served BY <1>0, <3>1 DEF Record
      <3>3. j \in Nat /\ i \in Nat BY <1>6
      <3>4. QED BY <3>2, <3>3
    <2>3. Compared = 2 BY <1>6 DEF Compared
    <2>4. QED BY <1>0, <1>2, <1>3, <1>6, <2>1, <2>2, <2>3 DEF LogType
  <1>7. ASSUME NEW R, log' = log \cup R, IsFiniteSet(R), kind \notin PairKinds,
               \A r \in R : \E i \in Nat : r.ids = <<i>> /\ r.pass = served
        PROVE  LogType'
    <2>1. IsFiniteSet(log') BY <1>2, <1>7, FS_Union
    <2>2. ASSUME NEW r \in R
          PROVE  r.ids \in Seq(Nat) /\ Len(r.ids) = 1 /\ r.pass = served
      <3>1. PICK i \in Nat : r.ids = <<i>> /\ r.pass = served BY <1>7
      <3>2. QED BY <3>1
    <2>3. Compared = 1 BY <1>7 DEF Compared
    <2>4. QED BY <1>0, <1>2, <1>3, <1>7, <2>1, <2>2, <2>3 DEF LogType
  <1>8. log' = log => LogType'
    BY <1>0, <1>2, <1>3 DEF LogType
  <1>9. mem' = mem => MemType'
    BY <1>0, <1>1 DEF MemType
  <1>10. ASSUME NEW a, NEW k, IsTable(a), IsTable(k), IsFiniteSet(DOMAIN k),
                mem' = [active |-> a, kept |-> k, done |-> mem.done]
         PROVE  MemType'
    BY <1>0, <1>1, <1>10 DEF MemType
  <1>11. CASE kind = "marlin"
    <2> DEFINE active == IF pass.at = 1 THEN With(mem.active, f, Local({"entry"}))
                         ELSE Stored(mem.active, f, Stages[pass.at])
    <2>1. CASE f = None BY <1>8, <1>9, <1>11, <2>1, MarlinStage
    <2>2. ASSUME f # None PROVE f \in Nat /\ IsTable(active) /\ IsSnapshot(active[f])
      <3>1. f \in Nat BY <1>4, <1>1, <2>2
      <3>2. {"entry"} \in SUBSET AllStages BY DEF AllStages
      <3>3. IsTable(active) BY <1>1, <1>4, <1>5, <2>2, <3>1, <3>2, TableWith
      <3>4. f \in DOMAIN active BY DEF Stored, With
      <3>5. QED BY <3>1, <3>3, <3>4 DEF IsTable
    <2>3. CASE f # None /\ pass.at # 3
      <3>1. mem' = [active |-> active, kept |-> mem.kept, done |-> mem.done] /\ log' = log
        BY <1>11, <2>3, MarlinStage
      <3> HIDE DEF active, f
      <3>2. QED BY <1>1, <1>8, <1>10, <2>2, <2>3, <3>1
    <2>4. CASE f # None /\ pass.at = 3
      <3>1. /\ mem' = Committed(f, active[f])
            /\ log' = log \cup Pairs(mem.kept, DOMAIN mem.kept \ {f}, f, active[f])
        BY <1>11, <2>4, MarlinStage
      <3> HIDE DEF active, f
      <3>2. mem' = [active |-> Without(mem.active, f), done |-> mem.done,
                    kept |-> Newest(With(mem.kept, f, active[f]))]
        BY <3>1 DEF Committed
      <3>3. IsTable(Without(mem.active, f)) BY <1>1, TableWithout
      <3>4. IsTable(With(mem.kept, f, active[f])) BY <1>1, <2>2, <2>4, TableWith
      <3>5. IsTable(Newest(With(mem.kept, f, active[f]))) BY <3>4, TableNewest
      <3>6. IsFiniteSet(DOMAIN Newest(With(mem.kept, f, active[f]))) BY <1>1, TableFinite
      <3>7. MemType' BY <1>10, <3>2, <3>3, <3>5, <3>6
      <3>8. (DOMAIN mem.kept \ {f}) \subseteq Nat /\ IsFiniteSet(DOMAIN mem.kept \ {f})
        BY <1>1, FS_Difference DEF IsTable
      <3>9. kind \in PairKinds BY <1>11 DEF PairKinds
      <3>10. LogType' BY <1>6, <2>2, <2>4, <3>1, <3>8, <3>9
      <3>11. QED BY <3>7, <3>10
    <2>5. QED BY <2>1, <2>3, <2>4
  <1>12. CASE kind = "humming"
    <2> DEFINE kept == Stored(mem.kept, f, Stages[pass.at])
    <2>1. CASE f = None BY <1>8, <1>9, <1>12, <2>1, HummingStage
    <2>2. ASSUME f # None
          PROVE  f \in Nat /\ IsTable(kept) /\ IsFiniteSet(DOMAIN kept)
                 /\ IsFiniteSet(DOMAIN Newest(kept)) /\ DOMAIN kept \subseteq Nat
      BY <1>1, <1>4, <2>2, TableFinite DEF Stored, IsTable
    <2>3. CASE f # None /\ pass.at # 3
      <3>1. mem' = [active |-> mem.active, kept |-> kept, done |-> mem.done] /\ log' = log
        BY <1>12, <2>3, HummingStage
      <3> HIDE DEF kept, f
      <3>2. QED BY <1>1, <1>8, <1>10, <2>2, <2>3, <3>1
    <2>4. CASE f # None /\ pass.at = 3
      <3>1. /\ mem' = [active |-> mem.active, kept |-> Newest(kept), done |-> mem.done]
            /\ log' = log \cup Pairs(kept, DOMAIN kept, f, kept[f])
        BY <1>12, <2>4, HummingStage
      <3> HIDE DEF kept, f
      <3>2. MemType' BY <1>1, <1>10, <2>2, <2>4, <3>1, TableNewest
      <3>3. kind \in PairKinds BY <1>12 DEF PairKinds
      <3>4. LogType' BY <1>6, <2>2, <2>4, <3>1, <3>3
      <3>5. QED BY <3>2, <3>4
    <2>5. QED BY <2>1, <2>3, <2>4
  <1>13. CASE kind = "modular"
    <2>1. CASE pass.id = None \/ pass.at # 3 BY <1>8, <1>9, <1>13, <2>1, ModularStage
    <2>2. CASE pass.id # None /\ pass.at = 3
      <3> DEFINE x == Local(AllStages)
                 i == pass.id
      <3>1. /\ mem' = [active |-> mem.active, done |-> mem.done,
                       kept |-> Newest(With(mem.kept, i, x))]
            /\ log' = log \cup Pairs(mem.kept, DOMAIN mem.kept, i, x)
        BY <1>13, <2>2, ModularStage
      <3>2. IsSnapshot(x) BY <1>5
      <3>3. i \in Nat BY <1>0, <2>2 DEF Numbers
      <3> HIDE DEF x, i
      <3>4. IsTable(Newest(With(mem.kept, i, x))) BY <1>1, <3>2, <3>3, TableWith, TableNewest
      <3>5. MemType' BY <1>1, <1>10, <3>1, <3>4, TableFinite
      <3>6. kind \in PairKinds BY <1>13 DEF PairKinds
      <3>7. DOMAIN mem.kept \subseteq Nat BY <1>1 DEF IsTable
      <3>8. LogType' BY <1>1, <1>6, <3>1, <3>3, <3>6, <3>7
      <3>9. QED BY <3>5, <3>8
    <2>3. QED BY <2>1, <2>2
  <1>14. CASE kind \in OnceKinds
    <2>1. mem' = IF pass.at = 1 /\ f # None THEN [mem EXCEPT !.done = @ \cup {f}] ELSE mem
      BY <1>14, OnceStage
    <2>2. MemType'
      <3>1. CASE pass.at = 1 /\ f # None
        <4>1. mem' = [active |-> mem.active, kept |-> mem.kept, done |-> mem.done \cup {f}]
          BY <1>1, <2>1, <3>1
        <4>2. f \in Nat BY <1>0, <3>1 DEF Numbers
        <4> HIDE DEF f
        <4>3. QED BY <1>0, <1>1, <4>1, <4>2 DEF MemType
      <3>2. CASE ~(pass.at = 1 /\ f # None) BY <1>9, <2>1, <3>2
      <3>3. QED BY <3>1, <3>2
    <2>3. kind \notin PairKinds BY <1>14 DEF PairKinds, OnceKinds
    <2>4. CASE pass.id = None \/ pass.at # 3 BY <1>8, <1>14, <2>2, <2>4, OnceStage
    <2>5. CASE pass.id # None /\ pass.at = 3
      <3> DEFINE r == Record(<<pass.id>>, <<Local({"entry", "final"})>>)
      <3>1. log' = log \cup {r} BY <1>14, <2>5, OnceStage
      <3>2. pass.id \in Nat /\ r.ids = <<pass.id>> /\ r.pass = served
        BY <1>0, <2>5 DEF Record, Numbers
      <3> HIDE DEF r
      <3>3. IsFiniteSet({r}) BY FS_Singleton
      <3>4. QED BY <1>7, <2>2, <2>3, <3>1, <3>2, <3>3
    <2>6. QED BY <2>4, <2>5
  <1>15. CASE kind \in {"linear", "upstream"}
    <2> DEFINE kept == Stored(mem.kept, f, Stages[pass.at])
    <2>1. kind \notin PairKinds BY <1>15 DEF PairKinds
    <2>2. f \in {0, 1} => IsTable(kept) /\ IsFiniteSet(DOMAIN kept)
      <3> SUFFICES ASSUME f \in {0, 1} PROVE IsTable(kept) /\ IsFiniteSet(DOMAIN kept)
        OBVIOUS
      <3>1. f # None BY DEF None
      <3>2. QED BY <1>1, <1>4, <3>1, TableFinite DEF Stored
    <2>3. \/ mem' = mem /\ log' = log
          \/ /\ f \in {0, 1} /\ log' = log
             /\ mem' = [active |-> mem.active, kept |-> kept, done |-> mem.done]
          \/ /\ mem' = [active |-> mem.active, kept |-> Empty, done |-> mem.done]
             /\ log' = log \cup Both(kept)
      BY <1>15, BothStage
    <2> HIDE DEF kept
    <2>4. Both(kept) = {Record(<<0>>, <<kept[0]>>), Record(<<1>>, <<kept[1]>>)}
      BY DEF Both
    <2>5. /\ IsFiniteSet(Both(kept))
          /\ \A r \in Both(kept) : \E i \in Nat : r.ids = <<i>> /\ r.pass = served
      <3>1. IsFiniteSet({Record(<<0>>, <<kept[0]>>)}) /\ IsFiniteSet({Record(<<1>>, <<kept[1]>>)})
        BY FS_Singleton
      <3>2. IsFiniteSet({Record(<<0>>, <<kept[0]>>)} \cup {Record(<<1>>, <<kept[1]>>)})
        BY <3>1, FS_Union
      <3>3. Both(kept) = {Record(<<0>>, <<kept[0]>>)} \cup {Record(<<1>>, <<kept[1]>>)}
        BY <2>4
      <3>4. \A r \in Both(kept) : \E i \in Nat : r.ids = <<i>> /\ r.pass = served
        BY <1>0 DEF Both, Record
      <3>5. QED BY <3>2, <3>3, <3>4
    <2>6. IsFiniteSet(DOMAIN Empty) /\ IsTable(Empty)
      BY EmptyIs, FS_EmptySet
    <2>7. MemType' BY <1>1, <1>9, <1>10, <2>2, <2>3, <2>6
    <2>8. LogType' BY <1>7, <1>8, <2>1, <2>3, <2>5
    <2>9. QED BY <2>7, <2>8
  <1>16. CASE kind = "qkvz"
    <2>1. mem' = mem BY <1>16, QkvzStage
    <2>2. kind \notin PairKinds BY <1>16 DEF PairKinds
    <2>3. CASE f \notin {0, 1} \/ pass.at # 2 BY <1>8, <1>9, <1>16, <2>1, <2>3, QkvzStage
    <2>4. CASE f \in {0, 1} /\ pass.at = 2
      <3> DEFINE r == Record(<<f>>, <<Local({"middle"})>>)
      <3>1. log' = log \cup {r} BY <1>16, <2>4, QkvzStage
      <3>2. f \in Nat /\ r.ids = <<f>> /\ r.pass = served
        BY <1>0, <2>4 DEF Record
      <3> HIDE DEF r, f
      <3>3. IsFiniteSet({r}) BY FS_Singleton
      <3>4. QED BY <1>7, <1>9, <2>1, <2>2, <3>1, <3>2, <3>3
    <2>5. QED BY <2>3, <2>4
  <1>17. QED
    BY <1>11, <1>12, <1>13, <1>14, <1>15, <1>16, KindIs DEF AllKinds, OnceKinds
\* Every other action leaves the log alone, and the memory unless it restarts.
LEMMA OthersKeep ==
  ASSUME TypeOK, Next, ~Stage
  PROVE  /\ log' = log /\ kind' = kind
         /\ \/ mem' = mem /\ up' \in {up, TRUE}
            \/ mem' = NoMemory /\ up' = FALSE /\ pass' = NoPass
         /\ served' = served \/ served' = served + 1
  <1>1. CASE Traffic \/ Send BY <1>1 DEF Traffic, Send, Started
  <1>2. CASE Number \/ Arm \/ WriteId \/ Answer \/ Disarm \/ Unanswered \/ Collect \/ Cut
    BY <1>2 DEF Number, Arm, WriteId, Answer, Disarm, Unanswered, Collect, Cut, Server
  <1>3. CASE Restart BY <1>3 DEF Restart
  <1>4. CASE Ready BY <1>4 DEF Ready
  <1>5. QED BY <1>1, <1>2, <1>3, <1>4 DEF Next

\* So does every step.
LEMMA MemLogStep ==
  ASSUME TypeOK, [Next]_vars
  PROVE  MemType' /\ LogType'
  <1>0. MemType /\ LogType /\ served \in Nat /\ up \in BOOLEAN BY DEF TypeOK
  <1>1. CASE Stage BY <1>1, CaptureType
  <1>2. CASE UNCHANGED vars
    BY <1>0, <1>2 DEF vars, MemType, LogType, Compared, IsTable, IsSnapshot
  <1>3. CASE Next /\ ~Stage
    <2>1. /\ log' = log /\ kind' = kind /\ served' \in Nat /\ served <= served'
          /\ \/ mem' = mem /\ up' \in {up, TRUE}
             \/ mem' = NoMemory
      <3>1. /\ log' = log /\ kind' = kind
            /\ \/ mem' = mem /\ up' \in {up, TRUE}
               \/ mem' = NoMemory
            /\ served' = served \/ served' = served + 1
        BY <1>3, OthersKeep, Zenon
      <3>2. served' \in Nat /\ served <= served' BY <1>0, <3>1
      <3>3. QED BY <3>1, <3>2
    <2>2. LogType' BY <1>0, <2>1 DEF LogType, Compared
    <2>3. CASE mem' = mem /\ up' \in {up, TRUE} BY <1>0, <2>2, <2>3 DEF MemType
    <2>4. CASE mem' = NoMemory
      <3>1. mem'.active = Empty /\ mem'.kept = Empty /\ mem'.done = {}
            /\ mem' = [active |-> mem'.active, kept |-> mem'.kept, done |-> mem'.done]
        BY <2>4 DEF NoMemory
      <3>2. IsTable(Empty) /\ IsFiniteSet(DOMAIN Empty) BY EmptyIs, FS_EmptySet
      <3>3. QED BY <2>2, <2>4, <3>1, <3>2 DEF MemType
    <2>5. QED BY <2>1, <2>2, <2>3, <2>4
  <1>4. QED BY <1>1, <1>2, <1>3

\* A tool sends at least one request.
LEMMA RequestsIs == Requests \in Nat \ {0}
  BY ProbeAssumption DEF Requests

\* The requests it has sent are numbered from 1.
LEMMA SentIs ==
  ASSUME TypeOK
  PROVE  /\ probe.sent \in Seq(Nat) /\ Length \in Nat /\ probe.start \in Nat
         /\ probe = [phase |-> probe.phase, start |-> probe.start,
                     sent |-> probe.sent, alone |-> probe.alone]
         /\ probe.phase \in Phases /\ probe.alone \in BOOLEAN
         /\ Length > 0 => probe.sent[Length] \in Nat
  BY DEF TypeOK, Length

\* Types are kept.
LEMMA TypeStep == ASSUME TypeOK, Course, [Next]_vars PROVE TypeOK'
  <1>0. MemType' /\ LogType' BY MemLogStep
  <1>1. /\ kind \in Kinds /\ up \in BOOLEAN /\ served \in Nat /\ probes \in Nat
        /\ faults \in Nat /\ traffic \in Nat /\ PassType
        /\ files \in [trigger : BOOLEAN, id : Numbers] /\ (~files.trigger => files.id = None)
        /\ probe \in [phase : Phases, start : Nat, sent : Seq(Nat), alone : BOOLEAN]
    BY DEF TypeOK
  <1>d. /\ Disarmed \in [trigger : BOOLEAN, id : Numbers] /\ Disarmed.id = None
        /\ NoProbe \in [phase : Phases, start : Nat, sent : Seq(Nat), alone : BOOLEAN]
    BY DEF Disarmed, NoProbe, Numbers, Phases, None
  <1>p. ASSUME NEW x \in Phases PROVE [probe EXCEPT !.phase = x]
                 \in [phase : Phases, start : Nat, sent : Seq(Nat), alone : BOOLEAN]
    BY <1>1
  <1>s. ASSUME Started, up'
        PROVE  PassType' /\ served' \in Nat
    BY <1>1, <1>s DEF Started, PassType, NoPass, None, Numbers
  <1>u. ASSUME UNCHANGED <<pass, served, up>> PROVE PassType'
    BY <1>1, <1>u DEF PassType
  <1> USE DEF TypeOK
  <1>2. CASE Stage
    <2>1. /\ pass.at \in 1..3 /\ served \in Nat \ {0} /\ up /\ pass.id \in Numbers
          /\ files.id \in Numbers /\ pass.at = 3 => pass' = NoPass
      BY <1>1, <1>2, StageIs
    <2>2. UNCHANGED <<kind, files, up, probe, served, faults, probes, traffic>>
      BY <1>2, StageIs
    <2>3. ASSUME pass.at # 3
          PROVE  \E n \in Numbers : pass' = [request |-> served, at |-> pass.at + 1, id |-> n]
      <3>1. None \in Numbers BY DEF Numbers
      <3>2. QED BY <1>2, <2>1, <2>3, <3>1, StageIs
    <2>4. PassType' BY <2>1, <2>2, <2>3, StageIs, <1>2 DEF PassType
    <2>5. QED BY <1>0, <1>1, <2>2, <2>4
  <1>3. CASE Traffic
    <2>1. PassType' /\ served' \in Nat BY <1>3, <1>s DEF Traffic
    <2>2. probe' \in [phase : Phases, start : Nat, sent : Seq(Nat), alone : BOOLEAN]
      BY <1>1, <1>3 DEF Traffic
    <2>3. QED BY <1>0, <1>1, <1>3, <2>1, <2>2 DEF Traffic
  <1>4. CASE Number
    <2>1. StartId \in Nat BY StartIdIs DEF StartIdFits
    <2>2. probe' \in [phase : Phases, start : Nat, sent : Seq(Nat), alone : BOOLEAN]
      BY <1>4, <2>1 DEF Number, Phases
    <2>3. PassType' BY <1>4, <1>u DEF Number, Server
    <2>4. QED BY <1>0, <1>1, <1>4, <2>2, <2>3 DEF Number, Server
  <1>5. CASE Arm
    <2>1. PassType' BY <1>5, <1>u DEF Arm, Server
    <2>2. QED BY <1>0, <1>1, <1>5, <1>p, <2>1 DEF Arm, Server, Phases, None, Numbers
  <1>6. CASE WriteId
    <2>1. PassType' BY <1>6, <1>u DEF WriteId, Server
    <2>2. files.trigger BY <1>6 DEF WriteId, Course
    <2>3. probe.start + Len(probe.sent) \in Numbers BY <1>1 DEF Numbers
    <2>4. files' \in [trigger : BOOLEAN, id : Numbers] /\ files'.trigger
      BY <1>1, <1>6, <2>2, <2>3 DEF WriteId
    <2>5. QED BY <1>0, <1>1, <1>6, <1>p, <2>1, <2>4 DEF WriteId, Server, Phases
  <1>7. CASE Send
    <2>1. PassType' /\ served' \in Nat BY <1>7, <1>s DEF Send
    <2>2. probe' \in [phase : Phases, start : Nat, sent : Seq(Nat), alone : BOOLEAN]
      BY <1>1, <1>7 DEF Send, Phases
    <2>3. QED BY <1>0, <1>1, <1>7, <2>1, <2>2 DEF Send
  <1>8. CASE Answer
    <2>1. PassType' BY <1>8, <1>u DEF Answer, Server
    <2>2. QED BY <1>0, <1>1, <1>8, <1>p, <2>1 DEF Answer, Server, Phases
  <1>9. CASE Disarm
    <2>1. PassType' BY <1>9, <1>u DEF Disarm, Server
    <2>2. QED BY <1>0, <1>1, <1>d, <1>9, <1>p, <2>1 DEF Disarm, Server, Phases
  <1>10. CASE Unanswered
    <2>1. PassType' BY <1>10, <1>u DEF Unanswered, Server
    <2>2. QED BY <1>0, <1>1, <1>d, <1>10, <2>1 DEF Unanswered, Server
  <1>11. CASE Collect
    <2>1. PassType' BY <1>11, <1>u DEF Collect, Server
    <2>2. QED BY <1>0, <1>1, <1>d, <1>11, <2>1 DEF Collect, Server
  <1>12. CASE Cut
    <2>1. PassType' BY <1>12, <1>u DEF Cut, Server
    <2>2. QED BY <1>0, <1>1, <1>d, <1>12, <2>1 DEF Cut, Server
  <1>13. CASE Restart
    <2>1. PassType' BY <1>13 DEF Restart, PassType
    <2>2. /\ probe' \in [phase : Phases, start : Nat, sent : Seq(Nat), alone : BOOLEAN]
          /\ files' \in [trigger : BOOLEAN, id : Numbers] /\ (~files'.trigger => files'.id = None)
      BY <1>1, <1>d, <1>13 DEF Restart
    <2>3. up' \in BOOLEAN /\ faults' \in Nat
      <3>1. up' = FALSE /\ faults' = faults + 1 BY <1>13, Zenon DEF Restart
      <3>2. faults' \in Nat BY <1>1, <3>1
      <3>3. QED BY <3>1, <3>2
    <2>4. kind' = kind /\ served' = served /\ probes' = probes /\ traffic' = traffic
      BY <1>13, Zenon DEF Restart
    <2>5. kind' \in Kinds /\ served' \in Nat /\ probes' \in Nat /\ traffic' \in Nat
      BY <1>1, <2>4
    <2>6. QED BY <1>0, <2>1, <2>2, <2>3, <2>5, Zenon
  <1>14. CASE Ready
    <2>1. PassType' BY <1>1, <1>14 DEF Ready, PassType
    <2>2. QED BY <1>0, <1>1, <1>14, <2>1 DEF Ready, Tools
  <1>15. CASE UNCHANGED vars
    <2>1. PassType' BY <1>15, <1>u DEF vars
    <2>2. QED BY <1>0, <1>1, <1>15, <2>1 DEF vars
  <1>16. QED
    BY <1>2, <1>3, <1>4, <1>5, <1>6, <1>7, <1>8, <1>9, <1>10, <1>11, <1>12, <1>13,
       <1>14, <1>15 DEF Next

\* A step to the next phase changes nothing else of the tool.
LEMMA PhaseSet ==
  ASSUME TypeOK, NEW x \in Phases, probe' = [probe EXCEPT !.phase = x]
  PROVE  /\ probe'.phase = x /\ probe'.start = probe.start /\ probe'.sent = probe.sent
         /\ probe'.alone = probe.alone /\ Length' = Length
  BY DEF TypeOK, Length

\* The course is kept.
LEMMA CourseStep ==
  ASSUME TypeOK, TypeOK', Course, ~Shared, [Next]_vars
  PROVE  Course'
  <1>1. /\ probe.start \in Nat /\ Length \in Nat /\ served \in Nat /\ Requests \in Nat \ {0}
        /\ probe.phase \in Phases /\ probe.sent \in Seq(Nat)
        /\ pass = NoPass \/ pass.request = served
        /\ probe = [phase |-> probe.phase, start |-> probe.start,
                    sent |-> probe.sent, alone |-> probe.alone]
    BY SentIs, RequestsIs DEF TypeOK, PassType
  <1>n. /\ NoProbe.phase = "off" /\ NoProbe.start = 0 /\ NoProbe.sent = <<>>
        /\ NoProbe.alone = TRUE /\ NoPass.id = None
    BY DEF NoProbe, NoPass
  <1>o. ASSUME probe' = NoProbe, kind' = kind, pass'.id = pass.id \/ pass' = NoPass,
               pass'.at = pass.at \/ pass' = NoPass
        PROVE  Course'
    <2>1. Length' = 0 /\ Requests' \in Nat BY <1>1, <1>n, <1>o DEF Length, Requests
    <2>2. kind' \notin ReadKinds \/ pass'.at = 1 => pass'.id = None
      BY <1>n, <1>o DEF Course
    <2>3. QED BY <1>n, <1>o, <2>1, <2>2 DEF Course, Working
  <1>2. CASE Stage
    <2>1. /\ pass # NoPass /\ pass.at \in 1..3
          /\ pass.at # 3 => pass'.at = pass.at + 1
          /\ pass.at = 3 => pass' = NoPass
          /\ UNCHANGED <<kind, files, up, probe, report, served, faults, probes, traffic>>
          /\ pass.at # 3 => pass'.id = IF pass.at = 1 /\ kind \in ReadKinds
                              THEN IF kind \in OnceKinds /\ files.id \in mem.done THEN None
                                   ELSE files.id
                              ELSE pass.id
      BY <1>2, StageIs
    <2>2. kind' \notin ReadKinds \/ pass'.at = 1 => pass'.id = None
      BY <1>n, <2>1 DEF Course
    <2>3. QED BY <2>1, <2>2 DEF Course, Working, Length, Id, Requests
  <1>3. CASE Traffic
    <2>1. /\ pass = NoPass /\ pass'.at = 1 /\ pass'.id = None /\ served' = served + 1
          /\ UNCHANGED <<kind, files, up>>
          /\ probe.phase = "off" \/ (probe.phase = "numbered" /\ kind \in Slow)
      BY <1>3 DEF Traffic, Started
    <2>2. CASE probe.phase = "off"
      <3>1. probe = NoProbe /\ probe' = probe BY <1>3, <2>2 DEF Traffic, Course, Working
      <3>2. Length' = 0 /\ Requests' \in Nat BY <1>1, <1>n, <2>1, <3>1 DEF Length, Requests
      <3>3. QED BY <1>n, <2>1, <3>1, <3>2 DEF Course, Working
    <2>3. CASE probe.phase = "numbered" /\ kind \in Slow
      <3>1. probe' = [probe EXCEPT !.alone = FALSE] BY <1>3, <2>3 DEF Traffic
      <3>2. /\ probe'.phase = "numbered" /\ probe'.start = probe.start /\ probe'.sent = <<>>
            /\ ~probe'.alone /\ Length' = 0 /\ Requests' \in Nat
        BY <1>1, <2>1, <2>3, <3>1 DEF Course, Length, Requests
      <3>3. QED BY <2>1, <2>3, <3>2 DEF Course, Working
    <2>4. QED BY <2>1, <2>2, <2>3
  <1>4. CASE Number
    <2>1. /\ probe'.phase = "numbered" /\ probe'.start = StartId /\ probe'.sent = <<>>
          /\ pass # NoPass => ~probe'.alone
          /\ UNCHANGED <<kind, files, pass, up, served>> /\ (kind \in Slow \/ pass = NoPass)
      BY <1>4 DEF Number, Server
    <2>2. Length' = 0 /\ Requests' \in Nat BY <1>1, <2>1 DEF Length, Requests
    <2>3. kind \notin Numbered => StartId = 0 BY DEF StartId
    <2>4. QED BY <2>1, <2>2, <2>3 DEF Course, Working
  <1>5. CASE Arm
    <2>1. /\ probe.phase = "numbered" /\ probe' = [probe EXCEPT !.phase = "armed"]
          /\ files' = [trigger |-> TRUE, id |-> None] /\ UNCHANGED <<kind, pass, up, served>>
      BY <1>5 DEF Arm, Server
    <2>2. /\ probe'.phase = "armed" /\ probe'.start = probe.start /\ probe'.sent = probe.sent
          /\ probe'.alone = probe.alone /\ Length' = Length
      BY <2>1, PhaseSet DEF Phases
    <2>3. Length = 0 /\ Requests' = Requests BY <2>1 DEF Length, Course, Requests
    <2>4. QED BY <1>1, <2>1, <2>2, <2>3 DEF Course, Working
  <1>6. CASE WriteId
    <2>1. /\ probe.phase = "armed" /\ probe' = [probe EXCEPT !.phase = "written"]
          /\ files' = [files EXCEPT !.id = probe.start + Len(probe.sent)]
          /\ Length < Requests /\ UNCHANGED <<kind, pass, up, served>>
      BY <1>6 DEF WriteId, Server, Length
    <2>2. /\ probe'.phase = "written" /\ probe'.start = probe.start /\ probe'.sent = probe.sent
          /\ probe'.alone = probe.alone /\ Length' = Length /\ Requests' = Requests
      BY <2>1, PhaseSet DEF Phases, Requests
    <2>3. files = [trigger |-> TRUE, id |-> files.id]
      BY <2>1 DEF Course
    <2>4. files' = [trigger |-> TRUE, id |-> probe.start + Length]
      <3>1. files' = [trigger |-> files.trigger, id |-> probe.start + Length]
        BY <2>1 DEF Length, TypeOK
      <3>2. files.trigger = TRUE BY <2>3
      <3>3. QED BY <3>1, <3>2
    <2>5. probe.start + Length = probe.start + (Length + 1) - 1 BY <1>1
    <2>6. QED BY <1>1, <2>1, <2>2, <2>4, <2>5 DEF Course, Working, Id
  <1>7. CASE Send
    <2>1. /\ probe.phase = "written" /\ up /\ pass = NoPass /\ pass'.at = 1 /\ pass'.id = None
          /\ served' = served + 1
          /\ probe'.phase = "waiting" /\ probe'.start = probe.start
          /\ probe'.sent = Append(probe.sent, served + 1) /\ probe'.alone = probe.alone
          /\ UNCHANGED <<kind, files, up>>
      BY <1>7 DEF Send, Started
    <2>2. Length' = Length + 1 /\ probe'.sent[Length + 1] = served + 1 /\ Requests' = Requests
      BY <1>1, <2>1 DEF Length, Requests
    <2>4. files = [trigger |-> TRUE, id |-> Id(Length + 1)] /\ Length < Requests
      BY <2>1 DEF Course
    <2>5. files' = [trigger |-> TRUE, id |-> probe'.start + Length' - 1] /\ up'
      BY <1>1, <2>1, <2>2, <2>4 DEF Id
    <2>6. Length' <= Requests' /\ probe'.sent[Length'] = served' /\ Length' > 0
      <3>1. Length' <= Requests' /\ Length' > 0 BY <1>1, <2>2, <2>4
      <3>2. probe'.sent[Length'] = served' BY <2>1, <2>2
      <3>3. QED BY <3>1, <3>2
    <2>7. kind' \notin Numbered => probe'.start = 0 BY <2>1 DEF Course
    <2>8. QED BY <2>1, <2>5, <2>6, <2>7 DEF Course, Working, Id
  <1>8. CASE Answer
    <2>1. /\ probe.phase = "waiting" /\ pass.request # probe.sent[Len(probe.sent)]
          /\ probe' = [probe EXCEPT !.phase = "armed"]
          /\ UNCHANGED <<kind, files, pass, up, served>>
      BY <1>8 DEF Answer, Server
    <2>2. /\ probe'.phase = "armed" /\ probe'.start = probe.start /\ probe'.sent = probe.sent
          /\ probe'.alone = probe.alone /\ Length' = Length /\ Requests' = Requests
      BY <2>1, PhaseSet DEF Phases, Requests
    <2>3. Length > 0 /\ pass = NoPass BY <1>1, <2>1 DEF Course, Length
    <2>4. files = [trigger |-> TRUE, id |-> Id(Length)] BY <2>1 DEF Course
    <2>5. files' = [trigger |-> TRUE, id |-> probe'.start + Length' - 1] /\ Length' # 0
      BY <1>1, <2>1, <2>2, <2>3, <2>4 DEF Id
    <2>6. QED BY <1>1, <2>1, <2>2, <2>3, <2>5 DEF Course, Working, Id
  <1>9. CASE Disarm
    <2>1. /\ probe.phase = "armed" /\ probe' = [probe EXCEPT !.phase = "disarmed"]
          /\ files' = Disarmed /\ Length = Requests /\ UNCHANGED <<kind, pass, up, served>>
      BY <1>9 DEF Disarm, Server, Length
    <2>2. /\ probe'.phase = "disarmed" /\ probe'.start = probe.start /\ probe'.sent = probe.sent
          /\ probe'.alone = probe.alone /\ Length' = Length /\ Requests' = Requests
      BY <2>1, PhaseSet DEF Phases, Requests
    <2>3. QED BY <1>1, <2>1, <2>2 DEF Course, Working
  <1>10. CASE Unanswered BY <1>10, <1>o DEF Unanswered, Server
  <1>11. CASE Collect BY <1>11, <1>o DEF Collect, Server
  <1>12. CASE Cut BY <1>12, <1>o DEF Cut, Server
  <1>13. CASE Restart
    <2>1. /\ pass' = NoPass /\ up' = FALSE /\ UNCHANGED <<kind, served>>
          /\ IF probe.phase = "waiting" THEN probe' = NoProbe /\ files' = Disarmed
             ELSE UNCHANGED <<probe, files>>
      BY <1>13, Zenon DEF Restart
    <2>2. CASE probe.phase = "waiting" BY <1>o, <2>1, <2>2
    <2>3. CASE probe.phase # "waiting"
      <3>1. Length' = Length /\ Requests' = Requests BY <2>1, <2>3 DEF Length, Requests
      <3>2. QED BY <1>n, <2>1, <2>3, <3>1 DEF Course, Working, Id
    <2>4. QED BY <2>2, <2>3
  <1>14. CASE Ready
    <2>1. UNCHANGED <<kind, files, probe, pass, served>> /\ probe.phase \in {"off", "disarmed"}
      BY <1>14 DEF Ready, Tools
    <2>2. Length' = Length /\ Requests' = Requests BY <2>1 DEF Length, Requests
    <2>3. QED BY <2>1, <2>2 DEF Course, Working, Id
  <1>15. CASE UNCHANGED vars
    <2>1. UNCHANGED <<kind, files, probe, pass, served, up>> BY <1>15 DEF vars
    <2>2. Length' = Length /\ Requests' = Requests BY <2>1 DEF Length, Requests
    <2>3. QED BY <2>1, <2>2 DEF Course, Working, Id
  <1>16. QED
    BY <1>2, <1>3, <1>4, <1>5, <1>6, <1>7, <1>8, <1>9, <1>10, <1>11, <1>12, <1>13,
       <1>14, <1>15 DEF Next

\* What a step that is not a stage of a pass does to a tool.
Ended == probe' = NoProbe
Began ==
  /\ probe.phase = "off" /\ probe'.phase = "numbered" /\ probe'.start = StartId
  /\ probe'.sent = <<>> /\ probe'.alone \in BOOLEAN
  /\ IF pass = NoPass THEN probe'.alone = TRUE ELSE kind \in Slow /\ probe'.alone = FALSE
Went ==
  /\ probe'.phase # "off" /\ probe.phase # "off" /\ probe'.start = probe.start
  /\ Length' \in {Length, Length + 1}
  /\ \A k \in 1..Length : probe'.sent[k] = probe.sent[k]
  /\ probe'.phase = "waiting" => pass' # NoPass \/ (Length' = Length /\ probe.phase = "waiting")
  /\ InHand' => pass'.at = 1 \/ (pass' = pass /\ InHand)
  /\ Answered' = Answered
  /\ probe.phase = "disarmed" => probe'.phase = "disarmed"
  /\ probe'.phase = "disarmed" => Length' = Length
  /\ probe'.alone \in {probe.alone, FALSE}

\* A step that is no stage ends the tool, begins one, or takes it further.
LEMMA OtherStep ==
  ASSUME TypeOK, Course, ~Shared, [Next]_vars, ~Stage
  PROVE  Ended \/ Began \/ Went
  <1>1. /\ Length \in Nat /\ probe.sent \in Seq(Nat) /\ probe.phase \in Phases
        /\ probe.alone \in BOOLEAN
        /\ pass = NoPass \/ pass.request = served
        /\ NoPass.at = 0
    BY SentIs DEF TypeOK, PassType, NoPass
  <1>w. ASSUME NEW x \in Phases, x # "off", Working, probe' = [probe EXCEPT !.phase = x],
               x = "waiting" <=> probe.phase = "waiting",
               pass' = pass, probe.phase = "disarmed" => x = "disarmed"
        PROVE  Went
    <2>1. /\ probe'.phase = x /\ probe'.start = probe.start /\ probe'.sent = probe.sent
          /\ probe'.alone = probe.alone /\ Length' = Length
      BY <1>w, PhaseSet
    <2>2. InHand' <=> InHand BY <1>w, <2>1 DEF InHand
    <2>3. Answered' = Answered BY <2>1, <2>2 DEF Answered
    <2>4. QED BY <1>1, <1>w, <2>1, <2>2, <2>3 DEF Went, Working
  <1>2. CASE UNCHANGED <<probe, pass>>
    <2>1. Length' = Length /\ Answered' = Answered /\ (InHand' <=> InHand)
      BY <1>2 DEF Length, Answered, InHand
    <2>2. CASE ~Working BY <1>2, <2>2 DEF Course, Ended
    <2>3. CASE Working BY <1>1, <1>2, <2>1, <2>3 DEF Went, Working
    <2>4. QED BY <2>2, <2>3
  <1>3. CASE Traffic
    <2>1. CASE probe.phase = "off"
      BY <1>3, <2>1 DEF Traffic, Course, Working, Ended
    <2>2. CASE probe.phase # "off"
      <3>1. probe.phase = "numbered" /\ probe' = [probe EXCEPT !.alone = FALSE]
        BY <1>3, <2>2 DEF Traffic
      <3>2. /\ probe'.phase = "numbered" /\ probe'.start = probe.start /\ probe'.sent = probe.sent
            /\ probe'.alone = FALSE
        BY <3>1 DEF TypeOK
      <3>3. Length' = Length /\ ~InHand /\ ~InHand' BY <3>1, <3>2 DEF Length, InHand
      <3>4. Answered' = Answered BY <3>3 DEF Answered
      <3>5. QED BY <1>1, <3>1, <3>2, <3>3, <3>4 DEF Went
    <2>3. QED BY <2>1, <2>2
  <1>4. CASE Number
    <2>1. /\ probe.phase = "off" /\ (kind \in Slow \/ pass = NoPass)
          /\ probe' = [phase |-> "numbered", start |-> StartId, sent |-> <<>>,
                       alone |-> (pass = NoPass)]
      BY <1>4, Zenon DEF Number
    <2>2. probe'.phase = "numbered" /\ probe'.start = StartId /\ probe'.sent = <<>>
      BY <2>1
    <2>3. IF pass = NoPass THEN probe'.alone = TRUE ELSE kind \in Slow /\ probe'.alone = FALSE
      <3>1. CASE pass = NoPass BY <2>1, <3>1
      <3>2. CASE pass # NoPass BY <2>1, <3>2
      <3>3. QED BY <3>1, <3>2
    <2>4. QED BY <2>1, <2>2, <2>3 DEF Began
  <1>5. CASE Arm
    <2>1. probe.phase = "numbered" /\ probe' = [probe EXCEPT !.phase = "armed"] /\ pass' = pass
      BY <1>5 DEF Arm, Server
    <2>2. QED BY <1>w, <2>1 DEF Phases, Working
  <1>6. CASE WriteId
    <2>1. probe.phase = "armed" /\ probe' = [probe EXCEPT !.phase = "written"] /\ pass' = pass
      BY <1>6 DEF WriteId, Server
    <2>2. QED BY <1>w, <2>1 DEF Phases, Working
  <1>7. CASE Send
    <2>1. /\ probe.phase = "written" /\ pass' # NoPass /\ pass'.at = 1
          /\ probe'.phase = "waiting" /\ probe'.start = probe.start
          /\ probe'.sent = Append(probe.sent, served + 1) /\ probe'.alone = probe.alone
      BY <1>7 DEF Send, Started, NoPass
    <2>2. Length' = Length + 1 /\ (\A k \in 1..Length : probe'.sent[k] = probe.sent[k])
      BY <1>1, <2>1 DEF Length
    <2>3. InHand' /\ ~InHand BY <2>1 DEF InHand
    <2>4. Answered' = Length' - 1 /\ Answered = Length BY <2>3 DEF Answered
    <2>5. Answered' = Answered BY <1>1, <2>2, <2>4
    <2>6. QED BY <2>1, <2>2, <2>5 DEF Went
  <1>8. CASE Answer
    <2>1. /\ probe.phase = "waiting" /\ pass.request # probe.sent[Len(probe.sent)]
          /\ probe' = [probe EXCEPT !.phase = "armed"] /\ pass' = pass
      BY <1>8 DEF Answer, Server
    <2>2. /\ probe'.phase = "armed" /\ probe'.start = probe.start /\ probe'.sent = probe.sent
          /\ probe'.alone = probe.alone /\ Length' = Length
      BY <2>1, PhaseSet DEF Phases
    <2>3. Length > 0 /\ pass = NoPass BY <1>1, <2>1 DEF Course, Length
    <2>4. ~InHand /\ ~InHand' BY <2>1, <2>2, <2>3 DEF InHand
    <2>5. Answered' = Answered BY <2>2, <2>4 DEF Answered
    <2>6. QED BY <1>1, <2>1, <2>2, <2>4, <2>5 DEF Went
  <1>9. CASE Disarm
    <2>1. probe.phase = "armed" /\ probe' = [probe EXCEPT !.phase = "disarmed"] /\ pass' = pass
      BY <1>9 DEF Disarm, Server
    <2>2. QED BY <1>w, <2>1 DEF Phases, Working
  <1>10. CASE Unanswered \/ Collect \/ Cut
    BY <1>10 DEF Unanswered, Collect, Cut, Ended
  <1>11. CASE Restart
    <2>1. CASE probe.phase = "waiting" BY <1>11, <2>1 DEF Restart, Ended
    <2>2. CASE probe.phase # "waiting"
      <3>1. probe' = probe /\ pass' = NoPass BY <1>11, <2>2 DEF Restart
      <3>2. CASE ~Working BY <3>1, <3>2 DEF Course, Ended
      <3>3. CASE Working
        <4>1. Length' = Length /\ ~InHand /\ ~InHand' BY <2>2, <3>1 DEF Length, InHand
        <4>2. Answered' = Answered BY <4>1 DEF Answered
        <4>3. QED BY <1>1, <2>2, <3>1, <3>3, <4>1, <4>2 DEF Went, Working
      <3>4. QED BY <3>2, <3>3
    <2>3. QED BY <2>1, <2>2
  <1>12. CASE Ready BY <1>2, <1>12 DEF Ready, Tools
  <1>13. CASE UNCHANGED vars BY <1>2, <1>13 DEF vars
  <1>14. QED
    BY <1>3, <1>4, <1>5, <1>6, <1>7, <1>8, <1>9, <1>10, <1>11, <1>12, <1>13 DEF Next

\* And to the server and the files.
Idle == pass = NoPass /\ served' = served + 1 /\ pass' = [request |-> served + 1, at |-> 1, id |-> None]
LEMMA OtherServer ==
  ASSUME TypeOK, Course, ~Shared, [Next]_vars, ~Stage
  PROVE  /\ log' = log /\ kind' = kind /\ Requests' = Requests
         /\ mem' = mem \/ (mem' = NoMemory /\ ~up')
         /\ up' => up \/ (probe.phase \in {"off", "disarmed"} /\ probe' = probe)
         /\ \/ pass' = pass /\ served' = served
            \/ pass' = NoPass /\ mem' = NoMemory /\ served' = served
            \/ Idle /\ mem' = mem
         /\ \/ files'.id \in {files.id, None}
            \/ /\ files'.id = probe.start + Length /\ Length < Requests
               /\ probe.phase = "armed" /\ probe'.phase = "written"
               /\ probe'.start = probe.start
         /\ report' \in {report, NoReport} \/ Collect
  <1>d. NoPass.request = 0 /\ Disarmed.id = None BY DEF NoPass, Disarmed
  <1>1. CASE Traffic \/ Send
    BY <1>1, Zenon DEF Traffic, Send, Started, Idle, Requests
  <1>2. CASE Number \/ Answer
    <2>1. /\ log' = log /\ kind' = kind /\ mem' = mem /\ pass' = pass /\ up' = up
          /\ served' = served /\ files' = files /\ report' \in {report, NoReport}
      BY <1>2 DEF Number, Answer, Server
    <2>2. QED BY <2>1, Zenon DEF Requests
  <1>3. CASE Arm \/ Disarm \/ Unanswered \/ Cut \/ Collect
    <2>1. log' = log /\ kind' = kind /\ mem' = mem /\ pass' = pass /\ up' = up /\ served' = served
      BY <1>3, Zenon DEF Arm, Disarm, Unanswered, Cut, Collect, Server
    <2>2. files'.id \in {files.id, None}
      BY <1>3, <1>d DEF Arm, Disarm, Unanswered, Cut, Collect
    <2>3. report' = report \/ Collect BY <1>3 DEF Arm, Disarm, Unanswered, Cut
    <2>4. QED BY <2>1, <2>2, <2>3, Zenon DEF Requests
  <1>4. CASE WriteId
    <2>1. /\ log' = log /\ kind' = kind /\ mem' = mem /\ pass' = pass /\ up' = up
          /\ served' = served /\ report' = report /\ probe.phase = "armed" /\ Length < Requests
      BY <1>4, Zenon DEF WriteId, Server, Length
    <2>2. files'.id = probe.start + Length BY <1>4 DEF WriteId, Length, TypeOK
    <2>3. probe'.phase = "written" /\ probe'.start = probe.start BY <1>4 DEF WriteId, TypeOK
    <2>4. QED BY <2>1, <2>2, <2>3, Zenon DEF Requests
  <1>5. CASE Restart
    <2>1. /\ log' = log /\ kind' = kind /\ mem' = NoMemory /\ ~up' /\ pass' = NoPass
          /\ served' = served /\ report' = report
      BY <1>5, Zenon DEF Restart
    <2>2. files'.id \in {files.id, None} BY <1>5, <1>d DEF Restart
    <2>3. QED BY <2>1, <2>2, Zenon DEF Requests
  <1>6. CASE Ready
    BY <1>6, Zenon DEF Ready, Tools, Requests
  <1>7. CASE UNCHANGED vars
    BY <1>7, Zenon DEF vars, Requests
  <1>8. QED
    BY <1>1, <1>2, <1>3, <1>4, <1>5, <1>6, <1>7, Zenon DEF Next
-----------------------------------------------------------------------------
(* The pass in hand: what it has left so far. *)

Before == {Stages[k] : k \in 1..(pass.at - 1)}
BegunIn(t) ==
  /\ Id(Length) \in DOMAIN t
  /\ \A s \in Before : s \in DOMAIN t[Id(Length)] /\ t[Id(Length)][s] = served
Underway ==
  InHand /\ pass.at > 1 =>
    /\ kind = "marlin" => BegunIn(mem.active)
    /\ kind \in {"humming", "linear", "upstream"} => BegunIn(mem.kept)
    /\ kind \in ReadKinds => pass.id = Id(Length)

\* The stages that a pass has behind it.
LEMMA BeforeIs ==
  /\ pass.at = 1 => Before = {}
  /\ pass.at = 2 => Before = {"entry"}
  /\ pass.at = 3 => Before = {"entry", "middle"}
  <1>1. 1..0 = {} /\ 1..1 = {1} /\ 1..2 = {1, 2} OBVIOUS
  <1>2. Stages[1] = "entry" /\ Stages[2] = "middle" BY DEF Stages
  <1>3. CASE pass.at = 1 BY <1>1, <1>3 DEF Before
  <1>4. CASE pass.at = 2 BY <1>1, <1>2, <1>4 DEF Before
  <1>5. CASE pass.at = 3 BY <1>1, <1>2, <1>5 DEF Before
  <1>6. QED BY <1>3, <1>4, <1>5

\* A snapshot grows stage by stage, and is whole with the last.
LEMMA StoredSnapshot ==
  ASSUME NEW t, IsTable(t), NEW f, pass.at \in 1..3,
         pass.at > 1 => f \in DOMAIN t /\ \A s \in Before : s \in DOMAIN t[f] /\ t[f][s] = pass.request
  PROVE  LET u == Stored(t, f, Stages[pass.at])
         IN /\ f \in DOMAIN u
            /\ \A s \in Before \cup {Stages[pass.at]} : s \in DOMAIN u[f] /\ u[f][s] = pass.request
            /\ pass.at = 3 => u[f] = [s \in AllStages |-> pass.request]
  <1> DEFINE u == Stored(t, f, Stages[pass.at])
             old == Snapshot(t, f)
             new == With(old, Stages[pass.at], pass.request)
  <1>1. f \in DOMAIN u /\ u[f] = new
    <2> HIDE DEF old
    <2>1. QED BY DEF Stored, With, old
  <1>2. /\ DOMAIN new = DOMAIN old \cup {Stages[pass.at]} /\ new[Stages[pass.at]] = pass.request
        /\ \A s \in DOMAIN old \ {Stages[pass.at]} : new[s] = old[s]
    <2> HIDE DEF old
    <2>1. QED BY DEF With
  <1>3. ASSUME NEW s \in Before PROVE s \in DOMAIN old /\ old[s] = pass.request
    <2>1. pass.at > 1 BY <1>3, BeforeIs
    <2>2. QED BY <1>3, <2>1 DEF Snapshot
  <1>4. Stages[pass.at] \notin Before
    <2>1. Stages[1] = "entry" /\ Stages[2] = "middle" /\ Stages[3] = "final" BY DEF Stages
    <2>2. pass.at = 1 \/ pass.at = 2 \/ pass.at = 3 OBVIOUS
    <2>3. QED BY <2>1, <2>2, BeforeIs
  <1>5. \A s \in Before \cup {Stages[pass.at]} : s \in DOMAIN new /\ new[s] = pass.request
    <2> HIDE DEF old, new
    <2>1. QED BY <1>2, <1>3, <1>4
  <1>6. ASSUME pass.at = 3 PROVE new = [s \in AllStages |-> pass.request]
    <2>1. AllStages = Before \cup {Stages[pass.at]}
      <3>1. Stages[3] = "final" BY DEF Stages
      <3>2. QED BY <1>6, <3>1, BeforeIs DEF AllStages
    <2>2. DOMAIN old \subseteq AllStages BY SnapshotIs DEF IsSnapshot
    <2>3. DOMAIN new = AllStages
      <3> HIDE DEF old, new
      <3>1. QED BY <1>2, <1>5, <2>1, <2>2
    <2>4. new = [s \in DOMAIN new |-> new[s]] BY DEF With
    <2> HIDE DEF old, new
    <2>5. QED BY <1>5, <2>1, <2>3, <2>4
  <1>7. QED BY <1>1, <1>5, <1>6

\* A stage is of the pass that the tool waits for, or the tool has sent nothing.
LEMMA StageOf ==
  ASSUME TypeOK, Course, Stage
  PROVE  /\ \/ /\ InHand /\ Length \in Nat \ {0} /\ Length <= Requests
               /\ files.id = Id(Length) /\ Id(Length) \in Nat
               /\ probe.sent[Length] = served /\ Answered = Length - 1
               /\ pass.at # 3 => InHand' /\ Answered' = Answered
               /\ pass.at = 3 => ~InHand' /\ Answered' = Length
            \/ ~InHand /\ ~InHand' /\ Length = 0 /\ Answered = 0 /\ Answered' = 0
         /\ probe' = probe /\ files' = files /\ kind' = kind /\ up' = up /\ served' = served
         /\ Length' = Length /\ Requests' = Requests /\ StagesOf' = StagesOf
         /\ NoPass.at = 0
  <1>1. /\ Length \in Nat /\ probe.start \in Nat /\ pass # NoPass /\ pass.request = served
        /\ served \in Nat \ {0} /\ NoPass.request = 0 /\ NoPass.at = 0
    BY SentIs, StageIs DEF NoPass
  <1>2. /\ pass.at = 3 => pass' = NoPass
        /\ pass.at # 3 => pass'.request = served
        /\ probe' = probe /\ files' = files /\ kind' = kind /\ up' = up /\ served' = served
    BY StageIs
  <1>3. pass.at # 3 => pass' # NoPass BY <1>1, <1>2
  <1>4. Length' = Length /\ Requests' = Requests /\ StagesOf' = StagesOf
    BY <1>2 DEF Length, Requests, StagesOf
  <1>5. CASE InHand
    <2>1. /\ files.id = Id(Length) /\ Length > 0 /\ Length <= Requests
          /\ probe.sent[Length] = served
      BY <1>5 DEF InHand, Course
    <2>2. Id(Length) \in Nat BY <1>1, <2>1 DEF Id
    <2>3. /\ pass.at # 3 => InHand' /\ Answered' = Length' - 1
          /\ pass.at = 3 => ~InHand' /\ Answered' = Length'
          /\ Answered = Length - 1
      BY <1>2, <1>3, <1>5 DEF InHand, Answered
    <2>4. QED BY <1>1, <1>2, <1>4, <1>5, <2>1, <2>2, <2>3
  <1>6. CASE ~InHand
    <2>1. probe.phase # "waiting" /\ Length = 0
      BY <1>1, <1>6 DEF InHand, Course
    <2>2. ~InHand' BY <1>2, <2>1 DEF InHand
    <2>3. Answered = 0 /\ Answered' = 0 BY <1>4, <1>6, <2>1, <2>2 DEF Answered
    <2>4. QED BY <1>1, <1>2, <1>4, <1>6, <2>1, <2>2, <2>3
  <1>7. QED BY <1>5, <1>6

\* A stage adds itself to the snapshot of its request.
LEMMA BegunStep ==
  ASSUME TypeOK, Course, Stage, InHand, pass.at # 3, NEW t, IsTable(t), NEW u,
         pass.at > 1 => BegunIn(t),
         \/ u = Stored(t, files.id, Stages[pass.at])
         \/ pass.at = 1 /\ u = With(t, files.id, Local({"entry"}))
  PROVE  /\ Id(Length) \in DOMAIN u
         /\ \A s \in Before' : s \in DOMAIN u[Id(Length)] /\ u[Id(Length)][s] = served
  <1> DEFINE f == files.id
  <1>1. f = Id(Length) /\ pass.request = served /\ pass.at \in 1..3
    BY StageIs, StageOf
  <1>2. pass'.at = pass.at + 1 BY StageIs
  <1>3. Before' = Before \cup {Stages[pass.at]}
    <2>1. (pass'.at = 2 => Before' = {"entry"}) /\ (pass'.at = 3 => Before' = {"entry", "middle"})
      <3>1. 1..1 = {1} /\ 1..2 = {1, 2} OBVIOUS
      <3>2. Stages[1] = "entry" /\ Stages[2] = "middle" BY DEF Stages
      <3>3. QED BY <3>1, <3>2 DEF Before
    <2>2. Stages[1] = "entry" /\ Stages[2] = "middle" BY DEF Stages
    <2>3. pass.at = 1 \/ pass.at = 2 BY <1>1
    <2>4. QED BY <1>2, <2>1, <2>2, <2>3, BeforeIs
  <1>4. CASE u = Stored(t, f, Stages[pass.at])
    <2>1. pass.at > 1 => f \in DOMAIN t /\ \A s \in Before : s \in DOMAIN t[f] /\ t[f][s] = pass.request
      BY <1>1 DEF BegunIn
    <2>2. f \in DOMAIN u /\ \A s \in Before \cup {Stages[pass.at]} : s \in DOMAIN u[f] /\ u[f][s] = served
      <3> HIDE DEF f
      <3>1. LET w == Stored(t, f, Stages[pass.at])
            IN f \in DOMAIN w
               /\ \A s \in Before \cup {Stages[pass.at]} : s \in DOMAIN w[f] /\ w[f][s] = pass.request
        BY <1>1, <2>1, StoredSnapshot
      <3>2. QED BY <1>1, <1>4, <3>1
    <2>3. QED BY <1>1, <1>3, <2>2
  <1>5. CASE pass.at = 1 /\ u = With(t, f, Local({"entry"}))
    <2>1. f \in DOMAIN u /\ u[f] = Local({"entry"}) BY <1>5 DEF With
    <2>2. Before' = {"entry"}
      <3>1. Stages[1] = "entry" BY DEF Stages
      <3>2. QED BY <1>3, <1>5, <3>1, BeforeIs
    <2>3. QED BY <1>1, <2>1, <2>2 DEF Local
  <1>6. QED BY <1>4, <1>5

\* The pass in hand has left all the stages it had.
LEMMA UnderwayStep ==
  ASSUME TypeOK, TypeOK', Course, ~Shared, Underway, [Next]_vars,
         InHand /\ pass.at = 1 /\ kind \in OnceKinds => files.id \notin mem.done
  PROVE  Underway'
  <1>1. CASE ~Stage
    <2>1. Ended \/ Began \/ Went BY <1>1, OtherStep
    <2>2. NoProbe.phase = "off" BY DEF NoProbe
    <2>3. CASE ~InHand' BY <2>3 DEF Underway
    <2>4. CASE InHand'
      <3>1. Went BY <2>1, <2>2, <2>4 DEF Ended, Began, InHand
      <3>2. CASE pass'.at = 1
        <4>1. ~(pass'.at > 1) BY <3>2
        <4>2. QED BY <4>1, Zenon DEF Underway
      <3>3. CASE pass'.at # 1
        <4>1. pass' = pass /\ InHand BY <2>4, <3>1, <3>3 DEF Went
        <4>2. InHand' => Answered' = Length' - 1 BY DEF Answered
        <4>3. probe'.start = probe.start /\ Length' = Length /\ probe.phase = "waiting" /\ probe'.phase = "waiting"
          <5>1. Answered = Length - 1 BY <4>1 DEF Answered
          <5>2. Answered' = Answered /\ probe'.start = probe.start BY <3>1 DEF Went
          <5>3. Length \in Nat /\ Length' \in {Length, Length + 1} BY SentIs, <3>1 DEF Went
          <5>4. Length' = Length
            <6>1. Length' - 1 = Length - 1 BY <2>4, <4>2, <5>1, <5>2
            <6>2. \A a, b \in Nat : a - 1 = b - 1 => a = b
              OBVIOUS
            <6>3. Length \in Nat /\ Length' \in Nat BY <5>3
            <6>4. QED BY <6>1, <6>2, <6>3
          <5>5. QED BY <2>4, <4>1, <5>2, <5>4 DEF InHand
        <4>4. /\ mem' = mem \/ (mem' = NoMemory /\ ~up')
              /\ kind' = kind
              /\ \/ pass' = pass /\ served' = served
                 \/ pass' = NoPass /\ mem' = NoMemory /\ served' = served
                 \/ Idle /\ mem' = mem
          BY <1>1, OtherServer
        <4>5. up' /\ pass # NoPass /\ served' = served
          <5>1. pass # NoPass BY <4>1 DEF InHand
          <5>2. up' BY <4>1, <5>1 DEF TypeOK, PassType
          <5>3. QED BY <4>4, <5>1, <5>2 DEF Idle
        <4>6. mem' = mem BY <4>4, <4>5
        <4>7. Before' = Before /\ Id(Length)' = Id(Length)
          BY <4>1, <4>3 DEF Before, Id
        <4>8. QED BY <4>1, <4>3, <4>4, <4>5, <4>6, <4>7 DEF Underway, BegunIn, Id
      <3>4. QED BY <3>2, <3>3
    <2>5. QED BY <2>3, <2>4
  <1>2. CASE Stage /\ (~InHand \/ pass.at = 3)
    <2>1. ~InHand' BY <1>2, StageOf
    <2>2. QED BY <2>1 DEF Underway
  <1>3. CASE Stage /\ InHand /\ pass.at # 3
    <2>1. /\ files.id = Id(Length) /\ files.id \in Nat /\ InHand' /\ kind' = kind
          /\ served' = served /\ pass.at \in 1..3 /\ probe' = probe /\ Length' = Length
      BY <1>3, StageOf, StageIs
    <2>2. files.id # None BY <2>1 DEF None
    <2>3. Id(Length)' = Id(Length) BY <2>1 DEF Id
    <2>4. IsTable(mem.active) /\ IsTable(mem.kept) BY DEF TypeOK, MemType
    <2>5. ASSUME kind = "marlin" PROVE BegunIn(mem.active)'
      <3> DEFINE u == IF pass.at = 1 THEN With(mem.active, files.id, Local({"entry"}))
                      ELSE Stored(mem.active, files.id, Stages[pass.at])
      <3>1. mem' = [active |-> u, kept |-> mem.kept, done |-> mem.done]
        BY <1>3, <2>2, <2>5, MarlinStage
      <3> HIDE DEF u
      <3>2. mem'.active = u BY <3>1
      <3>3. pass.at > 1 => BegunIn(mem.active) BY <1>3, <2>5 DEF Underway
      <3>4. \/ u = Stored(mem.active, files.id, Stages[pass.at])
            \/ pass.at = 1 /\ u = With(mem.active, files.id, Local({"entry"}))
        BY DEF u
      <3>5. /\ Id(Length) \in DOMAIN u
            /\ \A s \in Before' : s \in DOMAIN u[Id(Length)] /\ u[Id(Length)][s] = served
        BY <1>3, <2>4, <3>3, <3>4, BegunStep
      <3>6. QED BY <2>1, <2>3, <3>2, <3>5 DEF BegunIn
    <2>6. ASSUME kind \in {"humming", "linear", "upstream"} PROVE BegunIn(mem.kept)'
      <3> DEFINE u == Stored(mem.kept, files.id, Stages[pass.at])
      <3>1. mem'.kept = u
        <4>1. CASE kind = "humming"
          <5>1. mem' = [active |-> mem.active, kept |-> u, done |-> mem.done]
            BY <1>3, <2>2, <4>1, HummingStage
          <5> HIDE DEF u
          <5>2. QED BY <5>1
        <4>2. CASE kind \in {"linear", "upstream"}
          <5>1. files.id \in {0, 1}
            <6>1. Requests = 2 /\ probe.start = 0 BY <4>2 DEF Requests, Numbered, Course
            <6>2. Length \in Nat \ {0} /\ Length <= 2 BY <1>3, <6>1, StageOf
            <6>3. QED BY <2>1, <6>1, <6>2 DEF Id
          <5>2. mem' = [active |-> mem.active, kept |-> u, done |-> mem.done]
            BY <1>3, <4>2, <5>1, BothStage
          <5> HIDE DEF u
          <5>3. QED BY <5>2
        <4>3. QED BY <2>6, <4>1, <4>2
      <3>3. pass.at > 1 => BegunIn(mem.kept) BY <1>3, <2>6 DEF Underway
      <3>5. /\ Id(Length) \in DOMAIN u
            /\ \A s \in Before' : s \in DOMAIN u[Id(Length)] /\ u[Id(Length)][s] = served
        BY <1>3, <2>4, <3>3, BegunStep
      <3> HIDE DEF u
      <3>6. QED BY <2>1, <2>3, <3>1, <3>5 DEF BegunIn
    <2>7. ASSUME kind \in ReadKinds PROVE pass'.id = Id(Length)
      <3>1. pass' = [request |-> served, at |-> pass.at + 1,
                     id |-> IF pass.at = 1
                            THEN IF kind \in OnceKinds /\ files.id \in mem.done THEN None
                                 ELSE files.id
                            ELSE pass.id]
        BY <1>3, <2>7, StageIs
      <3>2. CASE pass.at = 1 BY <1>3, <2>1, <3>1, <3>2
      <3>3. CASE pass.at # 1
        <4>1. pass.id = Id(Length) BY <1>3, <2>1, <2>7, <3>3 DEF Underway
        <4>2. QED BY <3>1, <3>3, <4>1
      <3>4. QED BY <3>2, <3>3
    <2>8. QED BY <2>1, <2>3, <2>5, <2>6, <2>7 DEF Underway
  <1>4. QED BY <1>1, <1>2, <1>3
-----------------------------------------------------------------------------
(* The recorders that pair requests: what memory and log have of them. *)

\* The snapshot of request k with all its stages, and the record of two requests.
Whole(k) == [s \in StagesOf |-> probe.sent[k]]
PairOf(k, l) ==
  [ids |-> <<Id(k), Id(l)>>, snapshots |-> <<Whole(k), Whole(l)>>, pass |-> probe.sent[l]]
Base == IF Working THEN probe.start ELSE StartId

\* The answered requests are kept, and all pairs of them printed.
Paired ==
  kind \in PairKinds =>
    /\ up /\ probe.phase # "disarmed" =>
         \A k \in 1..Answered : Id(k) \in DOMAIN mem.kept /\ mem.kept[Id(k)] = Whole(k)
    /\ \A k, l \in 1..Answered : k < l \/ (k = l /\ kind = "humming") => PairOf(k, l) \in log
\* No number that the recorder may still use reaches beyond the tool.
Held == DOMAIN mem.kept \cup {files.id, pass.id}
Bounded ==
  kind \in PairKinds =>
    /\ \A i \in Held : i < Base + Requests
    /\ probe.start <= StartId

\* Nothing is taken out of the log.
LEMMA LogGrows ==
  ASSUME TypeOK, [Next]_vars
  PROVE  log \subseteq log' /\ kind' = kind
  <1>1. CASE Stage BY <1>1, StageIs
  <1>2. CASE Next /\ ~Stage BY <1>2, OthersKeep
  <1>3. CASE UNCHANGED vars BY <1>3 DEF vars
  <1>4. QED BY <1>1, <1>2, <1>3

\* A stage brings no new number into the recorder but the one in the file.
LEMMA HeldStep ==
  ASSUME TypeOK, Stage, kind \in PairKinds
  PROVE  Held' \subseteq Held \cup {None}
  <1>1. /\ files' = files
        /\ pass'.id \in {files.id, pass.id, None}
    <2>1. NoPass.id = None BY DEF NoPass
    <2>2. QED BY <2>1, StageIs
  <1>2. DOMAIN mem'.kept \subseteq DOMAIN mem.kept \cup {files.id, pass.id}
    <2>1. CASE kind = "marlin"
      <3> DEFINE active == IF pass.at = 1 THEN With(mem.active, files.id, Local({"entry"}))
                           ELSE Stored(mem.active, files.id, Stages[pass.at])
                 x == active[files.id]
      <3>1. \/ mem' = mem
            \/ mem' = [active |-> active, kept |-> mem.kept, done |-> mem.done]
            \/ mem' = Committed(files.id, x)
        BY <2>1, MarlinStage
      <3> HIDE DEF active, x
      <3>2. ASSUME mem' = Committed(files.id, x)
            PROVE  mem'.kept = Newest(With(mem.kept, files.id, x))
        BY <3>2 DEF Committed
      <3>3. DOMAIN Newest(With(mem.kept, files.id, x)) \subseteq DOMAIN mem.kept \cup {files.id}
        BY DEF Newest, With
      <3>4. QED BY <3>1, <3>2, <3>3
    <2>2. CASE kind = "humming"
      <3> DEFINE kept == Stored(mem.kept, files.id, Stages[pass.at])
      <3>1. \/ mem' = mem
            \/ mem' = [active |-> mem.active, kept |-> kept, done |-> mem.done]
            \/ mem' = [active |-> mem.active, kept |-> Newest(kept), done |-> mem.done]
        BY <2>2, HummingStage
      <3>2. DOMAIN kept = DOMAIN mem.kept \cup {files.id}
        BY DEF Stored, With
      <3> HIDE DEF kept
      <3>3. DOMAIN Newest(kept) \subseteq DOMAIN kept BY DEF Newest
      <3>4. QED BY <3>1, <3>2, <3>3
    <2>3. CASE kind = "modular"
      <3> DEFINE x == Local(AllStages)
      <3>1. \/ mem' = mem
            \/ mem' = [active |-> mem.active, done |-> mem.done,
                       kept |-> Newest(With(mem.kept, pass.id, x))]
        BY <2>3, ModularStage
      <3> HIDE DEF x
      <3>2. DOMAIN Newest(With(mem.kept, pass.id, x)) \subseteq DOMAIN mem.kept \cup {pass.id}
        BY DEF Newest, With
      <3>3. QED BY <3>1, <3>2
    <2>4. QED BY <2>1, <2>2, <2>3 DEF PairKinds
  <1>3. QED BY <1>1, <1>2 DEF Held

\* No number in the recorder is above those of the tool.
LEMMA BoundedStep ==
  ASSUME TypeOK, TypeOK', Course, ~Shared, Bounded, [Next]_vars
  PROVE  Bounded'
  <1> SUFFICES ASSUME kind' \in PairKinds
               PROVE  (\A i \in Held' : i < Base' + Requests') /\ probe'.start <= StartId'
    BY DEF Bounded
  <1>1. kind \in PairKinds /\ log \subseteq log' /\ kind' = kind /\ Requests' = Requests
    BY LogGrows DEF Requests
  <1>2. /\ StartId \in Nat /\ StartId' \in Nat /\ StartId <= StartId'
        /\ log' = log => StartId' = StartId
    BY <1>1, StartIdGrows
  <1>3. /\ \A i \in Held : i < Base + Requests
        /\ probe.start <= StartId /\ probe.start \in Nat /\ Requests \in Nat \ {0}
        /\ Length \in Nat
    BY <1>1, RequestsIs, SentIs DEF Bounded
  <1>4. Base \in Nat BY <1>2, <1>3 DEF Base
  <1>5. Held \subseteq Int
    <2>1. DOMAIN mem.kept \subseteq Nat BY DEF TypeOK, MemType, IsTable
    <2>2. files.id \in Int BY DEF TypeOK, Numbers, None
    <2>3. pass.id \in Int BY DEF TypeOK, PassType, Numbers, None, NoPass
    <2>4. QED BY <2>1, <2>2, <2>3 DEF Held
  <1>g. ASSUME NEW i \in Int, NEW b \in Nat, NEW c \in Nat, NEW q \in Nat \ {0},
               i < b + q \/ i = None, b <= c
        PROVE  i < c + q
    BY <1>g DEF None
  <1>6. CASE Stage
    <2>1. Held' \subseteq Held \cup {None} BY <1>1, <1>6, HeldStep
    <2>2. probe' = probe BY <1>6, StageIs
    <2>3. Base <= Base' /\ Base' \in Nat BY <1>2, <1>3, <2>2 DEF Base, Working
    <2>4. ASSUME NEW i \in Held' PROVE i < Base' + Requests'
      <3>1. i \in Int /\ (i < Base + Requests \/ i = None)
        BY <1>3, <1>5, <2>1 DEF None
      <3>2. QED BY <1>1, <1>3, <1>4, <1>g, <2>3, <3>1
    <2>5. QED BY <1>2, <1>3, <2>2, <2>4
  <1>7. CASE ~Stage
    <2>1. Ended \/ Began \/ Went BY <1>7, OtherStep
    <2>2. StartId' = StartId
      <3>1. log' = log BY <1>7, OtherServer
      <3>2. QED BY <1>2, <3>1
    <2>3. /\ Base <= Base' /\ Base' \in Nat /\ probe'.start <= StartId'
          /\ Working /\ Working' /\ probe'.start = probe.start => Base' = probe.start
      <3>1. CASE Ended
        <4>1. ~Working' /\ probe'.start = 0 BY <3>1 DEF Ended, NoProbe, Working
        <4>2. Base' = StartId BY <2>2, <4>1 DEF Base
        <4>3. QED BY <1>2, <1>3, <2>2, <4>1, <4>2 DEF Base
      <3>2. CASE Began
        <4>1. Base = StartId /\ Base' = StartId /\ ~Working /\ probe'.start = StartId
          BY <3>2 DEF Began, Base, Working
        <4>2. QED BY <1>2, <2>2, <4>1
      <3>3. CASE Went
        <4>1. Base = probe.start /\ Base' = probe.start /\ probe'.start = probe.start
          BY <3>3 DEF Went, Base, Working
        <4>2. QED BY <1>3, <2>2, <4>1
      <3>4. QED BY <2>1, <3>1, <3>2, <3>3
    <2>4. /\ \/ mem' = mem
             \/ mem' = NoMemory
          /\ \/ files'.id \in {files.id, None}
             \/ /\ files'.id = probe.start + Length /\ Length < Requests
                /\ probe.phase = "armed" /\ probe'.phase = "written"
                /\ probe'.start = probe.start
      BY <1>7, OtherServer
    <2>5. pass'.id \in {pass.id, None}
      <3>1. \/ pass' = pass /\ served' = served
            \/ pass' = NoPass /\ mem' = NoMemory /\ served' = served
            \/ Idle /\ mem' = mem
        BY <1>7, OtherServer
      <3>2. QED BY <3>1 DEF Idle, NoPass
    <2>6. DOMAIN mem'.kept \subseteq DOMAIN mem.kept
      BY <2>4, EmptyIs DEF NoMemory
    <2>8. ASSUME NEW i \in Held \cup {None} PROVE i < Base' + Requests'
      <3>1. i \in Int /\ (i < Base + Requests \/ i = None)
        BY <1>3, <1>5, <2>8 DEF None
      <3>2. QED BY <1>1, <1>3, <1>4, <1>g, <2>3, <3>1
    <2>7. files'.id < Base' + Requests'
      <3>1. CASE files'.id \in {files.id, None}
        <4>1. files.id \in Held BY DEF Held
        <4>2. QED BY <2>8, <3>1, <4>1
      <3>2. CASE files'.id \notin {files.id, None}
        <4>1. Base' = probe.start BY <2>3, <2>4, <3>2 DEF Working
        <4>2. QED BY <1>1, <1>3, <2>4, <3>2, <4>1
      <3>3. QED BY <3>1, <3>2
    <2>9. Held' \subseteq Held \cup {None, files'.id}
      BY <2>5, <2>6 DEF Held
    <2>10. QED BY <2>3, <2>7, <2>8, <2>9
  <1>8. QED BY <1>6, <1>7

\* The numbers of different requests differ.
LEMMA IdIs ==
  ASSUME TypeOK
  PROVE  \A k \in Nat \ {0} : Id(k) \in Nat /\ Id(k) >= probe.start
                              /\ \A l \in Nat \ {0} : (Id(k) = Id(l) <=> k = l)
  BY SentIs DEF Id

\* The last stage of the pass in hand completes the snapshot of its request.
LEMMA WholeSnapshot ==
  ASSUME TypeOK, Course, Underway, Stage, InHand, pass.at = 3
  PROVE  /\ kind = "marlin" => Stored(mem.active, files.id, Stages[pass.at])[files.id] = Whole(Length)
         /\ kind \in {"humming", "linear", "upstream"} =>
              Stored(mem.kept, files.id, Stages[pass.at])[files.id] = Whole(Length)
         /\ kind = "modular" => Local(AllStages) = Whole(Length)
         /\ kind \in OnceKinds => Local({"entry", "final"}) = Whole(Length)
         /\ kind \in ReadKinds => pass.id = files.id
  <1>1. /\ files.id = Id(Length) /\ pass.request = served /\ probe.sent[Length] = served
        /\ pass.at \in 1..3
    BY StageIs, StageOf
  <1>2. kind \notin OnceKinds \cup {"qkvz"} => Whole(Length) = [s \in AllStages |-> pass.request]
    BY <1>1 DEF Whole, StagesOf, OnceKinds
  <1>3. IsTable(mem.active) /\ IsTable(mem.kept) BY DEF TypeOK, MemType
  <1>4. ASSUME NEW t, IsTable(t), BegunIn(t)
        PROVE  Stored(t, files.id, Stages[pass.at])[files.id] = [s \in AllStages |-> pass.request]
    <2>1. /\ files.id \in DOMAIN t
          /\ \A s \in Before : s \in DOMAIN t[files.id] /\ t[files.id][s] = pass.request
      BY <1>1, <1>4 DEF BegunIn
    <2>2. QED BY <1>1, <1>4, <2>1, StoredSnapshot
  <1>5. kind = "marlin" => BegunIn(mem.active)
    BY DEF Underway
  <1>6. kind \in {"humming", "linear", "upstream"} => BegunIn(mem.kept)
    BY DEF Underway
  <1>7. kind = "modular" => Local(AllStages) = Whole(Length)
    BY <1>2 DEF Local, OnceKinds
  <1>8. kind \in OnceKinds => Local({"entry", "final"}) = Whole(Length)
    BY <1>1 DEF Local, Whole, StagesOf, OnceKinds
  <1>9. kind \in ReadKinds => pass.id = files.id
    BY <1>1 DEF Underway
  <1>10. kind = "marlin" => Stored(mem.active, files.id, Stages[pass.at])[files.id] = Whole(Length)
    BY <1>2, <1>3, <1>4, <1>5 DEF OnceKinds
  <1>11. kind \in {"humming", "linear", "upstream"} =>
           Stored(mem.kept, files.id, Stages[pass.at])[files.id] = Whole(Length)
    BY <1>2, <1>3, <1>4, <1>6 DEF OnceKinds
  <1>12. QED BY <1>7, <1>8, <1>9, <1>10, <1>11

\* What is expected of a request is a matter of the tool alone.
LEMMA SameProbe ==
  ASSUME probe' = probe, kind' = kind
  PROVE  \A k : Id(k)' = Id(k) /\ Whole(k)' = Whole(k) /\ PairOf(k, k)' = PairOf(k, k)
                /\ \A l : PairOf(k, l)' = PairOf(k, l)
  BY DEF Id, Whole, PairOf, StagesOf

\* What is kept with the last stage, and what is printed.
LEMMA CommitPairs ==
  ASSUME TypeOK, Course, Bounded, Paired, Repeats <= Kept,
         Stage, InHand, pass.at = 3, kind \in PairKinds,
         NEW t, DOMAIN t \subseteq Held, mem'.kept = Newest(t),
         \A k \in 1..Length : Id(k) \in DOMAIN t /\ t[Id(k)] = Whole(k),
         log \subseteq log',
         \A k \in 1..Length : k < Length \/ kind = "humming" =>
           Record(<<Id(k), Id(Length)>>, <<Whole(k), Whole(Length)>>) \in log'
  PROVE  Paired'
  <1>1. /\ Length \in Nat \ {0} /\ Answered = Length - 1 /\ Answered' = Length
        /\ probe' = probe /\ kind' = kind /\ probe.sent[Length] = served
    BY StageOf
  <1>2. probe.phase = "waiting" /\ Working /\ up' /\ pass.request = served /\ probe.start \in Nat
    BY StageOf, StageIs, SentIs DEF InHand, Working
  <1>3. \A k \in 1..Length : Id(k) \in DOMAIN t /\ t[Id(k)] = Whole(k)
    OBVIOUS
  <1>4. ASSUME NEW k \in 1..Length
        PROVE  Id(k) \in DOMAIN mem'.kept /\ mem'.kept[Id(k)] = Whole(k)
    <2>1. Requests \in Nat /\ Requests <= Kept
      BY RequestsIs DEF Requests, PairKinds, Numbered
    <2>2. \A i \in DOMAIN t : i < probe.start + Requests
      BY <1>2 DEF Bounded, Base
    <2>3. DOMAIN t \subseteq Int
      <3>1. DOMAIN mem.kept \subseteq Nat BY DEF TypeOK, MemType, IsTable
      <3>2. files.id \in Int BY DEF TypeOK, Numbers, None
      <3>3. pass.id \in Int BY DEF TypeOK, PassType, Numbers, None, NoPass
      <3>4. QED BY <3>1, <3>2, <3>3 DEF Held
    <2>4. Id(k) >= probe.start BY <1>1, IdIs
    <2>5. Id(k) \in DOMAIN Newest(t)
      BY <1>2, <1>3, <2>1, <2>2, <2>3, <2>4, NewestInRange
    <2>6. Newest(t)[Id(k)] = t[Id(k)] BY <2>5 DEF Newest
    <2>7. QED BY <1>3, <2>5, <2>6
  <1>5. ASSUME NEW k \in 1..Length, NEW l \in 1..Length, k < l \/ (k = l /\ kind = "humming")
        PROVE  PairOf(k, l) \in log'
    <2>1. CASE l < Length
      <3>1. k \in 1..Answered /\ l \in 1..Answered BY <1>1, <1>5, <2>1
      <3>2. PairOf(k, l) \in log BY <1>5, <3>1 DEF Paired
      <3>3. QED BY <3>2
    <2>2. CASE l = Length
      <3>2. Record(<<Id(k), Id(l)>>, <<Whole(k), Whole(l)>>) \in log'
        BY <1>5, <2>2
      <3>3. PairOf(k, l) = Record(<<Id(k), Id(l)>>, <<Whole(k), Whole(l)>>)
        BY <1>1, <1>2, <2>2 DEF PairOf, Record
      <3>4. QED BY <3>2, <3>3
    <2>3. QED BY <1>1, <2>1, <2>2
  <1>6. \A k, l : Id(k)' = Id(k) /\ Whole(k)' = Whole(k) /\ PairOf(k, l)' = PairOf(k, l)
    BY <1>1, SameProbe
  <1>7. \A k \in 1..Length : Id(k)' \in DOMAIN mem'.kept /\ mem'.kept[Id(k)'] = Whole(k)'
    BY <1>4, <1>6
  <1>8. \A k, l \in 1..Length : k < l \/ (k = l /\ kind' = "humming") => PairOf(k, l)' \in log'
    BY <1>1, <1>5, <1>6
  <1>9. QED BY <1>1, <1>7, <1>8, Zenon DEF Paired

\* A step that is not a stage leaves what was answered as it was, or ends the tool.
LEMMA OtherAnswered ==
  ASSUME TypeOK, Course, ~Shared, [Next]_vars, ~Stage
  PROVE  /\ \/ Answered' = 0 /\ Length' = 0
            \/ /\ Went /\ Answered' = Answered /\ Answered \in Nat
               /\ \A k \in 1..Answered : Id(k)' = Id(k) /\ Whole(k)' = Whole(k)
               /\ \A k, l \in 1..Answered : PairOf(k, l)' = PairOf(k, l)
               /\ up' /\ probe'.phase # "disarmed" =>
                    up /\ probe.phase # "disarmed" /\ mem' = mem
         /\ StagesOf' = StagesOf
  <1>1. Ended \/ Began \/ Went BY OtherStep
  <1>2. /\ log' = log /\ kind' = kind
        /\ mem' = mem \/ (mem' = NoMemory /\ ~up')
        /\ up' => up \/ (probe.phase \in {"off", "disarmed"} /\ probe' = probe)
    BY OtherServer
  <1>3. StagesOf' = StagesOf BY <1>2 DEF StagesOf
  <1>4. CASE Ended
    <2>1. probe'.sent = <<>> /\ probe'.phase # "waiting" BY <1>4 DEF Ended, NoProbe
    <2>2. Length' = 0 BY <2>1 DEF Length
    <2>3. ~InHand' BY <2>1 DEF InHand
    <2>4. QED BY <1>3, <2>2, <2>3 DEF Answered
  <1>5. CASE Began
    <2>1. probe'.sent = <<>> /\ probe'.phase # "waiting" BY <1>5 DEF Began
    <2>2. Length' = 0 BY <2>1 DEF Length
    <2>3. ~InHand' BY <2>1 DEF InHand
    <2>4. QED BY <1>3, <2>2, <2>3 DEF Answered
  <1>6. CASE Went
    <2>1. /\ probe'.start = probe.start /\ Answered' = Answered
          /\ \A k \in 1..Length : probe'.sent[k] = probe.sent[k]
          /\ probe'.phase # "off" /\ probe.phase # "off"
          /\ probe.phase = "disarmed" => probe'.phase = "disarmed"
      BY <1>6 DEF Went
    <2>2. /\ Length \in Nat
          /\ Answered = Length \/ (InHand /\ Answered = Length - 1)
      BY SentIs DEF Answered
    <2>3. Answered \in Nat /\ Answered <= Length
      <3>1. InHand => Length > 0 BY DEF InHand, Course
      <3>2. QED BY <2>2, <3>1, SentIs
    <2>4. \A k \in 1..Answered : probe'.sent[k] = probe.sent[k] BY <2>1, <2>3, SentIs
    <2>5. \A k \in 1..Answered : Id(k)' = Id(k) /\ Whole(k)' = Whole(k)
      BY <1>3, <2>1, <2>4 DEF Id, Whole
    <2>6. \A k, l \in 1..Answered : PairOf(k, l)' = PairOf(k, l)
      BY <2>1, <2>4, <2>5 DEF PairOf, Id, Whole
    <2>7. up' /\ probe'.phase # "disarmed" => up /\ probe.phase # "disarmed" /\ mem' = mem
      <3>1. SUFFICES ASSUME up', probe'.phase # "disarmed"
                     PROVE  up /\ probe.phase # "disarmed" /\ mem' = mem
        OBVIOUS
      <3>2. probe.phase # "disarmed" BY <2>1, <3>1
      <3>3. mem' = mem BY <1>2, <3>1
      <3>4. up BY <1>2, <2>1, <3>1, <3>2
      <3>5. QED BY <3>2, <3>3, <3>4
    <2>8. QED BY <1>3, <1>6, <2>1, <2>3, <2>5, <2>6, <2>7
  <1>7. QED BY <1>1, <1>4, <1>5, <1>6

\* All pairs of answered requests are in the log, and the recorder has them.
LEMMA PairedStep ==
  ASSUME TypeOK, TypeOK', Course, ~Shared, Repeats <= Kept, Underway, Bounded, Paired, [Next]_vars
  PROVE  Paired'
  <1> SUFFICES ASSUME kind' \in PairKinds PROVE Paired'
    BY DEF Paired
  <1>1. kind \in PairKinds /\ kind' = kind
    BY LogGrows
  <1>2. CASE ~Stage
    <2>1. CASE Answered' = 0
      <3>1. 1..Answered' = {} BY <2>1
      <3>2. QED BY <3>1 DEF Paired
    <2>2. CASE Answered' # 0
      <3>1. /\ Answered' = Answered
            /\ \A k \in 1..Answered : Id(k)' = Id(k) /\ Whole(k)' = Whole(k)
            /\ \A k, l \in 1..Answered : PairOf(k, l)' = PairOf(k, l)
            /\ up' /\ probe'.phase # "disarmed" =>
                 up /\ probe.phase # "disarmed" /\ mem' = mem
        BY <1>2, <2>2, OtherAnswered
      <3>2. log' = log BY <1>2, OtherServer
      <3>3. ASSUME up', probe'.phase # "disarmed", NEW k \in 1..Answered
            PROVE  Id(k)' \in DOMAIN mem'.kept /\ mem'.kept[Id(k)'] = Whole(k)'
        <4>1. up /\ probe.phase # "disarmed" /\ mem' = mem BY <3>1, <3>3
        <4>2. Id(k) \in DOMAIN mem.kept /\ mem.kept[Id(k)] = Whole(k) BY <1>1, <3>3, <4>1 DEF Paired
        <4>3. QED BY <3>1, <3>3, <4>1, <4>2
      <3>4. ASSUME NEW k \in 1..Answered, NEW l \in 1..Answered,
                   k < l \/ (k = l /\ kind' = "humming")
            PROVE  PairOf(k, l)' \in log'
        <4>1. PairOf(k, l) \in log BY <1>1, <3>4 DEF Paired
        <4>2. QED BY <3>1, <3>2, <3>4, <4>1
      <3>5. QED BY <3>1, <3>3, <3>4, Zenon DEF Paired
    <2>3. QED BY <2>1, <2>2
  <1>3. CASE Stage /\ ~InHand
    <2>1. Answered' = 0 BY <1>3, StageOf
    <2>2. 1..Answered' = {} BY <2>1
    <2>3. QED BY <2>2 DEF Paired
  <1>4. ASSUME Stage, InHand
        PROVE  /\ files.id = Id(Length) /\ Id(Length) \in Nat /\ files.id # None
               /\ Length \in Nat \ {0} /\ Answered = Length - 1
               /\ up /\ probe.phase # "disarmed" /\ pass.at \in 1..3 /\ pass.request = served
               /\ \A k \in 1..Answered : Id(k) \in DOMAIN mem.kept /\ mem.kept[Id(k)] = Whole(k)
                                         /\ Id(k) # Id(Length)
    <2>1. /\ files.id = Id(Length) /\ Id(Length) \in Nat
          /\ Length \in Nat \ {0} /\ Answered = Length - 1
          /\ up /\ probe.phase # "disarmed" /\ pass.at \in 1..3 /\ pass.request = served
      BY <1>4, StageOf, StageIs DEF InHand
    <2>2. ASSUME NEW k \in 1..Answered PROVE Id(k) # Id(Length)
      <3>1. k \in Nat \ {0} /\ k # Length BY <2>1
      <3>2. QED BY <2>1, <3>1, IdIs
    <2>3. \A k \in 1..Answered : Id(k) \in DOMAIN mem.kept /\ mem.kept[Id(k)] = Whole(k)
      BY <1>1, <2>1 DEF Paired
    <2>4. QED BY <2>1, <2>2, <2>3 DEF None
  <1>5. CASE Stage /\ InHand /\ pass.at # 3
    <2>1. /\ Answered' = Answered /\ probe' = probe
      BY <1>5, StageOf
    <2>2. log' = log
      BY <1>1, <1>4, <1>5, MarlinStage, HummingStage, ModularStage DEF PairKinds
    <2>3. ASSUME NEW k \in 1..Answered
          PROVE  Id(k) \in DOMAIN mem'.kept /\ mem'.kept[Id(k)] = Whole(k)
      <3>1. CASE kind = "marlin"
        <4> DEFINE active == IF pass.at = 1 THEN With(mem.active, files.id, Local({"entry"}))
                             ELSE Stored(mem.active, files.id, Stages[pass.at])
        <4>1. mem' = [active |-> active, kept |-> mem.kept, done |-> mem.done]
          BY <1>4, <1>5, <3>1, MarlinStage
        <4> HIDE DEF active
        <4>2. mem'.kept = mem.kept BY <4>1
        <4>3. QED BY <1>4, <1>5, <2>3, <4>2
      <3>2. CASE kind = "humming"
        <4> DEFINE kept == Stored(mem.kept, files.id, Stages[pass.at])
        <4>1. mem' = [active |-> mem.active, kept |-> kept, done |-> mem.done]
          BY <1>4, <1>5, <3>2, HummingStage
        <4>2. DOMAIN kept = DOMAIN mem.kept \cup {files.id}
              /\ \A i \in DOMAIN mem.kept \ {files.id} : kept[i] = mem.kept[i]
          BY DEF Stored, With
        <4> HIDE DEF kept
        <4>3. mem'.kept = kept BY <4>1
        <4>4. QED BY <1>4, <1>5, <2>3, <4>2, <4>3
      <3>3. CASE kind = "modular"
        <4>1. mem' = mem BY <1>5, <3>3, ModularStage
        <4>2. QED BY <1>4, <1>5, <2>3, <4>1
      <3>4. QED BY <1>1, <3>1, <3>2, <3>3 DEF PairKinds
    <2>4. \A k, l : Id(k)' = Id(k) /\ Whole(k)' = Whole(k) /\ PairOf(k, l)' = PairOf(k, l)
      BY <1>1, <2>1, SameProbe
    <2>5. \A k \in 1..Answered : Id(k)' \in DOMAIN mem'.kept /\ mem'.kept[Id(k)'] = Whole(k)'
      BY <2>3, <2>4
    <2>6. \A k, l \in 1..Answered : k < l \/ (k = l /\ kind' = "humming") => PairOf(k, l)' \in log'
      BY <1>1, <2>2, <2>4 DEF Paired
    <2>7. QED BY <2>1, <2>5, <2>6, Zenon DEF Paired
  <1>6. CASE Stage /\ InHand /\ pass.at = 3
    <2>0. ASSUME NEW store, NEW S, NEW t, DOMAIN t = DOMAIN mem.kept \cup {files.id},
                 t[files.id] = Whole(Length), mem'.kept = Newest(t),
                 \A i \in DOMAIN mem.kept \ {files.id} : t[i] = mem.kept[i] /\ store[i] = mem.kept[i],
                 DOMAIN mem.kept \ {files.id} \subseteq S,
                 kind = "humming" => files.id \in S /\ store[files.id] = Whole(Length),
                 log' = log \cup Pairs(store, S, files.id, Whole(Length))
          PROVE  Paired'
      <3>1. \A k \in 1..Length : k \in 1..Answered \/ k = Length BY <1>4, <1>6
      <3>2. \A k \in 1..Length : Id(k) \in DOMAIN t /\ t[Id(k)] = Whole(k)
        BY <1>4, <1>6, <2>0, <3>1
      <3>3. ASSUME NEW k \in 1..Length, k < Length \/ kind = "humming"
            PROVE  Record(<<Id(k), Id(Length)>>, <<Whole(k), Whole(Length)>>) \in log'
        <4>1. Id(k) \in S /\ store[Id(k)] = Whole(k)
          <5>1. CASE k \in 1..Answered BY <1>4, <1>6, <2>0, <5>1
          <5>2. CASE k = Length BY <1>4, <1>6, <2>0, <3>3, <5>2
          <5>3. QED BY <3>1, <5>1, <5>2
        <4>2. QED BY <1>4, <1>6, <2>0, <4>1 DEF Pairs
      <3>4. DOMAIN t \subseteq Held BY <2>0 DEF Held
      <3>5. log \subseteq log' BY <2>0
      <3>6. mem'.kept = Newest(t) BY <2>0
      <3>7. QED BY <1>1, <1>6, <3>2, <3>3, <3>4, <3>5, <3>6, CommitPairs
    <2>1. CASE kind = "marlin"
      <3> DEFINE active == IF pass.at = 1 THEN With(mem.active, files.id, Local({"entry"}))
                           ELSE Stored(mem.active, files.id, Stages[pass.at])
                 x == active[files.id]
                 t == With(mem.kept, files.id, x)
                 S == DOMAIN mem.kept \ {files.id}
      <3>1. x = Whole(Length)
        <4>1. active = Stored(mem.active, files.id, Stages[pass.at]) BY <1>6
        <4> HIDE DEF active
        <4>2. QED BY <1>6, <2>1, <4>1, WholeSnapshot
      <3>2. mem' = Committed(files.id, x) /\ log' = log \cup Pairs(mem.kept, S, files.id, x)
        BY <1>4, <1>6, <2>1, MarlinStage
      <3> HIDE DEF x
      <3>3. mem'.kept = Newest(t) BY <3>2 DEF Committed
      <3>4. /\ DOMAIN t = DOMAIN mem.kept \cup {files.id} /\ t[files.id] = x
            /\ \A i \in DOMAIN mem.kept \ {files.id} : t[i] = mem.kept[i]
        BY DEF With
      <3> HIDE DEF t
      <3>5. DOMAIN mem.kept \ {files.id} \subseteq S OBVIOUS
      <3> HIDE DEF S
      <3>6. QED BY <2>0, <2>1, <3>1, <3>2, <3>3, <3>4, <3>5
    <2>2. CASE kind = "humming"
      <3> DEFINE t == Stored(mem.kept, files.id, Stages[pass.at])
                 S == DOMAIN t
      <3>1. t[files.id] = Whole(Length) BY <1>6, <2>2, WholeSnapshot
      <3>2. /\ mem' = [active |-> mem.active, kept |-> Newest(t), done |-> mem.done]
            /\ log' = log \cup Pairs(t, S, files.id, t[files.id])
        BY <1>4, <1>6, <2>2, HummingStage
      <3>4. /\ DOMAIN t = DOMAIN mem.kept \cup {files.id}
            /\ \A i \in DOMAIN mem.kept \ {files.id} : t[i] = mem.kept[i]
        BY DEF Stored, With
      <3> HIDE DEF t
      <3>3. mem'.kept = Newest(t) BY <3>2
      <3>5. DOMAIN mem.kept \ {files.id} \subseteq S /\ files.id \in S BY <3>4
      <3> HIDE DEF S
      <3>6. QED BY <2>0, <2>2, <3>1, <3>2, <3>3, <3>4, <3>5
    <2>3. CASE kind = "modular"
      <3> DEFINE x == Local(AllStages)
                 t == With(mem.kept, files.id, x)
                 S == DOMAIN mem.kept
      <3>1. x = Whole(Length) /\ pass.id = files.id
        BY <1>6, <2>3, WholeSnapshot DEF ReadKinds
      <3>2. /\ mem' = [active |-> mem.active, done |-> mem.done, kept |-> Newest(t)]
            /\ log' = log \cup Pairs(mem.kept, S, files.id, x)
        BY <1>4, <1>6, <2>3, <3>1, ModularStage
      <3> HIDE DEF x
      <3>4. /\ DOMAIN t = DOMAIN mem.kept \cup {files.id} /\ t[files.id] = x
            /\ \A i \in DOMAIN mem.kept \ {files.id} : t[i] = mem.kept[i]
        BY DEF With
      <3> HIDE DEF t
      <3>3. mem'.kept = Newest(t) BY <3>2
      <3>5. DOMAIN mem.kept \ {files.id} \subseteq S OBVIOUS
      <3> HIDE DEF S
      <3>6. QED BY <2>0, <2>3, <3>1, <3>2, <3>3, <3>4, <3>5
    <2>4. QED BY <1>1, <2>1, <2>2, <2>3 DEF PairKinds
  <1>7. QED BY <1>2, <1>3, <1>5, <1>6
-----------------------------------------------------------------------------
(* The recorders that print each request once. *)

\* The record of a request by itself.
OneOf(k) == [ids |-> <<Id(k)>>, snapshots |-> <<Whole(k)>>, pass |-> probe.sent[k]]

OnceOwn == Working => \A r \in log : r.ids[1] >= probe.start => \E k \in 1..Answered : r = OneOf(k)
OnceAll == \A k \in 1..Answered : OneOf(k) \in log
OnceDone == \A i \in mem.done : i \in Logged \/ (pass # NoPass /\ pass.at > 1 /\ pass.id = i)
Once == kind \in OnceKinds => OnceOwn /\ OnceAll /\ OnceDone

\* These recorders print one number a record.
LEMMA OnceLogged ==
  ASSUME TypeOK, kind \in OnceKinds
  PROVE  /\ \A r \in log : r.ids[1] \in Logged /\ r.ids[1] \in Nat
         /\ \A i \in Logged : \E r \in log : r.ids[1] = i
  <1>1. ASSUME NEW r \in log PROVE r.ids \in Seq(Nat) /\ Len(r.ids) = 1
    BY DEF TypeOK, LogType, Compared, OnceKinds, PairKinds
  <1>2. ASSUME NEW r \in log PROVE DOMAIN r.ids = {1} /\ r.ids[1] \in Nat
    BY <1>1
  <1>3. QED BY <1>2 DEF Logged

\* The number in the file has not been taken before.
LEMMA OnceFresh ==
  ASSUME TypeOK, Course, Once, InHand, pass.at = 1, kind \in OnceKinds
  PROVE  files.id \notin mem.done
  <1> SUFFICES ASSUME files.id \in mem.done PROVE FALSE
    OBVIOUS
  <1>1. files.id = Id(Length) /\ Length > 0 /\ Length \in Nat /\ Answered = Length - 1
    BY SentIs DEF InHand, Course, Answered
  <1>2. files.id \in Logged BY DEF Once, OnceDone
  <1>3. PICK r \in log : r.ids[1] = files.id BY <1>2, OnceLogged
  <1>4. Id(Length) >= probe.start BY <1>1, IdIs
  <1>5. Working BY DEF InHand, Working
  <1>6. PICK k \in 1..Answered : r = OneOf(k)
    BY <1>1, <1>3, <1>4, <1>5 DEF Once, OnceOwn
  <1>7. Id(k) = Id(Length) BY <1>1, <1>3, <1>6 DEF OneOf
  <1>8. k \in Nat \ {0} /\ k # Length BY <1>1
  <1>9. QED BY <1>1, <1>7, <1>8, IdIs

\* Each answered request is in the log, and no other from its number on.
LEMMA OnceStep ==
  ASSUME TypeOK, TypeOK', Course, ~Shared, Slow \cap OnceKinds = {}, Underway, Once, [Next]_vars
  PROVE  Once'
  <1> SUFFICES ASSUME kind' \in OnceKinds PROVE OnceOwn' /\ OnceAll' /\ OnceDone'
    BY DEF Once
  <1>1. /\ kind \in OnceKinds /\ kind' = kind /\ log \subseteq log' /\ kind \in Numbered
        /\ OnceOwn /\ OnceAll /\ OnceDone /\ kind \notin Slow
    BY LogGrows DEF Once, Numbered, OnceKinds
  <1>2. Logged \subseteq Logged' /\ (log' = log => Logged' = Logged)
    BY <1>1 DEF Logged
  <1>3. /\ \A r \in log : r.ids[1] \in Logged /\ r.ids[1] \in Nat
        /\ \A i \in Logged : \E r \in log : r.ids[1] = i
    BY <1>1, OnceLogged
  <1>4. CASE ~Stage
    <2>1. log' = log BY <1>4, OtherServer
    <2>2. \/ pass' = pass /\ (mem' = mem \/ mem' = NoMemory)
          \/ pass' = NoPass /\ mem' = NoMemory
          \/ pass = NoPass /\ mem' = mem
      BY <1>4, OtherServer, Zenon DEF Idle
    <2>3. OnceDone'
      <3>1. CASE mem' = NoMemory
        <4>1. mem'.done = {} BY <3>1 DEF NoMemory
        <4>2. QED BY <4>1 DEF OnceDone
      <3>2. CASE pass' = pass /\ mem' = mem BY <1>1, <1>2, <2>1, <3>2 DEF OnceDone
      <3>3. CASE pass = NoPass /\ mem' = mem BY <1>1, <1>2, <2>1, <3>3 DEF OnceDone
      <3>4. QED BY <2>2, <3>1, <3>2, <3>3
    <2>4. Ended \/ Began \/ Went BY <1>4, OtherStep
    <2>5. CASE Ended
      <3>1. ~Working' /\ ~InHand' /\ Length' = 0
        BY <2>5 DEF Ended, NoProbe, Working, InHand, Length
      <3>2. Answered' = 0 BY <3>1 DEF Answered
      <3>3. 1..Answered' = {} BY <3>2
      <3>4. QED BY <2>3, <3>1, <3>3 DEF OnceOwn, OnceAll
    <2>6. CASE Began
      <3>1. ~InHand' /\ Length' = 0 /\ probe'.start = StartId
        BY <2>6 DEF Began, InHand, Length
      <3>2. Answered' = 0 BY <3>1 DEF Answered
      <3>3. 1..Answered' = {} BY <3>2
      <3>4. \A r \in log : r.ids[1] < StartId /\ StartId \in Nat
        BY <1>1, <1>3, StartIdIs DEF StartIdFits
      <3>5. OnceOwn' BY <1>3, <2>1, <3>1, <3>4 DEF OnceOwn
      <3>6. QED BY <2>3, <3>3, <3>5 DEF OnceAll
    <2>7. CASE Went
      <3>1. /\ probe'.start = probe.start /\ Working /\ Answered' = Answered
            /\ \A k \in 1..Length : probe'.sent[k] = probe.sent[k]
        BY <2>7 DEF Went, Working
      <3>2. Answered \in Nat /\ Answered <= Length
        <4>1. InHand => Length > 0 BY DEF InHand, Course
        <4>2. QED BY <4>1, SentIs DEF Answered
      <3>3. StagesOf' = StagesOf BY <1>1 DEF StagesOf
      <3>4. \A k \in 1..Answered : probe'.sent[k] = probe.sent[k] BY <3>1, <3>2, SentIs
      <3>5. \A k \in 1..Answered : OneOf(k)' = OneOf(k)
        BY <3>1, <3>3, <3>4 DEF OneOf, Id, Whole
      <3>6. OnceOwn' BY <1>1, <2>1, <3>1, <3>5 DEF OnceOwn
      <3>7. OnceAll' BY <1>1, <2>1, <3>1, <3>5 DEF OnceAll
      <3>8. QED BY <2>3, <3>6, <3>7
    <2>8. QED BY <2>4, <2>5, <2>6, <2>7
  <1>5. CASE Stage
    <2>1. /\ pass # NoPass /\ pass.at \in 1..3 /\ pass.request = served /\ probe' = probe
          /\ served \in Nat \ {0} /\ NoPass.request = 0
          /\ pass.at = 3 => pass' = NoPass
          /\ pass.at # 3 => pass'.request = served /\ pass'.at = pass.at + 1
          /\ pass.at = 1 =>
               pass'.id = IF files.id \in mem.done THEN None ELSE files.id
          /\ pass.at = 2 => pass'.id = pass.id
      BY <1>1, <1>5, StageIs DEF NoPass, OnceKinds, ReadKinds
    <2>2. /\ mem' = IF pass.at = 1 /\ files.id # None
                    THEN [mem EXCEPT !.done = @ \cup {files.id}] ELSE mem
          /\ pass.id = None \/ pass.at # 3 => log' = log
          /\ pass.id # None /\ pass.at = 3 =>
               log' = log \cup {Record(<<pass.id>>, <<Local({"entry", "final"})>>)}
      BY <1>1, <1>5, OnceStage
    <2>3. OnceDone'
      <3>1. CASE pass.at = 1
        <4>1. log' = log /\ pass' # NoPass /\ pass'.at = 2 BY <2>1, <2>2, <3>1
        <4>2. \A i \in mem.done : i \in Logged BY <1>1, <3>1 DEF OnceDone
        <4>3. mem'.done \subseteq mem.done \cup {files.id} BY <2>2 DEF TypeOK, MemType
        <4>4. QED BY <1>2, <2>1, <3>1, <4>1, <4>2, <4>3 DEF OnceDone
      <3>2. CASE pass.at = 2
        <4>1. log' = log /\ pass' # NoPass /\ pass'.at = 3 /\ pass'.id = pass.id /\ mem' = mem
          BY <2>1, <2>2, <3>2
        <4>2. QED BY <1>1, <1>2, <4>1 DEF OnceDone
      <3>3. CASE pass.at = 3
        <4>1. mem' = mem BY <2>2, <3>3
        <4>2. ASSUME NEW i \in mem.done PROVE i \in Logged'
          <5>1. CASE i \in Logged BY <1>2, <5>1
          <5>2. CASE i \notin Logged
            <6>1. pass.id = i BY <1>1, <4>2, <5>2 DEF OnceDone
            <6>2. i # None BY <4>2 DEF TypeOK, MemType, None
            <6>3. Record(<<i>>, <<Local({"entry", "final"})>>) \in log'
              BY <2>2, <3>3, <6>1, <6>2
            <6>4. Record(<<i>>, <<Local({"entry", "final"})>>).ids = <<i>> BY DEF Record
            <6>5. QED BY <6>3, <6>4 DEF Logged
          <5>3. QED BY <5>1, <5>2
        <4>3. QED BY <4>1, <4>2 DEF OnceDone
      <3>4. QED BY <2>1, <3>1, <3>2, <3>3
    <2>4. \A k : OneOf(k)' = OneOf(k)
      <3>1. \A k : Id(k)' = Id(k) /\ Whole(k)' = Whole(k) BY <1>1, <2>1, SameProbe
      <3>2. QED BY <2>1, <3>1 DEF OneOf
    <2>5. CASE ~InHand
      <3>1. Answered' = 0 BY <1>5, <2>5, StageOf
      <3>2. 1..Answered' = {} BY <3>1
      <3>3. probe.phase # "waiting" BY <2>1, <2>5 DEF InHand
      <3>4. ~Working BY <1>1, <2>1, <3>3 DEF Course
      <3>5. ~Working' BY <2>1, <3>4 DEF Working
      <3>6. QED BY <2>3, <3>2, <3>5 DEF OnceOwn, OnceAll
    <2>6. CASE InHand /\ pass.at # 3
      <3>1. Answered' = Answered /\ log' = log BY <1>5, <2>2, <2>6, StageOf
      <3>2. Working' <=> Working BY <2>1 DEF Working
      <3>3. QED BY <1>1, <2>1, <2>3, <2>4, <3>1, <3>2 DEF OnceOwn, OnceAll
    <2>7. CASE InHand /\ pass.at = 3
      <3>1. /\ Length \in Nat \ {0} /\ Answered = Length - 1 /\ Answered' = Length
            /\ files.id = Id(Length) /\ Id(Length) \in Nat /\ probe.sent[Length] = served
        BY <1>5, <2>7, StageOf
      <3>2. pass.id = Id(Length) /\ Local({"entry", "final"}) = Whole(Length)
        BY <1>1, <1>5, <2>7, <3>1, WholeSnapshot DEF ReadKinds, OnceKinds
      <3>3. pass.id # None BY <3>1, <3>2 DEF None
      <3>4. Record(<<pass.id>>, <<Local({"entry", "final"})>>) = OneOf(Length)
        BY <2>1, <3>1, <3>2 DEF Record, OneOf
      <3>5. log' = log \cup {OneOf(Length)} BY <2>2, <2>7, <3>3, <3>4
      <3>6. Working BY <2>7 DEF InHand, Working
      <3>7. \A k \in 1..Answered : k \in 1..Length BY <3>1
      <3>8. \A r \in log : r.ids[1] >= probe.start => \E k \in 1..Length : r = OneOf(k)
        BY <1>1, <3>6, <3>7 DEF OnceOwn
      <3>9. Length \in 1..Length BY <3>1
      <3>10. \A r \in log' : r.ids[1] >= probe.start => \E k \in 1..Length : r = OneOf(k)
        BY <3>5, <3>8, <3>9
      <3>11. \A k \in 1..Length : OneOf(k) \in log'
        <4>1. \A k \in 1..Length : k \in 1..Answered \/ k = Length BY <3>1
        <4>2. QED BY <1>1, <3>5, <4>1 DEF OnceAll
      <3>12. QED BY <2>1, <2>3, <2>4, <3>1, <3>10, <3>11 DEF OnceOwn, OnceAll
    <2>8. QED BY <2>5, <2>6, <2>7
  <1>6. QED BY <1>4, <1>5
-----------------------------------------------------------------------------
(* The recorders of the requests 0 and 1. *)

\* The last record of request k, by number 0 or 1, is right.
LatestIs(k) ==
  \E r \in log :
    /\ r.ids = <<k - 1>> /\ r.snapshots = <<Whole(k)>>
    /\ \A q \in log : q.ids = <<k - 1>> /\ q # r => q.pass < r.pass

FirstKept == up /\ Answered = 1 => 0 \in DOMAIN mem.kept /\ mem.kept[0] = Whole(1)
BothLogged == Answered = 2 => LatestIs(1) /\ LatestIs(2)
TwinsLogged == \A k \in 1..Length : k <= Answered \/ pass.at = 3 => LatestIs(k)
NoneLogged == pass # NoPass /\ (pass.at = 3 => kind # "qkvz") => \A r \in log : r.pass < served
BothLatest ==
  kind \in BothKinds =>
    /\ kind # "qkvz" => FirstKept /\ BothLogged
    /\ kind = "qkvz" => TwinsLogged
    /\ NoneLogged

\* A record of the pass that runs is later than all others.
LEMMA NewLatest ==
  ASSUME TypeOK, NoneLogged, pass # NoPass, pass.at = 3 => kind # "qkvz", pass.request = served,
         NEW k \in 1..2, NEW R, log' = log \cup R,
         Record(<<k - 1>>, <<Whole(k)>>) \in R,
         \A r \in R : r.ids = <<k - 1>> => r = Record(<<k - 1>>, <<Whole(k)>>),
         Whole(k)' = Whole(k)
  PROVE  LatestIs(k)'
  <1> DEFINE r == Record(<<k - 1>>, <<Whole(k)>>)
  <1>1. r.ids = <<k - 1>> /\ r.snapshots = <<Whole(k)>> /\ r.pass = served
    BY DEF Record
  <1> HIDE DEF r
  <1>2. r \in log' BY DEF r
  <1>3. ASSUME NEW q \in log', q.ids = <<k - 1>>, q # r PROVE q.pass < r.pass
    <2>1. q \in log BY <1>3 DEF r
    <2>2. QED BY <1>1, <2>1 DEF NoneLogged
  <1>4. QED BY <1>1, <1>2, <1>3 DEF LatestIs

\* The last record of a number stays the last while none is printed.
LEMMA SameLatest ==
  ASSUME NEW k, log' = log, Whole(k)' = Whole(k), LatestIs(k) PROVE LatestIs(k)'
  BY DEF LatestIs

\* The last record of each number is that of the answered request.
LEMMA BothStep ==
  ASSUME TypeOK, TypeOK', Course, ~Shared, Underway, BothLatest, [Next]_vars
  PROVE  BothLatest'
  <1> SUFFICES ASSUME kind' \in BothKinds
               PROVE  /\ kind' # "qkvz" => FirstKept' /\ BothLogged'
                      /\ kind' = "qkvz" => TwinsLogged'
                      /\ NoneLogged'
    BY DEF BothLatest
  <1>1. /\ kind \in BothKinds /\ kind' = kind /\ NoneLogged
        /\ kind # "qkvz" => FirstKept /\ BothLogged
        /\ kind = "qkvz" => TwinsLogged
        /\ Requests = 2 /\ Requests' = 2 /\ probe.start = 0 /\ Length \in Nat /\ Length <= 2
        /\ served \in Nat
    <2>1. kind' = kind BY LogGrows
    <2>2. kind \notin Numbered BY <2>1 DEF Numbered, BothKinds
    <2>3. QED BY <2>1, <2>2, SentIs DEF BothLatest, Requests, Course, TypeOK
  <1>2. CASE ~Stage
    <2>1. /\ log' = log
          /\ \/ pass' = pass /\ served' = served
             \/ pass' = NoPass /\ mem' = NoMemory /\ served' = served
             \/ Idle /\ mem' = mem
      BY <1>2, OtherServer
    <2>2. /\ \/ Answered' = 0 /\ Length' = 0
             \/ /\ Went /\ Answered' = Answered /\ Answered \in Nat
                /\ \A k \in 1..Answered : Id(k)' = Id(k) /\ Whole(k)' = Whole(k)
                /\ up' /\ probe'.phase # "disarmed" =>
                     up /\ probe.phase # "disarmed" /\ mem' = mem
      BY <1>2, OtherAnswered
    <2>3. NoneLogged'
      <3>1. CASE pass' = pass /\ served' = served BY <1>1, <2>1, <3>1 DEF NoneLogged
      <3>2. CASE pass' = NoPass BY <3>2 DEF NoneLogged
      <3>3. CASE Idle
        <4>1. served' = served + 1 BY <3>3 DEF Idle
        <4>2. \A r \in log : r.pass \in 0..served BY DEF TypeOK, LogType
        <4>3. \A r \in log' : r.pass < served' BY <1>1, <2>1, <4>1, <4>2
        <4>4. QED BY <4>3 DEF NoneLogged
      <3>4. QED BY <2>1, <3>1, <3>2, <3>3
    <2>4. CASE Answered' = 0 /\ Length' = 0
      <3>1. 1..Length' = {} BY <2>4
      <3>2. QED BY <2>3, <2>4, <3>1 DEF FirstKept, BothLogged, TwinsLogged
    <2>5. CASE ~(Answered' = 0 /\ Length' = 0)
      <3>1. /\ Went /\ Answered' = Answered /\ Answered \in Nat
            /\ \A k \in 1..Answered : Id(k)' = Id(k) /\ Whole(k)' = Whole(k)
            /\ up' /\ probe'.phase # "disarmed" => up /\ probe.phase # "disarmed" /\ mem' = mem
        BY <2>2, <2>5
      <3>2. kind # "qkvz" => FirstKept'
        <4> SUFFICES ASSUME kind # "qkvz", up', Answered' = 1
                     PROVE  0 \in DOMAIN mem'.kept /\ mem'.kept[0] = Whole(1)'
          BY DEF FirstKept
        <4>1. probe'.phase # "disarmed"
          <5> SUFFICES ASSUME probe'.phase = "disarmed" PROVE FALSE
            OBVIOUS
          <5>1. Course' BY CourseStep
          <5>2. Length' = 2 BY <1>1, <5>1 DEF Course
          <5>3. ~InHand' BY DEF InHand
          <5>4. QED BY <5>2, <5>3 DEF Answered
        <4>2. up /\ mem' = mem BY <3>1, <4>1
        <4>3. 0 \in DOMAIN mem.kept /\ mem.kept[0] = Whole(1)
          BY <1>1, <3>1, <4>2 DEF FirstKept
        <4>4. Whole(1)' = Whole(1) BY <3>1
        <4>5. QED BY <4>2, <4>3, <4>4
      <3>3. kind # "qkvz" => BothLogged'
        BY <1>1, <2>1, <3>1, SameLatest DEF BothLogged
      <3>4. kind = "qkvz" => TwinsLogged'
        <4> SUFFICES ASSUME kind = "qkvz", NEW k \in 1..Length', k <= Answered' \/ pass'.at = 3
                     PROVE  LatestIs(k)'
          BY DEF TwinsLogged
        <4>1. CASE k <= Answered'
          <5>1. k \in 1..Answered BY <3>1, <4>1
          <5>2. Answered <= Length
            <6>1. InHand => Length > 0 BY DEF InHand, Course
            <6>2. QED BY <1>1, <6>1 DEF Answered
          <5>3. LatestIs(k) BY <1>1, <5>1, <5>2, <3>1 DEF TwinsLogged
          <5>4. QED BY <2>1, <3>1, <5>1, <5>3, SameLatest
        <4>2. CASE k > Answered'
          <5>1. pass'.at = 3 BY <3>1, <4>2
          <5>2. pass' = pass BY <2>1, <5>1 DEF Idle, NoPass
          <5>3. Length' \in {Length, Length + 1} /\ probe'.phase # "off"
            BY <3>1 DEF Went
          <5>4. pass' # NoPass BY <5>1 DEF NoPass
          <5>5. Course' BY CourseStep
          <5>6. Length' \in Nat /\ Length' > 0 BY <1>1, <5>3
          <5>7. probe'.phase = "waiting" BY <5>4, <5>5, <5>6 DEF Course
          <5>8. InHand' BY <5>4, <5>7 DEF InHand
          <5>9. InHand BY <3>1, <5>1, <5>8 DEF Went
          <5>10. Length' = Length
            <6>1. Answered = Length - 1 /\ Answered' = Length' - 1
              BY <5>8, <5>9 DEF Answered
            <6>2. CASE Length' = Length + 1
              <7>1. Answered' = Length BY <1>1, <6>1, <6>2
              <7>2. QED BY <1>1, <3>1, <6>1, <7>1
            <6>3. QED BY <5>3, <6>2
          <5>11. LatestIs(k) BY <1>1, <5>1, <5>2, <5>10 DEF TwinsLogged
          <5>12. Whole(k)' = Whole(k)
            <6>1. \A l \in 1..Length : probe'.sent[l] = probe.sent[l] BY <3>1 DEF Went
            <6>2. k \in 1..Length BY <5>10
            <6>3. QED BY <1>1, <6>1, <6>2 DEF Whole, StagesOf
          <5>13. QED BY <2>1, <5>11, <5>12, SameLatest
        <4>3. QED BY <3>1, <4>1, <4>2
      <3>5. QED BY <1>1, <2>3, <3>2, <3>3, <3>4
    <2>6. QED BY <2>4, <2>5
  <1>3. ASSUME Stage
        PROVE  /\ pass # NoPass /\ pass.at \in 1..3 /\ pass.request = served /\ up
               /\ pass.at = 3 => pass' = NoPass
               /\ pass.at # 3 => pass'.at = pass.at + 1
               /\ served' = served /\ Length' = Length /\ probe' = probe
               /\ \A k : Whole(k)' = Whole(k)
    <2>1. probe' = probe BY <1>3, StageIs
    <2>2. \A k : Whole(k)' = Whole(k) BY <1>1, <2>1, SameProbe
    <2>3. QED BY <1>3, <2>1, <2>2, StageIs, StageOf
  <1>4. CASE Stage /\ kind = "qkvz"
    <2>0. mem' = mem BY <1>4, QkvzStage
    <2>1. NoneLogged'
      <3>1. CASE pass.at = 1
        <4>1. log' = log BY <1>4, <3>1, QkvzStage
        <4>2. QED BY <1>3, <1>4, <1>1, <3>1, <4>1 DEF NoneLogged
      <3>2. CASE pass.at = 2
        <4>1. pass'.at = 3 BY <1>3, <1>4, <3>2
        <4>2. QED BY <1>1, <1>4, <4>1 DEF NoneLogged
      <3>3. CASE pass.at = 3 BY <1>3, <1>4, <3>3 DEF NoneLogged
      <3>4. QED BY <1>3, <1>4, <3>1, <3>2, <3>3
    <2>2. CASE ~InHand
      <3>1. Length' = 0 BY <1>4, <2>2, StageOf
      <3>2. 1..Length' = {} BY <3>1
      <3>3. QED BY <1>1, <1>4, <2>1, <3>2 DEF TwinsLogged
    <2>3. CASE InHand
      <3>1. /\ Length \in Nat \ {0} /\ files.id = Id(Length) /\ Answered = Length - 1
            /\ pass.at # 3 => Answered' = Answered
            /\ pass.at = 3 => Answered' = Length
            /\ probe.sent[Length] = served
        BY <1>4, <2>3, StageOf
      <3>2. files.id = Length - 1 /\ Length \in {1, 2} BY <1>1, <3>1 DEF Id
      <3>3. CASE pass.at = 2
        <4>1. log' = log \cup {Record(<<files.id>>, <<Local({"middle"})>>)}
          BY <1>4, <3>2, <3>3, QkvzStage
        <4>2. Local({"middle"}) = Whole(Length)
          BY <1>3, <1>4, <3>1 DEF Local, Whole, StagesOf
        <4>3. LatestIs(Length)'
          <5> DEFINE R == {Record(<<files.id>>, <<Local({"middle"})>>)}
          <5>1. R = {Record(<<Length - 1>>, <<Whole(Length)>>)} BY <3>2, <4>2
          <5> HIDE DEF R
          <5>2. log' = log \cup R BY <4>1 DEF R
          <5>3. Length \in 1..2 BY <3>2
          <5>4. QED BY <1>1, <1>3, <1>4, <3>3, <5>1, <5>2, <5>3, NewLatest
        <4>4. ASSUME NEW k \in 1..Length, k # Length PROVE LatestIs(k)'
          <5>1. LatestIs(k) BY <1>1, <1>4, <3>1, <4>4 DEF TwinsLogged
          <5>2. PICK r \in log : /\ r.ids = <<k - 1>> /\ r.snapshots = <<Whole(k)>>
                                 /\ \A q \in log : q.ids = <<k - 1>> /\ q # r => q.pass < r.pass
            BY <5>1 DEF LatestIs
          <5>3. \A q \in log' : q.ids = <<k - 1>> => q \in log
            <6>1. Record(<<files.id>>, <<Local({"middle"})>>).ids = <<Length - 1>>
              BY <3>2 DEF Record
            <6>2. k - 1 # Length - 1 BY <3>1, <4>4
            <6>3. <<k - 1>> # <<Length - 1>> BY <6>2
            <6>4. QED BY <4>1, <6>1, <6>3
          <5>4. r \in log' BY <4>1
          <5>5. Whole(k)' = Whole(k) BY <1>3, <1>4
          <5>6. QED BY <5>2, <5>3, <5>4, <5>5 DEF LatestIs
        <4>5. TwinsLogged' BY <1>3, <1>4, <4>3, <4>4 DEF TwinsLogged
        <4>6. QED BY <1>1, <1>4, <2>1, <4>5
      <3>4. CASE pass.at # 2
        <4>1. log' = log BY <1>4, <3>4, QkvzStage
        <4>2. ASSUME NEW k \in 1..Length', k <= Answered' \/ pass'.at = 3 PROVE LatestIs(k)'
          <5>1. k \in 1..Length BY <1>3, <1>4
          <5>2. k <= Answered \/ pass.at = 3 BY <1>3, <1>4, <3>1, <3>4, <4>2
          <5>3. LatestIs(k) BY <1>1, <1>4, <5>1, <5>2 DEF TwinsLogged
          <5>4. QED BY <1>3, <1>4, <4>1, <5>3, SameLatest
        <4>3. QED BY <1>1, <1>4, <2>1, <4>2 DEF TwinsLogged
      <3>5. QED BY <3>3, <3>4
    <2>4. QED BY <2>2, <2>3
  <1>5. CASE Stage /\ kind \in {"linear", "upstream"}
    <2> DEFINE f == files.id
               kept == Stored(mem.kept, f, Stages[pass.at])
               full == \A i \in {0, 1} : IF kind = "linear" THEN "final" \in DOMAIN kept[i]
                                         ELSE DOMAIN kept[i] = AllStages
               prints == f = 1 /\ pass.at = 3 /\ 0 \in DOMAIN kept /\ full
    <2>1. /\ f \notin {0, 1} => mem' = mem /\ log' = log
          /\ f \in {0, 1} /\ ~prints =>
               mem' = [active |-> mem.active, kept |-> kept, done |-> mem.done] /\ log' = log
          /\ prints => /\ mem' = [active |-> mem.active, kept |-> Empty, done |-> mem.done]
                       /\ log' = log \cup Both(kept)
      BY <1>5, BothStage
    <2>2. /\ DOMAIN kept = DOMAIN mem.kept \cup {f}
          /\ \A i \in DOMAIN mem.kept \ {f} : kept[i] = mem.kept[i]
      BY DEF Stored, With
    <2>k. f \in {0, 1} /\ ~prints => mem'.kept = kept
      <3> HIDE DEF kept, prints
      <3>1. QED BY <2>1
    <2>p. prints => f = 1 /\ pass.at = 3 OBVIOUS
    <2> HIDE DEF kept, full, prints
    <2>3. NoneLogged'
      <3>1. CASE pass.at = 3 BY <1>3, <1>5, <3>1 DEF NoneLogged
      <3>2. CASE pass.at # 3
        <4>1. log' = log BY <2>1, <2>p, <3>2
        <4>2. QED BY <1>1, <1>3, <1>5, <3>2, <4>1 DEF NoneLogged
      <3>3. QED BY <3>1, <3>2
    <2>4. CASE ~InHand
      <3>1. Answered' = 0 BY <1>5, <2>4, StageOf
      <3>2. QED BY <1>1, <1>5, <2>3, <3>1 DEF FirstKept, BothLogged
    <2>5. CASE InHand
      <3>1. /\ Length \in Nat \ {0} /\ files.id = Id(Length) /\ Answered = Length - 1
            /\ pass.at # 3 => Answered' = Answered
            /\ pass.at = 3 => Answered' = Length
            /\ probe.sent[Length] = served
        BY <1>5, <2>5, StageOf
      <3>2. f = Length - 1 /\ Length \in {1, 2} BY <1>1, <3>1 DEF Id
      <3>3. CASE pass.at # 3
        <4>1. log' = log /\ mem'.kept = kept
          <5>1. f \in {0, 1} BY <3>2
          <5>2. ~prints BY <2>p, <3>3
          <5>3. QED BY <2>1, <2>k, <5>1, <5>2
        <4>2. FirstKept'
          <5> SUFFICES ASSUME Answered' = 1
                       PROVE  0 \in DOMAIN mem'.kept /\ mem'.kept[0] = Whole(1)'
            BY DEF FirstKept
          <5>1. Answered = 1 /\ f = 1 BY <3>1, <3>2, <3>3
          <5>2. 0 \in DOMAIN mem.kept /\ mem.kept[0] = Whole(1)
            BY <1>1, <1>3, <1>5, <5>1 DEF FirstKept
          <5>3. Whole(1)' = Whole(1) BY <1>3, <1>5
          <5>4. QED BY <2>2, <4>1, <5>1, <5>2, <5>3
        <4>3. Answered' # 2 BY <3>1, <3>2, <3>3
        <4>4. QED BY <1>1, <1>5, <2>3, <4>2, <4>3 DEF BothLogged
      <3>4. CASE pass.at = 3 /\ Length = 1
        <4>1. f = 0 /\ Answered' = 1 BY <3>1, <3>2, <3>4
        <4>2. ~prints BY <2>p, <4>1
        <4>3. mem'.kept = kept BY <2>k, <4>1, <4>2
        <4>4. kept[f] = Whole(Length)
          BY <1>5, <2>5, <3>4, WholeSnapshot DEF kept
        <4>5. Whole(1)' = Whole(1) BY <1>3, <1>5
        <4>6. 0 \in DOMAIN mem'.kept /\ mem'.kept[0] = Whole(1)'
          BY <2>2, <3>4, <4>1, <4>3, <4>4, <4>5
        <4>7. QED BY <1>1, <1>5, <2>3, <4>1, <4>6 DEF FirstKept, BothLogged
      <3>5. CASE pass.at = 3 /\ Length = 2
        <4>1. f = 1 /\ Answered = 1 /\ Answered' = 2 BY <3>1, <3>2, <3>5
        <4>2. 0 \in DOMAIN mem.kept /\ mem.kept[0] = Whole(1)
          BY <1>1, <1>3, <1>5, <4>1 DEF FirstKept
        <4>3. kept[1] = Whole(2)
          <5>1. kept[f] = Whole(Length)
            BY <1>5, <2>5, <3>5, WholeSnapshot DEF kept
          <5>2. QED BY <3>5, <4>1, <5>1
        <4>4. 0 \in DOMAIN kept /\ kept[0] = Whole(1) BY <2>2, <4>1, <4>2
        <4>5. \A k : DOMAIN Whole(k) = AllStages
          BY <1>5 DEF Whole, StagesOf
        <4>6. full
          <5>1. \A i \in {0, 1} : DOMAIN kept[i] = AllStages BY <4>3, <4>4, <4>5
          <5>2. "final" \in AllStages BY DEF AllStages
          <5>3. QED BY <5>1, <5>2 DEF full
        <4>7. prints BY <3>5, <4>1, <4>4, <4>6 DEF prints
        <4>8. log' = log \cup Both(kept) BY <2>1, <4>7
        <4>9. Both(kept) = {Record(<<0>>, <<Whole(1)>>), Record(<<1>>, <<Whole(2)>>)}
          BY <4>3, <4>4 DEF Both
        <4>10. <<0>> # <<1>> OBVIOUS
        <4>11. LatestIs(1)'
          <5>1. \A r \in Both(kept) : r.ids = <<0>> => r = Record(<<0>>, <<Whole(1)>>)
            BY <4>9, <4>10 DEF Record
          <5>2. 1 - 1 = 0 /\ 1 \in 1..2 OBVIOUS
          <5>3. QED BY <1>1, <1>3, <1>5, <4>8, <4>9, <5>1, <5>2, NewLatest
        <4>12. LatestIs(2)'
          <5>1. \A r \in Both(kept) : r.ids = <<1>> => r = Record(<<1>>, <<Whole(2)>>)
            BY <4>9, <4>10 DEF Record
          <5>2. 2 - 1 = 1 /\ 2 \in 1..2 OBVIOUS
          <5>3. QED BY <1>1, <1>3, <1>5, <4>8, <4>9, <5>1, <5>2, NewLatest
        <4>13. QED BY <1>1, <1>5, <2>3, <4>1, <4>11, <4>12 DEF FirstKept, BothLogged
      <3>6. QED BY <3>2, <3>3, <3>4, <3>5
    <2>6. QED BY <2>4, <2>5
  <1>6. QED BY <1>1, <1>2, <1>4, <1>5 DEF BothKinds
-----------------------------------------------------------------------------
(* The report. *)

\* The pairs of requests, and their records.
Pairing == {p \in (1..Requests) \X (1..Requests) : p[1] < p[2]}
OwnPairs == {PairOf(p[1], p[2]) : p \in Pairing}

\* The records with only numbers of the tool.
LEMMA OwnIs ==
  ASSUME TypeOK
  PROVE  IsFiniteSet(Own) /\ Own \subseteq log
  <1>1. Own \in SUBSET log BY DEF Own
  <1>2. IsFiniteSet(log) BY DEF TypeOK, LogType
  <1>3. QED BY <1>1, <1>2, FS_Subset

\* The tool has as many pairs as AllPairs counts.
LEMMA OwnPairCount ==
  ASSUME TypeOK
  PROVE  IsFiniteSet(OwnPairs) /\ Cardinality(OwnPairs) = (Requests * (Requests - 1)) \div 2
  <1> DEFINE less == {p \in (1..Requests) \X (1..Requests) : p[1] < p[2]}
             f == [p \in less |-> PairOf(p[1], p[2])]
  <1>1. Pairing = less BY DEF Pairing
  <1>2. IsFiniteSet(less) /\ Cardinality(less) = (Requests * (Requests - 1)) \div 2
    BY RequestsIs, PairCount
  <1>3. OwnPairs = {PairOf(p[1], p[2]) : p \in less} BY <1>1 DEF OwnPairs
  <1>4. \A p, q \in less : PairOf(p[1], p[2]) = PairOf(q[1], q[2]) => p = q
    <2> SUFFICES ASSUME NEW p \in less, NEW q \in less, PairOf(p[1], p[2]) = PairOf(q[1], q[2])
                 PROVE  p = q
      OBVIOUS
    <2>1. <<Id(p[1]), Id(p[2])>> = <<Id(q[1]), Id(q[2])>> BY DEF PairOf
    <2>2. Id(p[1]) = Id(q[1]) /\ Id(p[2]) = Id(q[2]) BY <2>1
    <2>3. p[1] \in Nat \ {0} /\ p[2] \in Nat \ {0} /\ q[1] \in Nat \ {0} /\ q[2] \in Nat \ {0}
      OBVIOUS
    <2>4. p[1] = q[1] /\ p[2] = q[2] BY <2>2, <2>3, IdIs
    <2>5. p = <<p[1], p[2]>> /\ q = <<q[1], q[2]>> OBVIOUS
    <2>6. QED BY <2>4, <2>5
  <1>5. f \in Bijection(less, OwnPairs)
    <2>1. f \in Injection(less, OwnPairs)
      <3> HIDE DEF less
      <3>1. QED BY <1>3, <1>4 DEF Injection, IsInjective
    <2>2. f \in Surjection(less, OwnPairs)
      <3> HIDE DEF less
      <3>1. QED BY <1>3 DEF Surjection
    <2>3. QED BY <2>1, <2>2 DEF Bijection
  <1> HIDE DEF less, f
  <1>6. QED BY <1>2, <1>5, FS_Bijection DEF ExistsBijection

\* So if there are as many records, they are the pairs of its requests.
LEMMA AllPairsOwn ==
  ASSUME TypeOK, Course, Paired, kind \in PairKinds, probe.phase = "disarmed", AllPairs
  PROVE  Own = OwnPairs /\ kind # "humming"
  <1>1. Answered = Requests /\ Requests \in Nat \ {0} /\ probe.start \in Nat
    BY RequestsIs, SentIs DEF Answered, InHand, Course
  <1>2. ASSUME NEW k \in 1..Requests, NEW l \in 1..Requests, PairOf(k, l) \in log
        PROVE  PairOf(k, l) \in Own
    <2>1. Id(k) \in Wanted /\ Id(l) \in Wanted BY <1>1 DEF Id, Wanted
    <2>2. PairOf(k, l).ids = <<Id(k), Id(l)>> BY DEF PairOf
    <2>3. QED BY <1>2, <2>1, <2>2 DEF Own
  <1>3. OwnPairs \in SUBSET Own
    <2>1. \A k, l \in 1..Requests : k < l => PairOf(k, l) \in Own
      BY <1>1, <1>2 DEF Paired
    <2>2. QED BY <2>1 DEF OwnPairs, Pairing
  <1>4. Own = OwnPairs
    <2>1. Cardinality(Own) = Cardinality(OwnPairs) BY OwnPairCount DEF AllPairs
    <2>2. QED BY <1>3, <2>1, OwnIs, FS_Subset
  <1>5. ASSUME kind = "humming" PROVE FALSE
    <2>1. 1 \in 1..Requests BY <1>1
    <2>2. PairOf(1, 1) \in Own BY <1>1, <1>2, <1>5, <2>1 DEF Paired
    <2>3. PICK p \in Pairing : PairOf(1, 1) = PairOf(p[1], p[2])
      BY <1>4, <2>2 DEF OwnPairs
    <2>4. p[1] \in Nat \ {0} /\ p[2] \in Nat \ {0} /\ p[1] < p[2] BY DEF Pairing
    <2>5. <<Id(1), Id(1)>> = <<Id(p[1]), Id(p[2])>> BY <2>3 DEF PairOf
    <2>6. Id(1) = Id(p[1]) /\ Id(1) = Id(p[2]) BY <2>5
    <2>7. p[1] = 1 /\ p[2] = 1 BY <2>4, <2>6, IdIs
    <2>8. QED BY <2>4, <2>7
  <1>6. QED BY <1>4, <1>5

\* The last record of a number is the one that BothLatest is about.
LEMMA LatestOfIs ==
  ASSUME TypeOK, NEW k, LatestIs(k)
  PROVE  Latest(Of(k - 1)).ids = <<k - 1>> /\ Latest(Of(k - 1)).snapshots = <<Whole(k)>>
  <1> DEFINE x == Latest(Of(k - 1))
  <1>1. PICK r \in log : /\ r.ids = <<k - 1>> /\ r.snapshots = <<Whole(k)>>
                         /\ \A q \in log : q.ids = <<k - 1>> /\ q # r => q.pass < r.pass
    BY DEF LatestIs
  <1>2. r \in Of(k - 1) BY <1>1 DEF Of
  <1>3. \A q \in Of(k - 1) : q.pass \in Nat /\ q \in log /\ q.ids = <<k - 1>>
    BY DEF Of, TypeOK, LogType
  <1>4. \A q \in Of(k - 1) : q.pass <= r.pass
    BY <1>1, <1>2, <1>3
  <1>5. x \in Of(k - 1) /\ \A q \in Of(k - 1) : q.pass <= x.pass
    BY <1>2, <1>4 DEF Latest
  <1> HIDE DEF x
  <1>6. x = r
    <2> SUFFICES ASSUME x # r PROVE FALSE
      OBVIOUS
    <2>1. x.pass < r.pass BY <1>1, <1>3, <1>5
    <2>2. r.pass <= x.pass BY <1>2, <1>5
    <2>3. x.pass \in Nat /\ r.pass \in Nat BY <1>2, <1>3, <1>5
    <2>4. QED BY <2>1, <2>2, <2>3
  <1>7. QED BY <1>1, <1>6 DEF x

\* A record of the tool's requests.
OwnRecord(r) ==
  \/ \E k, l \in 1..Length : r.ids = <<Id(k), Id(l)>> /\ r.snapshots = <<Whole(k), Whole(l)>>
  \/ \E k \in 1..Length : r.ids = <<Id(k)>> /\ r.snapshots = <<Whole(k)>>

\* A report that is written has records of the tool's requests.
LEMMA ReportedOwn ==
  ASSUME TypeOK, Course, Paired, Once, BothLatest, probe.phase = "disarmed",
         Report.status = "written"
  PROVE  \A r \in Report.records : OwnRecord(r)
  <1>1. /\ Length = Requests /\ Answered = Length /\ Working /\ probe.start \in Nat
        /\ Requests \in Nat \ {0}
    BY RequestsIs, SentIs DEF Answered, InHand, Course, Working
  <1>2. Refused.status # "written" /\ \A R : Written(R).records = R
    BY DEF Refused, Written
  <1>3. CASE kind \in PairKinds
    <2>1. AllPairs /\ Report.records = Own
      <3>1. CASE kind = "marlin"
        <4>1. Report = MarlinReport BY <3>1 DEF Report
        <4>2. QED BY <1>2, <4>1 DEF MarlinReport
      <3>2. CASE kind = "humming"
        <4>1. Report = HummingReport BY <3>2 DEF Report
        <4>2. QED BY <1>2, <4>1 DEF HummingReport
      <3>3. CASE kind = "modular"
        <4>1. Report = ModularReport BY <3>3 DEF Report
        <4>2. QED BY <1>2, <4>1 DEF ModularReport
      <3>4. QED BY <1>3, <3>1, <3>2, <3>3 DEF PairKinds
    <2>2. Own = OwnPairs BY <1>3, <2>1, AllPairsOwn
    <2>3. ASSUME NEW r \in OwnPairs PROVE OwnRecord(r)
      <3>1. PICK p \in Pairing : r = PairOf(p[1], p[2]) BY DEF OwnPairs
      <3>2. p[1] \in 1..Length /\ p[2] \in 1..Length BY <1>1 DEF Pairing
      <3>3. QED BY <3>1, <3>2 DEF OwnRecord, PairOf
    <2>4. QED BY <2>1, <2>2, <2>3
  <1>4. CASE kind \in OnceKinds
    <2>1. Report.records = Own
      <3>1. Report = SingleReport BY <1>4 DEF Report, OnceKinds, TwinReport
      <3>2. QED BY <1>2, <3>1 DEF SingleReport
    <2>2. ASSUME NEW r \in Own PROVE OwnRecord(r)
      <3>1. r \in log /\ r.ids \in Seq(Nat) /\ Len(r.ids) = 1
        BY <1>4, OwnIs DEF TypeOK, LogType, Compared, OnceKinds, PairKinds
      <3>2. 1 \in DOMAIN r.ids BY <3>1
      <3>3. r.ids[1] >= probe.start BY <1>1, <3>2 DEF Own, Wanted
      <3>4. PICK k \in 1..Answered : r = OneOf(k)
        BY <1>1, <1>4, <3>1, <3>3 DEF Once, OnceOwn
      <3>5. QED BY <1>1, <3>4 DEF OneOf, OwnRecord
    <2>3. QED BY <2>1, <2>2
  <1>5. CASE kind \in BothKinds
    <2>1. Report.records = {Latest(Of(i)) : i \in {0, 1}}
      <3>1. Report = LastOfBoth
        BY <1>5 DEF Report, BothKinds, LinearReport, UpstreamReport, QkvzReport
      <3>2. QED BY <1>2, <3>1 DEF LastOfBoth
    <2>2. Length = 2 /\ probe.start = 0
      BY <1>1, <1>5 DEF BothKinds, Requests, Numbered, Course
    <2>3. LatestIs(1) /\ LatestIs(2)
      BY <1>1, <1>5, <2>2 DEF BothLatest, BothLogged, TwinsLogged
    <2>4. Id(1) = 0 /\ Id(2) = 1 BY <2>2 DEF Id
    <2>5. OwnRecord(Latest(Of(0)))
      <3>1. 1 - 1 = 0 /\ 1 \in 1..Length BY <2>2
      <3>2. QED BY <2>3, <2>4, <3>1, LatestOfIs DEF OwnRecord
    <2>6. OwnRecord(Latest(Of(1)))
      <3>1. 2 - 1 = 1 /\ 2 \in 1..Length BY <2>2
      <3>2. QED BY <2>3, <2>4, <3>1, LatestOfIs DEF OwnRecord
    <2>7. QED BY <2>1, <2>5, <2>6
  <1>6. QED
    BY <1>3, <1>4, <1>5, KindIs DEF AllKinds, PairKinds, OnceKinds, BothKinds

\* The inductive invariant of ReportOwn.
OwnInv ==
  TypeOK /\ Course /\ Underway /\ Bounded /\ Paired /\ Once /\ BothLatest /\ ReportIsOwn

\* ReportIsOwn of any report.
Matches(left, stages) ==
  left.status = "written" =>
    \A r \in left.records : \A i \in DOMAIN r.ids :
      /\ r.ids[i] - left.start + 1 \in DOMAIN left.sent
      /\ r.snapshots[i] = [s \in stages |-> left.sent[r.ids[i] - left.start + 1]]

\* The report is the tool's own when it is made, and does not change.
LEMMA ReportStep ==
  ASSUME OwnInv, ~Shared, [Next]_vars
  PROVE  ReportIsOwn'
  <1>0. TypeOK /\ Course /\ Paired /\ Once /\ BothLatest /\ ReportIsOwn
    BY DEF OwnInv
  <1>1. kind' = kind BY <1>0, LogGrows
  <1>2. StagesOf' = StagesOf BY <1>1 DEF StagesOf
  <1>m. /\ ReportIsOwn => Matches(report, StagesOf)
        /\ Matches(report', StagesOf') => ReportIsOwn'
    BY DEF Matches, ReportIsOwn
  <1>3. CASE report' = report
    BY <1>0, <1>2, <1>3, <1>m
  <1>4. CASE report' = NoReport
    <2>1. report'.status # "written" BY <1>4 DEF NoReport
    <2>2. QED BY <2>1 DEF ReportIsOwn
  <1>5. CASE Collect
    <2>1. /\ probe.phase = "disarmed"
          /\ report'.status = Report.status /\ report'.start = probe.start
          /\ report'.sent = probe.sent /\ report'.records = Report.records
      BY <1>5 DEF Collect
    <2> SUFFICES ASSUME Report.status = "written", NEW r \in Report.records,
                        NEW i \in DOMAIN r.ids
                 PROVE  /\ r.ids[i] - probe.start + 1 \in DOMAIN probe.sent
                        /\ r.snapshots[i] = [s \in StagesOf |-> probe.sent[r.ids[i] - probe.start + 1]]
      <3>1. Matches(report', StagesOf) => ReportIsOwn' BY <1>2, <1>m
      <3>2. QED BY <2>1, <3>1 DEF Matches
    <2>2. OwnRecord(r) BY <1>0, <2>1, ReportedOwn
    <2>3. \E k \in 1..Length : r.ids[i] = Id(k) /\ r.snapshots[i] = Whole(k)
      <3>1. CASE \E k, l \in 1..Length : r.ids = <<Id(k), Id(l)>> /\ r.snapshots = <<Whole(k), Whole(l)>>
        <4>1. PICK k, l \in 1..Length : r.ids = <<Id(k), Id(l)>> /\ r.snapshots = <<Whole(k), Whole(l)>>
          BY <3>1
        <4>2. i \in {1, 2} BY <4>1
        <4>3. QED BY <4>1, <4>2
      <3>2. CASE \E k \in 1..Length : r.ids = <<Id(k)>> /\ r.snapshots = <<Whole(k)>>
        <4>1. PICK k \in 1..Length : r.ids = <<Id(k)>> /\ r.snapshots = <<Whole(k)>>
          BY <3>2
        <4>2. i = 1 BY <4>1
        <4>3. QED BY <4>1, <4>2
      <3>3. QED BY <2>2, <3>1, <3>2 DEF OwnRecord
    <2>4. PICK k \in 1..Length : r.ids[i] = Id(k) /\ r.snapshots[i] = Whole(k)
      BY <2>3
    <2>5. /\ probe.start \in Nat /\ Length \in Nat /\ DOMAIN probe.sent = 1..Length
      BY <1>0, SentIs DEF Length
    <2>6. Id(k) - probe.start + 1 = k BY <2>5 DEF Id
    <2>7. QED BY <2>4, <2>5, <2>6 DEF Whole
  <1>6. report' = report \/ report' = NoReport \/ Collect
    <2>1. CASE Stage BY <1>0, <2>1, StageIs
    <2>2. CASE ~Stage BY <1>0, <2>2, OtherServer
    <2>3. QED BY <2>1, <2>2
  <1>7. QED BY <1>3, <1>4, <1>5, <1>6

\* OwnInv holds at first and is kept.
LEMMA OwnInvInit == Init => OwnInv
  <1> SUFFICES ASSUME Init PROVE OwnInv
    OBVIOUS
  <1>1. /\ kind \in Kinds /\ files = Disarmed /\ mem = NoMemory /\ log = {} /\ pass = NoPass
        /\ up = TRUE /\ probe = NoProbe /\ report = NoReport
        /\ served = 0 /\ faults = 0 /\ probes = 0 /\ traffic = 0
    BY DEF Init
  <1>2. TypeOK
    <2>1. MemType
      <3>1. IsTable(Empty) /\ IsFiniteSet(DOMAIN Empty) BY EmptyIs, FS_EmptySet
      <3>2. mem.active = Empty /\ mem.kept = Empty /\ mem.done = {} BY <1>1 DEF NoMemory
      <3>3. QED BY <1>1, <3>1, <3>2 DEF MemType, NoMemory
    <2>2. LogType BY <1>1, FS_EmptySet DEF LogType
    <2>3. PassType BY <1>1 DEF PassType
    <2>4. files \in [trigger : BOOLEAN, id : Numbers] /\ (~files.trigger => files.id = None)
      BY <1>1 DEF Disarmed, Numbers
    <2>5. probe \in [phase : Phases, start : Nat, sent : Seq(Nat), alone : BOOLEAN]
      BY <1>1 DEF NoProbe, Phases
    <2>6. served \in Nat /\ faults \in Nat /\ probes \in Nat /\ traffic \in Nat BY <1>1
    <2>7. up \in BOOLEAN BY <1>1
    <2>8. QED BY <1>1, <2>1, <2>2, <2>3, <2>4, <2>5, <2>6, <2>7, Zenon DEF TypeOK
  <1>3. /\ probe.phase = "off" /\ probe.start = 0 /\ probe.sent = <<>> /\ Length = 0
        /\ ~Working /\ ~InHand /\ pass.id = None
    BY <1>1 DEF NoProbe, Length, Working, InHand, NoPass
  <1>4. Answered = 0 BY <1>3 DEF Answered
  <1>5. Requests \in Nat \ {0} BY RequestsIs
  <1>6. Course BY <1>1, <1>3, <1>5 DEF Course
  <1>7. Underway BY <1>3 DEF Underway
  <1>8. Bounded
    <2>1. StartId \in Nat BY <1>2, StartIdIs DEF StartIdFits
    <2>2. Base \in Nat BY <1>3, <2>1 DEF Base
    <2>3. Held = {None} BY <1>1, <1>3, EmptyIs DEF Held, NoMemory, Disarmed
    <2>4. None < Base + Requests BY <1>5, <2>2 DEF None
    <2>5. QED BY <1>3, <2>1, <2>3, <2>4 DEF Bounded
  <1>9. Paired /\ Once /\ BothLatest
    <2>1. 1..Answered = {} /\ 1..Length = {} BY <1>3, <1>4
    <2>2. Paired BY <2>1 DEF Paired
    <2>3. mem.done = {} BY <1>1 DEF NoMemory
    <2>4. Once BY <1>3, <2>1, <2>3 DEF Once, OnceOwn, OnceAll, OnceDone
    <2>5. BothLatest
      BY <1>1, <1>4, <2>1 DEF BothLatest, FirstKept, BothLogged, TwinsLogged, NoneLogged
    <2>6. QED BY <2>2, <2>4, <2>5
  <1>10. ReportIsOwn BY <1>1 DEF ReportIsOwn, NoReport
  <1>11. QED BY <1>2, <1>6, <1>7, <1>8, <1>9, <1>10 DEF OwnInv

LEMMA OwnInvStep ==
  ASSUME OwnInv, ~Shared, Repeats <= Kept, Slow \cap OnceKinds = {}, [Next]_vars
  PROVE  OwnInv'
  <1>0. TypeOK /\ Course /\ Underway /\ Bounded /\ Paired /\ Once /\ BothLatest
    BY DEF OwnInv
  <1>1. TypeOK' BY <1>0, TypeStep
  <1>2. Course' BY <1>0, <1>1, CourseStep
  <1>3. Underway' BY <1>0, <1>1, OnceFresh, UnderwayStep
  <1>4. Bounded' BY <1>0, <1>1, BoundedStep
  <1>5. Paired' BY <1>0, <1>1, PairedStep
  <1>6. Once' BY <1>0, <1>1, OnceStep
  <1>7. BothLatest' BY <1>0, <1>1, BothStep
  <1>8. ReportIsOwn' BY ReportStep
  <1>9. QED BY <1>1, <1>2, <1>3, <1>4, <1>5, <1>6, <1>7, <1>8 DEF OwnInv

(* A report compares the requests of the tool that wrote it and nothing else:
   every snapshot has all the stages, each from the pass of the request sent
   under that number, whatever killed and interrupted tools, restarts and
   users left in the files, the recorder's memory and the log (the captures of
   the patches and the probes of h20-nvfp4-moe.py), for any number of each. *)
THEOREM ReportOwn ==
  ASSUME ~Shared, Repeats <= Kept, Slow \cap {"single", "twin"} = {}
  PROVE  Spec => []ReportIsOwn
  <1>1. Init => OwnInv BY OwnInvInit
  <1>2. OwnInv /\ [Next]_vars => OwnInv'
    BY OwnInvStep DEF OnceKinds
  <1>3. OwnInv => ReportIsOwn BY DEF OwnInv
  <1>4. QED BY <1>1, <1>2, <1>3, PTL DEF Spec
-----------------------------------------------------------------------------
(* Numbers that the recorder holds and the log does not. *)

\* What a tool that counts pairs survives.
Tolerable ==
  \/ kind = "marlin" /\ (faults <= 1 \/ traffic = 0)
  \/ kind = "modular" /\ faults = 0

\* A server that is down, and a number that no tool is there for, took a fault each.
Counted ==
  /\ ~up => faults >= 1
  /\ probe.phase \in {"off", "numbered"} /\ files.id # None =>
       faults >= 1 /\ (up \/ faults >= 2)

\* Faults are counted.
LEMMA CountedStep ==
  ASSUME TypeOK, Course, Counted, [Next]_vars
  PROVE  Counted'
  <1>t. /\ up \in BOOLEAN /\ faults \in Nat /\ probe.phase \in Phases
        /\ NoProbe.phase = "off" /\ Disarmed.id = None
        /\ probe.phase = "disarmed" => files.id = None
    BY DEF TypeOK, Course, NoProbe, Disarmed
  <1>1. CASE Stage
    <2>1. UNCHANGED <<files, up, probe, faults>> BY <1>1 DEF Stage
    <2>2. QED BY <2>1, Zenon DEF Counted
  <1>2. CASE Traffic
    <2>1. /\ UNCHANGED <<files, up, faults>> /\ up
          /\ probe' = probe \/ probe' = [probe EXCEPT !.alone = FALSE]
      BY <1>2, Zenon DEF Traffic
    <2>2. probe'.phase = probe.phase BY <2>1 DEF TypeOK
    <2>3. QED BY <2>1, <2>2, Zenon DEF Counted
  <1>3. CASE Number
    <2>1. UNCHANGED <<files, up, faults>> /\ probe.phase = "off"
      BY <1>3 DEF Number, Server
    <2>2. QED BY <2>1 DEF Counted
  <1>4. CASE Arm \/ WriteId \/ Answer \/ Disarm
    <2>1. UNCHANGED <<up, faults>> BY <1>4, Zenon DEF Arm, WriteId, Answer, Disarm, Server
    <2>2. probe'.phase \in {"armed", "written", "disarmed"}
      BY <1>4 DEF Arm, WriteId, Answer, Disarm, TypeOK
    <2>3. QED BY <2>1, <2>2 DEF Counted
  <1>5. CASE Send
    <2>1. UNCHANGED <<up, faults>> /\ probe'.phase = "waiting" BY <1>5 DEF Send
    <2>2. QED BY <2>1 DEF Counted
  <1>6. CASE Unanswered \/ Collect
    <2>1. UNCHANGED <<up, faults>> BY <1>6 DEF Unanswered, Collect, Server
    <2>2. files'.id = None BY <1>6, <1>t DEF Unanswered, Collect
    <2>3. QED BY <2>1, <2>2 DEF Counted
  <1>7. CASE Cut
    <2>1. up' = up /\ faults' = faults + 1 BY <1>7 DEF Cut, Server
    <2>2. faults' >= 1 /\ (up \/ faults' >= 2) BY <1>t, <2>1 DEF Counted
    <2>3. QED BY <2>1, <2>2 DEF Counted
  <1>8. CASE Restart
    <2>1. /\ faults' = faults + 1
          /\ probe'.phase \in {"off", "numbered"} /\ files'.id # None =>
               probe.phase \in {"off", "numbered"} /\ files.id # None
      BY <1>8, <1>t DEF Restart
    <2>2. faults' >= 1 BY <1>t, <2>1
    <2>3. probe'.phase \in {"off", "numbered"} /\ files'.id # None => faults' >= 2
      BY <1>t, <2>1 DEF Counted
    <2>4. QED BY <2>2, <2>3 DEF Counted
  <1>9. CASE Ready
    <2>1. UNCHANGED <<files, faults, probe>> /\ up' BY <1>9 DEF Ready, Tools
    <2>2. QED BY <2>1 DEF Counted
  <1>10. CASE UNCHANGED vars
    BY <1>10, Zenon DEF vars, Counted
  <1>11. QED
    BY <1>1, <1>2, <1>3, <1>4, <1>5, <1>6, <1>7, <1>8, <1>9, <1>10, Zenon DEF Next

\* Neither count goes back.
LEMMA CountsGrow ==
  ASSUME TypeOK, [Next]_vars
  PROVE  /\ kind' = kind /\ faults \in Nat /\ traffic \in Nat
         /\ faults' \in {faults, faults + 1} /\ traffic' \in {traffic, traffic + 1}
         /\ Tolerable' => Tolerable
  <1>1. kind' = kind BY LogGrows
  <1>2. faults \in Nat /\ traffic \in Nat BY DEF TypeOK
  <1>3. faults' \in {faults, faults + 1} /\ traffic' \in {traffic, traffic + 1}
    <2>1. CASE Stage \/ Number \/ Arm \/ WriteId \/ Send \/ Answer
      BY <2>1 DEF Stage, Number, Arm, WriteId, Send, Answer
    <2>2. CASE Traffic \/ Disarm \/ Unanswered \/ Collect \/ Cut \/ Restart \/ Ready
      BY <2>2 DEF Traffic, Disarm, Unanswered, Collect, Cut, Restart, Ready
    <2>3. CASE UNCHANGED vars BY <2>3 DEF vars
    <2>4. QED BY <2>1, <2>2, <2>3 DEF Next
  <1>4. Tolerable' => Tolerable
    <2>1. faults <= faults' /\ traffic <= traffic' /\ faults' \in Nat /\ traffic' \in Nat
      BY <1>2, <1>3
    <2>2. (faults' <= 1 => faults <= 1) /\ (traffic' = 0 => traffic = 0)
          /\ (faults' = 0 => faults = 0)
      BY <1>2, <2>1
    <2>3. QED BY <1>1, <2>2 DEF Tolerable
  <1>5. QED BY <1>1, <1>2, <1>3, <1>4

\* All that the recorder keeps is i, so that i is the first of all or in the log.
FirstAt(i) == DOMAIN mem.kept \subseteq {i} => i \in Logged \/ i = StartId

NumberFirst == Working /\ probe.phase # "disarmed" /\ up => FirstAt(probe.start)
RequestFirst == faults <= 1 /\ up /\ files.id # None => FirstAt(files.id)
PassFirst == Tolerable /\ pass # NoPass /\ files.id # None => FirstAt(files.id)
KeptLogged ==
  Tolerable => \A i \in DOMAIN mem.kept :
                 i \in Logged \/ (DOMAIN mem.kept = {i} /\ i = StartId)
Firsts == kind = "marlin" => NumberFirst /\ RequestFirst /\ PassFirst /\ KeptLogged

\* What a stage does to the requests that marlin's recorder keeps.
LEMMA MarlinKept ==
  ASSUME TypeOK, Stage, kind = "marlin"
  PROVE  /\ files.id = None \/ pass.at # 3 => mem'.kept = mem.kept /\ log' = log
         /\ files.id # None /\ pass.at = 3 =>
              \E x : /\ mem'.kept = Newest(With(mem.kept, files.id, x))
                     /\ log' = log \cup Pairs(mem.kept, DOMAIN mem.kept \ {files.id}, files.id, x)
  <1> DEFINE active == IF pass.at = 1 THEN With(mem.active, files.id, Local({"entry"}))
                       ELSE Stored(mem.active, files.id, Stages[pass.at])
  <1>1. /\ files.id = None => mem' = mem /\ log' = log
        /\ files.id # None /\ pass.at # 3 =>
             mem' = [active |-> active, kept |-> mem.kept, done |-> mem.done] /\ log' = log
        /\ files.id # None /\ pass.at = 3 =>
             /\ mem' = Committed(files.id, active[files.id])
             /\ log' = log \cup Pairs(mem.kept, DOMAIN mem.kept \ {files.id}, files.id, active[files.id])
    BY MarlinStage
  <1> HIDE DEF active
  <1>2. \A x : Committed(files.id, x).kept = Newest(With(mem.kept, files.id, x))
    BY DEF Committed
  <1>3. QED BY <1>1, <1>2

\* Both numbers of a pair are in the log.
LEMMA PairsLogged ==
  ASSUME NEW t, NEW S, NEW f, NEW x, Pairs(t, S, f, x) \subseteq log', NEW i \in S
  PROVE  i \in Logged' /\ f \in Logged'
  <1> DEFINE r == Record(<<i, f>>, <<t[i], x>>)
  <1>1. r \in log' BY DEF Pairs
  <1>2. r.ids = <<i, f>> BY DEF Record
  <1> HIDE DEF r
  <1>3. DOMAIN r.ids = {1, 2} /\ r.ids[1] = i /\ r.ids[2] = f BY <1>2
  <1>4. QED BY <1>1, <1>3 DEF Logged

\* A recorder with room for two that keeps one only keeps the first.
LEMMA FirstStage ==
  ASSUME TypeOK, TypeOK', Stage, kind = "marlin", Kept >= 2, NEW i, FirstAt(i)
  PROVE  DOMAIN mem'.kept \subseteq {i} => i \in Logged' \/ i = StartId'
  <1> SUFFICES ASSUME DOMAIN mem'.kept \subseteq {i} PROVE i \in Logged' \/ i = StartId'
    OBVIOUS
  <1>1. log' = log /\ DOMAIN mem.kept \subseteq {i}
    <2>1. CASE files.id = None \/ pass.at # 3
      BY <2>1, MarlinKept
    <2>2. CASE files.id # None /\ pass.at = 3
      <3>1. PICK x : /\ mem'.kept = Newest(With(mem.kept, files.id, x))
                     /\ log' = log \cup Pairs(mem.kept, DOMAIN mem.kept \ {files.id}, files.id, x)
        BY <2>2, MarlinKept
      <3> DEFINE t == With(mem.kept, files.id, x)
      <3>2. DOMAIN t = DOMAIN mem.kept \cup {files.id} BY DEF With
      <3>3. DOMAIN t \subseteq Int /\ IsFiniteSet(DOMAIN t)
        <4>1. DOMAIN mem.kept \subseteq Nat /\ IsFiniteSet(DOMAIN mem.kept)
          BY DEF TypeOK, MemType, IsTable
        <4>2. files.id \in Int BY DEF TypeOK, Numbers, None
        <4>3. IsFiniteSet(DOMAIN t) BY <4>1, TableFinite
        <4>4. QED BY <3>2, <4>1, <4>2, <4>3
      <3> HIDE DEF t
      <3>4. DOMAIN Newest(t) \subseteq {i} BY <3>1 DEF t
      <3>5. DOMAIN t \subseteq {i} BY <3>3, <3>4, NewestAlone
      <3>6. DOMAIN mem.kept \ {files.id} = {} BY <3>2, <3>5
      <3>7. Pairs(mem.kept, {}, files.id, x) = {} BY DEF Pairs
      <3>8. QED BY <3>1, <3>2, <3>5, <3>6, <3>7
    <2>3. QED BY <2>1, <2>2
  <1>2. kind' = kind /\ log \subseteq log' BY <1>1, StageIs
  <1>3. StartId' = StartId /\ Logged' = Logged BY <1>1, <1>2, StartIdGrows
  <1>4. QED BY <1>1, <1>3 DEF FirstAt

\* A step that leaves log and memory alone.
LEMMA FirstSame ==
  ASSUME log' = log, kind' = kind
  PROVE  /\ StartId' = StartId /\ Logged' = Logged
         /\ mem' = mem => \A i : FirstAt(i) =>
              (DOMAIN mem'.kept \subseteq {i} => i \in Logged' \/ i = StartId')
  <1>1. StartId' = StartId /\ Logged' = Logged BY DEF StartId, Logged
  <1>2. QED BY <1>1 DEF FirstAt

\* The number of the request that a tool is about to send.
LEMMA NextFirst ==
  ASSUME TypeOK, Course, Paired, kind = "marlin", Firsts, up,
         probe.phase \in {"armed", "written"}
  PROVE  FirstAt(probe.start + Length)
  <1>1. Working /\ probe.phase # "disarmed" /\ Length \in Nat /\ probe.start \in Nat
    BY SentIs DEF Working
  <1>2. CASE Length = 0
    <2>1. FirstAt(probe.start) BY <1>1 DEF Firsts, NumberFirst
    <2>2. probe.start + Length = probe.start BY <1>1, <1>2
    <2>3. QED BY <2>1, <2>2
  <1>3. CASE Length # 0
    <2>1. Answered = Length BY DEF Answered, InHand
    <2>2. Length \in 1..Answered BY <1>1, <1>3, <2>1
    <2>3. Id(Length) \in DOMAIN mem.kept BY <1>1, <2>2 DEF Paired, PairKinds
    <2>4. Id(Length) # probe.start + Length BY <1>1 DEF Id
    <2>5. QED BY <2>3, <2>4 DEF FirstAt
  <1>4. QED BY <1>2, <1>3

\* Firsts is kept by a stage,
LEMMA FirstsStage ==
  ASSUME TypeOK, TypeOK', Course, Stage, kind = "marlin", Kept >= 2, Firsts
  PROVE  Firsts'
  <1>1. /\ pass # NoPass /\ pass.at \in 1..3 /\ (pass.at = 3 => pass' = NoPass)
        /\ UNCHANGED <<kind, files, up, probe, faults, traffic>>
    BY StageIs
  <1>2. Tolerable' = Tolerable BY <1>1, Zenon DEF Tolerable
  <1>3. NumberFirst /\ RequestFirst /\ PassFirst /\ KeptLogged BY DEF Firsts
  <1>4. NumberFirst'
    <2> SUFFICES ASSUME Working', probe'.phase # "disarmed", up'
                 PROVE  FirstAt(probe.start)'
      BY <1>1, Zenon DEF NumberFirst
    <2>1. FirstAt(probe.start) BY <1>1, <1>3, Zenon DEF NumberFirst, Working
    <2>2. DOMAIN mem'.kept \subseteq {probe.start} =>
            probe.start \in Logged' \/ probe.start = StartId'
      BY <2>1, FirstStage
    <2>3. QED BY <1>1, <2>2 DEF FirstAt
  <1>5. RequestFirst'
    <2> SUFFICES ASSUME faults' <= 1, up', files'.id # None
                 PROVE  FirstAt(files.id)'
      BY <1>1, Zenon DEF RequestFirst
    <2>1. FirstAt(files.id) BY <1>1, <1>3, Zenon DEF RequestFirst
    <2>2. DOMAIN mem'.kept \subseteq {files.id} =>
            files.id \in Logged' \/ files.id = StartId'
      BY <2>1, FirstStage
    <2>3. QED BY <1>1, <2>2 DEF FirstAt
  <1>6. PassFirst'
    <2> SUFFICES ASSUME Tolerable', pass' # NoPass, files'.id # None
                 PROVE  FirstAt(files.id)'
      BY <1>1, Zenon DEF PassFirst
    <2>1. FirstAt(files.id) BY <1>1, <1>2, <1>3, Zenon DEF PassFirst
    <2>2. DOMAIN mem'.kept \subseteq {files.id} =>
            files.id \in Logged' \/ files.id = StartId'
      BY <2>1, FirstStage
    <2>3. QED BY <1>1, <2>2 DEF FirstAt
  <1>7. KeptLogged'
    <2> SUFFICES ASSUME Tolerable', NEW i \in DOMAIN mem'.kept
                 PROVE  i \in Logged' \/ (DOMAIN mem'.kept = {i} /\ i = StartId')
      BY DEF KeptLogged
    <2>1. CASE files.id = None \/ pass.at # 3
      <3>1. mem'.kept = mem.kept /\ log' = log BY <2>1, MarlinKept
      <3>2. StartId' = StartId /\ Logged' = Logged BY <1>1, <3>1, FirstSame
      <3>3. QED BY <1>2, <1>3, <3>1, <3>2 DEF KeptLogged
    <2>2. CASE files.id # None /\ pass.at = 3
      <3>1. PICK x : /\ mem'.kept = Newest(With(mem.kept, files.id, x))
                     /\ log' = log \cup Pairs(mem.kept, DOMAIN mem.kept \ {files.id}, files.id, x)
        BY <2>2, MarlinKept
      <3>2. DOMAIN mem'.kept \subseteq DOMAIN mem.kept \cup {files.id}
        BY <3>1 DEF Newest, With
      <3>3. CASE DOMAIN mem.kept \subseteq {files.id}
        <4>1. FirstAt(files.id) BY <1>1, <1>2, <1>3, <2>2 DEF PassFirst
        <4>2. DOMAIN mem'.kept = {files.id} /\ i = files.id BY <3>2, <3>3
        <4>3. i \in Logged' \/ i = StartId' BY <4>1, <4>2, FirstStage
        <4>4. QED BY <4>2, <4>3
      <3>4. CASE ~(DOMAIN mem.kept \subseteq {files.id})
        <4> DEFINE S == DOMAIN mem.kept \ {files.id}
        <4>1. Pairs(mem.kept, S, files.id, x) \subseteq log' BY <3>1
        <4>2. PICK j \in S : TRUE BY <3>4
        <4>3. i \in S \/ i = files.id BY <3>2
        <4> HIDE DEF S
        <4>4. files.id \in Logged' BY <4>1, <4>2, PairsLogged
        <4>5. i \in S => i \in Logged' BY <4>1, PairsLogged
        <4>6. QED BY <4>3, <4>4, <4>5
      <3>5. QED BY <3>3, <3>4
    <2>3. QED BY <2>1, <2>2
  <1>8. QED BY <1>4, <1>5, <1>6, <1>7, Zenon DEF Firsts

\* and by every other step.
LEMMA FirstsElse ==
  ASSUME TypeOK, TypeOK', Course, ~Shared, [Next]_vars, ~Stage,
         kind = "marlin", Counted, Paired, Firsts
  PROVE  Firsts'
  <1>1. /\ log' = log /\ kind' = kind
        /\ mem' = mem \/ (mem' = NoMemory /\ ~up')
        /\ up' => up \/ (probe.phase \in {"off", "disarmed"} /\ probe' = probe)
        /\ \/ pass' = pass
           \/ pass' = NoPass
           \/ Idle
        /\ \/ files'.id \in {files.id, None}
           \/ /\ files'.id = probe.start + Length /\ Length < Requests
              /\ probe.phase = "armed" /\ probe'.phase = "written"
              /\ probe'.start = probe.start
    BY OtherServer
  <1>2. StartId' = StartId /\ Logged' = Logged BY <1>1, FirstSame
  <1>3. NumberFirst /\ RequestFirst /\ PassFirst /\ KeptLogged BY DEF Firsts
  <1>4. ASSUME NEW i, FirstAt(i), mem' = mem
        PROVE  DOMAIN mem'.kept \subseteq {i} => i \in Logged' \/ i = StartId'
    BY <1>1, <1>4, FirstSame
  <1>5. Tolerable' => Tolerable BY CountsGrow
  <1>6. up' => mem' = mem BY <1>1
  <1>7. /\ faults' <= 1 => faults <= 1
        /\ faults \in Nat
    BY CountsGrow
  <1>8. NumberFirst'
    <2> SUFFICES ASSUME Working', probe'.phase # "disarmed", up'
                 PROVE  DOMAIN mem'.kept \subseteq {probe'.start} =>
                          probe'.start \in Logged' \/ probe'.start = StartId'
      BY DEF NumberFirst, FirstAt
    <2>1. CASE Ended BY <2>1 DEF Ended, NoProbe, Working
    <2>2. CASE Began
      <3>1. probe'.start = StartId' BY <1>2, <2>2 DEF Began
      <3>2. QED BY <3>1
    <2>3. CASE Went
      <3>1. /\ probe'.start = probe.start /\ Working
            /\ probe.phase = "disarmed" => probe'.phase = "disarmed"
        BY <2>3 DEF Went, Working
      <3>2. up BY <1>1, <3>1 DEF Working
      <3>3. FirstAt(probe.start) BY <1>3, <3>1, <3>2 DEF NumberFirst
      <3>4. QED BY <1>4, <1>6, <3>1, <3>3
    <2>4. QED BY <2>1, <2>2, <2>3, OtherStep
  <1>9. RequestFirst'
    <2> SUFFICES ASSUME faults' <= 1, up', files'.id # None
                 PROVE  DOMAIN mem'.kept \subseteq {files'.id} =>
                          files'.id \in Logged' \/ files'.id = StartId'
      BY DEF RequestFirst, FirstAt
    <2>1. CASE files'.id \in {files.id, None}
      <3>1. files'.id = files.id /\ files.id # None BY <2>1
      <3>2. up
        <4> SUFFICES ASSUME ~up PROVE FALSE
          OBVIOUS
        <4>1. probe.phase = "off" BY <1>1, <3>1 DEF Course, Disarmed
        <4>2. faults >= 2 BY <3>1, <4>1 DEF Counted
        <4>3. QED BY <1>7, <4>2
      <3>3. FirstAt(files.id) BY <1>3, <1>7, <3>1, <3>2 DEF RequestFirst
      <3>4. QED BY <1>4, <1>6, <3>1, <3>3
    <2>2. CASE files'.id \notin {files.id, None}
      <3>1. files'.id = probe.start + Length /\ probe.phase = "armed" BY <1>1, <2>2
      <3>2. up BY <1>1, <3>1
      <3>3. FirstAt(probe.start + Length) BY <3>1, <3>2, NextFirst
      <3>4. QED BY <1>4, <1>6, <3>1, <3>3
    <2>3. QED BY <2>1, <2>2
  <1>10. PassFirst'
    <2> SUFFICES ASSUME Tolerable', pass' # NoPass, files'.id # None
                 PROVE  DOMAIN mem'.kept \subseteq {files'.id} =>
                          files'.id \in Logged' \/ files'.id = StartId'
      BY DEF PassFirst, FirstAt
    <2>1. up' /\ mem' = mem
      <3>1. up' BY DEF TypeOK, PassType
      <3>2. QED BY <1>6, <3>1
    <2>2. CASE files'.id \notin {files.id, None}
      <3>1. files'.id = probe.start + Length /\ probe.phase = "armed" BY <1>1, <2>2
      <3>2. up BY <1>1, <2>1, <3>1
      <3>3. FirstAt(probe.start + Length) BY <3>1, <3>2, NextFirst
      <3>4. QED BY <1>4, <2>1, <3>1, <3>3
    <2>3. CASE files'.id \in {files.id, None} /\ pass' = pass
      <3>1. files'.id = files.id BY <2>3
      <3>2. FirstAt(files.id) BY <1>3, <1>5, <2>3, <3>1 DEF PassFirst
      <3>3. QED BY <1>4, <2>1, <3>1, <3>2
    <2>4. CASE files'.id \in {files.id, None} /\ pass' # pass
      <3>1. Idle /\ files'.id = files.id BY <1>1, <2>4
      <3>2. FirstAt(files.id)
        <4>1. Traffic \/ Send
          <5>1. pass.request # pass'.request
            <6>1. pass.request = 0 /\ pass'.request = served + 1 /\ served \in Nat
              BY <3>1 DEF Idle, NoPass, TypeOK
            <6>2. QED BY <6>1
          <5>2. ~(Number \/ Arm \/ WriteId \/ Answer \/ Disarm \/ Unanswered \/ Collect \/ Cut)
            BY <5>1 DEF Number, Arm, WriteId, Answer, Disarm, Unanswered, Collect, Cut, Server
          <5>3. ~(Restart \/ Ready \/ UNCHANGED vars)
            BY <2>4, <5>1 DEF Restart, Ready, vars
          <5>4. QED BY <5>2, <5>3 DEF Next
        <4>2. CASE Traffic
          <5>1. up /\ traffic' = traffic + 1 BY <4>2 DEF Traffic
          <5>2. traffic' # 0 /\ faults' <= 1
            <6>1. traffic' # 0 BY <5>1, CountsGrow
            <6>2. QED BY <1>1, <6>1 DEF Tolerable
          <5>3. QED BY <1>3, <1>7, <3>1, <5>1, <5>2 DEF RequestFirst
        <4>3. CASE Send
          <5>1. up /\ probe.phase = "written" BY <4>3 DEF Send
          <5>2. files.id = probe.start + Length
            <6>1. files.id = Id(Length + 1) BY <5>1 DEF Course
            <6>2. QED BY <6>1, SentIs DEF Id
          <5>3. QED BY <5>1, <5>2, NextFirst
        <4>4. QED BY <4>1, <4>2, <4>3
      <3>3. QED BY <1>4, <2>1, <3>1, <3>2
    <2>5. QED BY <2>2, <2>3, <2>4
  <1>11. KeptLogged'
    <2> SUFFICES ASSUME Tolerable', NEW i \in DOMAIN mem'.kept
                 PROVE  i \in Logged' \/ (DOMAIN mem'.kept = {i} /\ i = StartId')
      BY DEF KeptLogged
    <2>1. mem' = mem BY <1>1, EmptyIs DEF NoMemory
    <2>2. QED BY <1>2, <1>3, <1>5, <2>1 DEF KeptLogged
  <1>12. QED BY <1>8, <1>9, <1>10, <1>11, Zenon DEF Firsts

\* With no fault, what the log does not hold is of the tool that works.
ModularHeld ==
  kind = "modular" /\ faults = 0 =>
    /\ \A i \in DOMAIN mem.kept : i \in Logged \/ (Working /\ i >= probe.start)
    /\ pass.id # None => Working /\ pass.id >= probe.start

\* What a stage does to the requests that modular's recorder keeps.
LEMMA ModularKept ==
  ASSUME TypeOK, Stage, kind = "modular"
  PROVE  /\ pass.id = None \/ pass.at # 3 => mem' = mem /\ log' = log
         /\ pass.id # None /\ pass.at = 3 =>
              \E x : /\ mem'.kept = Newest(With(mem.kept, pass.id, x))
                     /\ log' = log \cup Pairs(mem.kept, DOMAIN mem.kept, pass.id, x)
  BY ModularStage

\* The numbers of a record are in the log.
LEMMA RecordLogged ==
  ASSUME NEW r \in log, NEW i, NEW j, r.ids = <<i, j>>
  PROVE  i \in Logged /\ j \in Logged
  <1>1. DOMAIN r.ids = {1, 2} /\ r.ids[1] = i /\ r.ids[2] = j OBVIOUS
  <1>2. QED BY <1>1 DEF Logged

\* ModularHeld is kept.
LEMMA ModularStep ==
  ASSUME TypeOK, TypeOK', Course, ~Shared, [Next]_vars, Repeats >= 2,
         Counted, Bounded, Paired, ModularHeld
  PROVE  ModularHeld'
  <1> SUFFICES ASSUME kind' = "modular", faults' = 0 PROVE ModularHeld'
    BY DEF ModularHeld
  <1>1. kind = "modular" /\ kind' = kind /\ faults = 0 /\ log \subseteq log'
    BY CountsGrow, LogGrows
  <1>2. up BY <1>1 DEF Counted, TypeOK
  <1>3. /\ \A i \in DOMAIN mem.kept : i \in Logged \/ (Working /\ i >= probe.start)
        /\ pass.id # None => Working /\ pass.id >= probe.start
    BY <1>1 DEF ModularHeld
  <1>4. Logged \subseteq Logged' BY <1>1, StartIdGrows
  <1>5. CASE Stage
    <2>1. /\ probe' = probe /\ pass.at \in 1..3 /\ pass # NoPass
          /\ pass.at = 3 => pass' = NoPass
          /\ pass.at # 3 =>
               pass' = [request |-> served, at |-> pass.at + 1,
                        id |-> IF pass.at = 1 /\ kind \in ReadKinds
                               THEN IF kind \in OnceKinds /\ files.id \in mem.done THEN None
                                    ELSE files.id
                               ELSE pass.id]
      BY <1>5, StageIs
    <2>2. DOMAIN mem'.kept \subseteq DOMAIN mem.kept \cup ({pass.id} \ {None})
      <3>1. CASE pass.id = None \/ pass.at # 3
        BY <1>1, <1>5, <3>1, ModularKept
      <3>2. CASE pass.id # None /\ pass.at = 3
        <4>1. PICK x : mem'.kept = Newest(With(mem.kept, pass.id, x))
          BY <1>1, <1>5, <3>2, ModularKept
        <4>2. QED BY <3>2, <4>1 DEF Newest, With
      <3>3. QED BY <3>1, <3>2
    <2>3. \A i \in DOMAIN mem'.kept : i \in Logged' \/ (Working' /\ i >= probe'.start)
      BY <1>3, <1>4, <2>1, <2>2 DEF Working
    <2>4. files.id # None => Working /\ files.id >= probe.start
      <3> SUFFICES ASSUME files.id # None PROVE Working /\ files.id >= probe.start
        OBVIOUS
      <3>1. probe.phase \in {"armed", "written", "waiting"}
        <4>1. probe.phase \notin {"off", "numbered"} BY <1>1, CountsGrow DEF Counted
        <4>2. probe.phase # "disarmed" BY DEF Course, Disarmed
        <4>3. QED BY <4>1, <4>2 DEF TypeOK, Phases
      <3>2. (files.id = Id(Length) /\ Length # 0) \/ files.id = Id(Length + 1)
        BY <3>1, SentIs DEF Course
      <3>3. QED BY <3>1, <3>2, SentIs DEF Id, Working
    <2>5. pass'.id \in {pass.id, files.id, None}
      <3>1. CASE pass.at = 3 BY <2>1, <3>1 DEF NoPass
      <3>2. CASE pass.at # 3 BY <2>1, <3>2
      <3>3. QED BY <3>1, <3>2
    <2>6. pass'.id # None => Working' /\ pass'.id >= probe'.start
      BY <1>3, <2>1, <2>4, <2>5 DEF Working
    <2>7. QED BY <2>3, <2>6 DEF ModularHeld
  <1>6. CASE ~Stage
    <2>1. /\ log' = log
          /\ mem' = mem \/ (mem' = NoMemory /\ ~up')
          /\ \/ pass' = pass /\ served' = served
             \/ pass' = NoPass /\ mem' = NoMemory /\ served' = served
             \/ Idle /\ mem' = mem
      BY <1>6, OtherServer
    <2>2. Logged' = Logged BY <1>1, <2>1, FirstSame
    <2>3. DOMAIN mem'.kept \subseteq DOMAIN mem.kept BY <2>1, EmptyIs DEF NoMemory
    <2>4. pass'.id \in {pass.id, None} BY <2>1 DEF Idle, NoPass
    <2>5. CASE ~Working
      <3>1. \A i \in DOMAIN mem'.kept : i \in Logged' BY <1>3, <2>2, <2>3, <2>5
      <3>2. pass'.id = None BY <1>3, <2>4, <2>5
      <3>3. QED BY <3>1, <3>2 DEF ModularHeld
    <2>6. CASE Working /\ Went
      <3>1. Working' /\ probe'.start = probe.start BY <2>6 DEF Went, Working
      <3>2. QED BY <1>3, <2>2, <2>3, <2>4, <3>1 DEF ModularHeld
    <2>7. CASE Working /\ ~Went
      <3>1. Ended BY <1>6, <2>7, OtherStep DEF Began, Working
      <3>2. probe.phase = "disarmed"
        <4>1. probe # NoProbe BY <2>7 DEF Working, NoProbe
        <4>2. ~Cut /\ ~Restart BY <1>1 DEF Cut, Restart, TypeOK
        <4>3. ~Unanswered BY <1>2 DEF Unanswered
        <4>4. probe' = NoProbe BY <3>1 DEF Ended
        <4>5. ~(Traffic \/ Number \/ Arm \/ WriteId \/ Send \/ Answer \/ Disarm)
          <5>1. probe'.phase = "off" BY <4>4 DEF NoProbe
          <5>2. probe.phase # "off" BY <2>7 DEF Working
          <5>3. QED
            BY <5>1, <5>2 DEF Traffic, Number, Arm, WriteId, Send, Answer, Disarm, TypeOK
        <4>6. ~(Ready \/ UNCHANGED vars) BY <4>1, <4>4 DEF Ready, Tools, vars
        <4>7. Collect BY <1>6, <4>2, <4>3, <4>5, <4>6 DEF Next
        <4>8. QED BY <4>7 DEF Collect
      <3>3. /\ Length = Requests /\ Answered = Requests /\ Requests \in Nat /\ Requests >= 2
            /\ probe.start \in Nat /\ Base = probe.start
        BY <1>1, <2>7, <3>2, SentIs, RequestsIs
          DEF Course, Answered, InHand, Requests, Numbered, Base
      <3>4. pass = NoPass BY <3>2, <3>3 DEF Course
      <3>5. pass'.id = None BY <2>4, <3>4 DEF NoPass
      <3>6. ASSUME NEW i \in DOMAIN mem.kept, i >= probe.start PROVE i \in Logged
        <4>1. i < probe.start + Requests /\ i \in Nat
          BY <1>1, <3>3 DEF Bounded, PairKinds, Held, TypeOK, MemType, IsTable
        <4> DEFINE k == i - probe.start + 1
        <4>2. k \in 1..Requests /\ i = Id(k) BY <3>3, <3>6, <4>1 DEF Id
        <4> HIDE DEF k
        <4>3. \E a, b \in 1..Requests : a < b /\ (a = k \/ b = k)
          <5>1. CASE k = 1
            <6>1. 1 \in 1..Requests /\ 2 \in 1..Requests BY <3>3
            <6>2. QED BY <5>1, <6>1
          <5>2. CASE k # 1
            <6>1. 1 \in 1..Requests /\ 1 < k BY <4>2, <5>2, <3>3
            <6>2. QED BY <4>2, <6>1
          <5>3. QED BY <5>1, <5>2
        <4>4. PICK a, b \in 1..Requests : a < b /\ (a = k \/ b = k) BY <4>3
        <4>5. PairOf(a, b) \in log BY <1>1, <3>3, <4>4 DEF Paired, PairKinds
        <4>6. PairOf(a, b).ids = <<Id(a), Id(b)>> BY DEF PairOf
        <4>7. Id(a) \in Logged /\ Id(b) \in Logged BY <4>5, <4>6, RecordLogged
        <4>8. QED BY <4>2, <4>4, <4>7
      <3>7. QED BY <1>3, <2>2, <2>3, <3>5, <3>6 DEF ModularHeld
    <2>8. QED BY <2>5, <2>6, <2>7
  <1>7. QED BY <1>5, <1>6
-----------------------------------------------------------------------------
(* A tool with no pass but its own. *)

\* What the log has of its numbers are its own pairs, and the recorder holds
\* no number that is still to be sent.
CleanLog ==
  \A r \in log : r.ids[1] >= probe.start /\ r.ids[2] >= probe.start =>
    \E k, l \in 1..Answered : k < l /\ r = PairOf(k, l)
CleanKept ==
  \A i \in DOMAIN mem.kept :
    i < probe.start + Answered \/ (i = probe.start /\ kind = "marlin")
Clean == Tolerable /\ Working /\ probe.alone => CleanLog /\ CleanKept

\* The pass of its request ends.
LEMMA CleanCommit ==
  ASSUME TypeOK, TypeOK', Course, Underway, Paired, CleanLog, CleanKept, Stage, InHand, pass.at = 3,
         NEW S, NEW x, S \subseteq DOMAIN mem.kept, x = Whole(Length),
         kind \in {"marlin", "modular"},
         kind = "marlin" => files.id \notin S,
         log' = log \cup Pairs(mem.kept, S, files.id, x),
         DOMAIN mem'.kept \subseteq DOMAIN mem.kept \cup {files.id}
  PROVE  CleanLog' /\ CleanKept'
  <1>1. /\ Length \in Nat \ {0} /\ files.id = Id(Length) /\ Id(Length) \in Nat
        /\ probe.sent[Length] = served /\ Answered = Length - 1 /\ Answered' = Length
        /\ probe' = probe /\ kind' = kind
    BY StageOf
  <1>2. /\ probe.start \in Nat /\ pass.request = served /\ up /\ probe.phase # "disarmed"
        /\ kind \in PairKinds
    BY SentIs, StageIs DEF InHand, PairKinds
  <1>3. \A k, l : PairOf(k, l)' = PairOf(k, l)
    BY <1>1, SameProbe
  <1>4. Answered \in Nat /\ \A k \in 1..Answered : k \in 1..Length /\ k < Length
    BY <1>1
  <1>5. ASSUME NEW i \in S, i >= probe.start
        PROVE  \E k \in 1..Answered : i = Id(k)
    <2>1. i \in Nat BY DEF TypeOK, MemType, IsTable
    <2>2. i < probe.start + Answered
      <3>1. i < probe.start + Answered \/ (i = probe.start /\ kind = "marlin")
        BY <1>5 DEF CleanKept
      <3>2. CASE i = probe.start /\ kind = "marlin"
        <4>1. Id(Length) # probe.start BY <1>1, <1>5, <3>2
        <4>2. Length # 1 BY <1>2, <4>1 DEF Id
        <4>3. QED BY <1>1, <1>2, <3>2, <4>2
      <3>3. QED BY <3>1, <3>2
    <2> DEFINE k == i - probe.start + 1
    <2>3. k \in 1..Answered /\ i = Id(k) BY <1>2, <1>4, <1>5, <2>1, <2>2 DEF Id
    <2>4. QED BY <2>3
  <1>6. CleanLog'
    <2> SUFFICES ASSUME NEW r \in log', r.ids[1] >= probe'.start, r.ids[2] >= probe'.start
                 PROVE  \E k, l \in 1..Answered' : k < l /\ r = PairOf(k, l)'
      BY DEF CleanLog
    <2>0. ASSUME \E k, l \in 1..Length : k < l /\ r = PairOf(k, l)
          PROVE  \E k, l \in 1..Answered' : k < l /\ r = PairOf(k, l)'
      <3>1. PICK k, l \in 1..Length : k < l /\ r = PairOf(k, l) BY <2>0
      <3>2. r = PairOf(k, l)' BY <1>3, <3>1
      <3>3. k \in 1..Answered' /\ l \in 1..Answered' BY <1>1
      <3>4. QED BY <3>1, <3>2, <3>3
    <2>s. probe'.start = probe.start BY <1>1
    <2>1. CASE r \in log
      <3>1. PICK k, l \in 1..Answered : k < l /\ r = PairOf(k, l) BY <2>1, <2>s DEF CleanLog
      <3>2. QED BY <1>4, <2>0, <3>1
    <2>2. CASE r \notin log
      <3>1. PICK i \in S : r = Record(<<i, files.id>>, <<mem.kept[i], x>>)
        BY <2>2 DEF Pairs
      <3>2. r.ids = <<i, files.id>> BY <3>1 DEF Record
      <3>3. i >= probe.start BY <2>s, <3>2
      <3>4. PICK k \in 1..Answered : i = Id(k) BY <1>5, <3>3
      <3>5. mem.kept[i] = Whole(k) BY <1>2, <3>4 DEF Paired
      <3>6. r = [ids |-> <<Id(k), Id(Length)>>, snapshots |-> <<Whole(k), Whole(Length)>>,
                 pass |-> served]
        BY <1>1, <1>2, <3>1, <3>4, <3>5 DEF Record
      <3>7. r = PairOf(k, Length) BY <1>1, <3>6 DEF PairOf
      <3>8. k \in 1..Length /\ k < Length /\ Length \in 1..Length BY <1>1, <1>4
      <3>9. QED BY <2>0, <3>7, <3>8
    <2>3. QED BY <2>1, <2>2
  <1>7. CleanKept'
    <2> SUFFICES ASSUME NEW i \in DOMAIN mem'.kept
                 PROVE  i < probe.start + Length \/ (i = probe.start /\ kind = "marlin")
      BY <1>1 DEF CleanKept
    <2>1. CASE i = files.id BY <1>1, <1>2, <2>1 DEF Id
    <2>2. CASE i # files.id
      <3>1. i \in DOMAIN mem.kept /\ i \in Nat BY <2>2 DEF TypeOK, MemType, IsTable
      <3>2. i < probe.start + (Length - 1) \/ (i = probe.start /\ kind = "marlin")
        BY <1>1, <3>1 DEF CleanKept
      <3>3. QED BY <1>1, <1>2, <3>1, <3>2
    <2>3. QED BY <2>1, <2>2
  <1>8. QED BY <1>6, <1>7

\* Clean is kept.
LEMMA CleanStep ==
  ASSUME TypeOK, TypeOK', Course, ~Shared, [Next]_vars, Underway, Paired,
         Firsts, ModularHeld, Clean
  PROVE  Clean'
  <1> SUFFICES ASSUME Tolerable', Working', probe'.alone PROVE CleanLog' /\ CleanKept'
    BY DEF Clean
  <1>1. Tolerable /\ kind' = kind /\ kind \in {"marlin", "modular"} /\ kind \in PairKinds
    BY CountsGrow DEF Tolerable, PairKinds
  <1>2. CASE Stage
    <2>1. probe' = probe /\ Working /\ probe.alone /\ pass # NoPass /\ pass.at \in 1..3
      BY <1>2, StageIs DEF Working
    <2>2. CleanLog /\ CleanKept BY <1>1, <2>1 DEF Clean
    <2>3. probe.phase = "waiting" /\ InHand BY <2>1 DEF Course, InHand
    <2>4. files.id = Id(Length) /\ files.id # None
      BY <1>2, <2>3, StageOf DEF None
    <2>5. CASE pass.at # 3
      <3>1. mem'.kept = mem.kept /\ log' = log
        BY <1>1, <1>2, <2>5, MarlinKept, ModularKept
      <3>2. Answered' = Answered BY <1>2, <2>3, <2>5, StageOf
      <3>3. \A k, l : PairOf(k, l)' = PairOf(k, l) BY <1>1, <2>1, SameProbe
      <3>4. CleanLog' BY <2>1, <2>2, <3>1, <3>2, <3>3 DEF CleanLog
      <3>5. CleanKept' BY <1>1, <2>1, <2>2, <3>1, <3>2 DEF CleanKept
      <3>6. QED BY <3>4, <3>5
    <2>6. CASE pass.at = 3 /\ kind = "marlin"
      <3> DEFINE active == Stored(mem.active, files.id, Stages[pass.at])
                 x == active[files.id]
                 S == DOMAIN mem.kept \ {files.id}
      <3>1. x = Whole(Length) BY <1>2, <2>3, <2>6, WholeSnapshot
      <3>2. mem' = Committed(files.id, x) /\ log' = log \cup Pairs(mem.kept, S, files.id, x)
        BY <1>2, <2>4, <2>6, MarlinStage
      <3> HIDE DEF x
      <3>3. mem'.kept = Newest(With(mem.kept, files.id, x)) BY <3>2 DEF Committed
      <3>4. DOMAIN mem'.kept \subseteq DOMAIN mem.kept \cup {files.id}
        BY <3>3 DEF Newest, With
      <3>5. S \subseteq DOMAIN mem.kept /\ files.id \notin S OBVIOUS
      <3> HIDE DEF S
      <3>6. QED BY <1>1, <1>2, <2>2, <2>3, <2>6, <3>1, <3>2, <3>4, <3>5, CleanCommit
    <2>7. CASE pass.at = 3 /\ kind = "modular"
      <3> DEFINE x == Local(AllStages)
                 S == DOMAIN mem.kept
      <3>1. x = Whole(Length) /\ pass.id = files.id
        BY <1>2, <2>3, <2>7, WholeSnapshot DEF ReadKinds
      <3>2. /\ mem' = [active |-> mem.active, done |-> mem.done,
                       kept |-> Newest(With(mem.kept, files.id, x))]
            /\ log' = log \cup Pairs(mem.kept, S, files.id, x)
        BY <1>2, <2>4, <2>7, <3>1, ModularStage
      <3> HIDE DEF x
      <3>3. mem'.kept = Newest(With(mem.kept, files.id, x)) BY <3>2
      <3>4. DOMAIN mem'.kept \subseteq DOMAIN mem.kept \cup {files.id}
        BY <3>3 DEF Newest, With
      <3>5. S \subseteq DOMAIN mem.kept /\ (kind = "marlin" => files.id \notin S) BY <2>7
      <3> HIDE DEF S
      <3>6. QED BY <1>1, <1>2, <2>2, <2>3, <2>7, <3>1, <3>2, <3>4, <3>5, CleanCommit
    <2>8. QED BY <1>1, <2>5, <2>6, <2>7
  <1>3. CASE ~Stage
    <2>1. /\ log' = log
          /\ DOMAIN mem'.kept \subseteq DOMAIN mem.kept
      <3>1. log' = log /\ (mem' = mem \/ mem' = NoMemory) BY <1>3, OtherServer
      <3>2. QED BY <3>1, EmptyIs DEF NoMemory
    <2>2. ~Ended BY DEF Ended, NoProbe, Working
    <2>3. CASE Began
      <3>1. probe'.start = StartId /\ pass = NoPass /\ ~Working /\ probe'.sent = <<>>
            /\ probe'.phase = "numbered"
        BY <2>3 DEF Began, Working
      <3>2. Answered' = 0 BY <3>1 DEF Answered, InHand, Length
      <3>3. StartId \in Nat /\ \A i \in Logged : i < StartId
        BY <1>1, StartIdIs DEF StartIdFits, PairKinds, Numbered
      <3>4. ASSUME NEW r \in log PROVE r.ids[1] \in Nat /\ r.ids[1] < StartId
        <4>1. r.ids \in Seq(Nat) /\ Len(r.ids) = 2 BY <1>1 DEF TypeOK, LogType, Compared
        <4>2. 1 \in DOMAIN r.ids BY <4>1
        <4>3. r.ids[1] \in Logged BY <4>2 DEF Logged
        <4>4. QED BY <3>3, <4>1, <4>2, <4>3
      <3>5. CleanLog'
        <4>1. \A r \in log : ~(r.ids[1] >= StartId) BY <3>3, <3>4
        <4>2. QED BY <2>1, <3>1, <4>1 DEF CleanLog
      <3>6. \A i \in DOMAIN mem.kept : i \in Logged \/ (i = StartId /\ kind = "marlin")
        <4>1. CASE kind = "marlin" BY <1>1, <4>1 DEF Firsts, KeptLogged
        <4>2. CASE kind = "modular"
          <5>1. faults = 0 BY <1>1, <4>2 DEF Tolerable
          <5>2. QED BY <3>1, <4>2, <5>1 DEF ModularHeld
        <4>3. QED BY <1>1, <4>1, <4>2
      <3>7. CleanKept'
        <4> SUFFICES ASSUME NEW i \in DOMAIN mem'.kept
                     PROVE  i < StartId + 0 \/ (i = StartId /\ kind = "marlin")
          BY <1>1, <3>1, <3>2 DEF CleanKept
        <4>1. i \in Logged => i < StartId + 0 BY <3>3
        <4>2. QED BY <2>1, <3>6, <4>1
      <3>8. QED BY <3>5, <3>7
    <2>4. CASE Went
      <3>1. /\ Working /\ probe.alone /\ probe'.start = probe.start /\ Answered' = Answered
            /\ probe.alone \in BOOLEAN
        BY <2>4 DEF Went, Working, TypeOK
      <3>2. CleanLog /\ CleanKept BY <1>1, <3>1 DEF Clean
      <3>3. \A k, l \in 1..Answered : PairOf(k, l)' = PairOf(k, l)
        <4>1. CASE Answered' = 0
          <5>1. 1..Answered = {} BY <3>1, <4>1
          <5>2. QED BY <5>1
        <4>2. CASE Answered' # 0 BY <1>3, <4>2, OtherAnswered
        <4>3. QED BY <4>1, <4>2
      <3>4. CleanLog' BY <2>1, <3>1, <3>2, <3>3 DEF CleanLog
      <3>5. CleanKept' BY <1>1, <2>1, <3>1, <3>2 DEF CleanKept
      <3>6. QED BY <3>4, <3>5
    <2>5. QED BY <1>3, <2>2, <2>3, <2>4, OtherStep
  <1>4. QED BY <1>2, <1>3

\* The first condition of MarlinReport, ModularReport and HummingReport.
LEMMA AllPairsThere ==
  ASSUME TypeOK, Course, Paired, Clean, Tolerable, probe.phase = "disarmed", probe.alone
  PROVE  AllPairs /\ Own = OwnPairs
  <1>1. /\ kind \in PairKinds /\ Working /\ Answered = Requests /\ Requests \in Nat \ {0}
        /\ probe.start \in Nat
    BY RequestsIs, SentIs DEF Tolerable, PairKinds, Working, Answered, InHand, Course
  <1>2. CleanLog BY <1>1 DEF Clean
  <1>3. OwnPairs \subseteq Own
    <2> SUFFICES ASSUME NEW k \in 1..Requests, NEW l \in 1..Requests, k < l
                 PROVE  PairOf(k, l) \in Own
      BY DEF OwnPairs, Pairing
    <2>1. PairOf(k, l) \in log BY <1>1 DEF Paired
    <2>2. Id(k) \in Wanted /\ Id(l) \in Wanted BY <1>1 DEF Id, Wanted
    <2>3. PairOf(k, l).ids = <<Id(k), Id(l)>> BY DEF PairOf
    <2>4. QED BY <2>1, <2>2, <2>3 DEF Own
  <1>4. Own \subseteq OwnPairs
    <2> SUFFICES ASSUME NEW r \in Own PROVE r \in OwnPairs
      OBVIOUS
    <2>1. r \in log /\ r.ids \in Seq(Nat) /\ Len(r.ids) = 2
      BY <1>1 DEF Own, TypeOK, LogType, Compared
    <2>2. 1 \in DOMAIN r.ids /\ 2 \in DOMAIN r.ids BY <2>1
    <2>3. r.ids[1] >= probe.start /\ r.ids[2] >= probe.start
      BY <1>1, <2>2 DEF Own, Wanted
    <2>4. PICK k, l \in 1..Requests : k < l /\ r = PairOf(k, l)
      BY <1>1, <1>2, <2>1, <2>3 DEF CleanLog
    <2> DEFINE p == <<k, l>>
    <2>5. p \in Pairing /\ r = PairOf(p[1], p[2]) BY <2>4 DEF Pairing
    <2>6. QED BY <2>5 DEF OwnPairs
  <1>5. Own = OwnPairs BY <1>3, <1>4
  <1>6. QED BY <1>5, OwnPairCount DEF AllPairs

\* A tool with a record for each request counts them right.
LEMMA OnceThere ==
  ASSUME TypeOK, Course, Once, kind \in OnceKinds, probe.phase = "disarmed"
  PROVE  Cardinality(Own) = Requests
  <1>1. /\ Working /\ Answered = Requests /\ Requests \in Nat \ {0} /\ probe.start \in Nat
    BY RequestsIs, SentIs DEF Working, Answered, InHand, Course
  <1>2. ASSUME NEW k \in 1..Requests
        PROVE  OneOf(k) \in Own /\ OneOf(k).ids = <<Id(k)>>
    <2>1. OneOf(k) \in log BY <1>1 DEF Once, OnceAll
    <2>2. Id(k) \in Wanted BY <1>1 DEF Id, Wanted
    <2>3. OneOf(k).ids = <<Id(k)>> BY DEF OneOf
    <2>4. QED BY <2>1, <2>2, <2>3 DEF Own
  <1>3. ASSUME NEW r \in Own
        PROVE  \E k \in 1..Requests : r = OneOf(k)
    <2>1. r \in log /\ r.ids \in Seq(Nat) /\ Len(r.ids) = 1
      BY DEF Own, TypeOK, LogType, Compared, OnceKinds, PairKinds
    <2>2. 1 \in DOMAIN r.ids BY <2>1
    <2>3. r.ids[1] >= probe.start BY <1>1, <2>2 DEF Own, Wanted
    <2>4. QED BY <1>1, <2>1, <2>3 DEF Once, OnceOwn
  <1>4. ASSUME NEW k \in 1..Requests, NEW l \in 1..Requests, OneOf(k) = OneOf(l)
        PROVE  k = l
    <2>1. <<Id(k)>> = <<Id(l)>> BY <1>2, <1>4
    <2>2. Id(k) = Id(l) BY <2>1
    <2>3. k \in Nat \ {0} /\ l \in Nat \ {0} OBVIOUS
    <2>4. QED BY <2>2, <2>3, IdIs
  <1> DEFINE one == [k \in 1..Requests |-> OneOf(k)]
  <1>5. one \in Bijection(1..Requests, Own)
    <2>1. one \in [1..Requests -> Own] BY <1>2
    <2>2. \A k, l \in 1..Requests : one[k] = one[l] => k = l BY <1>4
    <2>3. \A r \in Own : \E k \in 1..Requests : one[k] = r BY <1>3
    <2> HIDE DEF one
    <2>4. one \in Injection(1..Requests, Own) BY <2>1, <2>2 DEF Injection, IsInjective
    <2>5. one \in Surjection(1..Requests, Own) BY <2>1, <2>3 DEF Surjection
    <2>6. QED BY <2>4, <2>5 DEF Bijection
  <1> HIDE DEF one
  <1>6. IsFiniteSet(1..Requests) /\ Cardinality(1..Requests) = Requests
    BY <1>1, FS_Interval
  <1>7. QED BY <1>5, <1>6, FS_Bijection DEF ExistsBijection

\* What may make a tool refuse: not its own requests.
Excused ==
  \/ ~probe.alone
  \/ kind = "humming"
  \/ kind = "modular" /\ faults > 0
  \/ kind = "marlin" /\ faults > 1 /\ traffic > 0

\* A tool with no excuse reports.
LEMMA ReportedQuiet ==
  ASSUME TypeOK, Course, Paired, Once, BothLatest, Clean, probe.phase = "disarmed",
         ~Excused
  PROVE  Report.status = "written"
  <1>1. /\ Length = Requests /\ Answered = Length /\ probe.alone /\ probe.start \in Nat
        /\ faults \in Nat /\ traffic \in Nat
    BY SentIs DEF Answered, InHand, Course, Excused, TypeOK
  <1>2. \A R : Written(R).status = "written" BY DEF Written
  <1>3. CASE kind \in {"marlin", "modular"}
    <2>1. Tolerable BY <1>1, <1>3 DEF Tolerable, Excused
    <2>2. AllPairs /\ Own = OwnPairs BY <1>1, <2>1, AllPairsThere
    <2>3. \A r \in Own : r.ids[1] # r.ids[2]
      <3> SUFFICES ASSUME NEW r \in Own PROVE r.ids[1] # r.ids[2]
        OBVIOUS
      <3>1. PICK p \in Pairing : r = PairOf(p[1], p[2]) BY <2>2 DEF OwnPairs
      <3>2. p[1] \in Nat \ {0} /\ p[2] \in Nat \ {0} /\ p[1] # p[2] BY DEF Pairing
      <3>3. Id(p[1]) # Id(p[2]) BY <3>2, IdIs
      <3>4. QED BY <3>1, <3>3 DEF PairOf
    <2>4. CASE kind = "marlin"
      <3>1. Report = MarlinReport BY <2>4 DEF Report
      <3>2. QED BY <1>2, <2>2, <2>3, <3>1 DEF MarlinReport
    <2>5. CASE kind = "modular"
      <3>1. Report = ModularReport BY <2>5 DEF Report
      <3>2. QED BY <1>2, <2>2, <3>1 DEF ModularReport
    <2>6. QED BY <1>3, <2>4, <2>5
  <1>4. CASE kind \in OnceKinds
    <2>1. Report = SingleReport BY <1>4 DEF Report, OnceKinds, TwinReport
    <2>2. Cardinality(Own) = Requests BY <1>4, OnceThere
    <2>3. QED BY <1>2, <2>1, <2>2 DEF SingleReport
  <1>5. CASE kind \in BothKinds
    <2>1. Report = LastOfBoth
      BY <1>5 DEF Report, BothKinds, LinearReport, UpstreamReport, QkvzReport
    <2>2. Length = 2 BY <1>1, <1>5 DEF BothKinds, Requests, Numbered
    <2>3. LatestIs(1) /\ LatestIs(2)
      BY <1>1, <1>5, <2>2 DEF BothLatest, BothLogged, TwinsLogged
    <2>4. Of(0) # {} /\ Of(1) # {}
      <3>1. \E r \in log : r.ids = <<1 - 1>> BY <2>3 DEF LatestIs
      <3>2. \E r \in log : r.ids = <<2 - 1>> BY <2>3 DEF LatestIs
      <3>3. 1 - 1 = 0 /\ 2 - 1 = 1 OBVIOUS
      <3>4. QED BY <3>1, <3>2, <3>3 DEF Of
    <2>5. QED BY <1>2, <2>1, <2>4 DEF LastOfBoth
  <1>6. QED
    BY <1>3, <1>4, <1>5, KindIs DEF AllKinds, OnceKinds, BothKinds, Excused

\* The inductive invariant of QuietReports.
QuietInv == OwnInv /\ Counted /\ Firsts /\ ModularHeld /\ Clean /\ QuietProbeReports

\* Nor does a report become a refusal later.
LEMMA QuietStep ==
  ASSUME QuietInv, ~Shared, [Next]_vars
  PROVE  QuietProbeReports'
  <1>0. /\ TypeOK /\ Course /\ Paired /\ Once /\ BothLatest /\ Clean /\ QuietProbeReports
    BY DEF QuietInv, OwnInv
  <1>1. /\ kind' = kind /\ faults \in Nat /\ traffic \in Nat
        /\ faults' \in {faults, faults + 1} /\ traffic' \in {traffic, traffic + 1}
    BY <1>0, CountsGrow
  <1>2. (faults > 0 => faults' > 0) /\ (faults > 1 => faults' > 1) /\ (traffic > 0 => traffic' > 0)
    BY <1>1
  <1>3. CASE report' = report
    BY <1>0, <1>1, <1>2, <1>3 DEF QuietProbeReports
  <1>4. CASE report' = NoReport
    <2>1. report'.status # "refused" BY <1>4 DEF NoReport
    <2>2. QED BY <2>1 DEF QuietProbeReports
  <1>5. CASE Collect
    <2>1. /\ probe.phase = "disarmed" /\ report'.status = Report.status
          /\ report'.alone = probe.alone /\ faults' = faults /\ traffic' = traffic
      BY <1>5 DEF Collect
    <2>2. CASE Excused BY <1>1, <2>1, <2>2 DEF Excused, QuietProbeReports
    <2>3. CASE ~Excused
      <3>1. Report.status = "written" BY <1>0, <2>1, <2>3, ReportedQuiet
      <3>2. QED BY <2>1, <3>1 DEF QuietProbeReports
    <2>4. QED BY <2>2, <2>3
  <1>6. report' = report \/ report' = NoReport \/ Collect
    <2>1. CASE Stage BY <1>0, <2>1, StageIs
    <2>2. CASE ~Stage BY <1>0, <2>2, OtherServer
    <2>3. QED BY <2>1, <2>2
  <1>7. QED BY <1>3, <1>4, <1>5, <1>6

\* QuietInv holds at first and is kept.
LEMMA QuietInvInit == Init => QuietInv
  <1> SUFFICES ASSUME Init PROVE QuietInv
    OBVIOUS
  <1>1. OwnInv BY OwnInvInit
  <1>2. /\ up = TRUE /\ files.id = None /\ pass = NoPass /\ ~Working /\ pass.id = None
        /\ DOMAIN mem.kept = {} /\ report.status = "none"
    BY EmptyIs DEF Init, Disarmed, Working, NoProbe, NoMemory, NoReport, NoPass
  <1>3. Counted BY <1>2 DEF Counted
  <1>4. Firsts BY <1>2 DEF Firsts, NumberFirst, RequestFirst, PassFirst, KeptLogged
  <1>5. ModularHeld BY <1>2 DEF ModularHeld
  <1>6. Clean BY <1>2 DEF Clean
  <1>7. QuietProbeReports BY <1>2 DEF QuietProbeReports
  <1>8. QED BY <1>1, <1>3, <1>4, <1>5, <1>6, <1>7 DEF QuietInv

LEMMA QuietInvStep ==
  ASSUME QuietInv, ~Shared, Repeats >= 2, Repeats <= Kept, Slow \cap OnceKinds = {}, [Next]_vars
  PROVE  QuietInv'
  <1>0. /\ OwnInv /\ TypeOK /\ Course /\ Underway /\ Bounded /\ Paired
        /\ Counted /\ Firsts /\ ModularHeld /\ Clean
    BY DEF QuietInv, OwnInv
  <1>1. OwnInv' /\ TypeOK'
    <2>1. OwnInv' BY <1>0, OwnInvStep
    <2>2. QED BY <2>1 DEF OwnInv
  <1>2. Counted' BY <1>0, CountedStep
  <1>3. Firsts'
    <2>1. kind' = kind BY <1>0, CountsGrow
    <2>2. CASE kind # "marlin" BY <2>1, <2>2 DEF Firsts
    <2>3. CASE kind = "marlin" /\ Stage
      <3>1. Kept >= 2 BY ProbeAssumption
      <3>2. QED BY <1>0, <1>1, <2>3, <3>1, FirstsStage
    <2>4. CASE kind = "marlin" /\ ~Stage
      BY <1>0, <1>1, <2>4, FirstsElse
    <2>5. QED BY <2>2, <2>3, <2>4
  <1>4. ModularHeld' BY <1>0, <1>1, ModularStep
  <1>5. Clean' BY <1>0, <1>1, CleanStep
  <1>6. QuietProbeReports' BY QuietStep
  <1>7. QED BY <1>1, <1>2, <1>3, <1>4, <1>5, <1>6 DEF QuietInv

(* A tool that had all its requests answered, with no pass but its own, writes
   its report and does not refuse, however many tools, restarts and users came
   before it, but for what QuietProbeReports excepts: the recorder of humming,
   modular's after a fault, and marlin's after two and a user's pass. *)
THEOREM QuietReports ==
  ASSUME ~Shared, Repeats >= 2, Repeats <= Kept, Slow \cap {"single", "twin"} = {}
  PROVE  Spec => []QuietProbeReports
  <1>1. Init => QuietInv BY QuietInvInit
  <1>2. QuietInv /\ [Next]_vars => QuietInv'
    BY QuietInvStep DEF OnceKinds
  <1>3. QuietInv => QuietProbeReports BY DEF QuietInv
  <1>4. QED BY <1>1, <1>2, <1>3, PTL DEF Spec
=============================================================================
