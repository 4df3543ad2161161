------------------------- MODULE AssetOwnershipProofs -------------------------
(***************************************************************************)
(* Proofs about AssetOwnership, for any assets, dependencies and profiles. *)
(*                                                                         *)
(* That a purge can be repeated is inductive.  That it goes from dependent *)
(* to base also needs what the preflight established (Ordered), and that   *)
(* it deletes nothing of the owner's needs the whole history of claims,    *)
(* fingerprints and flags that led to an owned entry (Honest).             *)
(***************************************************************************)
EXTENDS AssetOwnership, TLAPS

\* An entry that track_model or track_image writes is well formed.
LEMMA EntryTypes ==
  ASSUME TypeOK, NEW a \in Assets, NEW owned \in BOOLEAN, NEW deps \in SUBSET Models
  PROVE  /\ NewEntry(a, owned, deps) \in Entry
         /\ a \in DOMAIN registry => UpdatedEntry(a, owned, deps) \in Entry
  <1>1. Evidence(a) \in Marks \cup {NoMark}
    BY DEF Evidence
  <1>2. NewEntry(a, owned, deps) \in Entry
    BY <1>1 DEF NewEntry, Entry
  <1>3. ASSUME a \in DOMAIN registry PROVE UpdatedEntry(a, owned, deps) \in Entry
    <2>1. registry[a] \in Entry
      BY <1>3 DEF TypeOK
    <2>2. /\ registry[a].owned \in BOOLEAN /\ registry[a].state \in {"claimed", "ready"}
          /\ registry[a].fingerprint \in Marks \cup {NoMark}
          /\ registry[a].depends_on \in SUBSET Models
      BY <2>1 DEF Entry
    <2>3. QED BY <1>1, <2>2 DEF UpdatedEntry, Entry
  <1>4. QED BY <1>2, <1>3

\* What a track command leaves in the registry: one entry more or another one.
LEMMA TrackTypes ==
  ASSUME TypeOK, NEW a \in Assets, NEW owned \in BOOLEAN, NEW deps \in SUBSET Models,
         Track(a, owned, deps)
  PROVE  \E D \in SUBSET Assets : registry' \in [D -> Entry]
  <1>1. CASE Ignored(a, owned)
    BY <1>1 DEF Track, Tracked, TypeOK
  <1>2. CASE ~Ignored(a, owned)
    <2>1. registry' = [b \in DOMAIN registry \cup {a} |->
             IF b # a THEN registry[b]
             ELSE IF a \in DOMAIN registry THEN UpdatedEntry(a, owned, deps)
             ELSE NewEntry(a, owned, deps)]
      BY <1>2 DEF Track, Tracked
    <2>2. PICK D \in SUBSET Assets : registry \in [D -> Entry]
      BY DEF TypeOK
    <2>3. registry' \in [D \cup {a} -> Entry]
      BY <2>1, <2>2, EntryTypes
    <2>4. QED BY <2>3
  <1>3. QED BY <1>1, <1>2

LEMMA PutTypes ==
  ASSUME TypeOK, NEW a \in Assets, NEW what \in {"absent", "empty", "stray"} \cup Marks,
         NEW who \in Makers, Put(a, what, who)
  PROVE  /\ disk' \in [Assets -> {"absent", "empty", "stray"} \cup Marks]
         /\ maker' \in [Assets -> Makers]
  BY DEF TypeOK, Put

LEMMA PhaseNames ==
  {"bootstrap", "claim", "fetch", "download", "bind models", "images", "bind images", "idle",
   "migrate", "preflight", "purge", "remove", "forget", "close", "close manifest"}
     \subseteq Phases
  BY DEF Phases

LEMMA InstallKeepsType == ASSUME TypeOK, Install PROVE TypeOK'
  <1>1. ASSUME NEW p \in Profiles, StartInstall(p) PROVE TypeOK'
    BY <1>1, PhaseNames, ProfilesAssumption DEF StartInstall, Goto, TypeOK, Goals
  <1>2. CASE InstallAdvances
    <2>1. goal.assets \in SUBSET Assets /\ goal.active \in SUBSET Assets
      BY DEF TypeOK, Goals
    <2>2. \/ UNCHANGED manifest
          \/ manifest' = [active |-> goal.active, owned |-> {a \in goal.active : Owned(a)}]
      BY <1>2 DEF InstallAdvances, NextPhase, WriteState
    <2>3. manifest' \in [active : SUBSET Assets, owned : SUBSET Assets]
      BY <2>1, <2>2 DEF TypeOK
    <2>4. left' \in SUBSET Assets /\ phase' \in Phases /\ at' = NoAsset
      BY <1>2, <2>1, PhaseNames DEF InstallAdvances, NextPhase, WriteState, Goto
    <2>5. UNCHANGED <<registry, disk, maker, goal>>
      BY <1>2 DEF InstallAdvances, NextPhase, WriteState
    <2>6. QED BY <2>3, <2>4, <2>5 DEF TypeOK
  <1>3. ASSUME NEW a \in Assets, Bootstrap(a) PROVE TypeOK'
    <2>1. \E D \in SUBSET Assets : registry' \in [D -> Entry]
      BY <1>3, TrackTypes DEF Bootstrap
    <2>2. QED BY <1>3, <2>1 DEF Bootstrap, Continue, TypeOK
  <1>4. ASSUME NEW a \in Assets, TrackProfile(a) PROVE TypeOK'
    <2>1. MayOwn(a) \in BOOLEAN /\ DependsOn[a] \in SUBSET Models
      <3>1. MayOwn(a) \in BOOLEAN
        BY DEF MayOwn, Owned, Present, TypeOK, Entry
      <3>2. QED BY <3>1, DependsOnAssumption
    <2>2. \E D \in SUBSET Assets : registry' \in [D -> Entry]
      BY <1>4, <2>1, TrackTypes DEF TrackProfile
    <2>3. QED BY <1>4, <2>2 DEF TrackProfile, Continue, TypeOK
  <1>5. ASSUME NEW a \in Assets, MakeDirectory(a) PROVE TypeOK'
    BY <1>5 DEF MakeDirectory, Put, TypeOK, Makers
  <1>6. ASSUME NEW a \in Assets, BuildStage(a) PROVE TypeOK'
    BY <1>6 DEF BuildStage, Put, Continue, TypeOK, Marks, Makers
  <1>7. ASSUME NEW a \in Assets, BuildImage(a) PROVE TypeOK'
    BY <1>7 DEF BuildImage, Put, Continue, TypeOK, Marks, Makers
  <1>8. CASE StartDownload
    BY <1>8, PhaseNames DEF StartDownload, Put, TypeOK, Marks, Makers
  <1>9. CASE FinishDownload
    BY <1>9, PhaseNames DEF FinishDownload, Put, TypeOK, Marks, Makers
  <1>10. QED
    BY <1>1, <1>2, <1>3, <1>4, <1>5, <1>6, <1>7, <1>8, <1>9 DEF Install

LEMMA UninstallKeepsType == ASSUME TypeOK, Uninstall PROVE TypeOK'
  <1>1. ASSUME NEW what \in SUBSET manifest.active, NEW whole \in BOOLEAN,
               StartUninstall(what, whole)
        PROVE TypeOK'
    BY <1>1, PhaseNames DEF StartUninstall, Goto, TypeOK, Goals
  <1>2. CASE MigrationDone
    BY <1>2, PhaseNames DEF MigrationDone, NextPhase, Goto, TypeOK
  <1>3. CASE Preflight
    <2>1. PurgePlan \in SUBSET Assets
      BY DEF PurgePlan, Candidates, TypeOK
    <2>2. goal.assets \in SUBSET Assets
      BY DEF TypeOK, Goals
    <2>3. QED BY <1>3, <2>1, <2>2, PhaseNames DEF Preflight, NextPhase, Goto, TypeOK
  <1>4. ASSUME NEW a \in Assets, EmptyModel(a) \/ Remove(a) PROVE TypeOK'
    BY <1>4, PhaseNames DEF EmptyModel, Remove, TypeOK, Makers
  <1>5. CASE Forget
    <2>1. PICK D \in SUBSET Assets : registry \in [D -> Entry]
      BY DEF TypeOK
    <2>2. registry' \in [D \ {at} -> Entry]
      BY <1>5, <2>1 DEF Forget
    <2>3. \E E \in SUBSET Assets : registry' \in [E -> Entry]
      BY <2>2
    <2>4. QED BY <1>5, <2>3, PhaseNames DEF Forget, Goto, TypeOK
  <1>6. CASE PurgeDone
    BY <1>6, PhaseNames DEF PurgeDone, NextPhase, Goto, TypeOK
  <1>7. CASE CloseRegistry
    <2>1. registry' \in [{} -> Entry]
      BY <1>7 DEF CloseRegistry
    <2>2. QED BY <1>7, <2>1, PhaseNames DEF CloseRegistry, TypeOK
  <1>8. CASE CloseManifest
    BY <1>8, PhaseNames DEF CloseManifest, TypeOK
  <1>9. QED
    BY <1>1, <1>2, <1>3, <1>4, <1>5, <1>6, <1>7, <1>8 DEF Uninstall

LEMMA OthersKeepType == ASSUME TypeOK, Stop \/ User PROVE TypeOK'
  <1>1. CASE Stop
    <2>1. \/ UNCHANGED <<disk, maker>>
          \/ \E a \in Assets : Put(a, "stray", "installer")
      BY <1>1 DEF Stop, TypeOK
    <2>2. /\ disk' \in [Assets -> {"absent", "empty", "stray"} \cup Marks]
          /\ maker' \in [Assets -> Makers]
      BY <2>1, PutTypes DEF TypeOK, Makers
    <2>3. QED BY <1>1, <2>2, PhaseNames DEF Stop, TypeOK
  <1>2. ASSUME NEW a \in Assets, UserRemoves(a) PROVE TypeOK'
    BY <1>2 DEF UserRemoves, operation, TypeOK, Makers
  <1>3. ASSUME NEW a \in Assets, UserPuts(a) PROVE TypeOK'
    <2>1. \E what \in {"foreign", "empty", "stray"}, who \in {"user", "contested"} :
            Put(a, what, who)
      BY <1>3 DEF UserPuts
    <2>2. /\ disk' \in [Assets -> {"absent", "empty", "stray"} \cup Marks]
          /\ maker' \in [Assets -> Makers]
      BY <2>1, PutTypes DEF Marks, Makers
    <2>3. QED BY <1>3, <2>2 DEF UserPuts, operation, TypeOK
  <1>4. QED BY <1>1, <1>2, <1>3 DEF User

LEMMA TypePreserved == TypeOK /\ [Next]_vars => TypeOK'
  <1>1. CASE UNCHANGED vars
    BY <1>1 DEF TypeOK, vars
  <1>2. QED BY <1>1, InstallKeepsType, UninstallKeepsType, OthersKeepType DEF Next

(* Whatever the assets and whoever interrupts whom, the registry holds well formed
   entries for known assets only, and the operation is at a known place
   (asset_ownership.py: load_registry). *)
THEOREM TypeCorrect == Spec => []TypeOK
  <1>1. Init => TypeOK
    <2>1. SUFFICES ASSUME Init PROVE TypeOK
      OBVIOUS
    <2>2. registry \in [{} -> Entry] /\ goal \in Goals
      BY <2>1 DEF Init, Goals
    <2>3. QED BY <2>1, <2>2, PhaseNames DEF Init, TypeOK, Makers
  <1>2. QED BY <1>1, TypePreserved, PTL DEF Spec

-------------------------------------------------------------------------------
(* A purge can be repeated, and goes from what depends to what it depends on *)

\* The phases in which a purge may stop with part of it done.
Purging == phase \in {"purge", "remove", "forget"}

\* What is still to go needs nothing that stays, whether all of it or a part
\* is asked for; the plan of a full purge is everything owned, and all of it but
\* the directory in hand would pass the preflight again.
Ordered ==
  Purging =>
    /\ goal.whole => /\ Blockers(Candidates) = {}
                     /\ \A a \in Candidates \ Emptied : Verify(a)
                     /\ left \in {Candidates, {}}
    /\ ~goal.whole => \A a \in left : Blockers({a}) = {}
    /\ phase = "remove" => MayGo(at) /\ at \in Models

\* Deleting assets and forgetting entries only makes the preflight easier.
LEMMA PreflightShrinks ==
  ASSUME TypeOK, NEW S, Blockers(Candidates) = {}, \A a \in Candidates \ S : Verify(a),
         \A b \in Assets : disk'[b] \in {disk[b], "absent"},
         \A b \in S : disk'[b] = "absent",
         DOMAIN registry' \subseteq DOMAIN registry,
         \A b \in DOMAIN registry' : registry'[b] = registry[b]
  PROVE  Blockers(Candidates)' = {} /\ \A a \in Candidates' : Verify(a)'
  <1>1. Candidates' \subseteq Candidates
    BY DEF Candidates
  <1>2. \A b \in DOMAIN registry : b \in Assets
    BY DEF TypeOK
  <1>3. \A b \in Assets : Present(b)' => Present(b) /\ disk'[b] = disk[b]
    BY DEF Present
  <1>4. Blockers(Candidates)' = {}
    <2>1. SUFFICES ASSUME NEW b \in Blockers(Candidates)' PROVE FALSE
      OBVIOUS
    <2>2. /\ b \in DOMAIN registry' /\ b \notin Candidates' /\ Present(b)'
          /\ registry'[b].depends_on \cap Candidates' # {}
      BY DEF Blockers
    <2>3. b \in DOMAIN registry \ Candidates
      BY <2>2 DEF Candidates
    <2>4. Present(b) /\ registry[b].depends_on \cap Candidates # {}
      BY <1>1, <1>2, <1>3, <2>2, <2>3
    <2>5. QED BY <2>3, <2>4 DEF Blockers
  <1>5. ASSUME NEW a \in Candidates' PROVE Verify(a)'
    <2>1. CASE a \in S
      <3>1. ~Present(a)'
        BY <2>1 DEF Present
      <3>2. QED BY <3>1 DEF Verify, VerifyModel, VerifyImage
    <2>2. CASE a \notin S
      <3>1. /\ a \in Assets /\ Verify(a) /\ registry'[a] = registry[a]
            /\ Present(a)' => Present(a) /\ disk'[a] = disk[a]
        BY <1>1, <1>2, <1>3, <2>2 DEF Candidates
      <3>2. Present(a)' => Evidence(a)' = Evidence(a)
        BY <3>1 DEF Evidence
      <3>3. QED BY <3>1, <3>2 DEF Verify, VerifyModel, VerifyImage
    <2>3. QED BY <2>1, <2>2
  <1>6. QED BY <1>4, <1>5

\* The same for the assets that would stop the purge of one.
LEMMA BlockersShrink ==
  ASSUME TypeOK, NEW a, Blockers({a}) = {},
         \A b \in Assets : disk'[b] \in {disk[b], "absent"},
         DOMAIN registry' \subseteq DOMAIN registry,
         \A b \in DOMAIN registry' : registry'[b] = registry[b]
  PROVE  Blockers({a})' = {}
  <1>1. \A b \in DOMAIN registry : b \in Assets
    BY DEF TypeOK
  <1>2. \A b \in Assets : Present(b)' => Present(b)
    BY DEF Present
  <1>3. QED BY <1>1, <1>2 DEF Blockers

LEMMA RemovalShrinks ==
  ASSUME TypeOK, NEW a \in Assets, Remove(a)
  PROVE  /\ \A b \in Assets : disk'[b] \in {disk[b], "absent"}
         /\ \A b \in Emptied : disk'[b] = "absent"
         /\ DOMAIN registry' \subseteq DOMAIN registry
         /\ \A b \in DOMAIN registry' : registry'[b] = registry[b]
  BY DEF Remove, Emptied, TypeOK

LEMMA ForgettingShrinks ==
  ASSUME Forget
  PROVE  /\ \A b \in Assets : disk'[b] \in {disk[b], "absent"}
         /\ DOMAIN registry' \subseteq DOMAIN registry
         /\ \A b \in DOMAIN registry' : registry'[b] = registry[b]
         /\ Candidates' = Candidates \ {at}
  BY DEF Forget, Candidates

\* A directory without its manifest is still there, for all that depends on it.
LEMMA EmptyingBlocksNothing ==
  ASSUME TypeOK, NEW a \in Assets, EmptyModel(a)
  PROVE  /\ Candidates' = Candidates
         /\ \A S : Blockers(S)' = Blockers(S)
         /\ \A b \in Candidates \ {a} : Verify(b)' = Verify(b)
  <1>1. UNCHANGED registry /\ Candidates \subseteq Assets /\ DOMAIN registry \subseteq Assets
    BY DEF EmptyModel, Candidates, TypeOK
  <1>2. \A b \in Assets : Present(b)' = Present(b) /\ (b # a => disk'[b] = disk[b])
    BY DEF EmptyModel, Present, TypeOK
  <1>3. \A S : Blockers(S)' = Blockers(S)
    BY <1>1, <1>2 DEF Blockers
  <1>4. \A b \in Candidates \ {a} : Verify(b)' = Verify(b)
    BY <1>1, <1>2 DEF Verify, VerifyModel, VerifyImage, Evidence
  <1>5. QED BY <1>1, <1>3, <1>4 DEF Candidates

\* The preflight sees the registry and the disk only.
LEMMA SeenAlike ==
  ASSUME UNCHANGED <<registry, disk>>
  PROVE  /\ Candidates' = Candidates /\ PurgePlan' = PurgePlan
         /\ \A S : Blockers(S)' = Blockers(S)
         /\ \A a : Verify(a)' = Verify(a)
         /\ \A a, S : IsLeaf(a, S)' = IsLeaf(a, S)
  BY DEF Candidates, PurgePlan, IsLeaf, Blockers, Verify, VerifyModel, VerifyImage, Present,
         Evidence

\* The steps that lead to or stay in the removal of assets.
LEMMA OnlyThesePurge ==
  ASSUME [Next]_vars, Purging'
  PROVE  Preflight \/ (\E a \in Assets : EmptyModel(a) \/ Remove(a)) \/ Forget
           \/ UNCHANGED vars
  BY DEF Purging, Next, vars, Install, Uninstall, User, StartInstall, InstallAdvances,
         NextPhase, WriteState, Goto, Continue, Bootstrap, TrackProfile, MakeDirectory,
         BuildStage, BuildImage, StartDownload, FinishDownload, StartUninstall, MigrationDone,
         PurgeDone, CloseRegistry, CloseManifest, Stop, UserRemoves, UserPuts, operation

\* The steps that leave it: the end, and a kill at any point.
LEMMA OnlyTheseLeave ==
  ASSUME [Next]_vars, Purging, ~Purging' PROVE UNCHANGED <<registry, disk>>
  BY DEF Purging, Next, vars, Install, Uninstall, User, StartInstall, InstallAdvances,
         NextPhase, WriteState, Goto, Continue, Bootstrap, TrackProfile, MakeDirectory,
         BuildStage, BuildImage, StartDownload, FinishDownload, StartUninstall, MigrationDone,
         Preflight, EmptyModel, Remove, Forget, PurgeDone, CloseRegistry, CloseManifest, Stop,
         UserRemoves, UserPuts

LEMMA OrderedPreserved == TypeOK /\ Ordered /\ [Next]_vars => Ordered'
  <1>1. SUFFICES ASSUME TypeOK, Ordered, [Next]_vars, Purging' PROVE Ordered'
    BY DEF Ordered
  <1>2. CASE Preflight
    <2>1. UNCHANGED <<registry, disk, goal>> /\ phase' = "purge" /\ Emptied' = {}
      BY <1>2 DEF Preflight, NextPhase, Goto, Emptied
    <2>2. goal.whole => PreflightPurge /\ left' = PurgePlan
      BY <1>2 DEF Preflight, NextPhase, Goto
    <2>3. ~goal.whole => left' = goal.assets /\ \A a \in goal.assets : Blockers({a}) = {}
      BY <1>2 DEF Preflight, NextPhase, Goto, PreflightOne
    <2>4. PurgePlan \in {Candidates, {}}
      BY DEF PurgePlan
    <2>5. QED BY <2>1, <2>2, <2>3, <2>4, SeenAlike DEF Ordered, PreflightPurge
  <1>3. ASSUME NEW a \in Assets, EmptyModel(a) PROVE Ordered'
    <2>1. /\ phase = "purge" /\ phase' = "remove" /\ at' = a /\ MayGo(a) /\ a \in Models
          /\ UNCHANGED <<registry, goal, left>>
      BY <1>3 DEF EmptyModel
    <2>2. Purging /\ Emptied = {} /\ Emptied' = {a}
      BY <2>1 DEF Purging, Emptied
    <2>3. MayGo(at)'
      BY <2>1 DEF MayGo, IsLeaf
    <2>4. goal.whole => \A b \in Candidates' \ Emptied' : Verify(b)'
      BY <1>1, <1>3, <2>2, EmptyingBlocksNothing DEF Ordered
    <2>5. QED BY <1>1, <1>3, <2>1, <2>2, <2>3, <2>4, EmptyingBlocksNothing DEF Ordered
  <1>4. ASSUME NEW a \in Assets, Remove(a) PROVE Ordered'
    <2>1. /\ Purging /\ phase' = "forget" /\ UNCHANGED <<registry, goal, left>>
      BY <1>4 DEF Remove, Purging
    <2>2. Candidates' = Candidates
      BY <2>1 DEF Candidates
    <2>3. goal.whole => Blockers(Candidates)' = {} /\ \A b \in Candidates' : Verify(b)'
      <3>1. goal.whole => Blockers(Candidates) = {} /\ \A b \in Candidates \ Emptied : Verify(b)
        BY <1>1, <2>1 DEF Ordered
      <3>2. QED BY <1>1, <1>4, <3>1, RemovalShrinks, PreflightShrinks
    <2>4. ~goal.whole => \A b \in left : Blockers({b})' = {}
      BY <1>1, <1>4, <2>1, RemovalShrinks, BlockersShrink DEF Ordered
    <2>5. QED BY <1>1, <2>1, <2>2, <2>3, <2>4 DEF Ordered
  <1>5. CASE Forget
    <2>1. /\ phase = "forget" /\ phase' = "purge" /\ left' = left \ {at} /\ goal' = goal
      BY <1>5 DEF Forget, Goto
    <2>2. Purging /\ Emptied = {}
      BY <2>1 DEF Purging, Emptied
    <2>3. goal.whole => Blockers(Candidates)' = {} /\ \A b \in Candidates' : Verify(b)'
      <3>1. goal.whole => Blockers(Candidates) = {} /\ \A b \in Candidates \ {} : Verify(b)
        BY <1>1, <2>2 DEF Ordered
      <3>2. QED BY <1>1, <1>5, <3>1, ForgettingShrinks, PreflightShrinks
    <2>4. ~goal.whole => \A b \in left : Blockers({b})' = {}
      BY <1>1, <1>5, <2>2, ForgettingShrinks, BlockersShrink DEF Ordered
    <2>5. goal.whole => left' \in {Candidates', {}}
      BY <1>1, <1>5, <2>1, <2>2, ForgettingShrinks DEF Ordered
    <2>6. QED BY <2>1, <2>3, <2>4, <2>5 DEF Ordered
  <1>6. CASE UNCHANGED vars
    <2>1. UNCHANGED <<registry, disk, phase, goal, left, at>>
      BY <1>6 DEF vars
    <2>2. Purging /\ Emptied' = Emptied /\ MayGo(at)' = MayGo(at)
      BY <1>1, <2>1 DEF Purging, Emptied, MayGo, IsLeaf
    <2>3. QED BY <1>1, <2>1, <2>2, SeenAlike DEF Ordered
  <1>7. QED BY <1>1, <1>2, <1>3, <1>4, <1>5, <1>6, OnlyThesePurge

LEMMA AlwaysOrdered == Spec => [](TypeOK /\ Ordered)
  <1>1. Init => Ordered
    BY DEF Init, Ordered, Purging
  <1>2. QED BY <1>1, TypeCorrect, OrderedPreserved, PTL DEF Spec

(* Wherever a full purge of any number of assets stops, in the middle of an rm -rf
   too, the preflight of the next one accepts all that is left but the
   directory that was being emptied (uninstall.sh:79-101). *)
THEOREM PurgesCanResume == Spec => PurgeCanResume
  <1>1. TypeOK /\ Ordered /\ Ordered' /\ [Next]_vars =>
          [goal.whole /\ phase \in {"purge", "remove", "forget"} =>
             /\ Blockers(Candidates)' = {}
             /\ \A a \in Candidates' \ (Emptied \cup Emptied') : Verify(a)']_vars
    <2>1. SUFFICES ASSUME TypeOK, Ordered, Ordered', [Next]_vars, goal.whole, Purging
                   PROVE  /\ Blockers(Candidates)' = {}
                          /\ \A a \in Candidates' \ (Emptied \cup Emptied') : Verify(a)'
      BY DEF Purging
    <2>2. CASE Purging'
      <3>1. goal'.whole
        BY <2>1, <2>2, OnlyThesePurge
           DEF Preflight, NextPhase, Goto, EmptyModel, Remove, Forget, vars
      <3>2. QED BY <2>1, <2>2, <3>1 DEF Ordered
    <2>3. CASE ~Purging'
      <3>1. UNCHANGED <<registry, disk>>
        BY <2>1, <2>3, OnlyTheseLeave
      <3>2. QED BY <2>1, <3>1, SeenAlike DEF Ordered
    <2>4. QED BY <2>2, <2>3
  <1>2. QED BY <1>1, AlwaysOrdered, OrderedPreserved, PTL DEF Spec, PurgeCanResume

\* The steps that change the disk during a purge, with the asset they change.
LEMMA OnlyTheseRemove ==
  ASSUME TypeOK, Ordered, [Next]_vars, Deleting, NEW a \in Assets, disk'[a] # disk[a]
  PROVE  MayGo(a)
  <1>1. \E b \in Assets : EmptyModel(b) \/ Remove(b)
    BY DEF Deleting, Next, vars, Install, Uninstall, User, StartInstall, InstallAdvances,
           NextPhase, WriteState, Goto, Continue, Bootstrap, TrackProfile, MakeDirectory,
           BuildStage, BuildImage, StartDownload, FinishDownload, StartUninstall, MigrationDone,
           Preflight, Forget, PurgeDone, CloseRegistry, CloseManifest, Stop, UserRemoves,
           UserPuts
  <1>2. PICK b \in Assets : EmptyModel(b) \/ Remove(b)
    BY <1>1
  <1>3. a = b
    BY <1>2 DEF EmptyModel, Remove, TypeOK
  <1>4. phase = "remove" => MayGo(at)
    BY DEF Ordered, Purging
  <1>5. QED BY <1>2, <1>3, <1>4 DEF EmptyModel, Remove

(* A purge of any number of assets, with any dependencies, deletes none that another
   one still needs (_dependency_blockers, _purge_order). *)
THEOREM DependentsAlwaysGoFirst == Spec => DependentsGoFirst
  <1>1. TypeOK /\ Ordered /\ [Next]_vars =>
          [\A a \in Assets : Deleting /\ disk'[a] # disk[a] =>
             \A b \in DOMAIN registry \ {a} : a \in registry[b].depends_on => ~Present(b)]_vars
    <2>1. SUFFICES ASSUME TypeOK, Ordered, [Next]_vars, NEW a \in Assets, Deleting,
                          disk'[a] # disk[a], NEW b \in DOMAIN registry \ {a},
                          a \in registry[b].depends_on
                   PROVE  ~Present(b)
      OBVIOUS
    <2>2. a \in left /\ (goal.whole => IsLeaf(a, left))
      BY <2>1, OnlyTheseRemove DEF MayGo
    <2>3. Purging
      BY <2>1 DEF Deleting, Purging
    <2>4. CASE goal.whole
      <3>1. b \notin left
        BY <2>1, <2>2, <2>4 DEF IsLeaf
      <3>2. left = Candidates /\ Blockers(Candidates) = {}
        BY <2>1, <2>2, <2>3, <2>4 DEF Ordered
      <3>3. QED BY <2>1, <2>2, <3>1, <3>2 DEF Blockers
    <2>5. CASE ~goal.whole
      BY <2>1, <2>2, <2>3, <2>5 DEF Ordered, Blockers
    <2>6. QED BY <2>4, <2>5
  <1>2. QED BY <1>1, AlwaysOrdered, PTL DEF Spec, DependentsGoFirst

-------------------------------------------------------------------------------
(* Nothing of the owner's is deleted *)

\* Owned in the registry, but what is there now is the owner's, and not contested.
Drifted(a) == Owned(a) /\ maker[a] = "user"

\* What the registry and the flags of install.env may say of an asset: an owned
\* entry of which the owner has replaced the asset is bound to something else,
\* and a flag without an entry is of nothing that the owner made.
HonestAsset(a) ==
  /\ maker[a] = "user" => Present(a)
  /\ Drifted(a) => /\ disk[a] = "foreign" /\ registry[a].state = "ready"
                   /\ registry[a].fingerprint # "foreign"
  /\ a \in manifest.owned /\ maker[a] = "user" => Owned(a)

\* What a phase may rely on: an installation has tracked, and so compared, what it
\* is about to fill; a purge has verified what it is about to delete.
Vetted ==
  /\ phase \in {"bootstrap", "migrate"} => left \subseteq manifest.owned
  /\ phase = "claim" =>
       left \subseteq goal.assets /\ \A a \in goal.assets \ left : ~Drifted(a)
  /\ phase \in {"fetch", "download"} =>
       /\ left \subseteq goal.assets /\ at \in goal.assets \cup {NoAsset}
       /\ \A a \in goal.assets : ~Drifted(a)
  /\ phase = "download" => at # NoAsset
  /\ Purging => \A a \in left : maker[a] # "user"
  /\ phase \in {"remove", "forget"} => at \in Assets /\ maker[at] # "user"
  /\ Purging /\ goal.whole => \A a \in manifest.owned : maker[a] # "user"
  /\ phase = "close" => \A a \in manifest.owned : maker[a] # "user"

Honest == (\A a \in Assets : HonestAsset(a)) /\ Vetted

\* An owned asset that passes the preflight is not the owner's.
LEMMA VerifiedIsOurs ==
  ASSUME TypeOK, NEW a \in Assets, HonestAsset(a), Owned(a), Verify(a)
  PROVE  maker[a] # "user"
  <1>1. SUFFICES ASSUME maker[a] = "user" PROVE FALSE
    OBVIOUS
  <1>2. /\ Present(a) /\ disk[a] = "foreign" /\ registry[a].state = "ready"
        /\ registry[a].fingerprint # "foreign"
    BY <1>1 DEF HonestAsset, Drifted
  <1>3. Evidence(a) = "foreign"
    BY <1>2 DEF Evidence, Marks
  <1>4. QED BY <1>2, <1>3 DEF Verify, VerifyModel, VerifyImage

\* Tracking as owned what is ours, or tracking what is already owned, neither
\* adopts nor keeps anything of the owner's.
LEMMA TrackIsHonest ==
  ASSUME TypeOK, NEW a \in Assets, NEW owned \in BOOLEAN, NEW deps \in SUBSET Models,
         \A b \in Assets : HonestAsset(b), Track(a, owned, deps),
         owned => Owned(a) \/ maker[a] # "user",
         UNCHANGED <<disk, maker, manifest>>
  PROVE  /\ \A b \in Assets : HonestAsset(b)'
         /\ \A b \in Assets : Drifted(b)' => Drifted(b) /\ b # a
  <1>1. ~Drifted(a)
    <2>1. SUFFICES ASSUME Drifted(a) PROVE FALSE
      OBVIOUS
    <2>2. /\ Owned(a) /\ disk[a] = "foreign" /\ registry[a].state = "ready"
          /\ registry[a].fingerprint # "foreign"
      BY <2>1 DEF HonestAsset, Drifted
    <2>3. Evidence(a) = "foreign" /\ "foreign" # NoMark
      BY <2>2 DEF Evidence, Marks, NoMark
    <2>4. Refused(a, deps)
      BY <2>2, <2>3 DEF Refused
    <2>5. QED BY <2>4 DEF Track
  <1>2. owned => maker[a] # "user"
    BY <1>1 DEF Drifted
  <1>3. Owned(a) => maker[a] # "user"
    BY <1>1 DEF Drifted
  <1>4. CASE Ignored(a, owned)
    <2>1. registry' = registry
      BY <1>4 DEF Track, Tracked
    <2>2. \A b \in Assets : HonestAsset(b)' = HonestAsset(b) /\ Drifted(b)' = Drifted(b)
      BY <2>1 DEF HonestAsset, Drifted, Owned, Present
    <2>3. QED BY <1>1, <2>2
  <1>5. CASE ~Ignored(a, owned)
    <2>1. registry' = [b \in DOMAIN registry \cup {a} |->
             IF b # a THEN registry[b]
             ELSE IF a \in DOMAIN registry THEN UpdatedEntry(a, owned, deps)
             ELSE NewEntry(a, owned, deps)]
      BY <1>5 DEF Track, Tracked
    <2>2. ASSUME NEW b \in Assets, b # a
          PROVE  HonestAsset(b)' /\ (Drifted(b)' => Drifted(b))
      <3>1. /\ b \in DOMAIN registry' <=> b \in DOMAIN registry
            /\ b \in DOMAIN registry => registry'[b] = registry[b]
        BY <2>1, <2>2
      <3>2. Owned(b)' = Owned(b) /\ Drifted(b)' = Drifted(b)
        BY <3>1 DEF Owned, Drifted
      <3>3. HonestAsset(b)
        BY <2>2
      <3>4. QED BY <3>1, <3>2, <3>3 DEF HonestAsset, Present, Drifted, Owned
    <2>3. /\ a \in DOMAIN registry'
          /\ Owned(a) => Owned(a)'
          /\ Owned(a)' => Owned(a) \/ owned
      <3>1. CASE a \notin DOMAIN registry
        <4>1. registry'[a] = NewEntry(a, owned, deps) /\ a \in DOMAIN registry'
          BY <2>1, <3>1
        <4>2. QED BY <3>1, <4>1 DEF NewEntry, Owned
      <3>2. CASE a \in DOMAIN registry
        <4>1. registry'[a] = UpdatedEntry(a, owned, deps) /\ a \in DOMAIN registry'
          BY <2>1, <3>2
        <4>2. registry'[a].owned = (registry[a].owned \/ owned)
          BY <4>1 DEF UpdatedEntry
        <4>3. QED BY <3>2, <4>1, <4>2 DEF Owned, TypeOK, Entry
      <3>3. QED BY <3>1, <3>2
    <2>4. ~Drifted(a)'
      BY <1>2, <1>3, <2>3 DEF Drifted
    <2>5. HonestAsset(a)'
      <3>1. HonestAsset(a)
        OBVIOUS
      <3>2. QED BY <2>3, <2>4, <3>1 DEF HonestAsset, Present
    <2>6. QED BY <2>2, <2>4, <2>5
  <1>6. QED BY <1>4, <1>5

\* What an asset is judged by.
LEMMA JudgedAlike ==
  ASSUME NEW a \in Assets, disk'[a] = disk[a], maker'[a] = maker[a],
         UNCHANGED <<registry, manifest>>
  PROVE  HonestAsset(a)' = HonestAsset(a) /\ Drifted(a)' = Drifted(a)
  BY DEF HonestAsset, Drifted, Owned, Present

\* The installer leaves what it finds or fills what has not drifted: that adds nothing
\* of the owner's, and nothing of his is taken for what was there before.
LEMMA PutIsHonest ==
  ASSUME TypeOK, \A b \in Assets : HonestAsset(b),
         NEW a \in Assets, NEW what \in {"empty", "stray"} \cup Marks,
         Put(a, what, "installer"), UNCHANGED <<registry, manifest>>,
         what = disk[a] \/ ~Drifted(a)
  PROVE  /\ \A b \in Assets : HonestAsset(b)'
         /\ \A b \in Assets : Drifted(b)' => Drifted(b)
         /\ \A b \in Assets : maker'[b] = "user" => maker[b] = "user"
  <1>1. ASSUME NEW b \in Assets, b # a
        PROVE  HonestAsset(b)' /\ Drifted(b)' = Drifted(b) /\ maker'[b] = maker[b]
    <2>1. disk'[b] = disk[b] /\ maker'[b] = maker[b]
      BY <1>1 DEF Put, TypeOK
    <2>2. HonestAsset(b)
      OBVIOUS
    <2>3. QED BY <2>1, <2>2, JudgedAlike
  <1>2. /\ disk'[a] = what /\ what # "absent"
        /\ maker'[a] = IF Present(a) THEN maker[a] ELSE "installer"
    <2>1. "absent" \notin Marks
      BY SetsAssumption DEF Marks
    <2>2. QED BY <2>1 DEF Put, TypeOK
  <1>3. maker'[a] = "user" => maker[a] = "user"
    BY <1>2
  <1>4. Drifted(a)' => Drifted(a)
    BY <1>3 DEF Drifted, Owned
  <1>5. HonestAsset(a)
    OBVIOUS
  <1>6. HonestAsset(a)'
    <2>1. Owned(a)' = Owned(a) /\ Present(a)'
      BY <1>2 DEF Owned, Present
    <2>2. Drifted(a)' => disk'[a] = disk[a]
      BY <1>2, <1>4
    <2>3. QED BY <1>3, <1>4, <1>5, <2>1, <2>2 DEF HonestAsset
  <1>7. QED BY <1>1, <1>3, <1>4, <1>6

LEMMA InstallIsHonest == ASSUME TypeOK, Honest, Install PROVE Honest'
  <1>a. (\A b \in Assets : HonestAsset(b)) /\ Vetted
    BY DEF Honest
  <1>1. ASSUME NEW p \in Profiles, StartInstall(p) PROVE Honest'
    <2>1. /\ UNCHANGED <<registry, disk, maker, manifest>>
          /\ phase' = "bootstrap" /\ left' = manifest.owned
      BY <1>1 DEF StartInstall, Goto
    <2>2. \A b \in Assets : HonestAsset(b)'
      BY <1>a, <2>1, JudgedAlike
    <2>3. QED BY <2>1, <2>2 DEF Honest, Vetted, Purging
  <1>2. CASE InstallAdvances
    <2>1. UNCHANGED <<registry, disk, maker, goal>> /\ left = {} /\ at' = NoAsset
      BY <1>2 DEF InstallAdvances, NextPhase, WriteState, Goto
    <2>2. UNCHANGED manifest \/ manifest'.owned = {a \in goal.active : Owned(a)}
      <3>1. \/ UNCHANGED manifest
            \/ manifest' = [active |-> goal.active, owned |-> {a \in goal.active : Owned(a)}]
        BY <1>2 DEF InstallAdvances, NextPhase, WriteState
      <3>2. QED BY <3>1
    <2>3. \A b \in Assets : Owned(b)' = Owned(b) /\ Drifted(b)' = Drifted(b)
      BY <2>1 DEF Owned, Drifted
    <2>4. ASSUME NEW b \in Assets PROVE HonestAsset(b)'
      <3>1. HonestAsset(b)
        BY <1>a
      <3>2. b \in manifest'.owned /\ maker'[b] = "user" => Owned(b)'
        BY <2>1, <2>2, <2>3, <3>1 DEF HonestAsset
      <3>3. QED BY <2>1, <2>3, <3>1, <3>2 DEF HonestAsset, Present
    <2>5. /\ phase' \in {"claim", "fetch", "bind models", "images", "bind images", "idle"}
          /\ phase' = "claim" => left' = goal.assets
          /\ phase' = "fetch" => phase = "claim" /\ left' \subseteq goal.assets
      BY <1>2 DEF InstallAdvances, NextPhase, WriteState, Goto
    <2>6. goal.assets \subseteq Assets
      BY DEF TypeOK, Goals
    <2>7. Vetted'
      BY <1>a, <2>1, <2>3, <2>5, <2>6 DEF Vetted, Purging
    <2>8. QED BY <2>4, <2>7 DEF Honest
  <1>3. ASSUME NEW a \in Assets, Bootstrap(a) PROVE Honest'
    <2>1. /\ Track(a, TRUE, {}) /\ a \in manifest.owned /\ left' = left \ {a}
          /\ UNCHANGED <<disk, maker, manifest, phase>> /\ phase \in {"bootstrap", "migrate"}
      BY <1>a, <1>3 DEF Bootstrap, Continue, Vetted
    <2>2. Owned(a) \/ maker[a] # "user"
      BY <1>a, <2>1 DEF HonestAsset
    <2>3. \A b \in Assets : HonestAsset(b)'
      BY <1>a, <2>1, <2>2, TrackIsHonest
    <2>4. Vetted'
      BY <1>a, <2>1 DEF Vetted, Purging
    <2>5. QED BY <2>3, <2>4 DEF Honest
  <1>4. ASSUME NEW a \in Assets, TrackProfile(a) PROVE Honest'
    <2>1. /\ Track(a, MayOwn(a), DependsOn[a]) /\ left' = left \ {a}
          /\ UNCHANGED <<disk, maker, manifest, phase, goal>>
          /\ phase \in {"claim", "bind models", "bind images"}
      BY <1>4 DEF TrackProfile, Continue
    <2>2. MayOwn(a) \in BOOLEAN /\ DependsOn[a] \in SUBSET Models
      <3>1. MayOwn(a) \in BOOLEAN
        BY DEF MayOwn, Owned, Present, TypeOK, Entry
      <3>2. QED BY <3>1, DependsOnAssumption
    <2>3. MayOwn(a) => Owned(a) \/ maker[a] # "user"
      BY <1>a DEF MayOwn, HonestAsset
    <2>4. /\ \A b \in Assets : HonestAsset(b)'
          /\ \A b \in Assets : Drifted(b)' => Drifted(b) /\ b # a
      BY <1>a, <2>1, <2>2, <2>3, TrackIsHonest
    <2>5. goal.assets \subseteq Assets
      BY DEF TypeOK, Goals
    <2>6. Vetted'
      BY <1>a, <2>1, <2>4, <2>5 DEF Vetted, Purging
    <2>7. QED BY <2>4, <2>6 DEF Honest
  <1>5. ASSUME NEW a \in Assets, MakeDirectory(a) \/ BuildStage(a) \/ BuildImage(a)
        PROVE  Honest'
    <2>1. /\ UNCHANGED <<registry, manifest, phase, goal>>
          /\ phase \in {"fetch", "images"} /\ left' \subseteq left /\ a \in left
          /\ at' \in {at, a}
      BY <1>5 DEF MakeDirectory, BuildStage, BuildImage, Continue
    <2>2. PICK what : /\ Put(a, what, "installer")
                      /\ what = disk[a] \/ (what \in {"empty", "complete"} /\ disk[a] # "foreign")
                           \/ (what \in ImageIds /\ ~Present(a))
      <3>1. disk[a] = "foreign" => Evidence(a) # NoMark
        BY DEF Evidence, Marks, NoMark
      <3>2. ~Present(a) => disk[a] # "foreign"
        BY DEF Present
      <3>3. QED BY <1>5, <3>1, <3>2 DEF MakeDirectory, BuildStage, BuildImage
    <2>3. what \in {"empty", "stray"} \cup Marks
      <3>1. what = disk[a] => Present(a)
        <4>1. SUFFICES ASSUME what = disk[a], ~Present(a) PROVE FALSE
          OBVIOUS
        <4>2. disk'[a] = "absent" /\ disk[a] = "absent"
          BY <2>2, <4>1 DEF Present, Put, TypeOK
        <4>3. \E w \in {"empty", "complete"} \cup ImageIds : disk'[a] = w
          BY <1>5, <4>2, <4>1 DEF MakeDirectory, BuildStage, BuildImage, Put, TypeOK,
                                  Present, Evidence, Marks
        <4>4. "absent" \notin {"empty", "complete"} \cup ImageIds
          BY SetsAssumption
        <4>5. QED BY <4>2, <4>3, <4>4
      <3>2. QED BY <2>2, <3>1 DEF Present, TypeOK, Marks
    <2>4. what = disk[a] \/ ~Drifted(a)
      <3>1. Drifted(a) => disk[a] = "foreign" /\ Present(a)
        BY <1>a DEF HonestAsset, Drifted
      <3>2. QED BY <2>2, <3>1
    <2>5. /\ \A b \in Assets : HonestAsset(b)'
          /\ \A b \in Assets : Drifted(b)' => Drifted(b)
      BY <1>a, <2>1, <2>2, <2>3, <2>4, PutIsHonest
    <2>6. goal.assets \subseteq Assets
      BY DEF TypeOK, Goals
    <2>7. Vetted'
      BY <1>a, <2>1, <2>5, <2>6 DEF Vetted, Purging
    <2>8. QED BY <2>5, <2>7 DEF Honest
  <1>6. CASE StartDownload \/ FinishDownload
    <2>1. PICK what \in {"downloading", "complete"} : Put(at, what, "installer")
      BY <1>6 DEF StartDownload, FinishDownload
    <2>2. /\ UNCHANGED <<registry, manifest, goal>> /\ phase' \in {"fetch", "download"}
          /\ phase \in {"fetch", "download"} /\ left' \subseteq left /\ at' \in {at, NoAsset}
          /\ phase' = "download" => at' # NoAsset
      BY <1>6 DEF StartDownload, FinishDownload
    <2>3. at # NoAsset
      BY <1>6, <1>a DEF StartDownload, FinishDownload, Vetted
    <2>4. at \in Assets /\ ~Drifted(at) /\ goal.assets \subseteq Assets
      BY <1>a, <2>2, <2>3 DEF Vetted, TypeOK, Goals
    <2>5. what \in Marks
      BY DEF Marks
    <2>6. /\ \A b \in Assets : HonestAsset(b)'
          /\ \A b \in Assets : Drifted(b)' => Drifted(b)
      BY <1>a, <2>1, <2>2, <2>4, <2>5, PutIsHonest
    <2>7. Vetted'
      BY <1>a, <2>2, <2>4, <2>6 DEF Vetted, Purging
    <2>8. QED BY <2>6, <2>7 DEF Honest
  <1>7. QED BY <1>1, <1>2, <1>3, <1>4, <1>5, <1>6 DEF Install

LEMMA UninstallIsHonest == ASSUME TypeOK, Honest, Uninstall PROVE Honest'
  <1>a. (\A b \in Assets : HonestAsset(b)) /\ Vetted
    BY DEF Honest
  <1>1. ASSUME NEW what \in SUBSET manifest.active, NEW whole \in BOOLEAN,
               StartUninstall(what, whole)
        PROVE Honest'
    <2>1. /\ UNCHANGED <<registry, disk, maker, manifest>>
          /\ phase' = "migrate" /\ left' = manifest.owned
      BY <1>1 DEF StartUninstall, Goto
    <2>2. \A b \in Assets : HonestAsset(b)'
      BY <1>a, <2>1, JudgedAlike
    <2>3. QED BY <2>1, <2>2 DEF Honest, Vetted, Purging
  <1>2. CASE MigrationDone
    <2>1. UNCHANGED <<registry, disk, maker, manifest>> /\ phase' = "preflight"
      BY <1>2 DEF MigrationDone, NextPhase, Goto
    <2>2. \A b \in Assets : HonestAsset(b)'
      BY <1>a, <2>1, JudgedAlike
    <2>3. QED BY <2>1, <2>2 DEF Honest, Vetted, Purging
  <1>3. CASE Preflight
    <2>1. UNCHANGED <<registry, disk, maker, manifest, goal>> /\ phase' = "purge"
      BY <1>3 DEF Preflight, NextPhase, Goto
    <2>2. \A b \in Assets : HonestAsset(b)'
      BY <1>a, <2>1, JudgedAlike
    <2>3. ASSUME goal.whole
          PROVE  /\ \A b \in Candidates : maker[b] # "user"
                 /\ \A b \in manifest.owned : maker[b] # "user"
                 /\ left' \subseteq Candidates
      <3>1. PreflightPurge /\ left' = PurgePlan
        BY <1>3, <2>3 DEF Preflight, NextPhase, Goto
      <3>2. \A b \in Candidates : b \in Assets /\ Owned(b)
        BY DEF Candidates, TypeOK, Owned
      <3>3. \A b \in Candidates : maker[b] # "user"
        BY <1>a, <3>1, <3>2, VerifiedIsOurs DEF PreflightPurge
      <3>4. manifest.owned \subseteq Assets
        BY DEF TypeOK
      <3>5. \A b \in Assets : Owned(b) => b \in Candidates
        BY DEF Owned, Candidates
      <3>6. QED BY <1>a, <3>1, <3>3, <3>4, <3>5 DEF HonestAsset, PurgePlan
    <2>4. ASSUME ~goal.whole PROVE \A b \in left' : maker[b] # "user"
      <3>1. left' = goal.assets /\ \A b \in goal.assets : Owned(b) /\ Verify(b)
        BY <1>3, <2>4 DEF Preflight, NextPhase, Goto, PreflightOne
      <3>2. goal.assets \subseteq Assets
        BY DEF TypeOK, Goals
      <3>3. QED BY <1>a, <3>1, <3>2, VerifiedIsOurs
    <2>5. Vetted'
      BY <2>1, <2>3, <2>4 DEF Vetted, Purging
    <2>6. QED BY <2>2, <2>5 DEF Honest
  <1>4. ASSUME NEW a \in Assets, EmptyModel(a) PROVE Honest'
    <2>1. /\ UNCHANGED <<registry, maker, manifest, goal, left>>
          /\ phase = "purge" /\ phase' = "remove" /\ at' = a
          /\ disk'[a] # "absent" /\ \A b \in Assets : b # a => disk'[b] = disk[b]
      BY <1>4 DEF EmptyModel, TypeOK
    <2>2. maker[a] # "user" /\ Purging
      BY <1>a, <1>4, <2>1 DEF Vetted, EmptyModel, MayGo, Purging
    <2>3. ASSUME NEW b \in Assets PROVE HonestAsset(b)'
      <3>1. HonestAsset(b)
        BY <1>a
      <3>2. CASE b = a
        BY <2>1, <2>2, <3>1, <3>2 DEF HonestAsset, Drifted
      <3>3. CASE b # a
        BY <2>1, <3>1, <3>3, JudgedAlike
      <3>4. QED BY <3>2, <3>3
    <2>4. Vetted'
      BY <1>a, <2>1, <2>2 DEF Vetted, Purging
    <2>5. QED BY <2>3, <2>4 DEF Honest
  <1>5. ASSUME NEW a \in Assets, Remove(a) PROVE Honest'
    <2>1. /\ UNCHANGED <<registry, manifest, goal, left>>
          /\ Purging /\ phase' = "forget" /\ at' = a
          /\ disk'[a] = "absent" /\ maker'[a] = "nobody"
          /\ \A b \in Assets : b # a => disk'[b] = disk[b] /\ maker'[b] = maker[b]
      BY <1>5 DEF Remove, TypeOK, Purging
    <2>2. ASSUME NEW b \in Assets PROVE HonestAsset(b)'
      <3>1. HonestAsset(b)
        BY <1>a
      <3>2. CASE b = a
        BY <2>1, <3>1, <3>2 DEF HonestAsset, Drifted, Owned
      <3>3. CASE b # a
        BY <2>1, <3>1, <3>3, JudgedAlike
      <3>4. QED BY <3>2, <3>3
    <2>3. left \subseteq Assets /\ manifest.owned \subseteq Assets
      BY DEF TypeOK
    <2>4. Vetted'
      BY <1>a, <2>1, <2>3 DEF Vetted, Purging
    <2>5. QED BY <2>2, <2>4 DEF Honest
  <1>6. CASE Forget
    <2>1. /\ UNCHANGED <<disk, maker, manifest, goal>> /\ phase = "forget" /\ phase' = "purge"
          /\ left' = left \ {at}
          /\ registry' = [b \in DOMAIN registry \ {at} |-> registry[b]]
      BY <1>6 DEF Forget, Goto
    <2>2. at \in Assets /\ maker[at] # "user"
      BY <1>a, <2>1 DEF Vetted, Purging
    <2>3. ASSUME NEW b \in Assets PROVE HonestAsset(b)'
      <3>1. HonestAsset(b)
        BY <1>a
      <3>2. CASE b = at
        BY <2>1, <2>2, <3>1, <3>2 DEF HonestAsset, Drifted, Owned, Present
      <3>3. CASE b # at
        <4>1. /\ b \in DOMAIN registry' <=> b \in DOMAIN registry
              /\ b \in DOMAIN registry => registry'[b] = registry[b]
          BY <2>1, <3>3
        <4>2. QED BY <2>1, <3>1, <4>1 DEF HonestAsset, Drifted, Owned, Present
      <3>4. QED BY <3>2, <3>3
    <2>4. Vetted'
      BY <1>a, <2>1 DEF Vetted, Purging
    <2>5. QED BY <2>3, <2>4 DEF Honest
  <1>7. CASE PurgeDone
    <2>1. /\ UNCHANGED <<registry, disk, maker, manifest>> /\ phase = "purge"
          /\ phase' \in {"close", "idle"} /\ (phase' = "close" => goal.whole)
      BY <1>7 DEF PurgeDone, NextPhase, Goto
    <2>2. \A b \in Assets : HonestAsset(b)'
      BY <1>a, <2>1, JudgedAlike
    <2>3. Vetted'
      BY <1>a, <2>1 DEF Vetted, Purging
    <2>4. QED BY <2>2, <2>3 DEF Honest
  <1>8. CASE CloseRegistry
    <2>1. /\ UNCHANGED <<disk, maker, manifest>> /\ phase = "close" /\ phase' = "close manifest"
          /\ DOMAIN registry' = {}
      BY <1>8 DEF CloseRegistry
    <2>2. \A b \in manifest.owned : maker[b] # "user"
      BY <1>a, <2>1 DEF Vetted, Purging
    <2>3. \A b \in Assets : HonestAsset(b)'
      BY <1>a, <2>1, <2>2 DEF HonestAsset, Drifted, Owned, Present
    <2>4. QED BY <2>1, <2>3 DEF Honest, Vetted, Purging
  <1>9. CASE CloseManifest
    <2>1. /\ UNCHANGED <<registry, disk, maker>> /\ phase' = "idle" /\ manifest'.owned = {}
      BY <1>9 DEF CloseManifest
    <2>2. \A b \in Assets : HonestAsset(b)'
      BY <1>a, <2>1 DEF HonestAsset, Drifted, Owned, Present
    <2>3. QED BY <2>1, <2>2 DEF Honest, Vetted, Purging
  <1>10. QED
    BY <1>1, <1>2, <1>3, <1>4, <1>5, <1>6, <1>7, <1>8, <1>9 DEF Uninstall

\* An interruption leaves what it was building, which was not the owner's.
LEMMA StopIsHonest == ASSUME TypeOK, Honest, Stop PROVE Honest'
  <1>1. (\A b \in Assets : HonestAsset(b)) /\ Vetted
    BY DEF Honest
  <1>2. UNCHANGED <<registry, manifest>> /\ phase' = "idle"
    BY DEF Stop
  <1>3. CASE UNCHANGED <<disk, maker>>
    BY <1>1, <1>2, <1>3, JudgedAlike DEF Honest, Vetted, Purging
  <1>4. CASE ~UNCHANGED <<disk, maker>>
    <2>1. PICK a \in Assets : Put(a, "stray", "installer") /\ Evidence(a) = NoMark
      BY <1>4 DEF Stop, TypeOK
    <2>2. ~Drifted(a)
      BY <1>1, <2>1 DEF HonestAsset, Evidence, Marks, NoMark
    <2>3. \A b \in Assets : HonestAsset(b)'
      BY <1>1, <1>2, <2>1, <2>2, PutIsHonest
    <2>4. QED BY <1>2, <2>3 DEF Honest, Vetted, Purging
  <1>5. QED BY <1>3, <1>4

\* What the owner puts is contested, or it is neither flagged nor taken for the
\* asset that the registry is bound to.
LEMMA UserIsHonest == ASSUME TypeOK, Honest, User PROVE Honest'
  <1>1. (\A b \in Assets : HonestAsset(b)) /\ Vetted
    BY DEF Honest
  <1>2. PICK a \in Assets : UserRemoves(a) \/ UserPuts(a)
    BY DEF User
  <1>3. UNCHANGED <<registry, manifest>> /\ phase' = "idle"
    BY <1>2 DEF UserRemoves, UserPuts, operation
  <1>4. ASSUME NEW b \in Assets, b # a PROVE HonestAsset(b)'
    <2>1. disk'[b] = disk[b] /\ maker'[b] = maker[b]
      BY <1>2, <1>4 DEF UserRemoves, UserPuts, Put, TypeOK
    <2>2. HonestAsset(b)
      BY <1>1
    <2>3. QED BY <1>3, <2>1, <2>2, JudgedAlike
  <1>5. HonestAsset(a)
    BY <1>1
  <1>6. CASE UserRemoves(a)
    <2>1. disk'[a] = "absent" /\ maker'[a] = "nobody"
      BY <1>6 DEF UserRemoves, TypeOK
    <2>2. HonestAsset(a)'
      BY <1>3, <1>5, <2>1 DEF HonestAsset, Drifted, Owned
    <2>3. QED BY <1>3, <1>4, <2>2 DEF Honest, Vetted, Purging
  <1>7. CASE UserPuts(a)
    <2>1. PICK what \in {"foreign", "empty", "stray"} :
            Put(a, what, IF Contested(a, what) THEN "contested" ELSE "user")
      BY <1>7 DEF UserPuts
    <2>2. /\ disk'[a] = what /\ Present(a)'
          /\ maker'[a] = IF Contested(a, what) THEN "contested" ELSE "user"
      BY <1>7, <2>1 DEF UserPuts, Put, Present, TypeOK
    <2>3. Owned(a)' = Owned(a) /\ registry' = registry /\ manifest' = manifest
      BY <1>3 DEF Owned
    <2>4. HonestAsset(a)'
      <3>1. CASE Contested(a, what)
        BY <2>2, <3>1 DEF HonestAsset, Drifted
      <3>2. CASE ~Contested(a, what)
        <4>1. Owned(a) => what \in Marks /\ registry[a].state # "claimed"
                          /\ what # registry[a].fingerprint
          BY <3>2 DEF Contested
        <4>2. what \in Marks => what = "foreign"
          BY SetsAssumption DEF Marks
        <4>3. Owned(a) => registry[a].state = "ready"
          BY <4>1 DEF Owned, TypeOK, Entry
        <4>4. Owned(a) \/ a \notin manifest.owned
          BY <3>2 DEF Contested
        <4>5. QED BY <2>2, <2>3, <4>1, <4>2, <4>3, <4>4 DEF HonestAsset, Drifted
      <3>3. QED BY <3>1, <3>2
    <2>5. QED BY <1>3, <1>4, <2>4 DEF Honest, Vetted, Purging
  <1>8. QED BY <1>2, <1>6, <1>7

LEMMA HonestPreserved == TypeOK /\ Honest /\ [Next]_vars => Honest'
  <1>1. SUFFICES ASSUME TypeOK, Honest, [Next]_vars PROVE Honest'
    OBVIOUS
  <1>2. CASE UNCHANGED vars
    BY <1>1, <1>2 DEF vars, Honest, HonestAsset, Vetted, Drifted, Owned, Present, Purging
  <1>3. QED
    BY <1>1, <1>2, InstallIsHonest, UninstallIsHonest, StopIsHonest, UserIsHonest DEF Next

(* No purge of any number of assets, after any history of installations, interruptions
   and replacements, deletes what the owner of the machine made, unless he put it at a
   path that counted as installed at that moment: owned in the registry and bound to
   nothing else, or flagged by install.env (preflight_purge, preflight_one). *)
THEOREM OwnersAssetsAreKept == Spec => OnlyOursRemoved
  <1>1. Init => Honest
    BY DEF Init, Honest, HonestAsset, Vetted, Drifted, Owned, Purging
  <1>2. TypeOK /\ Ordered /\ Honest /\ [Next]_vars =>
          [\A a \in Assets : Deleting /\ disk'[a] # disk[a] => maker[a] # "user"]_vars
    <2>1. SUFFICES ASSUME TypeOK, Ordered, Honest, [Next]_vars, NEW a \in Assets, Deleting,
                          disk'[a] # disk[a]
                   PROVE  maker[a] # "user"
      OBVIOUS
    <2>2. a \in left /\ Purging
      BY <2>1, OnlyTheseRemove DEF MayGo, Deleting, Purging
    <2>3. QED BY <2>1, <2>2 DEF Honest, Vetted, Purging
  <1>3. QED BY <1>1, <1>2, HonestPreserved, AlwaysOrdered, PTL DEF Spec, OnlyOursRemoved
===============================================================================
