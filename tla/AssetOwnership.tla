---------------------------- MODULE AssetOwnership ----------------------------
(***************************************************************************)
(* The registry that decides what uninstall.sh may delete                  *)
(* (scripts/lib/asset_ownership.py), with its two callers: install.sh,     *)
(* which claims an asset before it creates it and binds it to a            *)
(* fingerprint afterwards, and uninstall.sh, which checks everything it is *)
(* about to delete and then deletes it, dependents first.                  *)
(*                                                                         *)
(* Both callers hold the operation lock, so one of them runs at a time; it *)
(* may stop after any step.  Between two operations the owner of the       *)
(* machine may delete an asset or put a checkpoint or an image of his own  *)
(* in its place.                                                           *)
(***************************************************************************)
EXTENDS FiniteSets

CONSTANTS
  Downloaded,     \* model directories filled by download-weights.sh
  Built,          \* model directories built on this host (hybrid stages)
  Images,         \* Docker image names
  ImageIds,       \* what docker image inspect may print
  DependsOn,      \* the --depends arguments install.sh passes, per asset
  Profiles        \* records [assets, active]: what an installation manages

Models == Downloaded \cup Built
Assets == Models \cup Images

NoMark == "none"                            \* no managed manifest, no image
Marks == {"downloading", "complete", "foreign"} \cup ImageIds
NoAsset == "no asset"

ASSUME SetsAssumption ==
  /\ Downloaded \cap Built = {}
  /\ Models \cap Images = {}
  /\ NoAsset \notin Assets
  /\ {"downloading", "complete", "foreign", NoMark, "absent", "empty", "stray"}
        \cap ImageIds = {}

ASSUME DependsOnAssumption ==
  DependsOn \in [Assets -> SUBSET Models] /\ \A a \in Images : DependsOn[a] = {}

ASSUME ProfilesAssumption ==
  \A p \in Profiles : p.assets \in SUBSET Assets /\ p.active \in SUBSET p.assets

VARIABLES
  registry,   \* asset-ownership.json: tracked assets and their entries
  disk,       \* what is at each path or image name
  maker,      \* who put it there (the code does not know this)
  manifest,   \* install.env: the active assets, and those flagged as owned
  phase,      \* where the running operation is, "idle" when none runs
  goal,       \* the profile being installed, or what is asked to be purged
  left,       \* the assets this phase still has to treat
  at          \* the asset in hand

vars == <<registry, disk, maker, manifest, phase, goal, left, at>>
operation == <<phase, goal, left, at>>

Entry == [owned : BOOLEAN, state : {"claimed", "ready"},
          fingerprint : Marks \cup {NoMark}, depends_on : SUBSET Models]

Phases == {"idle", "bootstrap", "claim", "prepared", "fetch", "download",
           "bind models", "weights ready", "images", "bind images",
           "image ready", "migrate", "preflight", "purge", "remove", "forget",
           "close", "close manifest"}

\* What the owner put at a path that still counted as installed is "contested".
Makers == {"nobody", "installer", "user", "contested"}

Goals == [assets : SUBSET Assets, active : SUBSET Assets, whole : BOOLEAN]

TypeOK ==
  /\ \E D \in SUBSET Assets : registry \in [D -> Entry]
  /\ disk \in [Assets -> {"absent", "empty", "stray"} \cup Marks]
  /\ maker \in [Assets -> Makers]
  /\ manifest \in [active : SUBSET Assets, owned : SUBSET Assets]
  /\ phase \in Phases
  /\ goal \in Goals
  /\ left \in SUBSET Assets
  /\ at \in Assets \cup {NoAsset}

Owned(a) == a \in DOMAIN registry /\ registry[a].owned
Claimed(a) == Owned(a) /\ registry[a].state = "claimed"
Present(a) == disk[a] # "absent"
Evidence(a) == IF disk[a] \in Marks THEN disk[a] ELSE NoMark

Init ==
  /\ registry = [a \in {} |-> NoMark]
  /\ disk = [a \in Assets |-> "absent"]
  /\ maker = [a \in Assets |-> "nobody"]
  /\ manifest = [active |-> {}, owned |-> {}]
  /\ phase = "idle" /\ left = {} /\ at = NoAsset
  /\ goal = [assets |-> {}, active |-> {}, whole |-> FALSE]

-------------------------------------------------------------------------------
(* track_model, track_image *)

\* An owned, bound asset whose manifest or image ID is not the recorded one,
\* or an asset that would depend on itself: the command fails.
Refused(a, deps) ==
  \/ /\ Owned(a) /\ registry[a].state = "ready" /\ Evidence(a) # NoMark
     /\ registry[a].fingerprint # Evidence(a)
  \/ a \in deps

NewEntry(a, owned, deps) ==
  [owned |-> owned,
   state |-> IF Evidence(a) # NoMark THEN "ready" ELSE "claimed",
   fingerprint |-> Evidence(a), depends_on |-> deps]

\* An unowned or merely claimed entry takes the evidence it finds; an owned,
\* bound one keeps its fingerprint, even while the asset is away.
UpdatedEntry(a, owned, deps) ==
  LET old == registry[a]
      found == Evidence(a) # NoMark
      binds == found /\ (~old.owned \/ old.state = "claimed")
      reclaims == ~found /\ owned /\ ~old.owned
  IN [owned |-> old.owned \/ owned,
      state |-> IF binds THEN "ready" ELSE IF reclaims THEN "claimed" ELSE old.state,
      fingerprint |-> IF binds THEN Evidence(a)
                      ELSE IF reclaims THEN NoMark ELSE old.fingerprint,
      depends_on |-> old.depends_on \cup deps]

\* What is neither owned nor there is not recorded; an image that is neither
\* leaves even an existing entry as it is.
Ignored(a, owned) ==
  ~owned /\ Evidence(a) = NoMark /\ (a \in Images \/ a \notin DOMAIN registry)

Tracked(a, owned, deps) ==
  IF Ignored(a, owned) THEN registry
  ELSE [b \in DOMAIN registry \cup {a} |->
          IF b # a THEN registry[b]
          ELSE IF a \in DOMAIN registry THEN UpdatedEntry(a, owned, deps)
          ELSE NewEntry(a, owned, deps)]

Track(a, owned, deps) == ~Refused(a, deps) /\ registry' = Tracked(a, owned, deps)

\* asset_model_ownership_for_path, asset_image_ownership_for_name
MayOwn(a) == Owned(a) \/ ~Present(a)

-------------------------------------------------------------------------------
(* The checks before a purge *)

Candidates == {a \in DOMAIN registry : registry[a].owned}

\* _dependency_blockers: a tracked asset that stays, is there, and needs one of S.
Blockers(S) ==
  {a \in DOMAIN registry \ S : Present(a) /\ registry[a].depends_on \cap S # {}}

\* Mutant: a bound model passes with any managed manifest.
VerifyAnyManifest(a) ==
  ~Present(a) \/ Evidence(a) # NoMark \/ (registry[a].state = "claimed" /\ disk[a] = "empty")

\* Mutant: what is no longer there is refused.
VerifyPresent(a) ==
  \/ registry[a].state = "claimed" /\ (Evidence(a) # NoMark \/ disk[a] = "empty")
  \/ Evidence(a) # NoMark /\ Evidence(a) = registry[a].fingerprint

\* _verify_model: an absent model is fine, a claimed one only with a manifest
\* or empty, a bound one only with the manifest it was bound to.
VerifyModel(a) ==
  \/ ~Present(a)
  \/ registry[a].state = "claimed" /\ (Evidence(a) # NoMark \/ disk[a] = "empty")
  \/ /\ registry[a].state = "ready"
     /\ registry[a].fingerprint # NoMark
     /\ Evidence(a) = registry[a].fingerprint

\* _verify_image: an image that was claimed but never bound is refused.
VerifyImage(a) ==
  \/ ~Present(a)
  \/ registry[a].fingerprint # NoMark /\ Evidence(a) = registry[a].fingerprint

Verify(a) == IF a \in Models THEN VerifyModel(a) ELSE VerifyImage(a)

PreflightPurge == Blockers(Candidates) = {} /\ \A a \in Candidates : Verify(a)

PreflightOne(a) == Owned(a) /\ Blockers({a}) = {} /\ Verify(a)

\* Mutant: the order is turned round, bases go before what is built from them.
IsRoot(a, S) == registry[a].depends_on \cap S = {}

\* _purge_order: nothing that is still to go depends on the next one.
IsLeaf(a, S) == \A b \in S : a \notin registry[b].depends_on

\* A dependency cycle prints no plan at all.
PurgePlan ==
  IF \A S \in SUBSET Candidates : S # {} => \E a \in S : IsLeaf(a, S)
  THEN Candidates ELSE {}

-------------------------------------------------------------------------------
(* install.sh *)

Goto(p, S) == phase' = p /\ left' = S /\ at' = NoAsset
Continue(a) == left' = left \ {a} /\ UNCHANGED <<phase, goal, at>>

StartInstall(p) ==
  /\ phase = "idle"
  /\ goal' = [assets |-> p.assets, active |-> p.active, whole |-> FALSE]
  /\ Goto("bootstrap", manifest.owned)
  /\ UNCHANGED <<registry, disk, maker, manifest>>

\* bootstrap_install: whatever install.env flags as owned is tracked as owned.
Bootstrap(a) ==
  /\ phase \in {"bootstrap", "migrate"} /\ a \in left
  /\ Track(a, TRUE, {})
  /\ Continue(a)
  /\ UNCHANGED <<disk, maker, manifest>>

\* asset_track_profile_models and asset_track_profile_images, before and after
\* the assets are created.
TrackProfile(a) ==
  /\ phase \in {"claim", "bind models", "bind images"} /\ a \in left
  /\ Track(a, MayOwn(a), DependsOn[a])
  /\ Continue(a)
  /\ UNCHANGED <<disk, maker, manifest>>

\* write_state: MODEL_OWNED and IMAGE_OWNED of the active model and image.
WriteState(next, S) ==
  /\ manifest' = [active |-> goal.active, owned |-> {a \in goal.active : Owned(a)}]
  /\ Goto(next, S)
  /\ UNCHANGED <<registry, disk, maker, goal>>

NextPhase(next, S) ==
  Goto(next, S) /\ UNCHANGED <<registry, disk, maker, manifest, goal>>

InstallAdvances ==
  /\ left = {}
  /\ \/ phase = "bootstrap" /\ NextPhase("claim", goal.assets)
     \/ phase = "claim" /\ WriteState("fetch", goal.assets \cap Models)
     \/ phase = "fetch" /\ NextPhase("bind models", goal.assets \cap Models)
     \/ phase = "bind models" /\ WriteState("images", goal.assets \cap Images)
     \/ phase = "images" /\ NextPhase("bind images", goal.assets \cap Images)
     \/ phase = "bind images" /\ WriteState("idle", {})

Put(a, what, who) ==
  /\ disk' = [disk EXCEPT ![a] = what]
  /\ maker' = [maker EXCEPT ![a] = IF Present(a) THEN @ ELSE who]

\* download-weights.sh makes the directory, writes its manifest with status
\* "downloading", fetches, and writes the manifest again with "complete".
MakeDirectory(a) ==
  /\ phase = "fetch" /\ at = NoAsset /\ a \in left \cap Downloaded
  /\ at' = a
  /\ Put(a, IF Present(a) THEN disk[a] ELSE "empty", "installer")
  /\ UNCHANGED <<registry, manifest, phase, goal, left>>

StartDownload ==
  /\ phase = "fetch" /\ at # NoAsset
  /\ phase' = "download"
  /\ Put(at, "downloading", "installer")
  /\ UNCHANGED <<registry, manifest, goal, left, at>>

FinishDownload ==
  /\ phase = "download"
  /\ phase' = "fetch" /\ at' = NoAsset /\ left' = left \ {at}
  /\ Put(at, "complete", "installer")
  /\ UNCHANGED <<registry, manifest, goal>>

\* prepare-orcarouter-hybrid.sh builds a stage from the stages it needs, and
\* keeps a complete one; it gives up on a directory with other content.
BuildStage(a) ==
  /\ phase = "fetch" /\ at = NoAsset /\ a \in left \cap Built
  /\ DependsOn[a] \cap left = {}
  /\ disk[a] # "stray"
  /\ Put(a, IF Evidence(a) # NoMark THEN disk[a] ELSE "complete", "installer")
  /\ Continue(a)
  /\ UNCHANGED <<registry, manifest>>

\* docker build when the image is missing.
BuildImage(a) ==
  /\ phase = "images" /\ a \in left
  /\ \E id \in ImageIds : Put(a, IF Present(a) THEN disk[a] ELSE id, "installer")
  /\ Continue(a)
  /\ UNCHANGED <<registry, manifest>>

-------------------------------------------------------------------------------
(* uninstall.sh *)

\* --purge-all, or --purge-model and --purge-image of the active assets.
StartUninstall(what, whole) ==
  /\ phase = "idle" /\ manifest.active # {} /\ what # {}
  /\ whole => what = manifest.active
  /\ goal' = [assets |-> what, active |-> manifest.active, whole |-> whole]
  /\ Goto("migrate", manifest.owned)
  /\ UNCHANGED <<registry, disk, maker, manifest>>

MigrationDone ==
  phase = "migrate" /\ left = {} /\ NextPhase("preflight", {})

Preflight ==
  /\ phase = "preflight"
  /\ \/ goal.whole /\ PreflightPurge /\ NextPhase("purge", PurgePlan)
     \/ /\ ~goal.whole /\ \A a \in goal.assets : PreflightOne(a)
        /\ NextPhase("purge", goal.assets)

\* The asset in hand is next: nothing that is still to go depends on it.
MayGo(a) == a \in left /\ (goal.whole => IsLeaf(a, left))

\* rm -rf has deleted the manifest and not yet the directory.
EmptyModel(a) ==
  /\ phase = "purge" /\ MayGo(a)
  /\ a \in Models /\ Present(a)
  /\ \E what \in {"stray", "empty"} : disk' = [disk EXCEPT ![a] = what]
  /\ phase' = "remove" /\ at' = a
  /\ UNCHANGED <<registry, maker, manifest, goal, left>>

\* rm -rf or docker image rm is done; one asset after the other.
Remove(a) ==
  /\ (phase = "purge" /\ MayGo(a)) \/ (phase = "remove" /\ a = at)
  /\ disk' = [disk EXCEPT ![a] = "absent"]
  /\ maker' = [maker EXCEPT ![a] = "nobody"]
  /\ phase' = "forget" /\ at' = a
  /\ UNCHANGED <<registry, manifest, goal, left>>

Forget ==
  /\ phase = "forget"
  /\ registry' = [b \in DOMAIN registry \ {at} |-> registry[b]]
  /\ Goto("purge", left \ {at})
  /\ UNCHANGED <<disk, maker, manifest, goal>>

\* --purge-all ends with the registry and the manifest; otherwise
\* mark_manifest_uninstalled keeps the manifest and its ownership flags.
PurgeDone ==
  /\ phase = "purge" /\ left = {}
  /\ NextPhase(IF goal.whole THEN "close" ELSE "idle", {})

CloseRegistry ==
  /\ phase = "close"
  /\ registry' = [a \in {} |-> NoMark]
  /\ phase' = "close manifest"
  /\ UNCHANGED <<disk, maker, manifest, goal, left, at>>

CloseManifest ==
  /\ phase = "close manifest"
  /\ manifest' = [active |-> {}, owned |-> {}]
  /\ phase' = "idle"
  /\ UNCHANGED <<registry, disk, maker, goal, left, at>>

-------------------------------------------------------------------------------
(* What may go wrong *)

\* The operation fails or is killed; an unfinished build leaves a directory with
\* files and no manifest.
Stop ==
  /\ phase # "idle"
  /\ phase' = "idle" /\ left' = {} /\ at' = NoAsset
  /\ UNCHANGED <<registry, manifest, goal>>
  /\ \/ UNCHANGED <<disk, maker>>
     \/ \E a \in left \cap Built :
          /\ phase = "fetch" /\ at = NoAsset /\ DependsOn[a] \cap left = {}
          /\ Evidence(a) = NoMark /\ Put(a, "stray", "installer")

\* The owner of the machine, between two operations.
UserRemoves(a) ==
  /\ phase = "idle" /\ Present(a)
  /\ disk' = [disk EXCEPT ![a] = "absent"]
  /\ maker' = [maker EXCEPT ![a] = "nobody"]
  /\ UNCHANGED <<registry, manifest, operation>>

\* The path counts as installed although nothing is there: the registry owns it
\* and is bound to nothing else, so that what appears there is taken for what was
\* claimed, or install.env flags what the registry forgot.
Contested(a, what) ==
  \/ Owned(a) /\ (registry[a].state = "claimed" \/ what \notin Marks
                    \/ what = registry[a].fingerprint)
  \/ ~Owned(a) /\ a \in manifest.owned

\* A checkpoint or an image of his own, or a directory without a manifest.
UserPuts(a) ==
  /\ phase = "idle" /\ ~Present(a)
  /\ \E what \in {"foreign"} \cup (IF a \in Models THEN {"empty", "stray"} ELSE {}) :
       Put(a, what, IF Contested(a, what) THEN "contested" ELSE "user")
  /\ UNCHANGED <<registry, manifest, operation>>

-------------------------------------------------------------------------------
Install ==
  \/ \E p \in Profiles : StartInstall(p)
  \/ InstallAdvances
  \/ \E a \in Assets : \/ Bootstrap(a) \/ TrackProfile(a) \/ MakeDirectory(a)
                       \/ BuildStage(a) \/ BuildImage(a)
  \/ StartDownload
  \/ FinishDownload

Uninstall ==
  \/ \E what \in SUBSET manifest.active, whole \in BOOLEAN : StartUninstall(what, whole)
  \/ MigrationDone \/ Preflight
  \/ \E a \in Assets : EmptyModel(a) \/ Remove(a)
  \/ Forget \/ PurgeDone \/ CloseRegistry \/ CloseManifest

User == \E a \in Assets : UserRemoves(a) \/ UserPuts(a)

Next == Install \/ Uninstall \/ Stop \/ User

Spec == Init /\ [][Next]_vars

-------------------------------------------------------------------------------
Deleting == phase \in {"purge", "remove"}

(* Neither a purge nor a part of one deletes or damages an asset that the owner
   of the machine put there himself, however many installations, interruptions
   and replacements came before; with the one exception of what he put at a
   path that counted as installed at that moment (Contested): what is found
   under a bare claim is bound to it, and what install.env flags is owned again
   (asset_ownership.py: track_model, bootstrap_install, preflight_purge,
   preflight_one; uninstall.sh:79-101). *)
OnlyOursRemoved ==
  [][\A a \in Assets : Deleting /\ disk'[a] # disk[a] => maker[a] # "user"]_vars

(* A purge never takes an asset that another tracked asset on the disk still
   needs, whether that one is kept or is to be deleted as well: an
   interruption at any point leaves every remaining stage its base
   (_dependency_blockers, _purge_order). *)
DependentsGoFirst ==
  [][\A a \in Assets :
       Deleting /\ disk'[a] # disk[a] =>
         \A b \in DOMAIN registry \ {a} : a \in registry[b].depends_on => ~Present(b)]_vars

\* The directory that rm -rf is at work in.
Emptied == IF phase = "remove" THEN {at} ELSE {}

(* A full purge can be repeated after a failure between two of its steps, and
   in the middle of one: in the state that any step of it leads to, a kill
   included, the preflight of the next one refuses nothing but the one directory
   that rm -rf was emptying, which has lost its manifest (_verify_model) and
   which the owner has to delete himself (an asset is deleted before it is
   forgotten: uninstall.sh:79-101). *)
PurgeCanResume ==
  [][goal.whole /\ phase \in {"purge", "remove", "forget"} =>
       /\ Blockers(Candidates)' = {}
       /\ \A a \in Candidates' \ (Emptied \cup Emptied') : Verify(a)']_vars

(* An owned model is bound to the manifest of a finished download: scripts/
   model/README.md says that a claimed checkpoint is "finalized with the
   managed-manifest SHA-256 after completion".  The code binds it to any
   manifest, the one with status "downloading" included. *)
BoundWhenComplete ==
  \A a \in Downloaded \cap DOMAIN registry :
    registry[a].owned => registry[a].fingerprint # "downloading"

(* Reusing an existing asset never upgrades it to owned (docs/
   ARCHITECTURE.md, Cumulative asset ownership): what its owner put there
   and the registry does not own stays unowned as long as it is there. *)
ReuseNeverAdopts ==
  [][\A a \in Assets : maker[a] \in {"user", "contested"} /\ ~Owned(a) =>
       ~Owned(a)' \/ maker'[a] # maker[a]]_vars
===============================================================================
