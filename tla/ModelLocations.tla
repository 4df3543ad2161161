---------------------------- MODULE ModelLocations ----------------------------
(***************************************************************************)
(* Where the model directories live, and the two tools that move them:     *)
(* migrate_orcarouter.py takes a checkpoint from the repository's ./model  *)
(* into $HOME/models, relocate_model_root.py moves the whole of            *)
(* $HOME/models into the repository's ./models.  Both leave symbolic links *)
(* behind.  The relocation holds the operation lock, the migration does    *)
(* not, so they may overlap, and a download, a container start or an end   *)
(* of either tool may fall between any two of their steps.                 *)
(*                                                                         *)
(* Paths: ./model is "legacy", $HOME/models is "source", ./models is       *)
(* "destination"; the canonical path is source/orca.  Both roots are on    *)
(* one file system.                                                        *)
(***************************************************************************)
EXTENDS Naturals, FiniteSets, Sequences

CONSTANTS
  Backups,     \* names a sequence of .partial-backup directories may have
  NoName

BackupNames == {Backups[i] : i \in DOMAIN Backups}

ASSUME BackupsAssumption ==
  /\ Backups \in Seq(STRING)
  /\ BackupNames \cap {NoName, "orca", "stage"} = {}

Directories == {"orca", "stage"} \cup BackupNames
Roots == {"source", "destination"}

\* A directory is missing, has a manifest with status "downloading", is
\* complete, or is complete in name only: a shard of its index is not there.
Contents == {"none", "downloading", "complete", "broken"}
NoRoot == [n \in Directories |-> "none"]

VARIABLES
  exists,      \* the roots that are directories
  root,        \* what each root holds
  linked,      \* source is a symbolic link to the destination
  legacy,      \* "none", a checkpoint's content, or a link
  serving,     \* what a running container mounts: a checkpoint's place or none
  migration,   \* the migration: where it is and what it planned
  relocation   \* the relocation: where it is and the link it found

locationVars == <<exists, root, linked, legacy, serving, migration, relocation>>
places == <<exists, root, linked, legacy>>

\* ./model as a link: to the canonical path, to destination/orca, elsewhere.
LinkTargets == {"to_canonical", "to_destination", "to_elsewhere"}

\* Besides the types: a root is a directory or a link and never both, and only
\* a directory holds something.
TypeOK ==
  /\ exists \in SUBSET Roots
  /\ root \in [Roots -> [Directories -> Contents]]
  /\ linked \in BOOLEAN
  /\ linked => "source" \notin exists
  /\ \A r \in Roots : root[r] # NoRoot => r \in exists
  /\ legacy \in Contents \cup LinkTargets
  /\ serving \in {"nothing", "legacy"} \cup Roots
  /\ migration \in [at : {"idle", "aside", "move", "link", "verify"},
                    backup : BackupNames \cup {NoName}]
  /\ relocation \in [at : {"idle", "rename", "link_root", "unlink_legacy", "link_legacy",
                           "inspect", "undo_root", "undo_legacy", "undo_rename",
                           "undo_link", "restored", "done"},
                     found : LinkTargets \cup {"none"}, again : BOOLEAN]

\* source as a path: itself, or the destination when it is a link.
Source == IF linked THEN "destination" ELSE "source"
Canonical == root[Source]["orca"]
CanonicalExists == Source \in exists /\ Canonical # "none"

DestinationHas(name) == "destination" \in exists /\ root["destination"][name] # "none"

LegacyIsLink == legacy \in LinkTargets
LegacyIsDir == legacy \in Contents \ {"none"}
\* Path.is_dir follows a link.
LegacyReaches ==
  \/ LegacyIsDir
  \/ legacy = "to_canonical" /\ CanonicalExists
  \/ legacy = "to_destination" /\ DestinationHas("orca")

LocationsInit ==
  /\ exists = {"source"} /\ linked = FALSE
  /\ \E orca \in Contents, old \in Contents :
       /\ root = [r \in Roots |-> IF r = "source" THEN [NoRoot EXCEPT !["orca"] = orca]
                                  ELSE NoRoot]
       /\ legacy = old
  /\ serving = "nothing"
  /\ migration = [at |-> "idle", backup |-> NoName]
  /\ relocation = [at |-> "idle", found |-> "none", again |-> FALSE]

-------------------------------------------------------------------------------
(* migrate_orcarouter.py *)

\* validate_complete_checkpoint: the pinned manifest says complete, and every
\* shard the index names is there.
CompleteCheckpoint(content) == content = "complete"

\* running_container_mounts, as each tool asks for it.
MountedBy(place) == serving = place
RootMounted == MountedBy("source")

\* Nothing at the name and no link either.
FreeBackup == {i \in DOMAIN Backups : root[Source][Backups[i]] = "none"}
BackupCandidate == Backups[CHOOSE i \in FreeBackup : \A j \in FreeBackup : i <= j]

\* legacy is already a link to the canonical path; resolving it follows a
\* linked source too, and then it is another path.
AlreadyMigrated == legacy = "to_canonical" /\ ~linked /\ CompleteCheckpoint(Canonical)

\* MUTANT: without a ./model there is nothing to migrate.
OnlyLinkMissingRefused == FALSE

\* The link is all that is missing.
OnlyLinkMissing == legacy = "none" /\ CanonicalExists /\ CompleteCheckpoint(Canonical)

MoveAccepted ==
  /\ CompleteCheckpoint(legacy)
  /\ ~MountedBy("legacy")
  /\ CanonicalExists =>
       Canonical = "downloading" /\ ~MountedBy(Source) /\ FreeBackup # {}

PlanAccepted == AlreadyMigrated \/ OnlyLinkMissing \/ MoveAccepted

MigrationGoes(to, backup) == migration' = [at |-> to, backup |-> backup]

\* prepare_plan; what it found may be out of date once the prompt is answered.
PlanMigration ==
  /\ migration.at = "idle"
  /\ OnlyLinkMissing \/ MoveAccepted
  /\ LET backup == IF MoveAccepted /\ CanonicalExists THEN BackupCandidate ELSE NoName
     IN MigrationGoes("aside", backup)
  /\ UNCHANGED <<places, serving, relocation>>

\* MUTANT: the incomplete canonical is not put aside but replaced.
MoveAsideOver ==
  /\ migration.at = "aside"
  /\ exists' = exists \cup {Source}
  /\ root' = [root EXCEPT ![Source]["orca"] = "none"]
  /\ MigrationGoes("move", migration.backup)
  /\ UNCHANGED <<linked, legacy, serving, relocation>>

\* The parents are made if need be; os.replace(canonical, backup) needs a
\* canonical directory and a free backup name.
MoveAside ==
  /\ migration.at = "aside"
  /\ exists' = exists \cup {Source}
  /\ \/ /\ migration.backup = NoName
        /\ UNCHANGED root
     \/ /\ migration.backup # NoName /\ CanonicalExists
        /\ root[Source][migration.backup] = "none"
        /\ root' = [root EXCEPT ![Source] =
                      [@ EXCEPT ![migration.backup] = Canonical, !["orca"] = "none"]]
  /\ MigrationGoes("move", migration.backup)
  /\ UNCHANGED <<linked, legacy, serving, relocation>>

\* os.replace(legacy, canonical) refuses a canonical path with content.
MoveCheckpoint ==
  /\ migration.at = "move"
  /\ IF LegacyReaches
     THEN /\ LegacyIsDir /\ Source \in exists /\ Canonical = "none"
          /\ root' = [root EXCEPT ![Source]["orca"] = legacy]
          /\ legacy' = "none"
     ELSE UNCHANGED <<root, legacy>>
  /\ MigrationGoes("link", NoName)
  /\ UNCHANGED <<exists, linked, serving, relocation>>

LinkLegacy ==
  /\ migration.at = "link"
  /\ legacy = "none"
  /\ legacy' = "to_canonical"
  /\ MigrationGoes("verify", NoName)
  /\ UNCHANGED <<exists, root, linked, serving, relocation>>

\* The result is read back, a failed step reported, or the process killed.
MigrationEnds ==
  /\ migration.at # "idle"
  /\ MigrationGoes("idle", NoName)
  /\ UNCHANGED <<places, serving, relocation>>

-------------------------------------------------------------------------------
(* relocate_model_root.py *)

\* inspect_root: everything at the top is managed and complete, and a hybrid
\* stage finds its base.
RootAccepted(r) ==
  /\ \A n \in Directories : root[r][n] \in {"none", "complete"}
  /\ \E n \in Directories : root[r][n] # "none"
  /\ root[r]["stage"] # "none" => root[r]["orca"] = "complete"

\* validate_legacy_model_path
LegacyAccepted == legacy \in {"none", "to_canonical", "to_destination"}

AlreadyRelocated ==
  linked /\ "destination" \in exists /\ RootAccepted("destination") /\ LegacyAccepted

MoveRootAccepted ==
  /\ ~linked /\ "source" \in exists /\ "destination" \notin exists
  /\ RootAccepted("source") /\ LegacyAccepted
  /\ ~RootMounted

RelocationGoes(to) == relocation' = [relocation EXCEPT !.at = to]
Settled == relocation.at \in {"idle", "restored", "done"}

\* plan_relocation; a root that has moved already only gets its links again.
PlanRelocation ==
  /\ Settled
  /\ \/ /\ AlreadyRelocated
        /\ relocation' = [at |-> "link_root", found |-> "none", again |-> TRUE]
     \/ /\ MoveRootAccepted
        /\ relocation' = [at |-> "rename", found |-> "none", again |-> FALSE]
  /\ UNCHANGED <<places, serving, migration>>

\* The link is remembered, then the root is renamed.
RenameRoot ==
  /\ relocation.at = "rename"
  /\ "source" \in exists /\ ~linked /\ "destination" \notin exists
  /\ exists' = (exists \ {"source"}) \cup {"destination"}
  /\ root' = [root EXCEPT !["source"] = NoRoot, !["destination"] = root["source"]]
  /\ relocation' = [relocation EXCEPT !.at = "link_root",
                                      !.found = IF LegacyIsLink THEN legacy ELSE "none"]
  /\ UNCHANGED <<linked, legacy, serving, migration>>

\* update_compatibility_links
LinkRoot ==
  /\ relocation.at = "link_root"
  /\ linked \/ "source" \notin exists
  /\ linked' = TRUE
  /\ RelocationGoes(IF DestinationHas("orca") THEN "unlink_legacy" ELSE "inspect")
  /\ UNCHANGED <<exists, root, legacy, serving, migration>>

UnlinkLegacy ==
  /\ relocation.at = "unlink_legacy"
  /\ ~LegacyIsDir
  /\ legacy' = "none"
  /\ RelocationGoes("link_legacy")
  /\ UNCHANGED <<exists, root, linked, serving, migration>>

RelinkLegacy ==
  /\ relocation.at = "link_legacy"
  /\ legacy = "none"
  /\ legacy' = "to_destination"
  /\ RelocationGoes("inspect")
  /\ UNCHANGED <<exists, root, linked, serving, migration>>

InspectMoved ==
  /\ relocation.at = "inspect"
  /\ relocation.again \/ RootAccepted("destination")
  /\ RelocationGoes("done")
  /\ UNCHANGED <<places, serving, migration>>

\* An exception after the rename is caught and undone; one on a root that had
\* moved before is only reported.
RelocationFails ==
  /\ relocation.at \in {"link_root", "unlink_legacy", "link_legacy", "inspect"}
  /\ RelocationGoes(IF relocation.again THEN "idle" ELSE "undo_root")
  /\ UNCHANGED <<places, serving, migration>>

UndoRootLink ==
  /\ relocation.at = "undo_root"
  /\ linked' = FALSE
  /\ RelocationGoes("undo_legacy")
  /\ UNCHANGED <<exists, root, legacy, serving, migration>>

UndoLegacyLink ==
  /\ relocation.at = "undo_legacy"
  /\ legacy' = IF LegacyIsLink THEN "none" ELSE legacy
  /\ RelocationGoes("undo_rename")
  /\ UNCHANGED <<exists, root, linked, serving, migration>>

\* MUTANT: the old links are put back before the root is.
UndoRenameLast ==
  /\ relocation.at = "undo_rename"
  /\ RelocationGoes("undo_link")
  /\ UNCHANGED <<places, serving, migration>>

\* os.rename(destination, source) takes the place of an empty directory only.
UndoRename ==
  /\ relocation.at = "undo_rename"
  /\ ~linked /\ root["source"] = NoRoot
  /\ exists' = (exists \ {"destination"}) \cup {"source"}
  /\ root' = [root EXCEPT !["source"] = root["destination"], !["destination"] = NoRoot]
  /\ RelocationGoes("undo_link")
  /\ UNCHANGED <<linked, legacy, serving, migration>>

UndoLegacyLoss ==
  /\ relocation.at = "undo_link"
  /\ legacy = "none" \/ relocation.found = "none"
  /\ legacy' = IF relocation.found = "none" THEN legacy ELSE relocation.found
  /\ RelocationGoes("restored")
  /\ UNCHANGED <<exists, root, linked, serving, migration>>

\* Killed, or interrupted from the keyboard: nothing is caught.
RelocationDies ==
  /\ ~Settled
  /\ RelocationGoes("idle")
  /\ UNCHANGED <<places, serving, migration>>

-------------------------------------------------------------------------------
(* The rest of the machine *)

Keep(r, name, content) == root' = [root EXCEPT ![r][name] = content]

\* download-weights.sh at the canonical path, which makes the parents it lacks
\* and resumes what it finds, and the operator who gets himself a hybrid stage
\* or removes what he does not need.
Download ==
  /\ exists' = exists \cup {Source}
  /\ \/ Canonical \in {"none", "broken"} /\ Keep(Source, "orca", "downloading")
     \/ Canonical = "downloading" /\ Keep(Source, "orca", "complete")
     \/ Canonical = "complete" /\ Keep(Source, "stage", "complete")
     \/ \E n \in BackupNames : root[Source][n] # "none" /\ Keep(Source, n, "none")
  /\ UNCHANGED <<linked, legacy, serving, migration, relocation>>

\* A container mounts the real place of the checkpoint it is started with.
ContainerStarts ==
  /\ serving = "nothing"
  /\ \/ legacy = "complete" /\ serving' = "legacy"
     \/ Canonical = "complete" /\ serving' = Source
  /\ UNCHANGED <<places, migration, relocation>>

ContainerStops ==
  /\ serving # "nothing" /\ serving' = "nothing"
  /\ UNCHANGED <<places, migration, relocation>>

-------------------------------------------------------------------------------
Migrate == PlanMigration \/ MoveAside \/ MoveCheckpoint \/ LinkLegacy \/ MigrationEnds
Relocate ==
  \/ PlanRelocation \/ RenameRoot \/ LinkRoot \/ UnlinkLegacy \/ RelinkLegacy \/ InspectMoved
  \/ RelocationFails \/ UndoRootLink \/ UndoLegacyLink \/ UndoRename \/ UndoLegacyLoss
  \/ RelocationDies
Around == Download \/ ContainerStarts \/ ContainerStops

LocationsNext == Migrate \/ Relocate \/ Around

LocationsSpec == LocationsInit /\ [][LocationsNext]_locationVars
-------------------------------------------------------------------------------
(* How many directories there are with this content, wherever they are. *)
Count(content) ==
  Cardinality({p \in Roots \X Directories : root[p[1]][p[2]] = content})
    + (IF legacy = content THEN 1 ELSE 0)

(* Moving loses nothing: whatever the two tools do, in whatever order, killed
   or rolled back anywhere, every complete and every interrupted checkpoint
   is still there afterwards (migrate_orcarouter.py: backup_candidate,
   apply_plan; relocate_model_root.py: apply_relocation). *)
NothingLost ==
  [][Migrate \/ Relocate => \A c \in Contents \ {"none"} : Count(c)' = Count(c)]_locationVars

(* A relocation that fails after the rename ends where it began: the root is
   at the source, nothing at the destination, and ./model is the link it was
   before (relocate_model_root.py:446-457). *)
FailedMoveIsUndone ==
  [][relocation.at = "undo_link" /\ relocation'.at = "restored" =>
       /\ "source" \in exists' /\ "destination" \notin exists' /\ ~linked'
       /\ (relocation.found # "none" => legacy' = relocation.found)]_locationVars

(* A migration may be killed after any of its steps and run again: the next
   plan is accepted, unless the checkpoint is in use, both directories have
   become complete, or a relocation has taken the root (migrate_orcarouter.py:
   prepare_plan, apply_plan). *)
MigrationCanResume ==
  (/\ migration.at # "idle" /\ serving = "nothing" /\ Settled
   /\ ~linked /\ "destination" \notin exists /\ (legacy = "complete" => FreeBackup # {})
   /\ ~(legacy = "complete" /\ Canonical \in {"complete", "broken"}))
  => PlanAccepted
===============================================================================
