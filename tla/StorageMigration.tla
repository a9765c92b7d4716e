-------------------------- MODULE StorageMigration --------------------------
(* storage.rs: the locator file that names the data directory, the move of  *)
(* the data to another directory or the adoption of data found there at the *)
(* next start, and the removal of the old copy once the new one is open.    *)
(* Every file operation may fail and the process may die between any two.   *)
EXTENDS Integers, FiniteSets, Functions

CONSTANTS Directories,        \* absolute, writable, not nested in one another
          DefaultDirectory,   \* holds storage.json
          LegacyDirectory,    \* default directory of an older installation
          NoDirectory,
          MaxSaves,           \* bound on saved changes
          MaxStorageFaults    \* bound on failing operations and crashes

ASSUME StorageConstants ==
    /\ {DefaultDirectory, LegacyDirectory} \subseteq Directories
    /\ DefaultDirectory # LegacyDirectory
    /\ NoDirectory \notin Directories
    /\ MaxSaves \in Nat /\ MaxStorageFaults \in Nat

VARIABLES locator,       \* storage.json of DefaultDirectory
          database,      \* the directories with a database, and its content
          filterFiles,   \* the directories with a filters directory, its content
          backups,       \* the copy made by this start before an adoption
          offline,       \* directories on a volume that is not there
          stage,         \* where the start-up stands
          target,        \* locator as changed in memory, not written yet
          storageFaults

storageVars == <<locator, database, filterFiles, backups, offline, stage, target, storageFaults>>

Targets == Directories \cup {NoDirectory}
Locators == [data : Targets, pending : Targets,
             action : {"none", "migrate", "use_existing"}, cleanup : Targets]
Databases == [origin : Directories, saves : 0..MaxSaves, form : {"current", "old", "unusable"}]
FilterContents == [origin : Directories, saves : 0..MaxSaves]
Stages == {"down", "initialize", "backup", "copy_filters", "enable_database",
           "enable_filters", "undo_database", "undo_filters", "adopt", "upgrade",
           "write", "open", "cleanup", "cleanup_filters", "cleanup_done", "run"}

NoLocator == [data |-> NoDirectory, pending |-> NoDirectory,
              action |-> "none", cleanup |-> NoDirectory]

(* The directory a locator stands for. *)
DataDir(l) == IF l.data = NoDirectory THEN DefaultDirectory ELSE l.data

CustomDataDir(d) == IF d = DefaultDirectory THEN NoDirectory ELSE d

DatabaseExists(d) == d \in DOMAIN database \ offline

(* A database of this program, not damaged and not of a later version. *)
Adoptable(d) == DatabaseExists(d) /\ database[d].form # "unusable"

(* Mutant: files already in the target are not looked at. *)
TargetAvailableUnchecked(d) == d \notin offline

(* No database and no filters directory that the move would overwrite. *)
TargetAvailable(d) == d \notin DOMAIN database \cup DOMAIN filterFiles \cup offline

WithoutDir(f, d) == Restrict(f, DOMAIN f \ {d})
WithDir(f, d, content) == [e \in DOMAIN f \cup {d} |-> IF e = d THEN content ELSE f[e]]

StorageInit ==
    /\ locator = NoLocator
    /\ database = [d \in {LegacyDirectory} |-> [origin |-> d, saves |-> 0, form |-> "old"]]
    /\ filterFiles = [d \in {LegacyDirectory} |-> [origin |-> d, saves |-> 0]]
    /\ backups = {}
    /\ offline = {}
    /\ stage = "down"
    /\ target = NoLocator
    /\ storageFaults = MaxStorageFaults

StorageFault == storageFaults > 0 /\ storageFaults' = storageFaults - 1

NextStage(s) == stage' = s /\ UNCHANGED <<offline, storageFaults>>

FailTo(s) == stage' = s /\ StorageFault /\ UNCHANGED offline

------------------------------------------------------------------------------
(* prepare_windows_service_storage: a service without data of its own takes *)
(* over the directory of an older installation if its database is there.    *)
PrepareServiceStorage ==
    /\ stage = "down"
    /\ NextStage("initialize")
    /\ LET adopts == /\ locator.data = NoDirectory
                     /\ ~ DatabaseExists(DefaultDirectory)
                     /\ DatabaseExists(LegacyDirectory)
       IN  locator' = IF adopts THEN [locator EXCEPT !.data = LegacyDirectory] ELSE locator
    /\ UNCHANGED <<database, filterFiles, backups, target>>

(* Mutant: a target that is not available ends the start. *)
InitializeAtStrict ==
    /\ stage = "initialize"
    /\ locator.data # NoDirectory => DatabaseExists(DataDir(locator))
    /\ LET p == locator.pending
           free == p # NoDirectory /\ TargetAvailable(p)
           moved == [locator EXCEPT !.pending = NoDirectory, !.action = "none",
                                    !.data = CustomDataDir(p), !.cleanup = DataDir(locator)]
       IN  \/ p = NoDirectory /\ target' = NoLocator /\ NextStage("open")
           \/ free /\ target' = moved /\ NextStage("backup")
           \/ p # NoDirectory /\ ~free /\ target' = NoLocator /\ NextStage("down")
    /\ UNCHANGED <<locator, database, filterFiles, backups>>

(* initialize_at up to the operation it chooses.  A custom directory        *)
(* without its database ends the start; nothing is created in its place.    *)
(* A wish for the directory in use is never recorded (StorageTypeOK), so    *)
(* the branch for it is left out.                                           *)
InitializeAt ==
    /\ stage = "initialize"
    /\ locator.data # NoDirectory => DatabaseExists(DataDir(locator))
    /\ LET taken == [locator EXCEPT !.pending = NoDirectory, !.action = "none"]
           p == locator.pending
           moved == [taken EXCEPT !.data = CustomDataDir(p)]
       IN  \/ /\ p = NoDirectory
              /\ target' = NoLocator /\ NextStage("open")
           \/ /\ p # NoDirectory /\ locator.action = "migrate"
              /\ IF TargetAvailable(p) /\ DatabaseExists(DataDir(locator))
                   THEN target' = [moved EXCEPT !.cleanup = DataDir(locator)] /\ NextStage("backup")
                   ELSE target' = taken /\ NextStage("write")
           \/ /\ p # NoDirectory /\ locator.action = "use_existing"
              /\ IF Adoptable(p)
                   THEN target' = [moved EXCEPT !.cleanup = NoDirectory] /\ NextStage("adopt")
                   ELSE target' = taken /\ NextStage("write")
    /\ UNCHANGED <<locator, database, filterFiles, backups>>

InitializeFails ==
    /\ stage = "initialize"
    /\ locator.data # NoDirectory /\ ~ DatabaseExists(DataDir(locator))
    /\ NextStage("down")
    /\ UNCHANGED <<locator, database, filterFiles, backups, target>>

(* Mutant: the kind of the change stays behind. *)
KeepOldDirectoryKind == target' = [locator EXCEPT !.pending = NoDirectory]

(* An operation failed: the old directory stays in use, without the wish.   *)
KeepOldDirectory ==
    target' = [locator EXCEPT !.pending = NoDirectory, !.action = "none"]

------------------------------------------------------------------------------
(* migrate_data: the copies are made under temporary names, checked, and    *)
(* then renamed one after the other.                                        *)
BackupDatabase ==
    /\ stage = "backup"
    /\ NextStage("copy_filters")
    /\ UNCHANGED <<locator, database, filterFiles, backups, target>>

CopyFilters ==
    /\ stage = "copy_filters"
    /\ NextStage("enable_database")
    /\ UNCHANGED <<locator, database, filterFiles, backups, target>>

EnableDatabase ==
    /\ stage = "enable_database"
    /\ database' = WithDir(database, DataDir(target), database[DataDir(locator)])
    /\ NextStage("enable_filters")
    /\ UNCHANGED <<locator, filterFiles, backups, target>>

EnableFilters ==
    /\ stage = "enable_filters"
    /\ filterFiles' = IF DataDir(locator) \in DOMAIN filterFiles
                        THEN WithDir(filterFiles, DataDir(target), filterFiles[DataDir(locator)])
                        ELSE filterFiles
    /\ NextStage("write")
    /\ UNCHANGED <<locator, database, backups, target>>

(* Mutant: the error of the move is lost and the locator is switched. *)
MigrationFailsForward ==
    /\ stage \in {"backup", "copy_filters", "enable_database", "enable_filters"}
    /\ FailTo("write")
    /\ UNCHANGED <<locator, database, filterFiles, backups, target>>

MigrationFails ==
    /\ stage \in {"backup", "copy_filters", "enable_database", "enable_filters"}
    /\ FailTo("undo_database")
    /\ UNCHANGED <<locator, database, filterFiles, backups, target>>

(* The target of a failed move is removed, best effort. *)
UndoDatabase ==
    /\ stage = "undo_database"
    /\ \/ NextStage("undo_filters") /\ database' = WithoutDir(database, DataDir(target))
       \/ FailTo("undo_filters") /\ UNCHANGED database
    /\ UNCHANGED <<locator, filterFiles, backups, target>>

UndoFilters ==
    /\ stage = "undo_filters"
    /\ \/ NextStage("write") /\ filterFiles' = WithoutDir(filterFiles, DataDir(target))
       \/ FailTo("write") /\ UNCHANGED filterFiles
    /\ KeepOldDirectory
    /\ UNCHANGED <<locator, database, backups>>

(* Mutant: adoption without the backup. *)
AdoptBackupSkipped ==
    /\ stage = "adopt"
    /\ NextStage("upgrade")
    /\ UNCHANGED <<locator, database, filterFiles, backups, target>>

------------------------------------------------------------------------------
(* prepare_existing_data_for_adoption: a backup first, then the upgrade in  *)
(* place, which is the only change of data not in use.                      *)
AdoptBackup ==
    /\ stage = "adopt"
    /\ backups' = {<<DataDir(target), database[DataDir(target)]>>}
    /\ NextStage("upgrade")
    /\ UNCHANGED <<locator, database, filterFiles, target>>

UpgradeAdopted ==
    /\ stage = "upgrade"
    /\ database' = [database EXCEPT ![DataDir(target)].form = "current"]
    /\ \/ NextStage("write") /\ UNCHANGED target
       \/ FailTo("write") /\ KeepOldDirectory    \* no configuration after the upgrade
    /\ UNCHANGED <<locator, filterFiles, backups>>

AdoptionFails ==
    /\ stage \in {"adopt", "upgrade"}
    /\ FailTo("write")
    /\ KeepOldDirectory
    /\ UNCHANGED <<locator, database, filterFiles, backups>>

------------------------------------------------------------------------------
(* write_locator: temporary file, sync, rename.  A failure ends the start.  *)
WriteLocator ==
    /\ stage = "write"
    /\ \/ NextStage("open") /\ locator' = target
       \/ FailTo("down") /\ UNCHANGED locator
    /\ target' = NoLocator /\ backups' = {}
    /\ UNCHANGED <<database, filterFiles>>

(* Database::open creates or upgrades the database of the directory chosen. *)
OpenDatabase ==
    /\ stage = "open"
    /\ LET d == DataDir(locator)
           opened == IF d \in DOMAIN database
                       THEN [database[d] EXCEPT !.form = "current"]
                       ELSE [origin |-> d, saves |-> 0, form |-> "current"]
       IN  \/ NextStage("cleanup") /\ database' = WithDir(database, d, opened)
           \/ FailTo("down") /\ UNCHANGED database
    /\ UNCHANGED <<locator, filterFiles, backups, target>>

(* finish_pending_cleanup with remove_managed_data; initialize_state gives  *)
(* up when it fails.                                                        *)
CleanupDatabase ==
    /\ stage = "cleanup"
    /\ LET d == locator.cleanup
       IN  \/ d = NoDirectory /\ NextStage("run") /\ UNCHANGED database
           \/ /\ d # NoDirectory
              /\ NextStage("cleanup_filters")
              /\ database' = IF d \in offline THEN database ELSE WithoutDir(database, d)
    /\ UNCHANGED <<locator, filterFiles, backups, target>>

CleanupFilters ==
    /\ stage = "cleanup_filters"
    /\ filterFiles' = IF locator.cleanup \in offline THEN filterFiles
                      ELSE WithoutDir(filterFiles, locator.cleanup)
    /\ NextStage("cleanup_done")
    /\ UNCHANGED <<locator, database, backups, target>>

CleanupDone ==
    /\ stage = "cleanup_done"
    /\ locator' = [locator EXCEPT !.cleanup = NoDirectory]
    /\ NextStage("run")
    /\ UNCHANGED <<database, filterFiles, backups, target>>

CleanupFails ==
    /\ \/ stage \in {"cleanup_filters", "cleanup_done"}
       \/ stage = "cleanup" /\ locator.cleanup # NoDirectory
    /\ FailTo("down")
    /\ UNCHANGED <<locator, database, filterFiles, backups, target>>

------------------------------------------------------------------------------
(* The running service saves settings and downloaded lists.                 *)
SaveData ==
    /\ stage = "run"
    /\ LET d == DataDir(locator)
       IN  \/ /\ database[d].saves < MaxSaves
              /\ database' = [database EXCEPT ![d].saves = @ + 1]
              /\ UNCHANGED filterFiles
           \/ /\ UNCHANGED database
              /\ IF d \in DOMAIN filterFiles
                   THEN /\ filterFiles[d].saves < MaxSaves
                        /\ filterFiles' = [filterFiles EXCEPT ![d].saves = @ + 1]
                   ELSE filterFiles' = WithDir(filterFiles, d, [origin |-> d, saves |-> 0])
    /\ UNCHANGED <<locator, backups, offline, stage, target, storageFaults>>

(* request_storage_change, with resolve_storage_target. *)
RequestStorageChange(d) ==
    /\ stage = "run"
    /\ d \notin offline
    /\ \/ /\ d = DataDir(locator)
          /\ locator' = [locator EXCEPT !.pending = NoDirectory, !.action = "none"]
       \/ /\ d # DataDir(locator) /\ Adoptable(d)
          /\ locator' = [locator EXCEPT !.pending = d, !.action = "use_existing"]
       \/ /\ d # DataDir(locator) /\ TargetAvailable(d)
          /\ locator' = [locator EXCEPT !.pending = d, !.action = "migrate"]
    /\ UNCHANGED <<database, filterFiles, backups, offline, stage, target, storageFaults>>

StorageStop ==
    /\ stage = "run"
    /\ NextStage("down")
    /\ UNCHANGED <<locator, database, filterFiles, backups, target>>

(* The process dies at any point; what is only in memory is gone. *)
StorageCrash ==
    /\ stage # "down"
    /\ FailTo("down")
    /\ target' = NoLocator /\ backups' = {}
    /\ UNCHANGED <<locator, database, filterFiles>>

(* While the service is down a volume goes away or comes back, and somebody *)
(* puts other data into a free directory (not into one still to be cleaned  *)
(* up, where they would go with the old copy).                              *)
VolumeChanges(d) ==
    /\ stage = "down" /\ d # DefaultDirectory
    /\ \/ d \in offline /\ offline' = offline \ {d} /\ UNCHANGED storageFaults
       \/ d \notin offline /\ offline' = offline \cup {d} /\ StorageFault
    /\ UNCHANGED <<locator, database, filterFiles, backups, stage, target>>

DataAppear(d) ==
    /\ stage = "down" /\ d \notin {DefaultDirectory, LegacyDirectory, locator.cleanup}
    /\ TargetAvailable(d)
    /\ StorageFault
    /\ \E f \in {"old", "unusable"} :
          database' = WithDir(database, d, [origin |-> d, saves |-> 0, form |-> f])
    /\ UNCHANGED <<locator, filterFiles, backups, offline, stage, target>>

StorageStartStep ==
    \/ PrepareServiceStorage \/ InitializeAt \/ InitializeFails
    \/ BackupDatabase \/ CopyFilters \/ EnableDatabase \/ EnableFilters
    \/ UndoDatabase \/ UndoFilters \/ AdoptBackup \/ UpgradeAdopted
    \/ WriteLocator \/ OpenDatabase
    \/ CleanupDatabase \/ CleanupFilters \/ CleanupDone

StorageNext ==
    \/ StorageStartStep
    \/ MigrationFails \/ AdoptionFails \/ CleanupFails
    \/ SaveData \/ StorageStop \/ StorageCrash
    \/ \E d \in Directories :
         RequestStorageChange(d) \/ VolumeChanges(d) \/ DataAppear(d)

(* The start-up goes on. *)
StorageFairness == WF_storageVars(StorageStartStep)
StorageSpec == StorageInit /\ [][StorageNext]_storageVars /\ StorageFairness

------------------------------------------------------------------------------
(* The variables keep their types; the locator never waits for an operation *)
(* without a directory or for a directory without an operation, and it      *)
(* never names the directory in use as one to move to or to clean up.       *)
StorageTypeOK ==
    /\ locator \in Locators /\ target \in Locators
    /\ DataDir(locator) \notin {locator.pending, locator.cleanup}
    /\ (locator.pending = NoDirectory) <=> (locator.action = "none")
    /\ DOMAIN database \subseteq Directories /\ Range(database) \subseteq Databases
    /\ DOMAIN filterFiles \subseteq Directories /\ Range(filterFiles) \subseteq FilterContents
    /\ backups \subseteq Directories \X Databases
    /\ offline \subseteq Directories
    /\ stage \in Stages
    /\ storageFaults \in 0..MaxStorageFaults

ContentOf(f, d) == IF d \in DOMAIN f THEN {[origin |-> f[d].origin, saves |-> f[d].saves]} ELSE {}

DataStoreView == INSTANCE DataStore
         WITH Origins <- Directories,
              settings <- ContentOf(database, DataDir(locator)),
              lists <- ContentOf(filterFiles, DataDir(locator)),
              wish <- locator.action = "use_existing"

(* Whatever step of a move, an adoption or a cleanup fails and wherever the *)
(* process dies, the directory the locator file names holds the latest      *)
(* settings and lists: the detailed start-up implements DataStore.          *)
StoredDataSurvive == DataStoreView!Spec

(* A database is deleted only while another directory holds the same data,  *)
(* at least as new (remove_managed_data and the undo of migrate_data).      *)
NeverTheLastCopy ==
    [][\A d \in DOMAIN database \ DOMAIN database' :
          \E e \in DOMAIN database' :
             /\ database'[e].origin = database[d].origin
             /\ database'[e].saves >= database[d].saves]_storageVars

(* Data the service does not use are changed only by the upgrade of an      *)
(* adoption, and only after the backup of exactly that state was made.      *)
AdoptionBackedUp ==
    [][\A d \in (DOMAIN database \cap DOMAIN database') \ {DataDir(locator)} :
          database'[d] # database[d] => <<d, database[d]>> \in backups]_storageVars

(* A start that has begun leads to a running service, through whatever      *)
(* failures, crashes and further starts, unless the directory it uses is    *)
(* not there: no change that was requested keeps the service down.          *)
StorageComesUp ==
    stage \notin {"down", "run"} ~> (stage = "run" \/ DataDir(locator) \in offline)

(* No step of a move, an undo, a clean-up or an adoption takes the last copy *)
(* of anybody's data: deletions leave another copy, upgrades of foreign data a*)
(* backup, and the locator never names the directory in use as one to clean. *)
DataNeverLost == []StorageTypeOK /\ NeverTheLastCopy /\ AdoptionBackedUp
=============================================================================
