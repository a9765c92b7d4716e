----------------------------- MODULE MCDurable ------------------------------
(* What has to outlive a crash: the data directory, the schema of the        *)
(* database in it, and the settings of the system that were taken over on    *)
(* Linux and on Windows.  They share no state: the initial state says which  *)
(* of them runs, and the others stand still.  Only the start of the storage  *)
(* has fairness; in a behaviour of another part no start has begun.          *)
EXTENDS StorageMigration, SchemaMigration, LinuxSystemDns, WindowsSystemDns

VARIABLE part

DurableInit ==
    /\ part \in {"storage", "schema", "linux", "windows"}
    /\ StorageInit /\ DmInit /\ LnInit /\ WnInit
    /\ part # "schema" => dmDb = CHOOSE v \in DmVersions : TRUE

StoragePart == part = "storage" /\ StorageNext /\ UNCHANGED <<dmVars, lnVars, wnVars, part>>
SchemaPart == part = "schema" /\ DmNext /\ UNCHANGED <<storageVars, lnVars, wnVars, part>>
LinuxPart == part = "linux" /\ LnNext /\ UNCHANGED <<storageVars, dmVars, wnVars, part>>
WindowsPart == part = "windows" /\ WnNext /\ UNCHANGED <<storageVars, dmVars, lnVars, part>>

DurableNext == StoragePart \/ SchemaPart \/ LinuxPart \/ WindowsPart
DurableSpec ==
    /\ DurableInit /\ [][DurableNext]_<<storageVars, dmVars, lnVars, wnVars, part>>
    /\ StorageFairness

(* What was taken over is given back on both platforms: the service that is  *)
(* named as the resolver serves, an orderly stop and an uninstallation leave *)
(* nothing pointing to it, and servers the user has set since stay.          *)
SystemGivenBack ==
    /\ [](LnTypeOK /\ WnTypeOK /\ LnManagedServes)
    /\ LnStopRestores /\ WnUserServersKept /\ WnUninstallRestores
=============================================================================
