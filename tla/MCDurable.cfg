SPECIFICATION DurableSpec
CONSTANTS
    Directories = {dd, ld, xd}
    DefaultDirectory = dd
    LegacyDirectory = ld
    NoDirectory = nodir
    MaxSaves = 1
    MaxStorageFaults = 2
    DmHistory = 3
    MaxDmFaults = 2
    MaxDmInserts = 1
    MaxLnFaults = 2
    MaxLnEdits = 2
    Adapters = {a1}
    MaxWnFaults = 3
    MaxWnEdits = 1
INVARIANT DmHistoryKept
PROPERTIES StoredDataSurvive DataNeverLost StorageComesUp LnJournalled WnJournalled SystemGivenBack
CHECK_DEADLOCK FALSE
