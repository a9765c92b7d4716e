SPECIFICATION PoliciesSpec
CONSTANTS
    RmLines <- MCRmLines
    RmNames <- MCRmNames
    RmTypes = {"A", "AAAA"}
    MaxRmLines = 3
    RcLists = {l1}
    RcTexts = {x, y}
    RcNone = none
    RcBadfilters = {y}
    RcThreads = {t1, t2}
    MaxRcSteps = 2
    MaxRcFaults = 1
    CpLines <- MCCpLines
    CpHostLines <- MCCpHostLines
    CpNames <- MCCpNames
    CpBits <- MCCpBits
    CpDays = 3
    CpMinutes = 3
    CpLocalNetworks <- MCCpLocal
    CpLabelBits = 2
    CpLabels = 2
    MaxCpLines = 4
    DsEntries <- MCDsEntries
    DsRetentions = {0, 1, 2}
    DsMaxRetention = 2
    DsTrend = 2
    DsLogRetention = 1
    DsPageSize = 1
    MaxDsTime = 3
    MaxDsEntries = 2
    MaxDsFaults = 1
    AcClients = {c1, c2}
    AcLimits = {0, 1}
    AcBurst = 2
    AcTtl = 2
    AcPruneInterval = 2
    AcMaxClients = 1
    MaxAcBacks = 1
    MaxAcMoves = 2
INVARIANTS RmSearchRight  DsStatisticsRight
PROPERTIES RcCacheTrue 
CHECK_DEADLOCK FALSE
