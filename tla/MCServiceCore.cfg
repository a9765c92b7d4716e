SPECIFICATION Spec
CONSTANTS
    Clients = {c1}
    AutoUpdater = updater
    Operations = {"save", "start", "stop"}
    Structures = {s1, s2}
    Rules = {r1}
    Lists = {l1, l2}
    Urls = {u1, u2}
    MaxDownloads = 1
    MaxFaults = 1
    MaxCrashes = 1
    None = None
SYMMETRY Symmetry
INVARIANTS TypeOK ServerServesConfig
PROPERTIES PublishedAsSubscribed RestoredExactly
