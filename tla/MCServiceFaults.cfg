SPECIFICATION FairSpec
CONSTANTS
    Clients = {c1}
    AutoUpdater = updater
    Operations = {"rule", "stop", "manual"}
    Structures = {s1}
    Rules = {r1, r2}
    Lists = {l1}
    Urls = {u1}
    MaxDownloads = 1
    MaxFaults = 2
    MaxCrashes = 1
    None = None
INVARIANTS ServerServesConfig LastEditStands
PROPERTY ServiceLiveness
