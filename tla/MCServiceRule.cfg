SPECIFICATION Spec
CONSTANTS
    Clients = {c1, c2}
    AutoUpdater = updater
    Operations = {"rule", "stop"}
    Structures = {s1}
    Rules = {r1, r2}
    Lists = {l1}
    Urls = {u1}
    MaxDownloads = 1
    MaxFaults = 0
    MaxCrashes = 0
    None = None
SYMMETRY Symmetry
INVARIANTS LastEditStands
