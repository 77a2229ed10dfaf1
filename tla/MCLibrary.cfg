SPECIFICATION Spec
CONSTANTS
    c1 = c1
    Items = {1, 2}
    Clients = {c1}
    Ttls = {2}
    Mode = "hls"
    Slots = 1
    Admin = {"sweep_orphans", "forget_finished", "clear_history", "cancel_downloads"}
    MaxFaults = 1
    MaxRestarts = 1
    MaxTroubles = 1
CHECK_DEADLOCK FALSE
INVARIANTS  NoFolderLeft ActiveHasDownload
PROPERTY DeletedStays
