SPECIFICATION FairSpec
CONSTANTS
    c1 = c1
    Items = {1}
    Clients = {c1}
    Ttls = {1}
    Mode = "hls"
    Slots = 1
    Admin = {"cancel_downloads"}
    MaxFaults = 0
    MaxRestarts = 0
    MaxTroubles = 1
CHECK_DEADLOCK FALSE
PROPERTY Settles
