SPECIFICATION Spec
CONSTANTS
    c1 = c1
    Items = {1, 2}
    Clients = {c1}
    Ttls = {1, 2}
    Mode = "hls"
    Slots = 1
    Admin = {}
    MaxFaults = 0
    MaxRestarts = 0
    MaxTroubles = 1
CHECK_DEADLOCK FALSE
PROPERTY ExtensionKept
