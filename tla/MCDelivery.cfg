SPECIFICATION FairSpec
CONSTANTS
    r1 = r1
    r2 = r2
    Cands = {1, 2, 3}
    Plans = {{}, {1, 2}, {1, 3}}
    Lang <- Langs
    Content <- Contents
    DefaultLang = "en"
    Concurrency = 2
    Clients = {r1, r2}
    Segments = 2
    MinSegments = 1
    MaxFaults = 1
    MaxPacks = 2
    MaxRestarts = 1
CHECK_DEADLOCK FALSE
INVARIANTS TracksAreFiles 
PROPERTIES OnePack SubtitlesSettle TimeIsUp
