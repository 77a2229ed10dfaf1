SPECIFICATION SafetySpec
CONSTANTS
    s1 = s1
    s2 = s2
    s3 = s3
    Streams = {s1, s2, s3}
    Ids = {1, 2, 3}
    None = None
    r1 = r1
    r2 = r2
    Requests = {r1, r2}
    MaxActive = 2
    MaxSessions = 2
    Window = 1
    LinkTtl = 2
    Life <- Lives
    MaxFaults = 1
    Repeat = 3
    FailStreak = 2
    MaxDays = 2
    MaxUnsaved = 1
    MaxReloads = 1
    a1 = a1
    Admins = {a1}
    MaxNames = 2
    Codes = {"plain", "chrome"}
    Browser = {"chrome"}
    Files <- ThreeFiles
    MaxVersions = 2
    MaxSize = 4
    MaxRows = 3
    MaxItems = 4
    MaxEvents = 6
    MaxLimit = 2
    MaxFiles = 2
    MaxTable = 3
    RateMinute = 2
    MaxLines = 2
CHECK_DEADLOCK FALSE
SYMMETRY Symmetry
INVARIANTS RegistryOK DeadIsMarked   FlagFollowsScript 
PROPERTIES EvictsIdle ScriptKept
