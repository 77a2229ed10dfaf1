SPECIFICATION ServicesSpec
CONSTANTS
    t1 = t1
    t2 = t2
    t3 = t3
    Tasks = {t1, t2, t3}
    Finished = {t1, t2}
    Limit = 1
    MaxQueued = 1
    MaxQueue = 2
    RatePerMin = 2
    Minute = 2
    Attempts = 2
    MaxEmits = 5
    i1 = i1
    i2 = i2
    LibItems = {i1, i2}
    EveryTicks = 2
    GapTicks = 1
    MaxAsked = 2
    MaxScanFaults = 1
    r1 = r1
    r2 = r2
    x1 = x1
    TaskRuns = {r1, r2}
    Tests = {x1}
    Heavy = {r1, x1}
    Forking = {r1}
    MaxBrowsers = 1
    MaxParallel = 1
    l1 = l1
    l2 = l2
    l3 = l3
    Listeners = {l1, l2, l3}
    AudioConcurrency = 2
INVARIANTS PermitsConserved  CleanSparesLive SlotsExact ScriptsDie AudioPermits
PROPERTIES ImplementsSlotLine Served QueueDrains LeftoversGo HostServes RunsEnd PermitComesBack
