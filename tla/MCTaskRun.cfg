SPECIFICATION Spec
CONSTANTS
    j1 = j1
    j2 = j2
    Sources = {1, 2}
    Before <- RankedBefore
    Starred = {2}
    Wants = {0, 1}
    Jobs = {j1, j2}
    Waiters = {}
    Requests = {"more", "refresh"}
    PromptTail = TRUE
    MaxVersion = 4
    MaxFaults = 2
    MaxToggles = 1
    MaxRestarts = 1
CHECK_DEADLOCK FALSE
SYMMETRY Symmetry
INVARIANTS SingleFlight InFlightOwned RowIsHonest
PROPERTIES AskedOnce VersionGrows
