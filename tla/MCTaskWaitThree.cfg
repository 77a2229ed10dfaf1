SPECIFICATION WSpec
CONSTANTS
    j1 = j1
    w1 = w1
    Sources = {1, 2, 3}
    Before <- RankedBefore
    Starred = {2}
    Wants = {0, 2}
    Jobs = {j1}
    Waiters = {w1}
    Modes = {"first_starred"}
    Requests = {}
    PromptTail = TRUE
    MaxVersion = 5
    MaxFaults = 0
    MaxToggles = 0
    MaxRestarts = 0
CHECK_DEADLOCK FALSE
INVARIANTS AsksAsNeeded StarFallback
