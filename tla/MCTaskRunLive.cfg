SPECIFICATION FairSpec
CONSTANTS
    j1 = j1
    Sources = {1, 2}
    Before <- RankedBefore
    Starred = {2}
    Wants = {0, 1}
    Jobs = {j1}
    Waiters = {}
    Requests = {"more", "refresh"}
    PromptTail = TRUE
    MaxVersion = 3
    MaxFaults = 1
    MaxToggles = 0
    MaxRestarts = 1
CHECK_DEADLOCK FALSE
PROPERTY Settles
