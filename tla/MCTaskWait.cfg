SPECIFICATION WFairSpec
CONSTANTS
    j1 = j1
    w1 = w1
    Sources = {1, 2}
    Before <- RankedBefore
    Starred = {2}
    Wants = {1}
    Jobs = {j1}
    Waiters = {w1}
    Modes = {"first_starred", "change"}
    Requests = {"more"}
    PromptTail = TRUE
    MaxVersion = 3
    MaxFaults = 0
    MaxToggles = 0
    MaxRestarts = 0
CHECK_DEADLOCK FALSE
INVARIANT NoLostWakeup
PROPERTY Answered
