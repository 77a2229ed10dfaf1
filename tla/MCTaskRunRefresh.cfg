SPECIFICATION Spec
CONSTANTS
    j1 = j1
    j2 = j2
    Sources = {1, 2}
    Before <- RankedBefore
    Starred = {2}
    Wants = {0, 1}
    Jobs = {j1, j2}
    Waiters = {}
    Requests = {"more", "refresh"}
    PromptTail = TRUE
    MaxVersion = 4
    MaxFaults = 0
    MaxToggles = 0
    MaxRestarts = 0
CHECK_DEADLOCK FALSE
SYMMETRY Symmetry
INVARIANT RenewedNotExpired
