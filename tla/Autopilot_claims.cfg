SPECIFICATION Spec
CONSTANTS
    Workers = {w1, w2}
    Chats = {c1}
    MaxMessages = 4
    Modes = {"always", "fallback"}
    Delays = {0}
    BatchingWindow = 0
    RetryDelays <- NoRetry
    DailyReplies = 1
    DailyTasks = 1
    HourlyReplies = 5
    ConsecutiveReplies = 5
    EscalationMessages = 2
    Hour = 2
    Dates = {1, 2}
    DateAt <- OneDate
    BatchLimit = 2
    MaxTime = 0
    Faults = {"crash", "broadcast"}
    MaxFaults = 1
    MaxChanges = 1
    NoMessage = NoMessage
SYMMETRY Symmetry
INVARIANTS
    Inv
    DailyLimit
PROPERTIES
    CancelledStaysSilent
CHECK_DEADLOCK FALSE
