SPECIFICATION LiveSpec
CONSTANTS
    Workers = {w1, w2}
    Chats = {c1}
    MaxMessages = 2
    Modes = {"always", "fallback"}
    Delays = {1}
    BatchingWindow = 1
    RetryDelays <- OneRetry
    DailyReplies = 2
    DailyTasks = 1
    HourlyReplies = 5
    ConsecutiveReplies = 5
    EscalationMessages = 2
    Hour = 2
    Dates = {1, 2}
    DateAt <- OneDate
    BatchLimit = 2
    MaxTime = 1
    Faults = {"broadcast"}
    MaxFaults = 1
    MaxChanges = 1
    NoMessage = NoMessage
PROPERTIES
    EveryJobSettles
CHECK_DEADLOCK FALSE
