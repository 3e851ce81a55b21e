SPECIFICATION LiveSpec
CONSTANTS
    Workers = {w1, w2}
    Requests = {r1}
    Chats = {c1}
    Keys = {k1}
    MaxMessages = 1
    RetryDelay = 1
    IdempotencyTTL = 1
    MaxDeliveryAttempts = 2
    BatchLimit = 1
    MaxTime = 1
    MaxFaults = 1
    NoMessage = NoMessage
INVARIANTS
    CopiesAccounted
PROPERTIES
    Implements
    EverySentMessageSettles
