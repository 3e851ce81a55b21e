SPECIFICATION Spec
CONSTANTS
    Workers = {w1, w2}
    Requests = {r1, r2}
    Chats = {c1, c2}
    Keys = {k1}
    MaxMessages = 2
    RetryDelay = 1
    IdempotencyTTL = 1
    MaxDeliveryAttempts = 1
    BatchLimit = 2
    MaxTime = 1
    MaxFaults = 0
    NoMessage = NoMessage
SYMMETRY Symmetry
INVARIANTS
    Inv
    OneMessagePerLiveKey
PROPERTIES
    NoSendAfterDelete
