SPECIFICATION LiveSpec
CONSTANTS
    Workers = {w1, w2}
    Requests = {r1}
    Customers = {anna, boris}
    Handles = {phone}
    anna = anna
    boris = boris
    phone = phone
    Payloads <- ThreePayloads
    MaxUpdates = 2
    MaxAdded = 1
    MaxAttempts = 2
    BatchLimit = 2
    MaxFaults = 1
    Nobody = Nobody
    NoHandle = NoHandle
    NoRow = NoRow
INVARIANTS
    Inv
    MessagesMatchLog
    OneContactPerPerson
PROPERTIES
    EveryUpdateSettles
CHECK_DEADLOCK FALSE
