SPECIFICATION LiveSpec
CONSTANTS
    Workers = {w1, w2}
    Requests = {r1}
    MaxDocs = 1
    Size <- UnitSize
    MaxFiles = 2
    MaxStorage = 2
    ProcessingTimeout = 1
    BatchLimit = 1
    MaxAttempts = 3
    MaxFaults = 1
    NoDoc = NoDoc
INVARIANTS
    Inv
    IndexIsOfLastRun
PROPERTIES
    ClaimHonoured
    EveryDocumentSettles
