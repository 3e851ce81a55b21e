SPECIFICATION EitherSpec
CONSTANTS
    Workers = {w1}
    Requests = {r1, r2}
    MaxDocs = 3
    DayStart <- TwoDays
    Menus <- Separate
    MaxFiles = 2
    MaxStorage = 2
    ProcessingTimeout = 0
    BatchLimit = 1
    MaxAttempts = 1
    NoDoc = NoDoc
    Handlers = {h1, h2}
    Scanners = {s1}
    Tasks = {t1}
    Chats = {c1}
    MaxNotices = 3
    MaxTime = 2
    MaxStops = 1
    MaxFaults = 0
    Size <- MixedSize
    Window = 0
    MissedAfter = 1
    None = None
SYMMETRY Symmetry
INVARIANTS
    WithinLimits
    FilesMatchRows
    NoticesInv
    OncePerDay
    
