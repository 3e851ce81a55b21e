SPECIFICATION Spec
CONSTANTS
    Workers = {w1, w2}
    chat = chat
    Chats = {chat}
    ChatOf <- OneChat
    MaxMessages = 2
    MaxRetries = 1
    DailyUpdates = 1
    DailyDeals = 1
    DailyTasks = 2
    TasksPerChat = 1
    InsightStep = 2
    MaxTroubles = 2
    MaxChanges = 1
    Menus <- Mixes
    None = None
SYMMETRY Symmetry
INVARIANTS
    Inv
    RecordsMatchEffects
    UsageWithinLimits
PROPERTIES
    ManagersDataStays
CHECK_DEADLOCK FALSE
