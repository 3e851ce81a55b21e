SPECIFICATION Spec
CONSTANTS
    Requests = {r1, r2}
    Users = {u1, u2}
    Emails = {e1, e2}
    Menus <- MixedMenus
    MaxTokens = 3
    MaxCodes = 2
    MaxFiles = 2
    MaxPasswords = 1
    LoginLimit = 1
    AskLimit = 2
    MaxGuesses = 1
    MaxSends = 2
    MaxFaults = 1
    None = None
SYMMETRY Symmetry
INVARIANTS
    Inv
    SessionsKnowPassword
PROPERTIES
    NoStaleLetter
CHECK_DEADLOCK FALSE
