SPECIFICATION Spec
CONSTANTS
    Requests = {r1, r2}
    Deals = {d1, d2}
    Tasks = {t1, t2}
    Contacts = {c1, c2}
    Workspace = w
    Keys = {k1}
    Menus <- MixedMenus
    MaxStages = 4
    StageLimit = 3
    Gap = 10
    MaxVersion = 3
    None = None
SYMMETRY Symmetry
INVARIANTS
    Inv
    NoLostUpdate
    OneResultPerKey
PROPERTIES
    NothingAfterDeletion
CHECK_DEADLOCK FALSE
