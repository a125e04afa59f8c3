\* Two tabs that refresh, sign in and out and change the password
CONSTANTS
    b1 = b1
    b2 = b2
    t1 = t1
    t2 = t2
    t3 = t3
    NoToken = NoToken
    Tabs = {b1, b2}
    Tokens = {t1, t2, t3}
    MaxPassword = 1
    Limit = 1
    Production = TRUE
    MaxCount = 2
SPECIFICATION Spec
SYMMETRY SymTabs
INVARIANTS StorageSound ChangeEndsSessions WindowBounded
CHECK_DEADLOCK FALSE
