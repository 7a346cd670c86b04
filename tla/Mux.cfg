SPECIFICATION Spec
CONSTANTS
    Ids = {1, 2}
    MinWindow = 1
    GrantShare = 1
    Room = 2
    Settings <- MCSettings
INVARIANTS BytesAccounted NothingOwed 
PROPERTY StreamKept
CHECK_DEADLOCK FALSE
