CONSTANTS
    Width = 4
    FirstSn = 15
    Mss = 1
    InitialWnd = 3
    DeadLink = 3
    HoldBatch = 1
    MaxBuffered = 3
    MaxWire <- MCMaxWire
    Options <- MCOptions
    Writers = {"client"}
SPECIFICATION Spec
INVARIANTS AckedReceived NothingStalls
PROPERTIES StreamKept
CHECK_DEADLOCK FALSE
