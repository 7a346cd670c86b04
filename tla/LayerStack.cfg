SPECIFICATION Spec
CONSTANT
    N = 2
    Settings <- MCSettings
INVARIANTS NothingWaits EndBehindData LimitKept GracefulDelivers
CHECK_DEADLOCK FALSE
