SPECIFICATION Spec
CONSTANT
    N = 2
    Settings <- MCStuck
INVARIANT NothingWaits
CHECK_DEADLOCK FALSE
