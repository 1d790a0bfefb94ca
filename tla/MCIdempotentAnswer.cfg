SPECIFICATION EnqueueSpec
CONSTANTS
    Caller = {c1, c2, c3}
    Key = {k1, k2}
    MaxTasks = 4
    MaxFaults = 0
INVARIANTS ExistingReturned
CHECK_DEADLOCK FALSE
