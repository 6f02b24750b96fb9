SPECIFICATION ServiceSpec
CONSTANTS
    Nil = Nil
    Server = {1, 2}
    Proposer = {1, 2}
    DataKey = {key}
    CoordinatorKey = coordinator_key
    Value = {v1}
    Run = {r1, r2, r3, r4, r5}
    RandomFail = {FALSE}
    MaxPerKey = 2
    MaxFaults = 0
    MaxCrashes = 1
    MaxStarts = 0
    StartsAlone = TRUE
    Client = {c1}
    Contact = {1, 2}
    First = 1
    MaxRequests = 2
    MaxTimeouts = 1
INVARIANT ReadsAreCurrent
CHECK_DEADLOCK FALSE
