SPECIFICATION FairServiceSpec
CONSTANTS
    Nil = Nil
    Server = {1, 2}
    Proposer = {1, 2}
    DataKey = {key}
    CoordinatorKey = coordinator_key
    Value = {}
    Run = {r1, r2, r3, r4, r5}
    RandomFail = {FALSE}
    MaxPerKey = 1
    MaxFaults = 0
    MaxCrashes = 1
    MaxStarts = 0
    StartsAlone = TRUE
    Client = {c1}
    Contact = {1, 2}
    First = 1
    MaxRequests = 1
    MaxTimeouts = 2
INVARIANT ServiceTypeOK
PROPERTIES RequestsAnswered RunsReturn 
CHECK_DEADLOCK FALSE
