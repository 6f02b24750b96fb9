SPECIFICATION FairServiceSpec
CONSTANTS
    Nil = Nil
    Server = {1, 2}
    Proposer = {1, 2}
    DataKey = {key}
    CoordinatorKey = coordinator_key
    Value = {}
    Run = {r1, r2, r3, r4}
    RandomFail = {FALSE}
    MaxPerKey = 1
    MaxFaults = 0
    MaxCrashes = 2
    MaxStarts = 1
    StartsAlone = TRUE
    Client = {c1}
    Contact = {2}
    First = 1
    MaxRequests = 1
    MaxTimeouts = 0
PROPERTY RequestsAnswered
CHECK_DEADLOCK FALSE
