SPECIFICATION FairLifeSpec
CONSTANTS
    Nil = Nil
    Server = {1, 2}
    Proposer = {1, 2}
    DataKey = {key}
    CoordinatorKey = coordinator_key
    Value = {v1}
    Run = {r1, r2}
    RandomFail = {FALSE}
    MaxPerKey = 1
    MaxFaults = 1
    MaxCrashes = 1
    MaxStarts = 4
    StartsAlone = TRUE
INVARIANTS FollowersCatchUp FollowIInv
PROPERTIES StartsEnd
CHECK_DEADLOCK FALSE
