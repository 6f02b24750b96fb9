SPECIFICATION LifeSpec
CONSTANTS
    Nil = Nil
    Server = {1, 2}
    Proposer = {1, 2}
    DataKey = {key}
    CoordinatorKey = coordinator_key
    Value = {v1}
    Run = {r1, r2, r3}
    RandomFail = {FALSE}
    MaxPerKey = 1
    MaxFaults = 0
    MaxCrashes = 1
    MaxStarts = 3
    StartsAlone = TRUE
SYMMETRY Symmetry
INVARIANT AnyServerRecovers
CHECK_DEADLOCK FALSE
