SPECIFICATION Spec
CONSTANTS
    Nil = Nil
    Server = {1, 2}
    Proposer = {1}
    DataKey = {key}
    CoordinatorKey = coordinator_key
    Value = {v1, v2}
    Run = {r1, r2}
    RandomFail = {FALSE}
    MaxPerKey = 2
    MaxFaults = 0
    MaxCrashes = 0
SYMMETRY Symmetry
PROPERTY OnlyLatestExecutes
CHECK_DEADLOCK FALSE
