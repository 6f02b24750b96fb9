SPECIFICATION LifeSpec
CONSTANTS
    Nil = Nil
    Server = {1, 2}
    Proposer = {1, 2}
    DataKey = {key}
    CoordinatorKey = coordinator_key
    Value = {v1}
    Run = {r1, r2}
    RandomFail = {FALSE}
    MaxPerKey = 2
    MaxFaults = 0
    MaxCrashes = 1
    MaxStarts = 3
    StartsAlone = FALSE
SYMMETRY Symmetry
INVARIANTS LifeTypeOK RecoveredWasChosen AcceptedWasProposed LifeIInv
CHECK_DEADLOCK FALSE
