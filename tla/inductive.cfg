SPECIFICATION Spec
CONSTANTS
    Nil = Nil
    Server = {1, 2}
    Proposer = {1, 2}
    DataKey = {key}
    CoordinatorKey = coordinator_key
    Value = {v1}
    Run = {r1, r2}
    RandomFail = {TRUE, FALSE}
    MaxPerKey = 2
    MaxFaults = 1
    MaxCrashes = 1
SYMMETRY Symmetry
INVARIANTS TypeOK IInv LaterRunAdopts AcceptedWasProposed InformedOrSuperseded
CHECK_DEADLOCK FALSE
