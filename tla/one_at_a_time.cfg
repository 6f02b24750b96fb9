SPECIFICATION Spec
CONSTANTS
    Nil = Nil
    Server = {1, 2, 3}
    Proposer = {1}
    DataKey = {key}
    CoordinatorKey = coordinator_key
    Value = {v1, v2}
    Run = {r1, r2}
    RandomFail = {TRUE, FALSE}
    MaxPerKey = 1
    MaxFaults = 0
    MaxCrashes = 1
SYMMETRY Symmetry
INVARIANTS SettledReplicasAgree FreshRound ExecutedWasChosen ElectionsStayApart SerialIInv
PROPERTY ImplementsSerialStore
CHECK_DEADLOCK FALSE
