SPECIFICATION Spec
CONSTANTS
    Calls = {c1, c2, c3}
    Keys = {k1, k2}
    Bodies = {2, 3}
    Balance = 5
    MaxFee = 1
CHECK_DEADLOCK FALSE
INVARIANTS
    TypeOK
    HoldTakenOnce
    VerdictsAreStored
    ReuseNeverExecutes
