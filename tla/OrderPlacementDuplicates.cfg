SPECIFICATION Spec
CONSTANTS
    Calls = {c1, c2}
    Keys = {k1}
    Bodies = {2, 3}
    Balance = 5
    MaxFee = 1
CHECK_DEADLOCK FALSE
PROPERTY
    DuplicatesReplay
