SPECIFICATION Spec
CONSTANTS
    MaxStamp = 5
    MaxRestarts = 1
    MaxQueue = 1
    MaxKeyframes = 4
    MaxLoops = 2
    FailureLimit = 1
    Motions = {1}
    Shifts = {2}
INVARIANTS
    TypeOK NumbersHold AnchorExact PoseCarried
CHECK_DEADLOCK FALSE
