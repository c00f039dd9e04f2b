SPECIFICATION Spec
CONSTANTS
    MaxStamp = 3
    MaxRestarts = 0
    MaxQueue = 1
    MaxKeyframes = 3
    MaxLoops = 1
    FailureLimit = 1
    Motions = {0, 1}
    Shifts = {1}
INVARIANTS
    MotionCounted
CHECK_DEADLOCK FALSE
