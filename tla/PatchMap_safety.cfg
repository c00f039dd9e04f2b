SPECIFICATION Spec
CONSTANTS
    Cut = 2
    Skin = 0
    IoUThreshold = 90
    Motions = {0}
    Offsets = {0}
    Shifts = {1}
    MaxKeyframes = 4
    MaxPatches = 2
    MaxLoops = 2
INVARIANTS
    TypeOK
    PlacedExact
    OwnersExact
    HolesOnlyCrossed
    AssociationsFollow
PROPERTY RebindsForward
CHECK_DEADLOCK FALSE
