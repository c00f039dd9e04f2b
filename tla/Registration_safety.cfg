\* Two cells that may pick the same patch, a worker with one of its own; three
\* keyframes, so that the first is old enough to be recognised from the third.
SPECIFICATION Spec
CONSTANTS
    PC_NUM_RING = 2
    PC_NUM_SECTOR = 4
    PC_MAX_RADIUS = 4
    FullTurn = 8
    SEARCH_RATIO = 10
    SC_DIST_THRES = 13
    NUM_EXCLUDE_RECENT = 2
    Cells <- MCCells
    KeyframeCells <- MCKeyframeCells
    GroundCells <- MCNone
    Patches = {a, b}
    GroundPatches <- MCNone
    MaxIoU = 2
    max_region_pairs = 1
    MinPairs = 2
    Scans <- MCScans
    MaxKeyframes = 3
SYMMETRY Symmetry
INVARIANTS
    TypeOK MutualBest NothingLeft RevisitRecognised
CHECK_DEADLOCK FALSE
