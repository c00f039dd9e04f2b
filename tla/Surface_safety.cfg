\* Five scans: the plane is fixed by the third, and the patch stops being new
\* before the last; two adjustments, so that one follows the other's commit.
\* The mask takes three words, the last of them not full.
SPECIFICATION FileSpec
CONSTANTS
  MaxScans = 5
  MaxAdjustments = 2
  UpdateSteps = 1
  UpdateTimes = 1
  MinimumScans = 3
  MaxDegree = 1
  GroundDegree = 0
  ImageSide = 3
  WordSize = 4
INVARIANTS
  FileTypeOK
  CacheCoherent
  ScansAccounted
  ReadsBack
\* The number of scans is bounded, and the process may end in a refresh.
CHECK_DEADLOCK FALSE
