\* Refinement and liveness, without symmetry (unsound for liveness): one patch
\* and one keyframe suffice, since no property here looks at the map.
SPECIFICATION FairSpec
CONSTANTS
  MaxGen = 3
  Workers = {w1, w2}
  Patches = {p1}
  Keyframes = {k1}
  NoKeyframe = NoKeyframe
PROPERTIES
  ImplementsPipeline
  Progress
CHECK_DEADLOCK FALSE
