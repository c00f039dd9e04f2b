\* Four backend keyframes: three loops, two of them in flight while one is applied.
SPECIFICATION Spec
CONSTANT LastKeyframe = 4
INVARIANTS
  TypeOK
  Rooted
  LoopsOwned
  SkipHonoured
  TreeExact
\* The number of keyframes is bounded, so every behaviour comes to an end.
CHECK_DEADLOCK FALSE
