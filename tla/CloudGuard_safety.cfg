\* Seven keyframes: three segments, two strict loops queued at once, and
\* keyframes on both sides of the loops.
SPECIFICATION Spec
CONSTANT MaxKeyframes = 7
INVARIANTS
  TypeOK
  FlagsReturned
  CloudsKept
\* The number of keyframes is bounded, so every behaviour comes to an end.
CHECK_DEADLOCK FALSE
