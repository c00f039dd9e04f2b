\* Five keyframes: enough for the adjustment to lose its clouds to a reset as
\* well as to a write.
SPECIFICATION Spec
CONSTANT MaxKeyframes = 5
INVARIANTS
  UsedCloudsStable
\* The number of keyframes is bounded, so every behaviour comes to an end.
CHECK_DEADLOCK FALSE
