\* One loop is enough: its worker stores APPLYING after stage 3 stored IDLE.
SPECIFICATION Spec
CONSTANTS
  MaxGen = 1
  Workers = {w1}
  Patches = {p1}
  Keyframes = {k1}
  NoKeyframe = NoKeyframe
INVARIANT IdleWhenNoLoop
CHECK_DEADLOCK FALSE
