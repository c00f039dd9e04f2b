\* Three loops, so that two tasks can be queued behind the one being adjusted;
\* three threads, so that an old worker, its successor and a rival can coexist;
\* two patches and two keyframes, so that plans can overlap and be stale.
SPECIFICATION Spec
CONSTANTS
  MaxGen = 3
  Workers = {w1, w2, w3}
  Patches = {p1, p2}
  Keyframes = {k1, k2}
  NoKeyframe = NoKeyframe
SYMMETRY Symmetry
INVARIANTS
  TypeOK
  SingleOptimiser
  Stage3Exclusive
  RebindSafe
  RefcountExact
  PlansHold
  ResultsInOrder
  NoLostTask
  Tickets
\* A worker may wait for ever once the tracking thread has ended.
CHECK_DEADLOCK FALSE
