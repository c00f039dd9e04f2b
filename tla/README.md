# CURL-SLAM: TLA+ models and proofs

CURL-SLAM is a LiDAR mapping system. A ROS node divides each scan into patches,
registers them against a map of patches whose surfaces are spherical-harmonic images,
creates keyframes, detects loop closures, and repairs the map with a bundle adjustment
that runs on another thread beside the tracking. A second program shows the map from a
file. The modules here are about what a test hardly reaches in it: the *control* (threads
that stand in for one another, flags in place of locks, plans frozen at one time and
applied seconds later, indices kept in step) and the *discrete geometry* (cells, images
and trees whose borders and roundings decide which point belongs where).

## Inventory

| Part | State | Operations | Interacts with | Hard behaviour | Correct when |
|---|---|---|---|---|---|
| `CurlTracking::run` (`lib/CurlTracking.cpp`) | poses, anchor, `is_initial`, failure counter | one frame: apply results, register, keyframe, detect a loop, update patches | everything | corrections and resets between two frames | each motion counted once, the anchor is its keyframe |
| Strict-loop pipeline (`CurlTracking.cpp`) | `strict_ba_queue`, `pending_lc_results`, `lc_state`, `strict_lc_running`, `strict_stage3_done_gen`, generations | stage 1, queue, worker, stage 3 | pose graph, map | thread start and restart, hand-over, staleness | one optimiser, no lost task, stage 3 alone, in order, everything applied |
| `CurlPoseGraph` | constraints, deferred packs, removal refcount, skip mark, search index | add and remove constraints, solve, plan and apply removals, adjust, find candidates | keyframes, patches | frozen plans, constraints replaced after an adjustment | plans stay valid, counts exact, graph connected, search exact |
| Keyframe clouds (`KeyframeInfo`) | two cloud pointers, `is_being_used_by_ba` | create, merge in place, adjust, clear | tracking, worker | check-then-act without a lock | clouds that are wanted are kept |
| `SpatialHashing` | keyframe set by time, map by number, patch registry, grid | insert, erase, rebind, move, query | all | positions used as numbers, indices kept in step | indices agree with the patches |
| `TrajectoryLabel` | neighbour sets | connect, merge | loop detection, clouds | pairwise merges | who may see whom |
| `CurlVoxelMapping` | frame queue, `data_asso` of patches, scan contexts | callbacks, division, registration, keyframe creation | tracking, worker | both threads associate the same patches | pairs mutual, nothing left behind |
| `PatchProcession` | accumulators, coefficients, image pyramid, marker rows, projection plane | add scan, recompute, change plane, commit, publish | tracking, worker, viewer | caches behind their source | no scan lost, no stale cache |
| `CurlLocalBA`, factors (`optimization_types.h`) | copies of the coefficients, masks, residuals | copy, set up, solve, copy back | worker | modes, levels, holes in the image | a residual is the distance at that place |
| `Scancontext` | descriptors, keys | describe, align, compare | loop detection | wrap-around, ties | a revisit is recognised |
| `CurlContinuousRecons` | patches read from the file, configuration | load, reconfigure, save reduced | file, configuration | file without header, cut short | reads back what was written |
| I/O, configuration, vendored code | | | | | not modelled |

`PROJECT.json` lists every part with its status and every hazard at its line.

## Modules

| Module | Models | Role |
|---|---|---|
| `StrictLoop` | `run`, `start_strict_lc_task`, `strict_lc_worker`, stage 1, `apply_pending_lc_if_any`, rebinding, removal plans as seen by several threads | component |
| `LoopPipeline` | what the pipeline promises | abstract specification |
| `MCStrictLoop` | symmetry for TLC | model |
| `CloudGuard` | the protocol around a keyframe's clouds, segments and labels | component |
| `PoseGraph` | the constraints, their deferred replacement, the skip mark, pending pairs | component |
| `FrontEnd` | one iteration of `run`: queue, failures, resets, keyframe numbers, poses | component |
| `PatchMap` | registry, grid, owners, associations, labels, plans with their replacements | component |
| `ScanContext` | descriptor, alignment and search, as operators | algorithm |
| `Registration` | association of scan cells with patches by tracking and worker; recognising a place with `ScanContext` | composition |
| `Surface` | one patch: accumulators, plane, coefficients, image, rows, copy for the adjustment | component |
| `MapFile` | `log()`'s file of a `Surface`'s patches, the viewer that reads it | composition |
| `LoopSearch` | nanoflann's forest of kd-trees as the pose graph uses it | algorithm |
| `Preprocess` | callback, filters, division of a frame into cells and regions | component |
| `PointFactors` | mask, pyramid, gradients, table, and the residuals of the three factors | algorithm |
| `MCRegistration`, `MCGeometry` | instances; `MCGeometry` has three parts with no shared state, one chosen at the start | models |
| `StrictLoopProofs` | threads and hand-over; plans, counts and the refinement of `LoopPipeline` | proofs |
| `CloudGuardProofs`, `PoseGraphProofs`, `FrontEndProofs`, `PatchMapProofs` | of the component of that name | proofs |
| `RegistrationProofs` | of `Registration` and, for the recognition of places, of `ScanContext` | proofs |
| `SurfaceProofs` | of `Surface`, also while `MapFile` works on it, and of `MapFile` | proofs |
| `GeometryProofs` | of `Preprocess`, of `PointFactors` and of `LoopSearch` | proofs |

The modules use one another's results rather than one another's state: `StrictLoop` shows
that one adjustment runs at a time, that stage 3 excludes it and that no patch is rebound
while a loop is between stages 1 and 3; `CloudGuard`, `PoseGraph`, `PatchMap` and
`Surface` are written on that ground and say so in their first comment.

### StrictLoop and LoopPipeline

An action is the code between two accesses to state that another thread reads or
writes. `tpc` and `wpc` are the control points; `ret` is where
`apply_pending_lc_if_any` returns to, since it is called at the top of `run()`
and again before stage 1. Atomics are variables of their own (`lcState`,
`running`, `doneGen`, `generation`, `appliedStrict`, `appliedScan`); a queue under
a mutex is one variable changed in one step. Of the map, the owner of each patch
is kept (`owner`, `NoKeyframe` once erased); a plan is the function from patches
to the owners frozen at stage 1, `active` its `pending_removals_active`,
`refcount` the `pending_overlap_remove_refcount`.

- Poses, points, coefficients and labels are left out; stage 3 is one action,
  because the pose-graph lock and the waiting worker make it exclusive
  (`Stage3Exclusive` is checked, not assumed).
- `Associate` picks the pack in one step; the code looks patches up one after the
  other, but only stage 1 of a later loop can intervene, which shrinks the choice.
- The freeze counts of `begin_skip_patch_rebind_for_keyframes` are left out: they
  are a second guard on rebinding; `RebindSafe` shows that the first one is enough.
- New patches are not created here (see `PatchMap`). The worker's branch for a task
  without keyframes is left out, as `start_strict_lc_task` never queues one. A worker that
  restarts itself gives its identity to its successor.
- `update_sph_coeff_thread` reads the two flags for each association; the model
  reads them once for all. Only the tracking thread starts a loop, so during the
  update a loop can end but none can begin.

`LoopPipeline` has four variables: loops waiting, the one being adjusted, whether its
result is ready, loops done. `StrictLoop` implements it under a refinement mapping in which
a loop stops waiting when a worker pops its task and is done when stage 3 was applied.

### CloudGuard

`seg`, `ground` and `flag` are the sets of keyframes with each pointer set and the
flag raised. The tracking thread creates keyframes (`NewKeyframe`), starts segments
(`BeginSegment` to `NewSegmentKeyframe`, the loop of
`clear_history_keyframe_clouds` one access at a time), merges a frame into the latest
keyframe (`BeginMerge`, `EndMerge`: a write that takes time), and clears in stage 3.
The worker walks from the loop's keyframe backwards: `SetFlag`, `CheckPointer`,
`FinishUse` (with the `Recheck` of `load_residuals_point_clouds`). Labels are kept
because they decide which keyframes a segment clears and whether a loop is strict; they
are merged pairwise as in the code, so three labels may disagree on who is connected. No
document promises otherwise, and the properties hold with labels that disagree. Scan-to-map
loops are merged in the action that inserts the keyframe, while the code does it in the next
iteration of `run()`, before anything else reads a label.

### PoseGraph

`odometry` holds the keyframes whose `loop_closure_cost_function` is live, `links` the
pairs joined by other constraints, `icp` the loops whose ICP constraint is live,
`lastIcp` the pointer `icp_loop_closure_cost_function`, `skip` the number
`skip_odometry_after_frame_num`, `tree` the vector `kdTree_keyframes`, `assoc` the vector
`pending_associated_keyframes`, `pack` a `BADeferredPack`. One action
per branch of `run()` for a new keyframe, the adjustment in two
steps (`BeginAdjustment`, `Adjust`), and `Stage3`, which may come between detection and
stage 1 of another loop, as the code calls `apply_pending_lc_if_any` there.

- What the association finds depends on points and labels. `Adjust` lets the current
  keyframes `C` and the history keyframes `H` be any sets of keyframes of the loop's
  window, with gaps: `load_residuals_point_clouds` skips patches of the initial keyframe,
  and labels may be asymmetric. The properties hold for more than the code can produce.
- `closed` is a history variable: the keyframes that closed a strict loop.
- Loop closing is enabled, and there is no re-initialisation: a keyframe's position in
  the set is its number (`FrontEnd` has the other case). The pairs of the pack itself,
  shared in the same stage 3, are left out.

### FrontEnd

The tracking thread from the frame that comes in to the pose that goes out, with the
variables of `CurlTracking` under their own names. A pose is a position on a line:
composition is addition, and since poses commute there, what the model cannot see is the
order in which poses are multiplied. `FailureLimit` stands for the literal 5.
`RestartSource` is a bag played again: time runs backwards, which `run()` detects and
answers with a re-initialisation that keeps map and graph.

- `is_frame_to_frame` is false, as in `config.yaml:87`. Scan-to-map loops move no pose.
- Stage 1 moves the keyframes after any one by any shift; a solve may also move the first
  keyframe. Stage 3 may come between any two actions.
- The fallback branches of stage 1 for a missing previous keyframe are never reached.

### PatchMap

The world is a row of cells: boxes vary along one axis, every pose is a translation. The
registry (`patches_by_id`), the grid (`all_patches_map`, buckets with swap-erase), the
keyframes' `local_patches` and `associated_patches`, the labels, the loops between
stages 1 and 3 with their plans, and the rebinding to the middle of a patch's lifetime.
Inserting, erasing, swapping and moving are operators on a record of the three structures,
in the order of the code.

- The pose of a frame is that of the latest keyframe and a motion. `T_w_obj` is the lower
  corner of the box where the code has its centre. Ground, minimum points, the refusal by
  distance and `label_frame_num_set` are left out. The patches of a batch are filed anew
  (`Refiled`) in the order of their keys; the code takes them in that of an unordered map.
  The patches of a plan are erased, and those of an update swapped, at once: no
  replacement is in its own plan, and each swap touches only the lists of its own patch.
- `pending_associated_keyframes` is a function from the current to the history keyframe: a
  keyframe closes at most one loop, and the vector is in the order of the keyframes.
- Patches are rebound only while no loop is between its stages (`StrictLoop`'s `RebindSafe`).
  The window of 200 keyframes around a loop is abstracted to any windows.
- Every keyframe is in the pose graph. `remove_overlapped_patches*` are never called.
- `holes = {}` would be the simpler promise and does not hold: keyframes 0 and 1 see A and B,
  keyframe 2 closes a loop with 0 and keyframe 3 one with 1 before the first is applied;
  the first plan gives up a patch for one that the second gives up for the first, and both
  are erased. No document says that this cannot happen, so it is in the property as the
  one exception (`crossed`) and not a finding.

### Registration and ScanContext

`Registration` has the tracking thread (every frame, and
`curl_registration_method_minimum` for a possible loop) and the worker
(`get_associations_from_raw_points`) associate cells of a scan with the same patches:
pick, collect, best of the collected, clear. The tracking thread collects in the patches
(`data_asso`), the worker in `local_data_asso`. `Keyframe` enters the descriptor of its
scan; `Detected` is `ScanContext`'s search.

- Overlaps are small integers, ties any choice. `new_box_map`, the label counter, residuals,
  solve and the criteria for a keyframe are abstracted; the worker's scan has one
  cell. Whether `curl_registration_method_minimum` succeeds is not looked at by its caller
  (`CurlPoseGraph.cpp:688`), and so not here.
- Descriptors hold sums where the code has means, similarities are in percent. Four
  sectors give a search radius of 0, so alignment rests on the sector key alone, and
  `RevisitRecognised` asks for a key that tells the heading. It asks in addition that no point
  is just where two sectors meet (`OffBorders`): the proof failed without, and TLC shows why.
  `ceil` puts a point at azimuth 0 into the first sector, while a point on any other border is
  counted to the sector before; a scan with such a point, seen again from another heading, is
  another descriptor.
- Heights are natural numbers, as the code says of them (`Scancontext.cpp:133`), and the
  sectors divide the circle evenly.

### Surface and MapFile

A surface is known by what it was computed from: the plane, how often each scan was added,
and whether an adjustment changed it. Both memory modes, ground, and publishing are chosen
at `Init`. One action per handler of the tracking thread (add a scan, recompute, change the
plane, publish, commit), and the worker's reads, solve and refresh at any time in between.

- A scan falls inside or outside the frame, whatever the plane; whether the plane has moved
  far enough is a free choice; points are counted in scans. A recomputation is one action,
  since its locks are held throughout. Reading an empty vector ends the process or yields
  arbitrary rows; an empty copy of the coefficients ends the process.
- The scan that fixes a changed plane is added twice by the code
  (`ScansAccounted` says where).
- Configurations have `update_steps` 5 or 1, `update_initialization_times` 200 or -1 and 100
  minimum points; the instance is smaller. `max_SH_degree` is 5 and 2 for ground.
- `MapFile` adds one patch on the ground, so that records of two lengths follow one another.
  The rounding of poses to float is left out. A missing file is an empty map. The file may
  be cut anywhere; a cut between two patches gives a smaller map that no reader can tell.
  A reduced file must be read with the reduced degrees: it has no header to say so.
- `is_save_curlmap` is not compared by `operator==` of the configuration: a map is saved once
  for each set of parameters, however often it is switched on.

### LoopSearch

A tree is a record of its indices, its root and its box; a node, a leaf or one over two others,
and what `divideTree` and `searchLevel` do to it are recursive functions of lists and of nodes,
a list being of different points of the data set and a node at most as deep as there are
keyframes. Positions are multiples of 8 so that halving is exact in the instance; a deeper tree
halves downwards, which may move a plane but nothing that is found. Leaves hold 1 point in the
instance where the code has 10, and the forest is 3 trees where the code has 29
(`treeCount`): both suffice for the keyframes that are entered (`LoopSearchAssumption`). The
points keep their order inside the parts of `planeSplit`.
The first keyframe never becomes a backend keyframe, all others do. A correction moves the
keyframes after one by a shift. `removePoint` and `treeIndex` are never used.

### Preprocess

Millimetres, poses that are translations, clouds as sets of points. Deskewing is off in
every configuration and left out, and so is KITTI's correction; `is_seg_only` is a constant,
false in the instance. `CheckFirst` reads `points[0]` of a cloud that may be empty
(`CurlVoxelMapping.cpp:264`): its outcome is free, and the process may end.

### PointFactors

A surface is a plane over the frame; the table of directions knows it to the nearest
direction, so that a value read from it is off by up to half a step of the table by each axis
(`TableError` is twice that), and a slope taken between two cells by the step over the width of a
cell (`NearSlope`). Arithmetic is exact in `Unit`s, so what floats round on a border is left
out: `FactorAssumption` asks for a `Unit` that every division leaves whole (the blur divides by
256, a gradient by two widths of a coarse cell, the interpolation of it by two more), and for
enough positions that directions lie on some. Both are scales of the model and exclude no
resolution: with the shipped tables of 300 by 300 and 31 cells (41 in `config_small`,
`odometry_node.cpp:26`), 299 positions a cell do. It also asks for fewer than four times
`pyramid_minimum_img_rso` cells a side (60 in every configuration), hence two levels at most.

`UpdateSphResiduals` adds a scan to the mask and, now or later, new coefficients and with them
the image, so that `extracted` is the surface the image is of. `LoadResiduals` is the worker
reading the points that hold a surface during its adjustment, `CommitBASphCoeff` is stage 3
replacing `sph_coeff`, which leaves the image stale. `CreateFactors` to `EndRegistration` is a
registration, one solve per level; `EvaluateDirect` and `EvaluateAdjustment` are one evaluation of
a factor, at any point. `evaluation` is what it wrote. The trial coefficients of a solver and
what it commits are any of the surfaces, so that the copy it starts from is not kept; a
scan between the copy and `LoadResiduals` is therefore possible, as in the code, and the
points hold the surface they were read from, not always the one copied.

- 5 x 5 cells of 5 positions, a table of 6 by 11 directions that are not aligned with the cells,
  as in the configurations, and two levels. The stride is 2 in the instance and in
  `config_light`, 1 in the others, by the same formula.
- In the default mode the property is about `extracted`, in the low RAM mode about
  `sph_coeff`. After a commit the two differ: in the default mode registration then works with
  the image of the one, and the next adjustment with the other.
- At coarse levels the property asks that the value lies between shown heights (to the
  table's error) and the slope has the sign of the only axis that rises: a cross slope may be
  non-zero where the mask has holes.
- Nothing is claimed of points that were not seen beyond their distance: in the low RAM mode
  `get_recons_height` does not look at the mask, and with `half_separate` and `no_separate` an
  unseen point may move poses, too.
- `opt_status` is `half_separate` in every configuration; the three are checked.

## Runs

| Run | Bounds | Shows |
|---|---|---|
| `strict_loop_safety` | 3 loops, 3 threads, 2 patches, 2 keyframes | `SingleOptimiser`, `Stage3Exclusive`, `RebindSafe`, `RefcountExact`, `PlansHold`, `ResultsInOrder`, `NoLostTask`, and `Tickets`, the order and hand-over of generations |
| `strict_loop_pipeline` | 3 loops, 2 threads, 1 patch, 1 keyframe, no symmetry | `ImplementsPipeline`: refinement of `LoopPipeline`; `Progress`: every loop is applied and every waiting worker is woken |
| `strict_loop_idle` | 1 loop | finding: `lc_state` can stay `APPLYING` |
| `clouds_safety` | 7 keyframes | `FlagsReturned`; `CloudsKept`: the latest keyframe keeps its clouds, an adjustment finds those of its own keyframe |
| `clouds_guard` | 5 keyframes | finding: clouds in use can be written and reset |
| `pose_graph_safety` | 4 backend keyframes (3 loops) | `Rooted`, `LoopsOwned`, `SkipHonoured`, `TreeExact` |
| `front_end_safety` | 5 stamps, 1 restart, 4 keyframes, 2 loops | `NumbersHold`, `AnchorExact`, `PoseCarried` |
| `front_end_motion` | 3 stamps, 3 keyframes, 1 loop | finding: a motion is counted twice after a correction |
| `patch_map_safety` | 4 keyframes, 2 patches, 2 strict loops, cells 2 long | `PlacedExact`, `OwnersExact`, `RebindsForward`, `HolesOnlyCrossed`, `AssociationsFollow` |
| `registration_safety` | 2 cells (1 for the worker), 2 patches, overlaps 0 to 2, 3 keyframes | `MutualBest`, `NothingLeft`, `RevisitRecognised` |
| `surface_safety` | 5 scans, 2 adjustments, 2 patches in the file, 2 degrees | `CacheCoherent`, `ScansAccounted`, `ReadsBack` |
| `geometry_safety` | 5 keyframes on 6 places; 9 points in 2 poses; 5 x 5 cells, 3 surfaces, 2 scans, 80 probes | `SearchExact`, `FrameDivided`, `ResidualsSound` |

Why the bounds are enough:

- Three loops let two tasks queue behind the one being adjusted, and a scan-to-map loop come
  between two strict ones; three threads let an old worker, its successor and a rival
  coexist; two patches and two keyframes let plans overlap, go stale and disagree.
- Seven keyframes allow three segments, two queued strict loops, and keyframes on both sides
  of each.
- Four backend keyframes let two later strict loops wait while the first is adjusted, with
  windows of up to four keyframes and every gap in them.
- In `FrontEnd`, a restart after some keyframes and two keyframes after it give equal and
  earlier times; two loops let a stage 3 fall between stage 1 of another and the next frame.
- In `PatchMap` a shift of half a cell changes the cells of a patch and makes boxes overlap in
  part; four keyframes and two loops are the fewest with which two plans cross.
- Two cells and two patches give every way in which picks can agree, collide and cross, while
  the worker associates its own cell with the same patches. Three keyframes make the first
  old enough for a revisit.
- Five scans let the plane be fixed by the third, with one before and one after it, and
  the patch stop being new before the last; two adjustments let one follow the other's
  commit. Three words of mask, the last not full, and two degrees make every record length
  differ from every other.
- Five keyframes make two trees of the forest, one of them three levels deep with one point
  to a leaf; the places have uneven steps. Points lie on both sides of zero, on the border of
  cells and of the scan, inside one voxel and out of range. An image of 5 x 5 cells has an
  interior with all its neighbours, borders and corners, and one coarser level.

Every bound on loops, keyframes, frames or scans cuts behaviours off, so these runs stop, and
deadlock is not checked: a worker may also wait for ever once the tracking thread ended, and
some models let the process end. Every property of a passing run has a mutant, a
plausible bug defined beside the action it changes, under which TLC finds it violated.

### Fairness

`FairSpec` of `StrictLoop` assumes weak fairness of the tracking thread and of each worker:
threads are scheduled by the operating system, and block only where the code blocks.
`ros::ok()` may turn false at any time (`StopTracking`) and need not, so it is not fair,
and the liveness properties except it: a loop whose tracking thread ended is never
applied, and its worker waits until the process ends. Workers are detached, so they may then
use objects that are being destroyed, which is outside the model. The other modules state
safety only: whether frames come is not the program's to decide.

### Findings

1. `strict_loop_idle`: the worker pushes its result (`CurlTracking.cpp:443`) before it
   stores `APPLYING` (`:446`); when the tracking thread applies the result and stores
   `IDLE` in between, `lc_state` stays `APPLYING` and patches are not rebound until
   another strict loop comes and goes.
2. `clouds_guard`: the latest keyframe's clouds are changed in place by the next frame
   without asking the flag, while the adjustment it started reads them; and
   `clear_history_keyframe_clouds` asks the flag and then resets two pointers, so that the
   adjustment's "set flag first, then check pointer" fits between.
3. `front_end_motion`: stages 1 and 3 "derive current pose (j) from new j-1 + original
   delta", but `run()` has already stored pose j in `T_w_j_1`, so that the motion since the
   last keyframe, from which the next keyframe's constraint is made, holds the last motion
   twice.

### Seen while reading, not shown by a run

- In the default memory mode `update_mask` fills neither `mask_idx_flags` nor `mask_idx_set`, so
  `check_is_on_edge_low_RAM` always answers that a point is on the edge and `CoupleSphModFactor`
  uses no slope of the surface; in the low-memory mode `get_recons_height` does not look at the
  mask. `PointFactors` has both as they are, and its property allows a slope of zero.
- `update_mask` grows without marking the rows dirty (`PatchProcession.cpp:313`), the worker reads
  rows without the lock (`:1005`), a commit can overwrite what scans changed meanwhile
  (`CurlPoseGraph.cpp:1937`), a plane may change under the adjustment's copy
  (`CurlLocalBA.cpp:57`), and the image of the registration never shows committed
  coefficients. All are in `Surface`; `CacheCoherent` is what holds all the same, and `ResidualsSound` says
  which surface a residual is then about.
- `log()` walks one entry per frame in one vector and one per registered frame in another
  (`CurlTracking.cpp:1409`), and reads `frame_idx_vec[0]` when no frame came.
- `update_patch_keyframe` only asserts that a number is a place (`spatial_hashing.h:791`); after a
  restart of the clock it is not (`NumbersHold` excepts that, `PositionIsNumber` without the
  exception fails).
- The manifold of the registration aborts when every pair was skipped; deskewing would, if
  switched on, apply the motion twice.
- The comment at `CurlTracking.cpp:66` on the order of regions does not describe the code.

## Proofs

`TLAPS` checks these for every value of the constants:

| Theorem | Statement |
|---|---|
| `StrictLoopProofs!TypeCorrect` | `Spec => []TypeOK` |
| `StrictLoopProofs!OneOptimiser` | `Spec => []SingleOptimiser` |
| `StrictLoopProofs!TasksKept` | `Spec => []NoLostTask` |
| `StrictLoopProofs!OrderHandover` | `Spec => []Tickets` |
| `StrictLoopProofs!Stage3Alone` | `Spec => []Stage3Exclusive` |
| `CloudGuardProofs!TypeCorrect` | `Spec => []TypeOK` |
| `CloudGuardProofs!FlagsGivenBack` | `Spec => []FlagsReturned` |
| `CloudGuardProofs!WantedCloudsKept` | `Spec => []CloudsKept` |
| `PoseGraphProofs!TypeCorrect` | `Spec => []TypeOK` |
| `PoseGraphProofs!KeyframesStayRooted` | `Spec => []Rooted` |
| `PoseGraphProofs!SkipsHonoured` | `Spec => []SkipHonoured` |
| `PoseGraphProofs!LoopConstraintsOwned` | `Spec => []LoopsOwned` |
| `FrontEndProofs!TypeCorrect` | `Spec => []TypeOK` |
| `FrontEndProofs!AnchorStaysExact` | `Spec => []AnchorExact` |
| `FrontEndProofs!PoseStaysCarried` | `Spec => []PoseCarried` |
| `FrontEndProofs!NumbersStayPlaces` | `Spec => []NumbersHold` |
| `StrictLoopProofs!RebindGuarded` | `Spec => []RebindSafe` |
| `StrictLoopProofs!NoneStale` | `Spec => []ResultsInOrder` |
| `StrictLoopProofs!RefcountsExact` | `Spec => []RefcountExact` |
| `StrictLoopProofs!PlansStillHold` | `Spec => []PlansHold` |
| `StrictLoopProofs!PipelineImplemented` | `Spec => ImplementsPipeline` |
| `PoseGraphProofs!TreeStaysExact` | `Spec => []TreeExact` |
| `RegistrationProofs!TypeCorrect` | `Spec => []TypeOK` |
| `RegistrationProofs!NothingIsLeft` | `Spec => []NothingLeft` |
| `RegistrationProofs!PairsAreMutual` | `Spec => []MutualBest` |
| `RegistrationProofs!RevisitsAreRecognised` | `Spec => []RevisitRecognised` |
| `SurfaceProofs!FileTypeCorrect` | `FileSpec => []FileTypeOK`, of a surface, the file and its reader |
| `SurfaceProofs!ScansStayAccountedToTheEnd` | `FileSpec => []ScansAccounted` |
| `SurfaceProofs!CacheStaysCoherentToTheEnd` | `FileSpec => []CacheCoherent` |
| `SurfaceProofs!MapReadsBack` | `FileSpec => []ReadsBack` |
| `GeometryProofs!FramesAreDivided` | `PreprocessSpec => []FrameDivided` |
| `GeometryProofs!ResidualsAreSound` | `FactorSpec => []ResidualsSound` |
| `GeometryProofs!SearchStaysExact` | `SearchSpec => []SearchExact` |
| `PatchMapProofs!TypeCorrect` | `Spec => []TypeOK` |
| `PatchMapProofs!OwnersStayExact` | `Spec => []OwnersExact` |
| `PatchMapProofs!PatchesStayPlaced` | `Spec => []PlacedExact` |
| `PatchMapProofs!HolesStayCrossed` | `Spec => []HolesOnlyCrossed` |
| `PatchMapProofs!AssociationsStay` | `Spec => []AssociationsFollow` |
| `PatchMapProofs!RebindsStayForward` | `Spec => RebindsForward` |

The assumptions are those on the constants, named in the module that declares them
(`ConstantsAssumption`, `FactorAssumption`, `LastKeyframeAssumption` and the like): types, finite sets of
threads and patches, that `NoKeyframe` is none, and what the sections above say of grids and images.

**StrictLoop.** `Stage3Exclusive` is not inductive, because nothing in it says that the
result being applied belongs to the worker that waits. `Handover` does: at most one strict
result is on its way, and the worker that holds its generation stands between its push and
the end of its wait. That needs `Order`: generations grow along published, held, queued,
about to be queued, so that `doneGen >= wtask[w]` cannot hold before this worker's own result
was applied. `Tickets` is both. With `SingleOptimiser` no other worker is in the loop, hence
none adjusts. `Control` ties the control points to what they hold.

**Plans and the pipeline** (`LoopPipeline`). `RebindSafe` says that no patch changes its owner
while a loop is between its stages; but rebinding asks only `lc_state` and
`strict_lc_running`, which say nothing of loops. `Whereabouts` connects them: every loop that
is not applied is queued, held by a worker or among the results (`Located`), and wherever
`lc_state` is, was seen, or is about to be stored as `IDLE`, an outstanding loop has a worker
inside its loop, so that `strict_lc_running` is set (`Guarded`). `ResultsInOrder` needs the
order of both kinds of generations in the batch, the queue behind it and what was applied
(`ScanOrder`). `RefcountExact` needs that plans exist only for outstanding loops (`Planned`).
`PlansHold` follows from `RebindSafe` as an action, and from `Packs`: what a worker prepared
avoids the patches of its own plan. The refinement goes step by step: `Mapping` says of the
sequences that the mapping filters which loops they hold, and each action of `StrictLoop` is
shown to take, finish or apply one loop of `LoopPipeline`, or to leave all four variables alone.
Its fairness is not part of it.

**CloudGuard.** The latest keyframe has its clouds because queued loops, cursor and adjustment
never look past it (`Places`) and its clouds are set outside a new segment (`LatestKept`). That
an adjustment finds those of the keyframe its loop is for needs `LoopsKept`: the loops in
the queue and the one in hand are in the order of their keyframes, so that the stage 3 of one
never clears the keyframe of a later one, and the clearing of a new segment spares the
keyframes of its label; the exception in `CloudsKept`, a loop whose trajectory was left, is
`Kept`'s second disjunct.

**PoseGraph.** `Rooted` rests on `Replacing`: every odometry constraint a pack removes has, in
the same pack, a link from its keyframe to an older one. The model lets the window have gaps,
so it is the pairing of removals with consecutive keyframes that carries it, and not what the
association found. `LoopsOwned` rests on `InOrder`: the loop being adjusted is older than those
in the queue, and all are older than the one just found; so a stage 3 cannot take what
belongs to another loop. `Rooted` excepts the keyframe after a strict loop: it has no
odometry constraint, and until an adjustment joins it to an older one, the stretch it starts
hangs on its own loops. `TreeExact` holds because only the keyframe of a strict loop that
waits for stage 1 may be missing from the tree, and is unless a stage 3 came in between
(`Entered`): then stage 1 rebuilds the tree and must not enter the keyframe twice.

**FrontEnd.** `AnchorExact` needs that the anchor's number is one the map knows and that a
correction writes the anchor from the same keyframe it moves. `PoseCarried` adds that the newest
keyframe is the anchor from its creation until a keyframe of an earlier clock is created.
`NumbersHold` needs that, while the clock has not restarted, keyframes are created in order of
time and none is refused, so that the size of the set is the number of those before.

**PatchMap.** `Invariant` has three parts.

- *The three structures* (`SoundMap`). `OwnersExact` and `BoxFollowsPatch` are inductive with
  types, as each operation is shown to turn a sound map into a sound map (`MovedSound`,
  `RemovedSound`, `SwappedSound`, `NewPatchSound`, one lemma for each). `GridExact` needs more
  than it says: a bucket must hold each patch once, with an index that is the inverse of its
  places (`BucketHolds`), or the swap-erase of the last patch breaks it. `Filed` says so of
  the whole grid for any assignment of cells, so that a patch whose box has changed may be
  between its old and its new cells; `RefiledExact` does the batch by induction over the keys.
- *The order of a patch's life* (`BeforeMiddle`). `RebindsForward` is not inductive: it needs
  that no patch is owned by a keyframe after the middle of its lifetime. The middle only
  moves on as the patch is updated, and the target of a rebinding is the middle.
- *What a plan freezes* (`ReplacementsStay`, `ReplacedGone`, `LatestCloses`, `FrameFresh`). The
  replacement of a patch stays in the map until its plan is carried out, since no plan in
  front of it in the queue gives it up, or the plans were `crossed` when the later one was
  made; a plan made later comes behind it. What was replaced is gone, its key is never given again,
  and the associations a frame has collected are of registered patches unless a
  strict loop came between, which is what `late` records.

**Registration.** `MutualBest` and `NothingLeft` rest on `Stages`: at every stage of either
thread, what is collected is what its own cells picked, starting from nothing, although
the other thread works on the same patches; and a loop is adjusted once at most for each
keyframe, so that the scan contexts it looks up exist. `RevisitRecognised` needs no more than
the types, but all of `ScanContext`: turning a scan by whole sectors shifts its descriptor
(`TurnedShifts`) and so its key (`KeyShifts`); keys differ by nothing only where they are the
same, so that a key which tells the heading aligns to the turn and to no other (`AlignsTurned`);
the aligned descriptors are at no distance, since some sector has points (`TurnedIsNear`); and
the search returns the first of the nearest candidates that are old enough
(`FoundAtNoDistance`). Sums are those of the community modules, over any finite set; that they
are sums is shown by induction over the sets (`ByTaking`).

**Surface.** `ScansAccounted` needs to know at which step of an update a scan is counted
(`SumsWhole`), that kept scans are all scans until the plane is fixed, and that it is
fixed once (`PlaneFixed`): hence only the `FixingScan` may be there twice. `CacheCoherent` needs
in addition that coefficients which no adjustment changed are behind the sums by no more
scans than the counters allow (`TimesCounted`, `Follows`), and that image and rows follow the
coefficients and the mask unless they are marked (`ViewsFollow`).

**MapFile.** `ReadsBack` rests on `FileKept`: the reader's patches are the first ones of what
was saved. Every record of a patch has the length its reader expects of its kind (`WrittenShape`
and the lemmas after it), so that the read position after a patch is where the next was
written; a file cut inside a record ends the reading at the patch before. Loading is a
function of the position in the file; it is unfolded by showing that a function with its
recurrence exists, and reaches its end because each step moves on.

**Preprocess.** `FrameDivided` follows from `Intake`: clouds and poses are of the types of what
came in, and the frame being worked on is the division of its clouds. The rest is about one
division: the box of all points encloses them (`BoxEncloses`), indices count cells and grow with
the coordinate on both sides of zero (`IndexRange`, `IndexGrows`), the number of a region is a
number in two digits, so that cells of one region are those with the same digits
(`RegionDigits`), and a cell is filled by the same points whichever of the two passes reaches it
(`FilledBoth`).

**PointFactors.** The invariant is `Factors`. `Kept`: outside the low-memory mode there is an image, and
it is of `extracted` and of some of the cells, whatever `sph_coeff` is since a commit
(`Shows`); the points of an adjustment have the heights of one surface (`Holding`); the level
of a registration's residuals is the number of solves that are left. `Evaluated`: what a factor
wrote is what it writes in this state, as image, surface and mask wait until the solver took it.
The rest is about one evaluation:

- *The table* (`TableIsSound`): the nearest direction is at most half a step away by each
  axis, and the height of a plane changes by no more than that.
- *The finest image* (`FineIsSound`): the corners of a position are exactly the cells around it
  (`FineCells`). Each holds a height that is off by the table's error at most, and a value
  between two such is no further off (`BetweenNear`), along the rows and then between them
  (`FineHeight`). A gradient, which is there only if both neighbours are, is off by the
  step of the table between two cells (`FineGradient`), and so is what is interpolated between
  such (`FineSlope`). That divisions leave whole numbers is a fact of its own at each of these
  (`BetweenWhole`, `FetchWhole`).
- *The coarse image* (`CoarseIsSound`): a blurred height is a weighted mean of heights shown at
  most two cells from its centre, as a missing one is replaced by that of the centre
  (`CoarseCell`), so that the interpolated value lies between heights shown within the reach
  of the corners (`CoarseHeight`, `BetweenExtremes`). Where the surface rises along one axis only,
  what is read of the table does not fall along it (`ReadOrder`), each replaced term keeps the
  order of two cells ahead of one another, and with it the sign of the slope (`AheadOfCentre`,
  `CoarseSlope`).
- *The points that hold a surface* (`RegIsSound`) are cells of the frame, where the table reads
  the height they have.
- *The cells of the mask* (`CoupleIsSound`): rounding a position to its cell moves it by half a
  cell at most, so that a point that is nearer than that to a seen cell is one that was seen.

**LoopSearch.** `SearchExact` follows from `IndexFollows`: the data set of the index is the poses as
they are, and the trees are a `Forest` over them: every keyframe is in one tree, a tree is built
over the positions that its keyframes still have (entering one moves none, and a correction rebuilds
them all), and a tree is empty wherever the count of the keyframes has no bit. The last conjunct
is needed for `addPoint`, which overwrites the tree at the first bit that is not set: it held
nothing (`FirstZero`, `PointAdded`). Bits are counted by halving (`Halvings`), where each fact is linear.
The rest is about one tree:

- *Building* (`DividesTight`): whatever direction and plane `middleSplit_` takes, both halves
  have points, none of the first is beyond the plane and none of the second before it
  (`SplitBetween`, `HalvesCut`), so that the recursion ends, and each node's box is the one its
  points fill to all sides.
- *Searching* (`SearchesOver`): the distances by dimension that are handed down never exceed
  those of the points below (`Below`); on the other side of a plane one of them is replaced by the
  distance to the nearest point of that child (`BeyondBelow`), so that a child is left out only if
  none of its points is near (`FarAway`).
- *Lists* (`Enumerates`): what is found, merged and cut is a list of the members of a set, each
  of them once; concatenating disjoint ones keeps it so (`BothEnumerated`, `FlattenEnumerated`).

Induction over the natural numbers is used as a fact about a set of them (`AllNaturals`,
`EveryNumber`), and recursive functions by showing that a function with their recurrence exists.

Model-checked only: liveness (`Progress`), which TLAPS does not prove.

## Hazards no property covers

- The flags `is_strict_loop_closure_detected` and `is_loop_closure_detected` are plain `bool`s
  shared by two threads; a late value only turns one merge of labels into another.
- The adjustment reads live poses while stage 1 of a later loop rewrites them: residuals
  of two solutions are mixed, which changes numbers and no control.
- `pcl_ptr_pair_queue.empty()` and `front()` are called without the lock of the callback.
- `log()`'s two vectors (above): written at the end, read by no one in the program.

## Plan

Every module of the plan is written, and every safety property of the passing runs is proved.
What is left to the model checker alone is liveness.

## Not modelled

- The numerical solves (Ceres, the fit of coefficients), manifolds, Legendre functions: any
  result they may have is allowed instead.
- `odometry_node` (builds the objects), configuration (constants here), display and meshing.
- `RosHandler`, `FileReader`, `ThreadSafeQueue`, `lock_manager`, the AABB tree and nanoflann's other
  indices: no object of them is used.
- Code that nothing calls: `clear_patch_caches_out_sight`, `erase_patch`, `erase_keyframe`,
  `force_swap_patch`, `remove_overlapped_patches*`, `solve_local_BA_pose_graph`, `re_clustering`,
  `Scancontext`'s tree search, `CurlContinuousRecons::reconstruction`, the mask functions of the
  adjustment, and the merging and sorting of `KeyframeInfo`'s associations.
- Deskewing, off in every configuration, and the geometric scores of a pair of patches.
