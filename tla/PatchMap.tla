------------------------------ MODULE PatchMap ------------------------------
(***************************************************************************)
(* The map: the patches of SpatialHashing, the keyframes that own them or  *)
(* are associated with them, the grid in which they are looked up, and the *)
(* trajectory labels, as the tracking thread changes them:                 *)
(*                                                                         *)
(*   a keyframe or a frame comes in and adds the patches the map lacks;    *)
(*   a strict loop moves the keyframes and plans which patches to remove   *)
(*   (stage 1), and moves them again and carries the plan out (stage 3);   *)
(*   the associated patches are rebound to the keyframe in the middle of   *)
(*   their lifetime (update_patch_keyframe).                               *)
(*                                                                         *)
(* The world is a row of cells: positions and boxes vary along one axis,   *)
(* every pose is a translation, and across the axis all boxes are Cut wide.*)
(* The keyframes come in order of time (see FrontEnd for what a restarted  *)
(* clock does), and every keyframe is in the pose graph.                   *)
(***************************************************************************)
EXTENDS Integers, Sequences, FiniteSets, FiniteSetsExt, Functions

CONSTANTS Cut,           \* cut_threshold, the side of a cell
          Skin,          \* extra_skin_thickness
          IoUThreshold,  \* remove_overlap_iou_thres, in percent
          Motions,       \* motion from one frame to the next
          Offsets,       \* where a frame sees a surface, from the sensor
          Shifts,        \* what a solve may move keyframes by
          MaxKeyframes, MaxPatches, MaxLoops  \* bounds

ASSUME ConstantsAssumption ==
    /\ Cut \in Nat \ {0} /\ Skin \in Nat /\ IoUThreshold \in 0 .. 99
    /\ MaxKeyframes \in Nat \ {0} /\ {MaxPatches, MaxLoops} \subseteq Nat
    /\ Motions \subseteq Int /\ Offsets \subseteq Int /\ Shifts \subseteq Int

VARIABLES
    pc,             \* where run() is: "top", "detect", "strict" or "update"
    keyframe,       \* all_keyframes_set, by frame_num
    neighbor_label_frame_num,   \* of every TrajectoryLabel
    curr_label,     \* curr_trajectory_label_ptr
    is_loop_closure_detected,
    patches_by_id, patch_key,
    all_patches_map,
    succeed_associations, is_add_keyframe,   \* of the frame being processed
    scan_to_map,    \* result of a scan-to-map loop that waits, at most one
    loops,          \* strict loops between their stages 1 and 3, oldest first
    closed,         \* number of loops closed so far
    pending_associated_keyframes,   \* the history keyframe, by the current one
    replaced,       \* history: patches erased for one that was then in the map
    holes,          \* history: patches erased for one that was in the map no more
    crossed,        \* history: patches planned away for one that awaited removal
    late            \* history: an erased patch was associated with a keyframe

framing == <<pc, succeed_associations, is_add_keyframe>>
labels == <<neighbor_label_frame_num, curr_label, is_loop_closure_detected>>
patches == <<patches_by_id, patch_key, all_patches_map>>
closing == <<scan_to_map, loops, closed, pending_associated_keyframes>>
history == <<replaced, holes, crossed, late>>
vars == <<framing, keyframe, labels, patches, closing, history>>


keyframe_size == Cardinality(DOMAIN keyframe)
latest_keyframe == keyframe_size - 1
Registered == DOMAIN patches_by_id

\* The function f with the value v at x.
With(f, x, v) == [y \in DOMAIN f \cup {x} |-> IF y = x THEN v ELSE f[y]]

(***************************************************************************)
(* Boxes and the grid.                                                     *)
(***************************************************************************)
Box(lo, hi) == [lower |-> lo, upper |-> hi]
Moved(box, d) == Box(box.lower + d, box.upper + d)
Enlarged(box) == Box(box.lower - Skin, box.upper + Skin)

\* ceil(x / voxel_length)
GridKey(x) == -((-x) \div Cut)

get_grid_indices(box) == GridKey(box.lower) .. GridKey(box.upper)

Inside(x, box) == box.lower <= x /\ x <= box.upper

\* Surface of a box as long as dx and Cut wide and high.
SurfaceArea(dx) == IF dx < 0 THEN 0 ELSE 2 * (2 * dx * Cut + Cut * Cut)

Length(box) == box.upper - box.lower

\* IoU_surface_area as a fraction: what boxes share, and what they make up.
SharedArea(a, b) == SurfaceArea(Min({a.upper, b.upper}) - Max({a.lower, b.lower}))
UnionArea(a, b) == SurfaceArea(Length(a)) + SurfaceArea(Length(b)) - SharedArea(a, b)

\* IoU(a, b) > IoU(a, c)
OverlapsMore(a, b, c) == SharedArea(a, b) * UnionArea(a, c) > SharedArea(a, c) * UnionArea(a, b)

(***************************************************************************)
(* A bucket of the grid: a vector of patches and the place of each in it.  *)
(***************************************************************************)
EmptyBucket == [patches |-> <<>>, index |-> <<>>]

BucketInsert(bucket, p) ==
    IF p \in DOMAIN bucket.index THEN bucket
    ELSE [patches |-> Append(bucket.patches, p),
          index |-> With(bucket.index, p, Len(bucket.patches) + 1)]

\* Mutant: the patch that takes the free place keeps its old index.
BucketEraseKeepingIndex(bucket, p) ==
    IF p \notin DOMAIN bucket.index THEN bucket
    ELSE LET idx == bucket.index[p]
             last == Len(bucket.patches)
         IN [patches |-> SubSeq([bucket.patches EXCEPT ![idx] = bucket.patches[last]], 1, last - 1),
             index |-> Restrict(bucket.index, DOMAIN bucket.index \ {p})]

\* The last patch takes the place of the one erased.
BucketErase(bucket, p) ==
    IF p \notin DOMAIN bucket.index THEN bucket
    ELSE LET idx == bucket.index[p]
             last == Len(bucket.patches)
             moved == bucket.patches[last]
         IN [patches |-> SubSeq([bucket.patches EXCEPT ![idx] = moved], 1, last - 1),
             index |-> Restrict([bucket.index EXCEPT ![moved] = idx], DOMAIN bucket.index \ {p})]

GridInsert(grid, p, cells) ==
    [c \in DOMAIN grid \cup cells |->
        LET bucket == IF c \in DOMAIN grid THEN grid[c] ELSE EmptyBucket
        IN IF c \in cells THEN BucketInsert(bucket, p) ELSE bucket]

\* A bucket that becomes empty is erased.
GridErase(grid, p, cells) ==
    LET left(c) == IF c \in cells THEN BucketErase(grid[c], p) ELSE grid[c]
        kept == {c \in DOMAIN grid : c \in cells => left(c).patches # <<>>}
    IN [c \in kept |-> left(c)]

\* The patches 1 .. n whose cells change, one after the other: out of the cells
\* they were in, into those they are in.
Refiled(grid, from, to, n) ==
    LET refiled[p \in 0 .. n] ==
            IF p = 0 THEN grid
            ELSE IF from[p] = to[p] THEN refiled[p - 1]
            ELSE GridInsert(GridErase(refiled[p - 1], p, from[p]), p, to[p])
    IN refiled[n]

\* The cells of every patch, none for one that is not in the registry.
Cells(registry) ==
    [p \in 1 .. patch_key |->
        IF p \in DOMAIN registry THEN get_grid_indices(registry[p].enlarged_bound_w) ELSE {}]

PatchesAt(grid, cells) == UNION {Range(grid[c].patches) : c \in cells \cap DOMAIN grid}

(***************************************************************************)
(* Trajectory labels.                                                      *)
(***************************************************************************)
is_connected(l1, l2) == l2 \in neighbor_label_frame_num[l1]

insert_neighbor_label(n, l1, l2) == [n EXCEPT ![l1] = @ \cup {l2}, ![l2] = @ \cup {l1}]

merge_neighbor_label(n, l1, l2) ==
    LET both == n[l1] \cup n[l2] IN [n EXCEPT ![l1] = both, ![l2] = both]

(***************************************************************************)
(* What an operation makes of the map: keyframes, registry and grid.       *)
(***************************************************************************)
Map == [keyframe |-> keyframe, patches_by_id |-> patches_by_id,
        all_patches_map |-> all_patches_map]

MapBecomes(m) ==
    /\ keyframe' = m.keyframe
    /\ patches_by_id' = m.patches_by_id
    /\ all_patches_map' = m.all_patches_map

\* One cell wide, at cell c; T_w_obj is the lower corner.
NewPatch(kf, k, c) ==
    LET box == Box((c - 1) * Cut, c * Cut)
    IN [keyframe |-> k, T_obj_lidar |-> kf[k].T_w_lidar - box.lower,
        create_keyframe_num |-> k, last_update_keyframe_num |-> k,
        bound_w |-> box, enlarged_bound_w |-> Enlarged(box)]

\* Mutant: the key is taken before it is incremented.
insert_patch_early(m, k, info) ==
    LET p == patch_key
    IN [keyframe |-> [m.keyframe EXCEPT ![k].local_patches = @ \cup {p},
                                        ![k].associated_patches = @ \cup {p}],
        patches_by_id |-> With(m.patches_by_id, p, info),
        all_patches_map |-> GridInsert(m.all_patches_map, p, get_grid_indices(info.enlarged_bound_w))]

insert_patch(m, k, info) ==
    LET p == patch_key + 1
    IN [keyframe |-> [m.keyframe EXCEPT ![k].local_patches = @ \cup {p},
                                        ![k].associated_patches = @ \cup {p}],
        patches_by_id |-> With(m.patches_by_id, p, info),
        all_patches_map |-> GridInsert(m.all_patches_map, p, get_grid_indices(info.enlarged_bound_w))]

\* erase_patch_on_keyframe with erase_patch_iterator, for the patches of due,
\* each on the keyframe that owner gives it: one that this keyframe does not
\* list is left alone, one that is in the registry no more is only forgotten.
erase_patches(m, owner, due) ==
    LET listed(k) == {p \in due : owner[p] = k} \cap m.keyframe[k].local_patches
        left == [p \in {q \in DOMAIN m.patches_by_id :
                           q \in due => q \notin listed(owner[q])} |-> m.patches_by_id[p]]
    IN [keyframe |-> [k \in DOMAIN m.keyframe |->
                        [m.keyframe[k] EXCEPT !.local_patches = @ \ listed(k),
                                              !.associated_patches = @ \ listed(k)]],
        patches_by_id |-> left,
        all_patches_map |-> Refiled(m.all_patches_map, Cells(m.patches_by_id), Cells(left), patch_key)]

\* The keyframes' lists when each patch of DOMAIN target goes to target[p].
\* Mutant: the old owner keeps the patch.
local_patches_keeping(m, k, target) ==
    m.keyframe[k].local_patches \cup {p \in DOMAIN target : target[p] = k}

local_patches_after(m, k, target) ==
    (m.keyframe[k].local_patches \ {p \in DOMAIN target : m.patches_by_id[p].keyframe = k})
        \cup {p \in DOMAIN target : target[p] = k}

\* swap_patch, for every patch of DOMAIN target.
swap_patches(m, target) ==
    LET T_obj_w(p) == m.patches_by_id[p].T_obj_lidar - m.keyframe[m.patches_by_id[p].keyframe].T_w_lidar
        swapped(p) == [m.patches_by_id[p] EXCEPT
                          !.keyframe = target[p],
                          !.T_obj_lidar = T_obj_w(p) + m.keyframe[target[p]].T_w_lidar]
    IN [m EXCEPT !.keyframe = [k \in DOMAIN m.keyframe |->
                                  [m.keyframe[k] EXCEPT !.local_patches = local_patches_after(m, k, target)]],
                 !.patches_by_id = [p \in DOMAIN m.patches_by_id |->
                                      IF p \in DOMAIN target THEN swapped(p) ELSE m.patches_by_id[p]]]

\* Mutant: half of the lifetime instead of its middle.
MiddleFromZero(info) == (info.last_update_keyframe_num - info.create_keyframe_num + 1) \div 2

\* std::round of the middle of the lifetime.
Middle(info) == (info.create_keyframe_num + info.last_update_keyframe_num + 1) \div 2

\* Where update_patch_keyframe puts the patches of updated, those it moves.
update_patch_keyframe(m, updated) ==
    LET target(p) == Middle(m.patches_by_id[p])
    IN [p \in {q \in updated : /\ target(q) # m.patches_by_id[q].keyframe
                              /\ target(q) < keyframe_size} |-> target(p)]

\* update_keyframe_pose_by_poseGraph: the keyframes from first on move by d,
\* every patch with the keyframe that lists it; only the patches whose cells
\* change are taken out of the grid and put in again.
update_keyframe_pose_by_poseGraph(first, d) ==
    LET moved(k) == IF k >= first THEN [keyframe[k] EXCEPT !.T_w_lidar = @ + d] ELSE keyframe[k]
        way(p) == d * Cardinality({k \in DOMAIN keyframe :
                                       k >= first /\ p \in keyframe[k].local_patches})
        info(p) == [patches_by_id[p] EXCEPT !.bound_w = Moved(@, way(p)),
                                            !.enlarged_bound_w = Moved(@, way(p))]
        registry == [p \in Registered |-> info(p)]
    IN [keyframe |-> [k \in DOMAIN keyframe |-> moved(k)],
        patches_by_id |-> registry,
        all_patches_map |-> Refiled(all_patches_map, Cells(patches_by_id), Cells(registry), patch_key)]

(***************************************************************************)
(* The plan of a strict loop: what the current trajectory shows again of   *)
(* the history one.                                                        *)
(***************************************************************************)

\* The keyframes with a label among the neighbours of k's label, and k.
group(k) ==
    {k} \cup {j \in DOMAIN keyframe : is_connected(keyframe[k].label, keyframe[j].label)}

\* The patches of a set that cover a box best, above the threshold.
covering(m, box, qs) ==
    LET enlarged(q) == m.patches_by_id[q].enlarged_bound_w
        enough == {q \in qs : 100 * SharedArea(box, enlarged(q)) > IoUThreshold * UnionArea(box, enlarged(q))}
    IN {q \in enough : \A r \in enough : ~OverlapsMore(box, enlarged(r), enlarged(q))}

\* Mutant: whose patch it is does not matter.
candidates_of_any(m, k, p, current, hist) ==
    LET box == m.patches_by_id[p].bound_w
    IN covering(m, box, PatchesAt(m.all_patches_map, get_grid_indices(box)))

\* Patches that p of keyframe k may be removed for, in the map m.
candidates(m, k, p, current, hist) ==
    LET box == m.patches_by_id[p].bound_w
    IN covering(m, box, {q \in PatchesAt(m.all_patches_map, get_grid_indices(box)) :
                           /\ m.patches_by_id[q].keyframe # k
                           /\ m.patches_by_id[q].keyframe \in hist \ current})

\* build_overlap_removal_plan_after_loop: for every patch to be removed the
\* keyframe it is listed by, and the patch that replaces it, if one does.
overlap_removal_plans(m, current, hist) ==
    LET listed == [p \in 1 .. patch_key |->
                     {k \in current \ hist : p \in m.keyframe[k].local_patches}]
        missing == {p \in 1 .. patch_key : listed[p] # {} /\ p \notin Registered}
        best == [p \in Registered |->
                   UNION {candidates(m, k, p, current, hist) : k \in listed[p] \cap {m.patches_by_id[p].keyframe}}]
        covered == {p \in Registered : best[p] # {}}
    IN {[owner |-> [p \in missing \cup covered |-> CHOOSE k \in listed[p] : TRUE],
         replacement |-> choice] : choice \in {f \in [covered -> Registered] :
                                                \A p \in covered : f[p] \in best[p]}}

awaiting_removal == UNION {DOMAIN loops[i].plan.owner : i \in DOMAIN loops}

\* Patches that apply_overlap_removal_plan finds as the plan has them: with the
\* same owner, or gone.
due_by(m, plan) ==
    {p \in DOMAIN plan.owner :
        p \in DOMAIN m.patches_by_id => m.patches_by_id[p].keyframe = plan.owner[p]}

\* Those of them that have a replacement in the map.
replaced_by(m, plan) ==
    {p \in due_by(m, plan) \cap DOMAIN m.patches_by_id \cap DOMAIN plan.replacement :
        plan.replacement[p] \in DOMAIN m.patches_by_id}

\* The first loop of apply_overlap_removal_plan: the owner of a patch gets its
\* replacement, then the patch is erased.  No replacement is itself in the
\* plan, so that the order of the patches does not matter.
Removed(m, plan) ==
    LET gained(k) == {plan.replacement[p] : p \in {q \in replaced_by(m, plan) : plan.owner[q] = k}}
    IN erase_patches([m EXCEPT !.keyframe = [k \in DOMAIN m.keyframe |->
                          [m.keyframe[k] EXCEPT !.associated_patches = @ \cup gained(k)]]],
                     plan.owner, due_by(m, plan))

\* Every keyframe exchanges the patches that are gone for their replacements.
\* Mutant: only the keyframe that owned the patch does.
ExchangedByOwner(m, plan, gone) ==
    [m EXCEPT !.keyframe = [k \in DOMAIN m.keyframe |->
        LET old == {p \in m.keyframe[k].associated_patches \cap gone : plan.owner[p] = k}
        IN [m.keyframe[k] EXCEPT !.associated_patches = (@ \ old) \cup {plan.replacement[p] : p \in old}]]]

Exchanged(m, plan, gone) ==
    [m EXCEPT !.keyframe = [k \in DOMAIN m.keyframe |->
        LET old == m.keyframe[k].associated_patches \cap gone
        IN [m.keyframe[k] EXCEPT !.associated_patches = (@ \ old) \cup {plan.replacement[p] : p \in old}]]]

\* Patches the plan takes out of the map m, and those that are exchanged: their
\* replacement is in the map afterwards.
erased_by(m, plan, after) ==
    {p \in DOMAIN plan.replacement : p \in DOMAIN m.patches_by_id /\ p \notin DOMAIN after.patches_by_id}
exchanged_by(m, plan, after) ==
    {p \in replaced_by(m, plan) : plan.replacement[p] \in DOMAIN after.patches_by_id}

\* What the keyframes are associated with, when one current keyframe gets the
\* associated patches of its history keyframe
AssociatedWith(associated, k, h) ==
    [associated EXCEPT ![k] = @ \cup associated[h]]

\* and when those up to l do, in their order, from the pairs that wait.
AssociatedUpTo(associated, pending, l) ==
    LET shared[k \in 0 .. l] ==
            IF k = 0 THEN associated
            ELSE IF k \notin DOMAIN pending THEN shared[k - 1]
            ELSE AssociatedWith(shared[k - 1], k, pending[k])
    IN shared[l]

Associated(m, associated) ==
    [m EXCEPT !.keyframe = [k \in DOMAIN m.keyframe |->
        [m.keyframe[k] EXCEPT !.associated_patches = associated[k]]]]

-----------------------------------------------------------------------------
(* The tracking thread.                                                    *)

\* The first frame: keyframe 0 with the label 0, an empty map.
Init ==
    /\ pc = "top"
    /\ keyframe = [k \in {0} |-> [T_w_lidar |-> 0, label |-> 0, local_patches |-> {}, associated_patches |-> {}]]
    /\ neighbor_label_frame_num = [l \in {0} |-> {0}]
    /\ curr_label = 0 /\ is_loop_closure_detected = FALSE
    /\ patches_by_id = <<>> /\ patch_key = 0 /\ all_patches_map = <<>>
    /\ succeed_associations = {} /\ is_add_keyframe = FALSE
    /\ scan_to_map = <<>> /\ loops = <<>> /\ closed = 0 /\ pending_associated_keyframes = <<>>
    /\ replaced = {} /\ holes = {} /\ crossed = {} /\ late = FALSE

\* Patches a frame at pose may be registered against.
associable(pose) ==
    {p \in Registered :
        /\ is_connected(curr_label, keyframe[patches_by_id[p].keyframe].label)
        /\ \E o \in Offsets : Inside(pose + o, patches_by_id[p].enlarged_bound_w)}

\* The neighbours of the label of a new segment that starts with keyframe l.
\* The second keyframe of all gets no neighbour.
new_segment(l) ==
    LET n == With(neighbor_label_frame_num, l, {l})
    IN IF keyframe_size <= 1 THEN n
       ELSE IF is_loop_closure_detected THEN merge_neighbor_label(n, l, curr_label)
       ELSE insert_neighbor_label(n, l, keyframe[latest_keyframe].label)

\* remove_points_inside_bounding_box and the rest of
\* rt_fix_voxel_initialization, for the point x seen by keyframe k (none if
\* seen is empty): a patch at its cell, unless a patch there covers it already.
with_new_patch(kf, n, k, seen) ==
    LET m == [Map EXCEPT !.keyframe = kf]
        covered(x) == \E p \in PatchesAt(all_patches_map, {GridKey(x)}) :
                          /\ kf[patches_by_id[p].keyframe].label \in n[kf[k].label]
                          /\ Inside(x, patches_by_id[p].bound_w)
        uncovered == {x \in seen : ~covered(x)}
    IN IF uncovered = {} THEN m
       ELSE insert_patch(m, k, NewPatch(kf, k, GridKey(CHOOSE x \in uncovered : TRUE)))

\* A frame that makes no keyframe: its points become patches of the latest
\* keyframe.
Frame(m, seen, associations) ==
    /\ pc = "top" /\ scan_to_map = <<>>
    /\ pc' = "update" /\ is_add_keyframe' = FALSE
    /\ succeed_associations' = associations
    /\ LET pose == keyframe[latest_keyframe].T_w_lidar + m
           becomes == with_new_patch(keyframe, neighbor_label_frame_num, latest_keyframe,
                                     {pose + o : o \in seen})
       IN /\ associations \subseteq associable(pose)
          /\ MapBecomes(becomes)
          /\ patch_key' = patch_key + Cardinality(DOMAIN becomes.patches_by_id \ Registered)
    /\ patch_key' <= MaxPatches
    /\ UNCHANGED <<labels, closing, history>>

\* A keyframe, of the segment of the last one or the first of a new segment.
Keyframe(m, is_add_trajectory_segment, seen, associations) ==
    /\ pc = "top" /\ scan_to_map = <<>> /\ keyframe_size < MaxKeyframes
    /\ pc' = "detect" /\ is_add_keyframe' = TRUE
    /\ succeed_associations' = associations
    /\ LET k == keyframe_size
           pose == keyframe[latest_keyframe].T_w_lidar + m
           label == IF is_add_trajectory_segment THEN k ELSE keyframe[latest_keyframe].label
           n == IF is_add_trajectory_segment THEN new_segment(k) ELSE neighbor_label_frame_num
           kf == With(keyframe, k, [T_w_lidar |-> pose, label |-> label,
                                    local_patches |-> {}, associated_patches |-> {}])
           becomes == with_new_patch(kf, n, k, {pose + o : o \in seen})
       IN /\ associations \subseteq associable(pose)
          /\ MapBecomes(becomes)
          /\ patch_key' = patch_key + Cardinality(DOMAIN becomes.patches_by_id \ Registered)
          /\ neighbor_label_frame_num' = n
          /\ curr_label' = IF is_add_trajectory_segment THEN label ELSE curr_label
    /\ patch_key' <= MaxPatches
    /\ is_loop_closure_detected' =
          (is_loop_closure_detected /\ ~(is_add_trajectory_segment /\ keyframe_size > 1))
    /\ UNCHANGED <<closing, history>>

ConnectedKeyframes == {k \in DOMAIN keyframe \ {latest_keyframe} :
                          is_connected(keyframe[latest_keyframe].label, keyframe[k].label)}

\* detect_loop_for_keyframe finds no keyframe to close a loop with.
NoLoop ==
    /\ pc = "detect" /\ pc' = "update"
    /\ UNCHANGED <<succeed_associations, is_add_keyframe, keyframe, labels, patches, closing, history>>

\* A scan-to-map loop: its result waits for the next pass of run().
ScanToMapLoop(h) ==
    /\ pc = "detect" /\ h \in ConnectedKeyframes /\ pc' = "update"
    /\ scan_to_map' = <<[current |-> latest_keyframe, source_label |-> keyframe[latest_keyframe].label,
                         merged_label |-> keyframe[h].label]>>
    /\ is_loop_closure_detected' = TRUE
    /\ UNCHANGED <<succeed_associations, is_add_keyframe, keyframe, neighbor_label_frame_num, curr_label,
                   patches, loops, closed, pending_associated_keyframes, history>>

\* get_keyframe_point_clouds forgets associated patches that are gone.
WithoutGone(h) == [keyframe EXCEPT ![h].associated_patches = @ \cap Registered]

\* A strict loop is tried; registration against the history keyframe fails
StrictLoopRejected(h) ==
    /\ pc = "detect" /\ pc' = "update"
    /\ h \in DOMAIN keyframe \ (ConnectedKeyframes \cup {latest_keyframe})
    /\ keyframe' = WithoutGone(h)
    /\ UNCHANGED <<succeed_associations, is_add_keyframe, labels, patches, closing, history>>

\* or succeeds.
StrictLoopFound(h) ==
    /\ pc = "detect" /\ pc' = "strict"
    /\ closed + Len(loops) < MaxLoops
    /\ h \in DOMAIN keyframe \ (ConnectedKeyframes \cup {latest_keyframe})
    /\ keyframe' = WithoutGone(h)
    /\ pending_associated_keyframes' = With(pending_associated_keyframes, latest_keyframe, h)
    /\ UNCHANGED <<succeed_associations, is_add_keyframe, labels, patches, scan_to_map, loops, closed, history>>

\* trigger_strict_lc_stage1_and_queue_ba: the solve, the plan, the label.
Stage1(first, d) ==
    LET current == latest_keyframe
        h == pending_associated_keyframes[current]
        source_label == keyframe[current].label
        merged_label == keyframe[h].label
        m == update_keyframe_pose_by_poseGraph(first, d)
    IN /\ pc = "strict" /\ pc' = "update"
       /\ \E plan \in overlap_removal_plans(m, group(current), group(h)) :
            /\ loops' = Append(loops, [current |-> current, source_label |-> source_label,
                                       merged_label |-> merged_label, group |-> group(current),
                                       history_group |-> group(h), plan |-> plan, adjusted |-> FALSE])
            /\ crossed' = crossed \cup {p \in DOMAIN plan.replacement :
                                          plan.replacement[p] \in awaiting_removal}
       /\ MapBecomes([m EXCEPT !.keyframe[current].label = merged_label])
       /\ curr_label' = merged_label
       /\ UNCHANGED <<succeed_associations, is_add_keyframe, neighbor_label_frame_num,
                      is_loop_closure_detected, patch_key, scan_to_map, closed,
                      pending_associated_keyframes, replaced, holes, late>>

\* The worker has adjusted the oldest loop it has not: the result is pending.
Adjusted(i) ==
    /\ i \in DOMAIN loops /\ ~loops[i].adjusted
    /\ \A j \in 1 .. i - 1 : loops[j].adjusted
    /\ loops' = [loops EXCEPT ![i].adjusted = TRUE]
    /\ is_loop_closure_detected' = TRUE
    /\ UNCHANGED <<framing, keyframe, neighbor_label_frame_num, curr_label, patches, scan_to_map,
                   closed, pending_associated_keyframes, history>>

\* apply_pending_lc_if_any on a strict result: the solve, the associations the
\* adjustment found (pairs, at most one) and those found before it, the plan,
\* the labels.
Stage3(first, d, pairs) ==
    LET l == Head(loops)
        moved == update_keyframe_pose_by_poseGraph(first, d)
        before == [k \in DOMAIN keyframe |-> keyframe[k].associated_patches]
        found == IF pairs = <<>> THEN before ELSE AssociatedWith(before, pairs[1][1], pairs[1][2])
        associated == Associated(moved, AssociatedUpTo(found, pending_associated_keyframes, l.current))
        removed == Removed(associated, l.plan)
        exchanged == exchanged_by(associated, l.plan, removed)
    IN /\ pc \in {"top", "strict"} /\ loops # <<>> /\ l.adjusted
       /\ \A i \in DOMAIN pairs : pairs[i][1] \in l.group /\ pairs[i][2] \in l.history_group
       /\ MapBecomes([Exchanged(removed, l.plan, exchanged)
                        EXCEPT !.keyframe[l.current].label = l.merged_label])
       /\ neighbor_label_frame_num' =
            merge_neighbor_label(neighbor_label_frame_num, l.source_label, l.merged_label)
       /\ loops' = Tail(loops) /\ closed' = closed + 1
       /\ pending_associated_keyframes' =
            Restrict(pending_associated_keyframes, {k \in DOMAIN pending_associated_keyframes : k > l.current})
       /\ replaced' = replaced \cup exchanged
       /\ holes' = holes \cup (erased_by(associated, l.plan, removed) \ exchanged)
       /\ UNCHANGED <<framing, curr_label, is_loop_closure_detected, patch_key, scan_to_map, crossed, late>>

\* apply_pending_lc_if_any on a scan-to-map result.
ApplyScanToMap ==
    /\ pc = "top" /\ scan_to_map # <<>>
    /\ LET l == Head(scan_to_map)
           n == merge_neighbor_label(neighbor_label_frame_num, l.source_label, l.merged_label)
       IN /\ neighbor_label_frame_num' = n
          /\ keyframe' = [keyframe EXCEPT ![l.current].label = l.merged_label]
          /\ curr_label' = IF l.source_label \in n[curr_label] THEN l.merged_label ELSE curr_label
    /\ scan_to_map' = <<>>
    /\ UNCHANGED <<framing, is_loop_closure_detected, patches, loops, closed,
                   pending_associated_keyframes, history>>

\* update_sph_coeff_thread: a keyframe gets the patches its frame was
\* registered against; those whose surface was fitted anew live on until the
\* latest keyframe, and may change owner while no strict loop is active.
UpdateMap(updated) ==
    /\ pc = "update" /\ pc' = "top"
    /\ updated \subseteq succeed_associations
    /\ loops # <<>> => updated = {}
    /\ LET lived == [Map EXCEPT !.patches_by_id =
               [p \in Registered |-> IF p \in updated
                                    THEN [patches_by_id[p] EXCEPT !.last_update_keyframe_num = latest_keyframe]
                                    ELSE patches_by_id[p]]]
           associated == IF is_add_keyframe
                         THEN [lived EXCEPT !.keyframe[latest_keyframe].associated_patches =
                                               @ \cup succeed_associations]
                         ELSE lived
       IN MapBecomes(swap_patches(associated, update_patch_keyframe(associated, updated)))
    /\ late' = (late \/ (is_add_keyframe /\ ~(succeed_associations \subseteq Registered)))
    /\ succeed_associations' = {} /\ is_add_keyframe' = FALSE
    /\ UNCHANGED <<labels, patch_key, closing, replaced, holes, crossed>>

\* The solves of the pose graph: none moves, or those from a keyframe on do.
Solves == {<<0, 0>>} \cup (DOMAIN keyframe) \X Shifts
Pairs == {<<>>} \cup {<<pair>> : pair \in (DOMAIN keyframe) \X (DOMAIN keyframe)}
Sights == {{}} \cup {{o} : o \in Offsets}

Next ==
    \/ \E m \in Motions, seen \in Sights, associations \in SUBSET Registered :
          \/ Frame(m, seen, associations)
          \/ \E is_add_trajectory_segment \in BOOLEAN :
                Keyframe(m, is_add_trajectory_segment, seen, associations)
    \/ NoLoop
    \/ \E h \in DOMAIN keyframe : ScanToMapLoop(h) \/ StrictLoopRejected(h) \/ StrictLoopFound(h)
    \/ \E solve \in Solves : Stage1(solve[1], solve[2])
    \/ \E i \in DOMAIN loops : Adjusted(i)
    \/ \E solve \in Solves, pairs \in Pairs : Stage3(solve[1], solve[2], pairs)
    \/ ApplyScanToMap
    \/ \E updated \in SUBSET succeed_associations : UpdateMap(updated)

Spec == Init /\ [][Next]_vars

-----------------------------------------------------------------------------
(* Properties.                                                             *)

\* The indices stay in range: keys are handed out once and never zero, every
\* label and owner that is named exists.
TypeOK ==
    /\ pc \in {"top", "detect", "strict", "update"}
    /\ DOMAIN keyframe = 0 .. keyframe_size - 1 /\ keyframe_size <= MaxKeyframes
    /\ \A k \in DOMAIN keyframe :
         /\ keyframe[k].T_w_lidar \in Int
         /\ keyframe[k].label \in DOMAIN neighbor_label_frame_num
         /\ keyframe[k].local_patches \cup keyframe[k].associated_patches \subseteq 1 .. patch_key
    /\ \A l \in DOMAIN neighbor_label_frame_num :
         l \in neighbor_label_frame_num[l] /\ neighbor_label_frame_num[l] \subseteq DOMAIN neighbor_label_frame_num
    /\ curr_label \in DOMAIN neighbor_label_frame_num
    /\ Registered \subseteq 1 .. patch_key /\ patch_key <= MaxPatches
    /\ \A p \in Registered : patches_by_id[p].keyframe \in DOMAIN keyframe
    /\ succeed_associations \subseteq 1 .. patch_key

\* The grid is exact: the bucket of a cell holds every registered patch whose
\* enlarged box reaches the cell and no other, once each, every patch at the
\* place the bucket's index gives it; no bucket is empty.  Insertion, erasure
\* and the batched moves of a solve each rebuild only part of it, from boxes
\* that the others have changed.
GridExact ==
    /\ \A p \in Registered : get_grid_indices(patches_by_id[p].enlarged_bound_w) \subseteq DOMAIN all_patches_map
    /\ \A c \in DOMAIN all_patches_map :
         LET bucket == all_patches_map[c]
         IN /\ bucket.patches # <<>>
            /\ Range(bucket.patches) =
                 {p \in Registered : c \in get_grid_indices(patches_by_id[p].enlarged_bound_w)}
            /\ DOMAIN bucket.index = Range(bucket.patches)
            /\ \A i \in DOMAIN bucket.patches : bucket.index[bucket.patches[i]] = i

\* A keyframe lists exactly the patches that name it as their owner, although
\* rebinding, removal plans and erasure change the two sides apart.
OwnersExact ==
    \A k \in DOMAIN keyframe :
        keyframe[k].local_patches = {p \in Registered : patches_by_id[p].keyframe = k}

\* However often a patch is rebound and its owners are moved, its box is where
\* the patch is: T_w_lidar of the owner times the inverse of T_obj_lidar.
BoxFollowsPatch ==
    \A p \in Registered :
        /\ patches_by_id[p].bound_w.lower =
             keyframe[patches_by_id[p].keyframe].T_w_lidar - patches_by_id[p].T_obj_lidar
        /\ Length(patches_by_id[p].bound_w) = Cut
        /\ patches_by_id[p].enlarged_bound_w = Enlarged(patches_by_id[p].bound_w)

\* Every patch is filed where it is.
PlacedExact == GridExact /\ BoxFollowsPatch

\* A patch is removed for one that shows the same surface and stays in the
\* map.  The one exception: when the plan was made its replacement already
\* awaited removal by the plan of an earlier loop, which
\* build_overlap_removal_plan_after_loop does not look at.
HolesOnlyCrossed == holes \subseteq crossed

\* Once a patch was removed for another, no keyframe is associated with it
\* again, by whatever associations were still pending; unless a frame's own
\* associations outlived the patch (a stage 3 in the middle of the frame).
AssociationsFollow ==
    ~late => \A k \in DOMAIN keyframe : keyframe[k].associated_patches \cap replaced = {}

\* A patch is only ever rebound to a later keyframe: swap_patch, which takes
\* the lock of the old owner and then that of the new one, in parallel threads,
\* takes them in ascending order and cannot deadlock.
RebindsForward ==
    [][\A p \in Registered \cap DOMAIN patches_by_id' :
          patches_by_id'[p].keyframe >= patches_by_id[p].keyframe]_vars
=============================================================================
