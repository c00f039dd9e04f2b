----------------------------- MODULE Preprocess -----------------------------
(***************************************************************************)
(* From the point cloud messages to the patches of a frame.  A callback    *)
(* drops what is too near or too far, thins the clouds once the map is     *)
(* established, and queues the frame; the tracking thread takes it and     *)
(* divides it into the cells of a grid of the world and these into the     *)
(* regions of the scan.                                                    *)
(*                                                                         *)
(* A point is <<x, y, z>> in millimetres, as the sensor measures it; of a  *)
(* pose only the translation matters here.  A cloud is the set of its      *)
(* points, so a message does not hold the same point twice.                *)
(***************************************************************************)
EXTENDS Integers, FiniteSets, SequencesExt

CONSTANTS
  MaxQueue,            \* bound on the frames that wait
  SegPoints, GroundPoints,  \* of which the messages consist
  Poses,               \* where the sensor may be
  is_seg_only, is_voxel_grid_filter,
  update_steps, leaf_size,
  minimum_squared_dis, maximum_squared_dis,
  cut_threshold,       \* the side of a cell
  patch_minimun_pts_num_after_filter,
  region_width_elements

Axes == 1 .. 3

ASSUME PreprocessAssumption ==
  /\ IsFiniteSet(SegPoints) /\ IsFiniteSet(GroundPoints)
  /\ SegPoints \cup GroundPoints \cup Poses \subseteq [Axes -> Int] /\ Poses # {}
  /\ {is_seg_only, is_voxel_grid_filter} \subseteq BOOLEAN
  /\ {leaf_size, region_width_elements} \subseteq Nat \ {0} /\ cut_threshold \in Nat \ {0, 1}
  /\ {update_steps, minimum_squared_dis, maximum_squared_dis} \subseteq Nat
  /\ patch_minimun_pts_num_after_filter \in Nat \ {0}

VARIABLES
  running,             \* ros::ok()
  is_init,             \* no message has come yet
  robust_initialization_counter,
  pcl_ptr_pair_queue,  \* the clouds of the frames that wait
  frame                \* the last frame that was divided

preprocessVars == <<running, is_init, robust_initialization_counter, pcl_ptr_pair_queue, frame>>

Regions == 0 .. region_width_elements * region_width_elements - 1

FloorDiv(a, b) == a \div b
CeilDiv(a, b) == -((-a) \div b)
Truncated(a, b) == IF a >= 0 THEN FloorDiv(a, b) ELSE CeilDiv(a, b)

-----------------------------------------------------------------------------
(* The callbacks *)

SquaredDis(pt) == pt[1] * pt[1] + pt[2] * pt[2] + pt[3] * pt[3]

filterInvalidRangePoints(cloud) ==
  {pt \in cloud : minimum_squared_dis < SquaredDis(pt) /\ SquaredDis(pt) < maximum_squared_dis}

VoxelOf(pt, size) == [a \in Axes |-> Truncated(pt[a], size)]

\* The clouds that thinning may leave: one point of every voxel, no matter which.
subSampleFrame(cloud, size) ==
  LET kept == filterInvalidRangePoints(cloud)
      voxels == {VoxelOf(pt, size) : pt \in kept}
  IN {s \in SUBSET kept : /\ Cardinality(s) = Cardinality(voxels)
                          /\ {VoxelOf(pt, size) : pt \in s} = voxels}

IsThinned ==
  is_voxel_grid_filter /\ robust_initialization_counter > update_steps

\* The label of the first point of the first message must be 0; there may be no
\* first point, and then anything may be read.
CheckFirst(seg) ==
  /\ is_init' = FALSE
  /\ \/ ~ is_init /\ UNCHANGED running
     \/ is_init /\ running' = TRUE /\ seg # {}
     \/ is_init /\ seg = {} /\ running' \in BOOLEAN

\* rt_callback_point_cloud_segments; the one for segments alone has no ground.
Callback(segments, ground_points) ==
  LET seg == IF is_seg_only THEN segments \cup ground_points ELSE segments
      ground == IF is_seg_only THEN {} ELSE ground_points
  IN /\ running /\ Len(pcl_ptr_pair_queue) < MaxQueue
     /\ CheckFirst(seg)
     /\ \E s \in IF IsThinned THEN subSampleFrame(seg, leaf_size)
                 ELSE {filterInvalidRangePoints(seg)},
           g \in IF IsThinned THEN subSampleFrame(ground, leaf_size * 2)
                 ELSE {filterInvalidRangePoints(ground)} :
          pcl_ptr_pair_queue' = Append(pcl_ptr_pair_queue, [seg |-> s, ground |-> g])
     /\ robust_initialization_counter' = robust_initialization_counter + IF IsThinned THEN 0 ELSE 1
     /\ UNCHANGED frame

-----------------------------------------------------------------------------
(* Dividing a frame *)

InWorld(pt, pose) == [a \in Axes |-> pt[a] + pose[a]]

\* The box of all points, by axis; without points there is nothing to divide.
get_bounding_box_w(points) ==
  [a \in Axes |-> [low |-> Min({pt[a] : pt \in points}), high |-> Max({pt[a] : pt \in points})]]

\* A mistake: the box ends where its lowest cell may.
LowerTight(low) == FloorDiv(low, cut_threshold) * cut_threshold

\* The box in whole cells; 0.001 m more below, so that the lowest cell, whose
\* key is its upper edge, is not on the border.
Lower(low) == FloorDiv(low, cut_threshold) * cut_threshold - 1

Upper(high) == CeilDiv(high, cut_threshold) * cut_threshold

WholeCells(box) == [a \in Axes |-> [low |-> Lower(box[a].low), high |-> Upper(box[a].high)]]
Length(box, a) == box[a].high - box[a].low

\* The two axes along which regions are counted: not the shortest, and of
\* several not the last axis, then not the first.
RegionAxes(box) ==
  LET shortest == {a \in Axes : \A b \in Axes : Length(box, a) <= Length(box, b)}
  IN IF 3 \in shortest THEN <<1, 2>> ELSE IF 1 \in shortest THEN <<2, 3>> ELSE <<1, 3>>

CellOf(pt, pose) == [a \in Axes |-> CeilDiv(InWorld(pt, pose)[a], cut_threshold)]

\* u or v of a cell.
RegionIndex(box, a, cell) ==
  CeilDiv((cell[a] * cut_threshold - box[a].low) * region_width_elements, Length(box, a)) - 1

RegionOf(box, cell) ==
  LET axes == RegionAxes(box)
  IN RegionIndex(box, axes[2], cell) * region_width_elements + RegionIndex(box, axes[1], cell)

\* By region, the points of the cells that hold enough of them, in any order.
divide_patches(cloud, pose, box) ==
  LET grid == {CellOf(pt, pose) : pt \in cloud}
      In(cell) == {pt \in cloud : CellOf(pt, pose) = cell}
      enough == {cell \in grid : Cardinality(In(cell)) >= patch_minimun_pts_num_after_filter}
  IN [r \in Regions |-> SetToSeq({In(cell) : cell \in {c \in enough : RegionOf(box, c) = r}})]

\* The patches and, beside them, whether they are ground.
preprocessing(seg, ground, pose) ==
  LET points == {InWorld(pt, pose) : pt \in seg \cup ground}
      box == WholeCells(get_bounding_box_w(points))
      seg_cloud_vec == divide_patches(seg, pose, box)
      ground_cloud_vec == divide_patches(ground, pose, box)
  IN [point_cloud_vec |-> IF points = {} THEN [r \in Regions |-> <<>>]
                          ELSE [r \in Regions |-> seg_cloud_vec[r] \o ground_cloud_vec[r]],
      is_ground_cloud_vec |-> IF points = {} THEN [r \in Regions |-> <<>>]
                              ELSE [r \in Regions |-> [i \in DOMAIN seg_cloud_vec[r] |-> FALSE]
                                                      \o [i \in DOMAIN ground_cloud_vec[r] |-> TRUE]]]

\* run() takes the frame and divides it at the pose it expects.
TakeFrame ==
  /\ running /\ pcl_ptr_pair_queue # <<>>
  /\ LET next == Head(pcl_ptr_pair_queue)
     IN \E T_w_j \in Poses :
          frame' = [seg |-> next.seg, ground |-> next.ground, pose |-> T_w_j,
                    result |-> preprocessing(next.seg, next.ground, T_w_j)]
  /\ pcl_ptr_pair_queue' = Tail(pcl_ptr_pair_queue)
  /\ UNCHANGED <<running, is_init, robust_initialization_counter>>

PreprocessInit ==
  /\ running = TRUE /\ is_init = TRUE /\ robust_initialization_counter = 0
  /\ pcl_ptr_pair_queue = <<>>
  /\ frame = [seg |-> {}, ground |-> {}, pose |-> CHOOSE p \in Poses : TRUE,
              result |-> preprocessing({}, {}, CHOOSE p \in Poses : TRUE)]

PreprocessNext ==
  \/ \E segments \in SUBSET SegPoints, ground_points \in SUBSET GroundPoints :
       Callback(segments, ground_points)
  \/ TakeFrame

PreprocessSpec == PreprocessInit /\ [][PreprocessNext]_preprocessVars

-----------------------------------------------------------------------------
(* What the frame's patches must be *)

\* The points of the same cell and kind as a point: what its patch should hold.
Neighbours(cloud, pt) == {q \in cloud : CellOf(q, frame.pose) = CellOf(pt, frame.pose)}
Expected(cloud) ==
  {n \in {Neighbours(cloud, pt) : pt \in cloud} : Cardinality(n) >= patch_minimun_pts_num_after_filter}

Placed(is_ground) ==
  {at \in UNION {{<<r, i>> : i \in DOMAIN frame.result.point_cloud_vec[r]} : r \in Regions} :
     frame.result.is_ground_cloud_vec[at[1]][at[2]] = is_ground}
PatchAt(at) == frame.result.point_cloud_vec[at[1]][at[2]]

\* Every cell of the world with enough points of one kind becomes exactly one
\* patch, with those points and that kind.
CellsBecomePatches ==
  \A is_ground \in BOOLEAN :
    LET cloud == IF is_ground THEN frame.ground ELSE frame.seg
    IN /\ {PatchAt(at) : at \in Placed(is_ground)} = Expected(cloud)
       /\ Cardinality(Placed(is_ground)) = Cardinality(Expected(cloud))

\* Along the two axes other than one of the shortest, regions are in the order
\* of the cells.
RegionsInOrder ==
  LET cell == [at \in Placed(FALSE) \cup Placed(TRUE) |-> CellOf(CHOOSE p \in PatchAt(at) : TRUE, frame.pose)]
      box == WholeCells(get_bounding_box_w({InWorld(pt, frame.pose) : pt \in frame.seg \cup frame.ground}))
      W == region_width_elements
      Follow(u, v) == \A at, bt \in DOMAIN cell :
                        /\ cell[at][u] <= cell[bt][u] => at[1] % W <= bt[1] % W
                        /\ cell[at][v] <= cell[bt][v] => at[1] \div W <= bt[1] \div W
  IN DOMAIN cell = {} \/ \E u, v \in Axes : /\ u < v /\ Follow(u, v)
                                         /\ \E w \in Axes \ {u, v} : \A a \in Axes :
                                              Length(box, w) <= Length(box, a)

\* However the points lie on the borders of cells and the scan fills its box, a
\* frame's patches are its cells, none lost, split or of the wrong kind, and
\* lie in the regions in the order in which they lie in the world.
FrameDivided == CellsBecomePatches /\ RegionsInOrder
=============================================================================
