----------------------------- MODULE LoopSearch -----------------------------
(***************************************************************************)
(* The search for keyframes near a new one: CurlPoseGraph keeps the        *)
(* positions of the backend keyframes in nanoflann's dynamic index, a      *)
(* forest of kd-trees whose i-th tree is empty or holds 2^i points, and    *)
(* rebuilds it whenever the poses are rewritten.                           *)
(*                                                                         *)
(* Positions are on a lattice of multiples of 8, so that halving three     *)
(* times stays exact; a deeper tree halves downwards, on which only its    *)
(* shape depends.  EPS of middleSplit_ is less than a step of the lattice. *)
(***************************************************************************)
EXTENDS Integers, SequencesExt

CONSTANTS
  MaxBackend,        \* bound on the backend keyframes
  MaxLoops,          \* bound on the loops whose result is not yet applied
  Places,            \* where a keyframe may be
  Shifts,            \* by how much a solve may move it
  radius,            \* search_radius_squared
  m_leaf_max_size,   \* 10 in the code
  treeCount          \* of the forest

\* How many points all trees before the i-th may hold, and one more.
Capacity[i \in 0 .. treeCount] == IF i = 0 THEN 1 ELSE 2 * Capacity[i - 1]

\* maximumPointCount is never reached.
ASSUME LoopSearchAssumption ==
  /\ {MaxBackend, MaxLoops} \subseteq Nat /\ {radius, m_leaf_max_size, treeCount} \subseteq Nat \ {0}
  /\ Places \cup Shifts \subseteq Int \X Int \X Int
  /\ \A p \in Places : \A d \in 1 .. 3 : p[d] % 8 = 0
  /\ MaxBackend < Capacity[treeCount]

VARIABLES
  pose,              \* of the backend keyframes, from the oldest
  keyframe_poses,    \* the data set of the index
  index,             \* the trees of the forest
  applying           \* the loops whose adjustment will still move keyframes

searchVars == <<pose, keyframe_poses, index, applying>>

Dims == 1 .. 3
Trees == 0 .. treeCount - 1

NULL == <<>>
EmptyTree == [vind |-> <<>>, root_node |-> NULL, root_bbox |-> NULL]
IsLeaf(node) == "vind" \in DOMAIN node

\* What a node with at most so many levels below it may be.
Nodes[levels \in 0 .. MaxBackend] ==
  IF levels = 0 THEN [vind : Seq(Nat)]
  ELSE LET below == Nodes[levels - 1]
       IN below \cup [divfeat : Dims, divlow : Int, divhigh : Int, child1 : below, child2 : below]

accum_dist(a, b) == (a - b) * (a - b)
evalMetric(a, b) == accum_dist(a[1], b[1]) + accum_dist(a[2], b[2]) + accum_dist(a[3], b[3])

-----------------------------------------------------------------------------
(* Building one tree over the points pts[k], k in vind *)

\* The indices of vind that are in S, in their order.
Those(vind, S) ==
  LET those[n \in 0 .. Len(vind)] ==
        IF n = 0 THEN <<>>
        ELSE IF vind[n] \in S THEN Append(those[n - 1], vind[n]) ELSE those[n - 1]
  IN those[Len(vind)]

Coordinates(pts, vind, d) == {pts[vind[k]][d] : k \in DOMAIN vind}
Interval(S) == [low |-> Min(S), high |-> Max(S)]
Span(interval) == interval.high - interval.low

computeBoundingBox(pts, vind) == [d \in Dims |-> Interval(Coordinates(pts, vind, d))]

\* Of the longest sides of the box the one along which the points spread most.
CutDimension(spread, bbox) ==
  LET longest == {d \in Dims : Span(bbox[d]) = Max({Span(bbox[e]) : e \in Dims})}
      widest == {d \in longest : \A e \in longest : Span(spread[e]) <= Span(spread[d])}
  IN IF \A d \in Dims : Span(bbox[d]) = 0 THEN 1 ELSE Min(widest)

CutValue(spread, bbox) ==
  LET middle == (bbox.low + bbox.high) \div 2
  IN Max({spread.low, Min({spread.high, middle})})

\* The points before, at and after the plane; inside the parts the code's swaps
\* permute them, here they keep their order.
planeSplit(pts, vind, d, cutval) ==
  [before |-> Those(vind, {k \in DOMAIN pts : pts[k][d] < cutval}),
   at     |-> Those(vind, {k \in DOMAIN pts : pts[k][d] = cutval}),
   after  |-> Those(vind, {k \in DOMAIN pts : pts[k][d] > cutval})]

\* How many points go to the first child.
SplitIndex(lim1, lim2, count) ==
  IF lim1 > count \div 2 THEN lim1 ELSE IF lim2 < count \div 2 THEN lim2 ELSE count \div 2

Halves(parts, d, cutval) ==
  LET sorted == parts.before \o parts.at \o parts.after
      split == SplitIndex(Len(parts.before), Len(parts.before \o parts.at), Len(sorted))
  IN [cutfeat |-> d, cutval |-> cutval,
      left |-> SubSeq(sorted, 1, split), right |-> SubSeq(sorted, split + 1, Len(sorted))]

middleSplit_(pts, vind, bbox) ==
  LET spread == computeBoundingBox(pts, vind)
      d == CutDimension(spread, bbox)
      cutval == CutValue(spread[d], bbox[d])
  IN Halves(planeSplit(pts, vind, d, cutval), d, cutval)

\* A node keeps how far each child really reaches.
Joined(d, one, two) ==
  [node |-> [divfeat |-> d, divlow |-> one.bbox[d].high, divhigh |-> two.bbox[d].low,
             child1 |-> one.node, child2 |-> two.node],
   bbox |-> [e \in Dims |-> [low  |-> Min({one.bbox[e].low, two.bbox[e].low}),
                             high |-> Max({one.bbox[e].high, two.bbox[e].high})]]]

Lists(pts) == {vind \in Seq(DOMAIN pts) : IsInjective(vind)}
Boxes == [Dims -> [low : Int, high : Int]]

\* A node and the box of its points; a child gets the parent's box cut at the plane.
divideTree(pts, vind, bbox) ==
  LET divide[v \in Lists(pts)] ==
        [box \in Boxes |->
           IF Len(v) <= m_leaf_max_size
           THEN [node |-> [vind |-> v], bbox |-> computeBoundingBox(pts, v)]
           ELSE LET split == middleSplit_(pts, v, box)
                IN Joined(split.cutfeat,
                          divide[split.left][[box EXCEPT ![split.cutfeat].high = split.cutval]],
                          divide[split.right][[box EXCEPT ![split.cutfeat].low = split.cutval]])]
  IN divide[vind][bbox]

buildIndex(pts, vind) ==
  LET built == divideTree(pts, vind, computeBoundingBox(pts, vind))
  IN [vind |-> vind, root_node |-> built.node, root_bbox |-> built.bbox]

-----------------------------------------------------------------------------
(* The forest.  No point is ever removed, so treeIndex is left out. *)

First0Bit[num \in 0 .. MaxBackend] == IF num % 2 = 1 THEN 1 + First0Bit[num \div 2] ELSE 0

\* A mistake: the smaller trees keep their points.
addPointKeeping(forest, pts, k) ==
  LET pos == First0Bit[k - 1]
      joined == FlattenSeq([i \in 1 .. pos |-> forest[i - 1].vind])
  IN [forest EXCEPT ![pos] = buildIndex(pts, Append(joined, k))]

\* The point joins the points of the full trees before the first empty one,
\* which become its tree.
addPoint(forest, pts, k) ==
  LET pos == First0Bit[k - 1]
      joined == FlattenSeq([i \in 1 .. pos |-> forest[i - 1].vind])
  IN [i \in Trees |-> CASE i < pos -> EmptyTree
                        [] i = pos -> buildIndex(pts, Append(joined, k))
                        [] i > pos -> forest[i]]

addPoints(forest, pts, start) ==
  LET added[n \in start - 1 .. Len(pts)] ==
        IF n = start - 1 THEN forest ELSE addPoint(added[n - 1], pts, n)
  IN added[Len(pts)]

NewForest(pts) == addPoints([i \in Trees |-> EmptyTree], pts, 1)

-----------------------------------------------------------------------------
(* Searching *)

\* The squared distances from vec to a box, by dimension, and their sum.
Distances == [mindistsq : Int, dists : [Dims -> Int]]

computeInitialDistances(vec, bbox) ==
  LET dists == [d \in Dims |-> IF vec[d] < bbox[d].low THEN accum_dist(vec[d], bbox[d].low)
                              ELSE IF vec[d] > bbox[d].high THEN accum_dist(vec[d], bbox[d].high) ELSE 0]
  IN [mindistsq |-> dists[1] + dists[2] + dists[3], dists |-> dists]

\* On which side of the plane vec is, and how far the other side is.
IsBefore(vec, node) ==
  (vec[node.divfeat] - node.divlow) + (vec[node.divfeat] - node.divhigh) < 0

bestChild(vec, node) == IF IsBefore(vec, node) THEN node.child1 ELSE node.child2
otherChild(vec, node) == IF IsBefore(vec, node) THEN node.child2 ELSE node.child1

Beyond(vec, node, known) ==
  LET d == node.divfeat
      cut_dist == accum_dist(vec[d], IF IsBefore(vec, node) THEN node.divhigh ELSE node.divlow)
  IN [mindistsq |-> known.mindistsq + cut_dist - known.dists[d],
      dists |-> [known.dists EXCEPT ![d] = cut_dist]]

Neighbors(pts, vec) == {k \in DOMAIN pts : evalMetric(vec, pts[k]) < radius}

\* The child on vec's side of the plane first; the other only if what is known
\* of its distance does not exceed the radius.
searchLevel(pts, vec, root_node, initial) ==
  LET search[node \in Nodes[MaxBackend]] ==
        [known \in Distances |->
           IF IsLeaf(node) THEN Those(node.vind, Neighbors(pts, vec))
           ELSE search[bestChild(vec, node)][known]
                \o IF Beyond(vec, node, known).mindistsq <= radius
                   THEN search[otherChild(vec, node)][Beyond(vec, node, known)]
                   ELSE <<>>]
  IN search[root_node][initial]

SearchTree(tree, pts, vec) ==
  IF tree.root_node = NULL THEN <<>>
  ELSE searchLevel(pts, vec, tree.root_node, computeInitialDistances(vec, tree.root_bbox))

findNeighbors(vec) ==
  FlattenSeq([i \in 1 .. treeCount |-> SearchTree(index[i - 1], keyframe_poses, vec)])

-----------------------------------------------------------------------------
(* The pose graph's use of it *)

SearchInit ==
  /\ pose = <<>> /\ keyframe_poses = <<>> /\ applying = 0
  /\ index = [i \in Trees |-> EmptyTree]

\* kdTree_keyframe_poses_emplace_back and kdTree_update_keyframe_poses.
EmplaceBack(p) ==
  /\ keyframe_poses' = Append(keyframe_poses, p)
  /\ index' = addPoints(index, keyframe_poses', Len(keyframe_poses) + 1)

Rebuild == keyframe_poses' = pose' /\ index' = NewForest(pose')

\* What a solve may do: the keyframes after one of them move.
Moved(poses, after, shift) ==
  [k \in DOMAIN poses |-> IF k <= after THEN poses[k]
                             ELSE <<poses[k][1] + shift[1], poses[k][2] + shift[2], poses[k][3] + shift[3]>>]

\* A keyframe without a loop, or with a loop to a connected one.
EnterKeyframe ==
  /\ Len(pose) < MaxBackend
  /\ \E p \in Places : pose' = Append(pose, p) /\ EmplaceBack(p)
  /\ UNCHANGED applying

\* A strict loop to one of the keyframes found: stage 1 solves and rebuilds.
StrictLoopStage1 ==
  /\ Len(pose) < MaxBackend /\ applying < MaxLoops
  /\ \E p \in Places, shift \in Shifts : \E h \in Range(findNeighbors(p)) :
       pose' = Moved(Append(pose, p), h, shift)
  /\ Range(pose') \subseteq Places
  /\ Rebuild
  /\ applying' = applying + 1

\* Stage 3 applies the adjusted poses and rebuilds.
ApplyResult ==
  /\ applying > 0
  /\ \E after \in DOMAIN pose, shift \in Shifts : pose' = Moved(pose, after, shift)
  /\ Range(pose') \subseteq Places
  /\ Rebuild
  /\ applying' = applying - 1

SearchNext == EnterKeyframe \/ StrictLoopStage1 \/ ApplyResult

SearchSpec == SearchInit /\ [][SearchNext]_searchVars

-----------------------------------------------------------------------------
\* Wherever the sensor is, detect_loop_for_keyframe's search returns every
\* backend keyframe nearer than the radius, by its present pose, exactly once:
\* no branch of a tree is cut off too early, no point is lost or duplicated
\* when trees are merged, and no correction of the poses leaves the index behind.
SearchExact ==
  \A vec \in Places :
    LET found == findNeighbors(vec)
    IN /\ IsInjective(found)
       /\ Range(found) = {k \in DOMAIN pose : evalMetric(vec, pose[k]) < radius}
=============================================================================
