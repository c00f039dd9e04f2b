----------------------------- MODULE PoseGraph ------------------------------
(***************************************************************************)
(* The constraints of CurlPoseGraph and who may remove them.               *)
(*                                                                         *)
(* A keyframe enters the pose graph with an odometry constraint to its     *)
(* predecessor, unless a strict loop closed there.  A loop adds an ICP     *)
(* constraint.  The bundle adjustment of a strict loop prepares, on a      *)
(* worker thread, constraints that replace older ones; stage 3 applies     *)
(* them on the tracking thread, while that goes on adding keyframes and    *)
(* loops in between.  One adjustment runs at a time and stage 3 excludes   *)
(* it (StrictLoop: SingleOptimiser, Stage3Exclusive).                      *)
(*                                                                         *)
(* Removing a constraint sets its weight to 0: it is not live any more.    *)
(* Keyframes are numbered in order of time, and 0 is the initial one, which *)
(* never becomes a backend keyframe and is constant in the graph.          *)
(***************************************************************************)
EXTENDS Integers, Sequences, FiniteSets

CONSTANT LastKeyframe   \* bound on the keyframes: the number of the last one

ASSUME LastKeyframeAssumption == LastKeyframe \in Nat \ {0}

Keyframes == 0 .. LastKeyframe
Backend == 1 .. LastKeyframe
Links == {{a, b} : a \in Backend, b \in Backend}
Loops == [current : Backend, history : Backend]
NoLoop == [current |-> -1, history |-> -1]
Packs == [links : SUBSET Links, odometry : SUBSET Backend, icp : Loops \cup {NoLoop}]
NoPack == [links |-> {}, odometry |-> {}, icp |-> NoLoop]

VARIABLES
  tpc,       \* control point of the tracking thread
  latest,    \* the latest keyframe
  odometry,  \* keyframes with a live odometry constraint to their predecessor
  links,     \* keyframes joined by other live constraints
  icp,       \* loops whose ICP constraint is live
  lastIcp,   \* icp_loop_closure_cost_function
  skip,      \* skip_odometry_after_frame_num
  tree,      \* kdTree_keyframes
  assoc,     \* pending_associated_keyframes
  closed,    \* keyframes that ever closed a strict loop
  found,     \* the strict loop between detection and stage 1
  tasks,     \* strict_ba_queue
  bpc,       \* control point of the adjustment
  loop,      \* the loop being adjusted
  pack       \* its BADeferredPack

graphVars == <<odometry, links, icp, lastIcp>>
workerVars == <<bpc, loop, pack>>
vars == <<tpc, latest, graphVars, skip, tree, assoc, closed, found, tasks, workerVars>>

TypeOK ==
  /\ tpc \in {"frame", "loop"}
  /\ latest \in Keyframes
  /\ odometry \subseteq 1 .. latest
  /\ links \subseteq Links
  /\ icp \subseteq Loops /\ lastIcp \in Loops \cup {NoLoop}
  /\ skip \in -1 .. latest
  /\ tree \in Seq(1 .. latest)
  /\ assoc \subseteq Loops
  /\ closed \subseteq 1 .. latest
  /\ found \in Loops \cup {NoLoop}
  /\ tasks \in Seq(Loops)
  /\ bpc \in {"idle", "adjust", "wait"}
  /\ loop \in Loops \cup {NoLoop}
  /\ pack \in Packs

Init ==
  /\ tpc = "frame" /\ latest = 0
  /\ odometry = {} /\ links = {} /\ icp = {} /\ lastIcp = NoLoop
  /\ skip = -1 /\ tree = <<>> /\ assoc = {} /\ closed = {}
  /\ found = NoLoop /\ tasks = <<>>
  /\ bpc = "idle" /\ loop = NoLoop /\ pack = NoPack

-----------------------------------------------------------------------------
(* Tracking thread: a new keyframe                                         *)

\* Plausible bug: the mark is compared with the keyframe itself.
AddOdometryLate(k) ==
  IF skip = k THEN skip' = -1 /\ UNCHANGED odometry
  ELSE odometry' = odometry \cup {k} /\ UNCHANGED skip

\* add_odometry_constrain_for_keyframe: the keyframe after a strict loop starts a
\* stretch of its own.
AddOdometry(k) ==
  IF skip = k - 1 THEN skip' = -1 /\ UNCHANGED odometry
  ELSE odometry' = odometry \cup {k} /\ UNCHANGED skip

\* No loop: the keyframe becomes a candidate for later ones.
AddKeyframe ==
  /\ tpc = "frame" /\ latest < LastKeyframe
  /\ latest' = latest + 1
  /\ AddOdometry(latest + 1)
  /\ tree' = Append(tree, latest + 1)
  /\ UNCHANGED <<tpc, links, icp, lastIcp, assoc, closed, found, tasks, workerVars>>

\* A loop within connected trajectories: a plain constraint, applied at once.
AddKeyframeScanToMap ==
  /\ tpc = "frame" /\ latest < LastKeyframe
  /\ latest' = latest + 1
  /\ AddOdometry(latest + 1)
  /\ \E i \in 1 .. Len(tree) : links' = links \cup {{tree[i], latest + 1}}
  /\ tree' = Append(tree, latest + 1)
  /\ UNCHANGED <<tpc, icp, lastIcp, assoc, closed, found, tasks, workerVars>>

\* A strict loop: an ICP constraint, and the pair whose patches will be shared.
AddKeyframeStrictLoop ==
  /\ tpc = "frame" /\ latest < LastKeyframe
  /\ latest' = latest + 1
  /\ AddOdometry(latest + 1)
  /\ \E i \in 1 .. Len(tree) : found' = [current |-> latest + 1, history |-> tree[i]]
  /\ icp' = icp \cup {found'} /\ lastIcp' = found'
  /\ assoc' = assoc \cup {found'}
  /\ tpc' = "loop"
  /\ UNCHANGED <<links, tree, closed, tasks, workerVars>>

\* Plausible bug: the keyframes are rebuilt without the test of is_backend_keyframe.
RebuiltTreeAll == [i \in 1 .. latest + 1 |-> i - 1]

\* kdTree_update_keyframe_poses
RebuiltTree == [i \in 1 .. latest |-> i]

\* Plausible bug: the candidates are extended as for a keyframe without a loop.
Stage1Appending ==
  /\ tpc = "loop"
  /\ skip' = found.current
  /\ closed' = closed \cup {found.current}
  /\ tree' = Append(tree, found.current)
  /\ tasks' = Append(tasks, found)
  /\ found' = NoLoop /\ tpc' = "frame"
  /\ UNCHANGED <<latest, graphVars, assoc, workerVars>>

\* set_skip_odometry_after_keyframe and stage 1, which remembers the loop's own
\* ICP constraint in the task.
Stage1 ==
  /\ tpc = "loop"
  /\ skip' = found.current
  /\ closed' = closed \cup {found.current}
  /\ tree' = RebuiltTree
  /\ tasks' = Append(tasks, found)
  /\ found' = NoLoop /\ tpc' = "frame"
  /\ UNCHANGED <<latest, graphVars, assoc, workerVars>>

-----------------------------------------------------------------------------
(* Worker thread: run_local_BA_after_pose_update                           *)

BeginAdjustment ==
  /\ bpc = "idle" /\ tasks # <<>>
  /\ loop' = Head(tasks) /\ tasks' = Tail(tasks)
  /\ bpc' = "adjust"
  /\ UNCHANGED <<tpc, latest, graphVars, skip, tree, assoc, closed, found, pack>>

\* Consecutive members of a set of keyframes, in order of time.
Consecutive(K) ==
  {p \in K \X K : p[1] < p[2] /\ ~ \E k \in K : p[1] < k /\ k < p[2]}

Joined(pairs) == {{p[1], p[2]} : p \in pairs}

\* Of the keyframes of the loop's window, those in C found associations with history
\* keyframes H, never with themselves; each is joined to the one it found most with.
TopLinks(C, H) ==
  {{{top[c], c} : c \in C} : top \in {f \in [C -> H] : \A c \in C : f[c] # c}}

\* Neighbours in H of which one was optimised, whichever were.
OptimisedPairs(H) ==
  {{q \in Consecutive(H) : q[1] \in O \/ q[2] \in O} : O \in SUBSET H}

\* Plausible bug: the oldest current keyframe is not passed over.
EagerRemovals(C, J) ==
  (C \cup {q[2] : q \in {r \in J : r[2] = r[1] + 1}}) \cap odometry

\* Odometry constraints to be replaced: of every current keyframe but the oldest,
\* and of an optimised pair of history keyframes that follow each other directly.
Removals(C, J) ==
  ({p[2] : p \in Consecutive(C)} \cup {q[2] : q \in {r \in J : r[2] = r[1] + 1}})
    \cap odometry

\* Plausible bug: the ICP constraint of the latest loop is taken for the task's.
LatestIcp == lastIcp

\* The ICP constraint that stage 1 remembered in the task.
TaskIcp == loop

Adjust ==
  /\ bpc = "adjust"
  /\ \E C, H \in SUBSET (1 .. loop.current) :
       /\ \A h \in H : \E c \in C : c # h
       /\ \E T \in TopLinks(C, H), J \in OptimisedPairs(H) :
            pack' = [links |-> T \cup Joined(Consecutive(C)) \cup Joined(J),
                     odometry |-> Removals(C, J), icp |-> TaskIcp]
  /\ bpc' = "wait"
  /\ UNCHANGED <<tpc, latest, graphVars, skip, tree, assoc, closed, found, tasks, loop>>

-----------------------------------------------------------------------------
(* Tracking thread: stage 3                                                *)

\* Plausible bug: the pairs of loops still in flight are used up as well.
SharedAll == assoc' = {}

\* apply_pending_associated_patches_updates_up_to_frame: the pairs of later loops
\* are kept.
SharedUpTo == assoc' = {a \in assoc : a.current > loop.current}

\* apply_pending_ba_pose_graph_updates, also between the detection and stage 1 of
\* another loop.
Stage3 ==
  /\ bpc = "wait"
  /\ links' = links \cup pack.links
  /\ odometry' = odometry \ pack.odometry
  /\ icp' = icp \ {pack.icp}
  /\ lastIcp' = IF lastIcp = pack.icp THEN NoLoop ELSE lastIcp
  /\ tree' = RebuiltTree
  /\ SharedUpTo
  /\ bpc' = "idle" /\ loop' = NoLoop /\ pack' = NoPack
  /\ UNCHANGED <<tpc, latest, skip, closed, found, tasks>>

-----------------------------------------------------------------------------
Next ==
  \/ AddKeyframe \/ AddKeyframeScanToMap \/ AddKeyframeStrictLoop \/ Stage1 \/ Stage3
  \/ BeginAdjustment \/ Adjust

Spec == Init /\ [][Next]_vars

-----------------------------------------------------------------------------
(* Properties *)

\* Strict loops that were detected and not yet applied.
InFlight ==
  {tasks[i] : i \in 1 .. Len(tasks)} \cup ({found, loop} \ {NoLoop})

\* However constraints are replaced, every keyframe stays joined to an older one,
\* but for those that start a stretch: no keyframe drops out of the graph, and
\* each part of it holds the start of a stretch.
Rooted ==
  \A k \in 1 .. latest :
    \/ k - 1 \in closed
    \/ k \in odometry
    \/ \E j \in 1 .. k - 1 : {j, k} \in links

\* A loop's ICP constraint pulls until stage 3 of that very loop replaces it, with
\* several loops in flight: none is left behind and none is removed early.
IcpOwned ==
  /\ icp = InFlight
  /\ lastIcp # NoLoop => lastIcp \in icp

\* The patches of a loop's pair are shared in its own stage 3, not in that of an
\* earlier loop, and the pair is not forgotten.
AssociationsOwned == assoc = InFlight

\* The motion from the keyframe of a strict loop to the next one was measured
\* across the correction: it never becomes a constraint, and the mark that says
\* so is used before it is set again.
SkipHonoured ==
  /\ \A k \in closed : k + 1 \notin odometry
  /\ skip \in {-1, latest}

\* What the adjustment wants removed is still there when stage 3 removes it.
RemovalsFresh == pack.odometry \subseteq odometry

\* Each loop's ICP constraint, its pair and the constraints its adjustment replaces
\* belong to its own stage 3, which finds them all.
LoopsOwned == IcpOwned /\ AssociationsOwned /\ RemovalsFresh

\* Entry i of the search tree is the i-th backend keyframe, once, whichever way the
\* keyframe came in; only a strict loop's keyframe enters it in stage 1.
TreeExact ==
  /\ tree \in {[i \in 1 .. n |-> i] : n \in {latest, latest - 1} \cap Nat}
  /\ tpc = "frame" => Len(tree) = latest
=============================================================================
