------------------------------ MODULE FrontEnd ------------------------------
(***************************************************************************)
(* The tracking thread's loop, CurlTracking::run, seen from the frame that *)
(* comes in to the pose that goes out: the queue a ROS callback fills, the *)
(* (re-)initialisation, the registration and its failures, the keyframes   *)
(* of SpatialHashing, which are ordered by time and numbered by arrival,   *)
(* and the poses the thread carries across the corrections of stages 1, 3. *)
(*                                                                         *)
(* A pose is a position on a line: composing two is adding, and inverting  *)
(* is negating.  Registration finds the motion d of a frame without error. *)
(***************************************************************************)
EXTENDS Integers, Sequences, FiniteSets

CONSTANTS MaxStamp,      \* bound: stamps of one playing of the source
          MaxRestarts,   \* bound: how often the source restarts its clock
          MaxQueue,      \* bound: frames waiting
          MaxKeyframes,  \* bound: keyframes created
          MaxLoops,      \* bound: strict loops closed
          FailureLimit,  \* failures in a row that are borne (5 in the code)
          Motions,       \* motions from one frame to the next
          Shifts         \* what a solve may move a part of the graph by

ASSUME ConstantsAssumption ==
    /\ {MaxStamp, MaxRestarts, MaxQueue, MaxKeyframes, MaxLoops, FailureLimit} \subseteq Nat
    /\ Motions \subseteq Int /\ Shifts \subseteq Int

VARIABLES
    queue,          \* pcl_ptr_pair_queue: stamps of the frames that wait
    clock,          \* stamp of the last frame the source sent
    restarts,       \* restarts of the source so far
    pc,             \* where run() is
    is_initial, last_cloud_time, consecutive_failure_count,
    T_w_j, T_w_j_1, T_j_1_j, T_lastKeyframe_keyframe,
    T_w_j_keyframe, T_w_j_keyframe_frame_num,
    created,        \* keyframes created so far, named 1 .. created
    keyframe,       \* what each of them holds
    all_keyframes_set, keyframe_by_frame_num_map,
    loops,          \* strict loops closed so far
    inFlight,       \* those whose stage 3 is still to come
    moved           \* history: motion since the newest keyframe was created

frame == <<queue, clock, restarts>>
tracking == <<is_initial, last_cloud_time, consecutive_failure_count>>
poses == <<T_w_j, T_w_j_1, T_j_1_j, T_lastKeyframe_keyframe>>
anchor == <<T_w_j_keyframe, T_w_j_keyframe_frame_num>>
registry == <<created, keyframe, all_keyframes_set, keyframe_by_frame_num_map>>
vars == <<frame, pc, tracking, poses, anchor, registry, loops, inFlight, moved>>

Keyframes == 1 .. MaxKeyframes
Numbers == 0 .. MaxKeyframes

KeyframeInfo == [time : Nat, frame_num : Numbers, T_w_lidar : Int, graph_pose : Int,
                 is_backend_keyframe : BOOLEAN]

NoKeyframe == [time |-> 0, frame_num |-> 0, T_w_lidar |-> 0, graph_pose |-> 0,
               is_backend_keyframe |-> FALSE]

Identity == 0

TypeOK ==
    /\ queue \in Seq(1 .. MaxStamp) /\ Len(queue) <= MaxQueue
    /\ clock \in 0 .. MaxStamp /\ restarts \in 0 .. MaxRestarts
    /\ pc \in {"top", "detected"}
    /\ is_initial \in BOOLEAN /\ last_cloud_time \in -1 .. MaxStamp
    /\ consecutive_failure_count \in 0 .. FailureLimit
    /\ {T_w_j, T_w_j_1, T_j_1_j, T_lastKeyframe_keyframe, T_w_j_keyframe, moved} \subseteq Int
    /\ T_w_j_keyframe_frame_num \in {-1} \cup Numbers
    /\ created \in 0 .. MaxKeyframes /\ keyframe \in [Keyframes -> KeyframeInfo]
    /\ all_keyframes_set \subseteq 1 .. created
    /\ keyframe_by_frame_num_map \in [Numbers -> 0 .. created]
    /\ loops \in 0 .. MaxLoops /\ inFlight \in 0 .. loops

Init ==
    /\ queue = <<>> /\ clock = 0 /\ restarts = 0
    /\ pc = "top"
    /\ is_initial = TRUE /\ last_cloud_time = -1 /\ consecutive_failure_count = 0
    /\ T_w_j = Identity /\ T_w_j_1 = Identity /\ T_j_1_j = Identity
    /\ T_lastKeyframe_keyframe = Identity
    /\ T_w_j_keyframe = Identity /\ T_w_j_keyframe_frame_num = -1
    /\ created = 0 /\ keyframe = [k \in Keyframes |-> NoKeyframe]
    /\ all_keyframes_set = {} /\ keyframe_by_frame_num_map = [n \in Numbers |-> 0]
    /\ loops = 0 /\ inFlight = 0
    /\ moved = 0

(***************************************************************************)
(* The callback, and the source that restarts its clock (a bag played      *)
(* again).                                                                 *)
(***************************************************************************)
rt_callback_point_cloud_segments ==
    /\ Len(queue) < MaxQueue
    /\ \E t \in clock + 1 .. MaxStamp : clock' = t /\ queue' = Append(queue, t)
    /\ UNCHANGED <<restarts, pc, tracking, poses, anchor, registry, loops, inFlight, moved>>

RestartSource ==
    /\ restarts < MaxRestarts /\ clock > 0
    /\ restarts' = restarts + 1 /\ clock' = 0
    /\ UNCHANGED <<queue, pc, tracking, poses, anchor, registry, loops, inFlight, moved>>

(***************************************************************************)
(* The keyframe set: ordered by time, one keyframe for each time, and a    *)
(* map by number beside it.                                                *)
(***************************************************************************)
\* The place of a keyframe in all_keyframes_set, from 0.
Position(k) ==
    Cardinality({j \in all_keyframes_set : keyframe[j].time < keyframe[k].time})

\* *all_keyframes_set.rbegin()
Latest(set, kf) == CHOOSE k \in set : \A j \in set : kf[j].time <= kf[k].time

latest_keyframe == Latest(all_keyframes_set, keyframe)

keyframe_by_frame_num(n) == keyframe_by_frame_num_map[n]

\* A keyframe's graph pose continues that of the latest keyframe.
RelativePose(rel) ==
    IF all_keyframes_set = {} THEN Identity
    ELSE keyframe[latest_keyframe].graph_pose + rel

\* frame_num of a new keyframe: the size of the set.
\* Mutant: only the keyframes that entered the pose graph are counted.
NextNumberBackend == Cardinality({k \in all_keyframes_set : keyframe[k].is_backend_keyframe})

NextNumber == Cardinality(all_keyframes_set)

\* A new keyframe at time t: entered in the map, and in the set unless that
\* holds a keyframe of the same time.  The latest keyframe, by time, becomes
\* the anchor of the tracking and, when loop detection follows, a backend
\* keyframe.
AddKeyframe(t, pose, rel, backend) ==
    LET new == created + 1
        info == [time |-> t, frame_num |-> NextNumber, T_w_lidar |-> pose,
                 graph_pose |-> RelativePose(rel), is_backend_keyframe |-> FALSE]
        entered == [keyframe EXCEPT ![new] = info]
        refused == \E k \in all_keyframes_set : keyframe[k].time = t
        set == all_keyframes_set \cup IF refused THEN {} ELSE {new}
        latest == Latest(set, entered)
    IN /\ created < MaxKeyframes
       /\ created' = new
       /\ all_keyframes_set' = set
       /\ keyframe_by_frame_num_map' = [keyframe_by_frame_num_map EXCEPT ![NextNumber] = new]
       /\ keyframe' = [entered EXCEPT ![latest].is_backend_keyframe = @ \/ backend]
       /\ T_w_j_keyframe' = entered[latest].T_w_lidar
       /\ T_w_j_keyframe_frame_num' = entered[latest].frame_num
       /\ moved' = 0

(***************************************************************************)
(* One iteration of run() that finds a frame.                              *)
(***************************************************************************)
FrameWaits == pc = "top" /\ queue # <<>>

Take == /\ queue' = Tail(queue) /\ UNCHANGED <<clock, restarts>>
        /\ last_cloud_time' = Head(queue)

\* The first frame, of the run or after a reset: its keyframe is made from
\* the pose as it is, and the anchor is whatever keyframe is the latest.
Initialise ==
    /\ FrameWaits /\ is_initial
    /\ Take
    /\ AddKeyframe(Head(queue), T_w_j, Identity, FALSE)
    /\ is_initial' = FALSE
    /\ UNCHANGED <<pc, consecutive_failure_count, poses, loops, inFlight>>

ResetPoses ==
    /\ is_initial' = TRUE
    /\ T_w_j' = Identity /\ T_w_j_1' = Identity /\ T_j_1_j' = Identity
    /\ T_lastKeyframe_keyframe' = Identity
    /\ T_w_j_keyframe' = Identity /\ T_w_j_keyframe_frame_num' = -1

TimeGoesBack == last_cloud_time > 0 /\ Head(queue) < last_cloud_time

\* A frame older than the last one: start again from it, keeping the map.
TimeReset ==
    /\ FrameWaits /\ ~is_initial /\ TimeGoesBack
    /\ ResetPoses
    /\ last_cloud_time' = Head(queue)
    /\ UNCHANGED <<frame, pc, consecutive_failure_count, registry, loops, inFlight, moved>>

Registers == FrameWaits /\ ~is_initial /\ ~TimeGoesBack /\ Take

\* A failure that is borne.
\* Mutant: one more.
BorneOneMore == consecutive_failure_count <= FailureLimit

Borne == consecutive_failure_count < FailureLimit

\* A frame that finds too few associations is dropped, and the one after
\* FailureLimit such frames resets the poses.
RegistrationFails ==
    /\ Registers
    /\ IF Borne
       THEN /\ T_w_j' = T_w_j_1 + T_j_1_j
            /\ T_j_1_j' = Identity
            /\ consecutive_failure_count' = consecutive_failure_count + 1
            /\ UNCHANGED <<is_initial, T_w_j_1, T_lastKeyframe_keyframe, anchor>>
       ELSE ResetPoses /\ consecutive_failure_count' = 0
    /\ UNCHANGED <<pc, registry, loops, inFlight, moved>>

\* What a registered frame of motion d does to the poses.
Register(d) ==
    /\ Registers
    /\ consecutive_failure_count' = 0 /\ is_initial' = FALSE
    /\ T_w_j' = T_w_j_1 + d
    /\ T_j_1_j' = d
    /\ T_w_j_1' = T_w_j'

RegisterFrame(d) ==
    /\ Register(d)
    /\ T_lastKeyframe_keyframe' = T_lastKeyframe_keyframe + d
    /\ moved' = moved + d
    /\ UNCHANGED <<pc, anchor, registry, loops, inFlight>>

\* A frame that becomes a keyframe, with no loop or one that is merged
\* without a correction, or with a strict loop.
RegisterKeyframe(d) ==
    /\ Register(d)
    /\ AddKeyframe(Head(queue), T_w_j_1 + d, T_lastKeyframe_keyframe + d, TRUE)
    /\ T_lastKeyframe_keyframe' = Identity
    /\ \/ /\ UNCHANGED <<pc, loops>>
       \/ /\ loops < MaxLoops /\ loops' = loops + 1
          /\ pc' = "detected"
    /\ UNCHANGED inFlight

(***************************************************************************)
(* The corrections.                                                        *)
(***************************************************************************)
Backend == {k \in all_keyframes_set : keyframe[k].is_backend_keyframe}

\* A solve: a later part of the graph moves against the earlier one.
\* Keyframes after the last backend keyframe have no constraint yet.
SolvedGraph(from, s) ==
    [k \in Keyframes |->
        IF /\ k \in all_keyframes_set /\ keyframe[k].time >= keyframe[from].time
           /\ \E b \in Backend : keyframe[k].time <= keyframe[b].time
        THEN keyframe[k].graph_pose + s
        ELSE keyframe[k].graph_pose]

\* Every keyframe of the set takes its graph pose.
update_keyframe_pose_by_poseGraph(graph) ==
    [k \in Keyframes |->
        IF k \in all_keyframes_set
        THEN [keyframe[k] EXCEPT !.graph_pose = graph[k], !.T_w_lidar = graph[k]]
        ELSE keyframe[k]]

\* The keyframe whose movement the tracking poses follow.
\* Mutant: the newest one the pose graph knows.
ReferenceBackend == Latest(Backend, keyframe)

Reference ==
    IF T_w_j_keyframe_frame_num >= 0 THEN keyframe_by_frame_num(T_w_j_keyframe_frame_num)
    ELSE IF Backend # {} THEN Latest(Backend, keyframe)
    ELSE latest_keyframe

\* The anchor, read again after the map was updated.
\* Mutant: only when there was none.
SyncAnchorOnce(kf) ==
    IF T_w_j_keyframe_frame_num >= 0 THEN UNCHANGED anchor
    ELSE /\ T_w_j_keyframe' = kf[latest_keyframe].T_w_lidar
         /\ T_w_j_keyframe_frame_num' = kf[latest_keyframe].frame_num

SyncAnchor(kf) ==
    LET a == IF T_w_j_keyframe_frame_num >= 0
             THEN keyframe_by_frame_num(T_w_j_keyframe_frame_num) ELSE latest_keyframe
    IN /\ T_w_j_keyframe' = kf[a].T_w_lidar
       /\ T_w_j_keyframe_frame_num' =
             IF T_w_j_keyframe_frame_num >= 0 THEN T_w_j_keyframe_frame_num ELSE kf[a].frame_num

\* Re-anchoring: T_w_j_1 moves with the reference, T_w_j is one T_j_1_j
\* further, and the motion since the keyframe is computed from that T_w_j.
ReAnchor(kf) ==
    /\ T_w_j_1' = kf[Reference].T_w_lidar - keyframe[Reference].T_w_lidar + T_w_j_1
    /\ T_w_j' = T_w_j_1' + T_j_1_j
    /\ SyncAnchor(kf)
    /\ T_lastKeyframe_keyframe' = T_w_j' - T_w_j_keyframe'
    /\ UNCHANGED T_j_1_j

Correct ==
    \E from \in all_keyframes_set, s \in Shifts \cup {0} :
        LET kf == update_keyframe_pose_by_poseGraph(SolvedGraph(from, s))
        IN keyframe' = kf /\ ReAnchor(kf)

\* trigger_strict_lc_stage1_and_queue_ba
Stage1 ==
    /\ pc = "detected" /\ pc' = "top"
    /\ Correct
    /\ inFlight' = inFlight + 1
    /\ UNCHANGED <<frame, tracking, created, all_keyframes_set, keyframe_by_frame_num_map,
                   loops, moved>>

\* apply_pending_lc_if_any, at the top of run() or before stage 1: a result
\* of any loop whose stage 1 is done may have come.
Stage3 ==
    /\ inFlight > 0
    /\ Correct
    /\ inFlight' = inFlight - 1
    /\ UNCHANGED <<frame, pc, tracking, created, all_keyframes_set, keyframe_by_frame_num_map,
                   loops, moved>>

Next ==
    \/ rt_callback_point_cloud_segments
    \/ RestartSource
    \/ Initialise
    \/ TimeReset
    \/ RegistrationFails
    \/ \E d \in Motions : RegisterFrame(d) \/ RegisterKeyframe(d)
    \/ Stage1
    \/ Stage3

Spec == Init /\ [][Next]_vars

(***************************************************************************)
(* Properties.                                                             *)
(***************************************************************************)
\* A keyframe's number is its place in all_keyframes_set, and the map leads
\* from the number to the keyframe.  update_patch_keyframe asserts it before
\* it uses a number as a place, and loop_closure_valid_check relies on it.
PositionIsNumber ==
    \A k \in all_keyframes_set : /\ keyframe[k].frame_num = Position(k)
                                 /\ keyframe_by_frame_num(Position(k)) = k

\* However often registration fails and the tracking starts again, numbers
\* are places as long as the source's clock runs forward.
NumbersHold == restarts = 0 => PositionIsNumber

\* The anchor pose is that of the keyframe the anchor number names, through
\* new keyframes, resets and corrections, and even when time went back.
AnchorExact ==
    T_w_j_keyframe_frame_num >= 0 =>
        T_w_j_keyframe = keyframe[keyframe_by_frame_num(T_w_j_keyframe_frame_num)].T_w_lidar

\* Corrections carry the tracking along: the last registered pose is the
\* anchor's pose and what the sensor moved since, as long as the anchor is
\* the newest keyframe.
AnchoredAtNewest ==
    /\ ~is_initial /\ T_w_j_keyframe_frame_num >= 0
    /\ keyframe_by_frame_num(T_w_j_keyframe_frame_num) = created

PoseCarried == AnchoredAtNewest => T_w_j_1 = T_w_j_keyframe + moved

\* What the next keyframe and its odometry constraint will be built from:
\* the motion since the last keyframe.  apply_pending_lc_if_any derives the
\* "current pose (j)" and "relative transform for next ICP" for it.
MotionCounted == (pc = "top" /\ AnchoredAtNewest) => T_lastKeyframe_keyframe = moved

=============================================================================
