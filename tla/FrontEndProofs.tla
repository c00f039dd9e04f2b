--------------------------- MODULE FrontEndProofs ---------------------------
(***************************************************************************)
(* Proofs about the tracking thread's frames, keyframes and poses, for all *)
(* bounds, all motions and all corrections.                                *)
(***************************************************************************)
EXTENDS FrontEnd, FiniteSetTheorems, SequenceTheorems, TLAPS

\* A keyframe of the set is numbered below the set's size and found by its
\* number: a keyframe the set refused can only take the number above them.
Numbered ==
    \A k \in all_keyframes_set :
        /\ keyframe[k].frame_num < Cardinality(all_keyframes_set)
        /\ keyframe_by_frame_num_map[keyframe[k].frame_num] = k

\* k is the latest of a set.
IsLatest(k, set, kf) == k \in set /\ \A j \in set : kf[j].time <= kf[k].time

HasLatest ==
    /\ all_keyframes_set # {} => \E k \in all_keyframes_set : IsLatest(k, all_keyframes_set, keyframe)
    /\ Backend # {} => \E k \in Backend : IsLatest(k, Backend, keyframe)

\* An anchor number leads to a keyframe; without one the tracking is about
\* to start again, from poses that agree.
Anchored ==
    /\ T_w_j_keyframe_frame_num >= 0 =>
          keyframe_by_frame_num_map[T_w_j_keyframe_frame_num] \in 1 .. created
    /\ T_w_j_keyframe_frame_num < 0 => is_initial
    /\ is_initial => T_w_j = T_w_j_1 /\ T_j_1_j = 0

\* A loop whose stage 1 is to come has no stage 3 to come.
Detected == pc = "detected" => inFlight < loops

Structure == Numbered /\ HasLatest /\ Anchored

\* The bounds are numbers.
LEMMA Bounds ==
  /\ MaxStamp \in Nat /\ MaxRestarts \in Nat /\ MaxQueue \in Nat
  /\ MaxKeyframes \in Nat /\ MaxLoops \in Nat /\ FailureLimit \in Nat
BY ConstantsAssumption

\* What Latest chooses.
LEMMA LatestChosen ==
  ASSUME NEW set, NEW kf, NEW k, IsLatest(k, set, kf)
  PROVE  IsLatest(Latest(set, kf), set, kf)
BY DEF Latest, IsLatest

\* The size of the keyframe set.
LEMMA SetSize ==
  ASSUME TypeOK
  PROVE  /\ IsFiniteSet(all_keyframes_set)
         /\ Cardinality(all_keyframes_set) \in Nat
         /\ Cardinality(all_keyframes_set) <= created
<1>1. created \in Nat /\ all_keyframes_set \subseteq 1 .. created
  BY DEF TypeOK
<1>2. IsFiniteSet(1 .. created) /\ Cardinality(1 .. created) = created
  BY <1>1, FS_Interval
<1> QED
  BY <1>1, <1>2, FS_Subset, FS_CardinalityType

\* A new keyframe, step by step.
LEMMA Entered ==
  ASSUME TypeOK, Structure, NEW t \in Nat, NEW pose \in Int, NEW rel \in Int,
         NEW backend \in BOOLEAN, AddKeyframe(t, pose, rel, backend)
  PROVE  /\ created' \in 0 .. MaxKeyframes /\ keyframe' \in [Keyframes -> KeyframeInfo]
         /\ all_keyframes_set' \subseteq 1 .. created'
         /\ keyframe_by_frame_num_map' \in [Numbers -> 0 .. created']
         /\ T_w_j_keyframe' \in Int /\ T_w_j_keyframe_frame_num' \in Numbers
         /\ Numbered' /\ HasLatest'
         /\ keyframe_by_frame_num_map'[T_w_j_keyframe_frame_num'] \in 1 .. created'
         /\ AnchorExact'
         /\ keyframe_by_frame_num(T_w_j_keyframe_frame_num)' = created' => T_w_j_keyframe' = pose
<1> DEFINE new == created + 1
           info == [time |-> t, frame_num |-> NextNumber, T_w_lidar |-> pose,
                    graph_pose |-> RelativePose(rel), is_backend_keyframe |-> FALSE]
           entered == [keyframe EXCEPT ![new] = info]
           refused == \E k \in all_keyframes_set : keyframe[k].time = t
           set == all_keyframes_set \cup IF refused THEN {} ELSE {new}
           latest == Latest(set, entered)
           size == Cardinality(all_keyframes_set)
<1>1. /\ created \in Nat /\ MaxKeyframes \in Nat /\ new \in Keyframes /\ created' = new
      /\ new \in 1 .. created' /\ created' \in 0 .. MaxKeyframes
      /\ all_keyframes_set \subseteq 1 .. created /\ 1 .. created \subseteq Keyframes
      /\ new \notin 1 .. created /\ 1 .. created \subseteq 1 .. created'
  <2>1. MaxKeyframes \in Nat
    BY ConstantsAssumption
  <2>2. created \in 0 .. MaxKeyframes /\ all_keyframes_set \subseteq 1 .. created
    BY DEF TypeOK
  <2>3. created < MaxKeyframes /\ created' = created + 1
    BY DEF AddKeyframe
  <2> QED
    BY <2>1, <2>2, <2>3 DEF Keyframes
<1>2. /\ keyframe \in [Keyframes -> KeyframeInfo]
      /\ keyframe_by_frame_num_map \in [Numbers -> 0 .. created]
  BY DEF TypeOK
<1>3. size \in Nat /\ size <= created /\ IsFiniteSet(all_keyframes_set) /\ size \in Numbers
  BY <1>1, SetSize DEF Numbers
<1>4. /\ all_keyframes_set' = set
      /\ keyframe_by_frame_num_map' = [keyframe_by_frame_num_map EXCEPT ![size] = new]
      /\ keyframe' = [entered EXCEPT ![latest].is_backend_keyframe = @ \/ backend]
      /\ T_w_j_keyframe' = entered[latest].T_w_lidar
      /\ T_w_j_keyframe_frame_num' = entered[latest].frame_num
  BY DEF AddKeyframe, NextNumber
<1>5. info \in KeyframeInfo
  <2>1. RelativePose(rel) \in Int
    <3>1. CASE all_keyframes_set = {}
      BY <3>1 DEF RelativePose, Identity
    <3>2. CASE all_keyframes_set # {}
      <4>1. latest_keyframe \in all_keyframes_set
        BY <3>2, LatestChosen DEF Structure, HasLatest, latest_keyframe, IsLatest
      <4>2. keyframe[latest_keyframe].graph_pose \in Int
        BY <4>1, <1>1, <1>2 DEF KeyframeInfo
      <4> QED
        BY <4>2, <3>2 DEF RelativePose
    <3> QED
      BY <3>1, <3>2
  <2> QED
    BY <2>1, <1>3 DEF KeyframeInfo, NextNumber
<1>6. entered \in [Keyframes -> KeyframeInfo] /\ entered[new] = info
  BY <1>1, <1>2, <1>5
<1>7. \A k \in 1 .. created : entered[k] = keyframe[k]
  BY <1>1, <1>2
<1>8. set \subseteq 1 .. created' /\ all_keyframes_set \subseteq set
  BY <1>1
<1> HIDE DEF info, entered
<1>9. IsLatest(latest, set, entered)
  <2>1. \A k \in set : entered[k].time \in Nat
    BY <1>1, <1>6, <1>8 DEF KeyframeInfo
  <2>2. CASE all_keyframes_set = {}
    <3>1. set = {new} /\ entered[new].time <= entered[new].time
      BY <2>2, <2>1
    <3> QED
      BY <3>1, LatestChosen DEF IsLatest
  <2>3. CASE all_keyframes_set # {}
    <3>1. PICK k \in all_keyframes_set : IsLatest(k, all_keyframes_set, keyframe)
      BY <2>3 DEF Structure, HasLatest
    <3>2. \A j \in all_keyframes_set : entered[j].time <= entered[k].time
      BY <3>1, <1>1, <1>7 DEF IsLatest
    <3>3. CASE new \in set /\ entered[k].time <= entered[new].time
      <4>1. IsLatest(new, set, entered)
        BY <3>2, <3>3, <2>1, <1>8 DEF IsLatest
      <4> QED
        BY <4>1, LatestChosen
    <3>4. CASE ~(new \in set /\ entered[k].time <= entered[new].time)
      <4>1. \A j \in set : entered[j].time <= entered[k].time
        BY <3>2, <3>4, <2>1, <1>8
      <4>2. IsLatest(k, set, entered)
        BY <4>1, <1>8 DEF IsLatest
      <4> QED
        BY <4>2, LatestChosen
    <3> QED
      BY <3>3, <3>4
  <2> QED
    BY <2>2, <2>3
<1>10. latest \in set /\ latest \in Keyframes /\ entered[latest] \in KeyframeInfo
  BY <1>1, <1>6, <1>8, <1>9 DEF IsLatest, Keyframes
<1> HIDE DEF latest
<1>11. /\ keyframe' \in [Keyframes -> KeyframeInfo]
       /\ \A k \in Keyframes : /\ keyframe'[k].time = entered[k].time
                               /\ keyframe'[k].frame_num = entered[k].frame_num
                               /\ keyframe'[k].T_w_lidar = entered[k].T_w_lidar
       /\ \A k \in Keyframes : k # latest => keyframe'[k] = entered[k]
  <2>1. keyframe' = [entered EXCEPT ![latest] =
                       [entered[latest] EXCEPT !.is_backend_keyframe = entered[latest].is_backend_keyframe \/ backend]]
    BY <1>4
  <2>2. (entered[latest].is_backend_keyframe \/ backend) \in BOOLEAN
    BY <1>10 DEF KeyframeInfo
  <2>3. PICK b \in BOOLEAN : keyframe' = [entered EXCEPT ![latest] = [entered[latest] EXCEPT !.is_backend_keyframe = b]]
    BY <2>1, <2>2
  <2>4. [entered[latest] EXCEPT !.is_backend_keyframe = b] \in KeyframeInfo
    BY <1>10 DEF KeyframeInfo
  <2> QED
    BY <2>3, <2>4, <1>6, <1>10 DEF KeyframeInfo
<1>12. keyframe_by_frame_num_map' \in [Numbers -> 0 .. created']
  BY <1>1, <1>2, <1>3, <1>4
<1>13. Numbered' /\ \A k \in set : keyframe'[k].frame_num \in Numbers
  <2>1. \A k \in all_keyframes_set : /\ k \in Keyframes /\ keyframe'[k].frame_num = keyframe[k].frame_num
                                     /\ keyframe[k].frame_num \in Numbers
    BY <1>1, <1>2, <1>7, <1>11 DEF KeyframeInfo
  <2>2. \A k \in all_keyframes_set : /\ keyframe'[k].frame_num < size
                                     /\ keyframe_by_frame_num_map'[keyframe'[k].frame_num] = k
    BY <2>1, <1>2, <1>3, <1>4 DEF Structure, Numbered, Numbers
  <2>3. CASE refused
    <3>1. set = all_keyframes_set
      BY <2>3
    <3> QED
      BY <3>1, <2>1, <2>2, <1>4 DEF Numbered
  <2>4. CASE ~refused
    <3>1. set = all_keyframes_set \cup {new} /\ new \notin all_keyframes_set
      BY <2>4, <1>1
    <3>2. Cardinality(set) = size + 1
      BY <3>1, <1>3, FS_AddElement
    <3>3. keyframe'[new].frame_num = size
      BY <1>1, <1>6, <1>11 DEF info, NextNumber
    <3>4. keyframe_by_frame_num_map'[size] = new
      BY <1>2, <1>3, <1>4
    <3>5. \A k \in set : /\ keyframe'[k].frame_num \in Numbers /\ keyframe'[k].frame_num < size + 1
                         /\ keyframe_by_frame_num_map'[keyframe'[k].frame_num] = k
      BY <3>1, <3>3, <3>4, <2>1, <2>2, <1>3 DEF Numbers
    <3> QED
      BY <3>2, <3>5, <1>4 DEF Numbered
  <2> QED
    BY <2>3, <2>4
<1>14. HasLatest'
  <2>1. IsLatest(latest, all_keyframes_set', keyframe')
    BY <1>1, <1>4, <1>8, <1>9, <1>11 DEF IsLatest
  <2>2. Backend' \subseteq all_keyframes_set'
    BY DEF Backend
  <2>3. CASE latest \in Backend'
    BY <2>1, <2>2, <2>3 DEF HasLatest, IsLatest
  <2>4. CASE latest \notin Backend'
    <3>1. \A k \in Backend' : k # latest /\ k \in set /\ k \in Keyframes /\ entered[k].is_backend_keyframe
      BY <2>4, <1>1, <1>4, <1>8, <1>11 DEF Backend
    <3>2. Backend' \subseteq Backend
      <4>1. ~ entered[new].is_backend_keyframe
        BY <1>6 DEF info
      <4> QED
        BY <3>1, <4>1, <1>1, <1>7 DEF Backend
    <3>3. Backend \subseteq Backend'
      <4> SUFFICES ASSUME NEW k \in Backend PROVE k \in Backend'
        OBVIOUS
      <4>1. k \in all_keyframes_set /\ keyframe[k].is_backend_keyframe /\ k \in 1 .. created
        BY <1>1 DEF Backend
      <4>2. entered[k].is_backend_keyframe /\ k \in Keyframes
        BY <4>1, <1>1, <1>7
      <4>3. CASE k = latest
        <5>1. keyframe'[k].is_backend_keyframe
          BY <4>2, <4>3, <1>4, <1>6, <1>10 DEF KeyframeInfo
        <5> QED
          BY <5>1, <4>1, <1>4, <1>8 DEF Backend
      <4>4. CASE k # latest
        BY <4>1, <4>2, <4>4, <1>4, <1>8, <1>11 DEF Backend
      <4> QED
        BY <4>3, <4>4
    <3>4. \A k \in Backend : keyframe'[k].time = keyframe[k].time
      BY <1>1, <1>7, <1>11 DEF Backend
    <3> QED
      BY <2>1, <2>2, <3>2, <3>3, <3>4 DEF HasLatest, IsLatest, Structure
  <2> QED
    BY <2>3, <2>4
<1>15. /\ T_w_j_keyframe_frame_num' = keyframe'[latest].frame_num
       /\ T_w_j_keyframe_frame_num' \in Numbers
       /\ keyframe_by_frame_num_map'[T_w_j_keyframe_frame_num'] = latest
       /\ T_w_j_keyframe' = keyframe'[latest].T_w_lidar
       /\ latest \in 1 .. created'
  BY <1>4, <1>8, <1>10, <1>11, <1>13 DEF Numbered
<1>16. T_w_j_keyframe' \in Int
  BY <1>10, <1>11, <1>15 DEF KeyframeInfo
<1>17. latest = created' => T_w_j_keyframe' = pose
  BY <1>1, <1>4, <1>6 DEF info
<1> QED
  BY <1>1, <1>4, <1>8, <1>11, <1>12, <1>13, <1>14, <1>15, <1>16, <1>17
  DEF AnchorExact, keyframe_by_frame_num

\* A correction, step by step: only poses change, and the tracking moves by
\* what its reference moved.
LEMMA Corrected ==
  ASSUME TypeOK, Structure, AnchorExact, PoseCarried, Correct,
         UNCHANGED <<created, all_keyframes_set, keyframe_by_frame_num_map, is_initial, moved>>
  PROVE  /\ keyframe' \in [Keyframes -> KeyframeInfo]
         /\ {T_w_j', T_w_j_1', T_j_1_j', T_lastKeyframe_keyframe', T_w_j_keyframe'} \subseteq Int
         /\ T_w_j_keyframe_frame_num' \in Numbers
         /\ Structure' /\ AnchorExact' /\ PoseCarried'
         /\ \A k \in Keyframes : /\ keyframe'[k].time = keyframe[k].time
                                 /\ keyframe'[k].frame_num = keyframe[k].frame_num
<1>1. PICK from \in all_keyframes_set, s \in Shifts \cup {0} :
        LET kf == update_keyframe_pose_by_poseGraph(SolvedGraph(from, s))
        IN keyframe' = kf /\ ReAnchor(kf)
  BY DEF Correct
<1> DEFINE graph == SolvedGraph(from, s)
<1>2. s \in Int /\ all_keyframes_set # {}
  BY ConstantsAssumption
<1>3. /\ created \in Nat /\ all_keyframes_set \subseteq 1 .. created
      /\ 1 .. created \subseteq Keyframes /\ keyframe \in [Keyframes -> KeyframeInfo]
      /\ keyframe_by_frame_num_map \in [Numbers -> 0 .. created]
  <2>1. created \in 0 .. MaxKeyframes /\ MaxKeyframes \in Nat
    BY ConstantsAssumption DEF TypeOK
  <2> QED
    BY <2>1 DEF TypeOK, Keyframes
<1>4. \A k \in Keyframes : graph[k] \in Int
  BY <1>2, <1>3 DEF SolvedGraph, KeyframeInfo
<1>5. keyframe' = update_keyframe_pose_by_poseGraph(graph) /\ ReAnchor(keyframe')
  BY <1>1
<1> HIDE DEF graph
<1>6. /\ keyframe' \in [Keyframes -> KeyframeInfo]
      /\ \A k \in Keyframes : /\ keyframe'[k].time = keyframe[k].time
                              /\ keyframe'[k].frame_num = keyframe[k].frame_num
                              /\ keyframe'[k].is_backend_keyframe = keyframe[k].is_backend_keyframe
  BY <1>3, <1>4, <1>5 DEF update_keyframe_pose_by_poseGraph, KeyframeInfo
<1>7. Backend' = Backend
  BY <1>3, <1>6 DEF Backend
<1>8. Numbered' /\ HasLatest'
  BY <1>3, <1>6, <1>7 DEF Structure, Numbered, HasLatest, IsLatest, Backend
<1>9. T_w_j_keyframe_frame_num \in {-1} \cup Numbers /\ {T_w_j, T_w_j_1, T_j_1_j, T_w_j_keyframe, moved} \subseteq Int
  BY DEF TypeOK
<1>10. IsLatest(latest_keyframe, all_keyframes_set, keyframe) /\ latest_keyframe \in 1 .. created
  BY <1>2, <1>3, LatestChosen DEF Structure, HasLatest, latest_keyframe, IsLatest
<1>11. Reference \in 1 .. created
  <2>1. Backend # {} => Latest(Backend, keyframe) \in all_keyframes_set
    BY LatestChosen DEF Structure, HasLatest, IsLatest, Backend
  <2> QED
    BY <2>1, <1>3, <1>10 DEF Reference, Structure, Anchored, keyframe_by_frame_num
<1> DEFINE a == IF T_w_j_keyframe_frame_num >= 0
                THEN keyframe_by_frame_num(T_w_j_keyframe_frame_num) ELSE latest_keyframe
<1>12. a \in 1 .. created
  BY <1>10 DEF Structure, Anchored, keyframe_by_frame_num
<1>13. /\ T_w_j_keyframe' = keyframe'[a].T_w_lidar
       /\ T_w_j_keyframe_frame_num' = IF T_w_j_keyframe_frame_num >= 0
                                      THEN T_w_j_keyframe_frame_num ELSE keyframe'[a].frame_num
  BY <1>5 DEF ReAnchor, SyncAnchor
<1>14. /\ keyframe_by_frame_num_map[T_w_j_keyframe_frame_num'] = a
       /\ T_w_j_keyframe_frame_num' \in Numbers
  <2>1. CASE T_w_j_keyframe_frame_num >= 0
    BY <2>1, <1>9, <1>13 DEF keyframe_by_frame_num
  <2>2. CASE ~(T_w_j_keyframe_frame_num >= 0)
    <3>1. a = latest_keyframe /\ a \in all_keyframes_set /\ a \in Keyframes
      BY <2>2, <1>3, <1>10 DEF IsLatest
    <3>2. T_w_j_keyframe_frame_num' = keyframe[a].frame_num
      BY <2>2, <3>1, <1>6, <1>13
    <3> QED
      BY <3>1, <3>2, <1>3 DEF Structure, Numbered, KeyframeInfo
  <2> QED
    BY <2>1, <2>2
<1> HIDE DEF a
<1>15. AnchorExact' /\ T_w_j_keyframe' \in Int
  BY <1>3, <1>6, <1>12, <1>13, <1>14 DEF AnchorExact, keyframe_by_frame_num, KeyframeInfo
<1>16. /\ T_w_j_1' = keyframe'[Reference].T_w_lidar - keyframe[Reference].T_w_lidar + T_w_j_1
       /\ T_w_j' = T_w_j_1' + T_j_1_j
       /\ T_lastKeyframe_keyframe' = T_w_j' - T_w_j_keyframe' /\ T_j_1_j' = T_j_1_j
  BY <1>5 DEF ReAnchor
<1>17. {T_w_j', T_w_j_1', T_j_1_j', T_lastKeyframe_keyframe'} \subseteq Int
  <2>1. keyframe'[Reference].T_w_lidar \in Int /\ keyframe[Reference].T_w_lidar \in Int
    BY <1>3, <1>6, <1>11 DEF KeyframeInfo
  <2> QED
    BY <2>1, <1>9, <1>15, <1>16
<1>18. Anchored'
  BY <1>9, <1>12, <1>14, <1>16, <1>17 DEF Anchored, Structure, Numbers
<1>19. PoseCarried'
  <2> SUFFICES ASSUME AnchoredAtNewest' PROVE T_w_j_1' = T_w_j_keyframe' + moved'
    BY DEF PoseCarried
  <2>1. ~is_initial /\ a = created
    BY <1>14 DEF AnchoredAtNewest, keyframe_by_frame_num
  <2>2. CASE T_w_j_keyframe_frame_num >= 0
    <3>1. Reference = a /\ AnchoredAtNewest /\ T_w_j_keyframe = keyframe[a].T_w_lidar
      BY <2>1, <2>2 DEF Reference, a, AnchoredAtNewest, AnchorExact
    <3>2. T_w_j_1 = keyframe[a].T_w_lidar + moved
      BY <3>1 DEF PoseCarried
    <3>3. keyframe'[a].T_w_lidar \in Int /\ keyframe[a].T_w_lidar \in Int
      BY <1>3, <1>6, <1>12 DEF KeyframeInfo
    <3> QED
      BY <3>1, <3>2, <3>3, <1>9, <1>13, <1>16
  <2>3. CASE ~(T_w_j_keyframe_frame_num >= 0)
    BY <2>1, <2>3, <1>9 DEF Structure, Anchored, Numbers
  <2> QED
    BY <2>2, <2>3
<1> QED
  BY <1>6, <1>8, <1>14, <1>15, <1>17, <1>18, <1>19 DEF Structure

\* The parts of the type invariant.
FrameOK == /\ queue \in Seq(1 .. MaxStamp) /\ Len(queue) <= MaxQueue
           /\ clock \in 0 .. MaxStamp /\ restarts \in 0 .. MaxRestarts
LoopsOK == pc \in {"top", "detected"} /\ loops \in 0 .. MaxLoops /\ inFlight \in 0 .. loops
TrackingOK == /\ is_initial \in BOOLEAN /\ last_cloud_time \in -1 .. MaxStamp
              /\ consecutive_failure_count \in 0 .. FailureLimit
PosesOK == /\ T_w_j \in Int /\ T_w_j_1 \in Int /\ T_j_1_j \in Int
           /\ T_lastKeyframe_keyframe \in Int /\ moved \in Int
AnchorOK == T_w_j_keyframe \in Int /\ T_w_j_keyframe_frame_num \in {-1} \cup Numbers
RegistryOK == /\ created \in 0 .. MaxKeyframes /\ keyframe \in [Keyframes -> KeyframeInfo]
              /\ all_keyframes_set \subseteq 1 .. created
              /\ keyframe_by_frame_num_map \in [Numbers -> 0 .. created]
Parts == FrameOK /\ LoopsOK /\ TrackingOK /\ PosesOK /\ AnchorOK /\ RegistryOK

LEMMA TypeParts == TypeOK <=> Parts
BY DEF TypeOK, Parts, FrameOK, LoopsOK, TrackingOK, PosesOK, AnchorOK, RegistryOK

LEMMA TypePartsNext == TypeOK' <=> Parts'
BY DEF TypeOK, Parts, FrameOK, LoopsOK, TrackingOK, PosesOK, AnchorOK, RegistryOK

IInv == TypeOK /\ Structure /\ Detected /\ AnchorExact /\ PoseCarried

LEMMA InitIInv == Init => IInv
<1> SUFFICES ASSUME Init PROVE IInv
  OBVIOUS
<1> USE DEF Init
<1>1. TypeOK
  <2>1. NoKeyframe \in KeyframeInfo
    BY Bounds DEF NoKeyframe, KeyframeInfo, Numbers
  <2>2. <<>> \in Seq(1 .. MaxStamp) /\ Len(<<>>) <= MaxQueue
    BY Bounds
  <2> QED
    BY <2>1, <2>2, Bounds DEF TypeOK, Identity, Numbers
<1>2. Structure
  BY DEF Structure, Numbered, HasLatest, Anchored, Backend, Identity
<1> QED
  BY <1>1, <1>2 DEF IInv, AnchorExact, PoseCarried, AnchoredAtNewest, Detected

\* The frame at the head of the queue.
LEMMA HeadTyped ==
  ASSUME FrameOK, queue # <<>>
  PROVE  Head(queue) \in 1 .. MaxStamp /\ Head(queue) \in Nat
<1>1. Head(queue) \in 1 .. MaxStamp
  BY HeadTailProperties DEF FrameOK
<1> QED
  BY <1>1, Bounds

\* Taking it leaves a queue.
LEMMA TakeTyped ==
  ASSUME FrameOK, queue # <<>>, Take
  PROVE  FrameOK' /\ last_cloud_time' \in -1 .. MaxStamp
<1>1. Tail(queue) \in Seq(1 .. MaxStamp) /\ Len(Tail(queue)) = Len(queue) - 1 /\ Len(queue) \in Nat
  BY DEF FrameOK
<1>2. Len(Tail(queue)) <= MaxQueue
  BY <1>1, Bounds DEF FrameOK
<1>3. Head(queue) \in -1 .. MaxStamp
  BY HeadTyped, Bounds
<1> QED
  BY <1>1, <1>2, <1>3 DEF FrameOK, Take

\* Every step keeps the types.
LEMMA NextTyped == IInv /\ [Next]_vars => TypeOK'
<1> SUFFICES ASSUME IInv, [Next]_vars PROVE Parts'
  BY TypePartsNext
<1>0. FrameOK /\ LoopsOK /\ TrackingOK /\ PosesOK /\ AnchorOK /\ RegistryOK
  BY TypeParts DEF IInv, Parts
<1>1. CASE rt_callback_point_cloud_segments
  <2>1. PICK t \in clock + 1 .. MaxStamp : clock' = t /\ queue' = Append(queue, t)
    BY <1>1 DEF rt_callback_point_cloud_segments
  <2>2. t \in 1 .. MaxStamp
    BY <1>0, <2>1, Bounds DEF FrameOK
  <2>3. queue' \in Seq(1 .. MaxStamp) /\ Len(queue') = Len(queue) + 1 /\ Len(queue) \in Nat
    BY <1>0, <2>1, <2>2 DEF FrameOK
  <2>4. FrameOK'
    BY <1>0, <1>1, <2>1, <2>2, <2>3, Bounds DEF FrameOK, rt_callback_point_cloud_segments
  <2> QED
    BY <1>0, <1>1, <2>4 DEF rt_callback_point_cloud_segments, Parts, LoopsOK, TrackingOK, PosesOK,
       AnchorOK, RegistryOK, tracking, poses, anchor, registry
<1>2. CASE RestartSource
  <2>1. FrameOK'
    BY <1>0, <1>2, Bounds DEF RestartSource, FrameOK
  <2> QED
    BY <1>0, <1>2, <2>1 DEF RestartSource, Parts, LoopsOK, TrackingOK, PosesOK,
       AnchorOK, RegistryOK, tracking, poses, anchor, registry
<1>3. CASE Initialise
  <2>1. queue # <<>> /\ Take /\ AddKeyframe(Head(queue), T_w_j, Identity, FALSE)
    BY <1>3 DEF Initialise, FrameWaits
  <2>2. T_w_j \in Int /\ Identity \in Int /\ Head(queue) \in Nat
    BY <1>0, <2>1, HeadTyped DEF PosesOK, Identity
  <2>3. RegistryOK' /\ AnchorOK'
    BY <2>1, <2>2, Entered DEF IInv, RegistryOK, AnchorOK
  <2>4. FrameOK' /\ last_cloud_time' \in -1 .. MaxStamp
    BY <1>0, <2>1, TakeTyped
  <2>5. LoopsOK' /\ TrackingOK'
    BY <1>0, <1>3, <2>4 DEF Initialise, LoopsOK, TrackingOK
  <2>6. PosesOK'
    <3>1. moved' = 0 /\ UNCHANGED poses
      BY <1>3 DEF Initialise, AddKeyframe
    <3> QED
      BY <1>0, <3>1 DEF PosesOK, poses
  <2> QED
    BY <2>3, <2>4, <2>5, <2>6 DEF Parts
<1>4. CASE TimeReset
  <2>1. queue # <<>> /\ ResetPoses /\ last_cloud_time' = Head(queue)
    BY <1>4 DEF TimeReset, FrameWaits
  <2>2. Head(queue) \in -1 .. MaxStamp
    BY <1>0, <2>1, HeadTyped, Bounds
  <2>3. TrackingOK' /\ PosesOK' /\ AnchorOK'
    BY <1>0, <1>4, <2>1, <2>2 DEF TimeReset, ResetPoses, TrackingOK, PosesOK, AnchorOK, Identity
  <2> QED
    BY <1>0, <1>4, <2>3 DEF TimeReset, Parts, FrameOK, LoopsOK, RegistryOK, frame, registry
<1>5. CASE RegistrationFails
  <2>1. queue # <<>> /\ Take /\ UNCHANGED <<pc, registry, loops, inFlight, moved>>
    BY <1>5 DEF RegistrationFails, Registers, FrameWaits
  <2>2. FrameOK' /\ last_cloud_time' \in -1 .. MaxStamp
    BY <1>0, <2>1, TakeTyped
  <2>3. TrackingOK' /\ PosesOK' /\ AnchorOK'
    <3>1. CASE Borne
      BY <1>0, <1>5, <2>1, <2>2, <3>1, Bounds
      DEF RegistrationFails, Borne, TrackingOK, PosesOK, AnchorOK, anchor, Identity
    <3>2. CASE ~Borne
      BY <1>0, <1>5, <2>1, <2>2, <3>2, Bounds
      DEF RegistrationFails, ResetPoses, TrackingOK, PosesOK, AnchorOK, Identity
    <3> QED
      BY <3>1, <3>2
  <2> QED
    BY <1>0, <2>1, <2>2, <2>3 DEF Parts, LoopsOK, RegistryOK, registry
<1>6. CASE \E d \in Motions : RegisterFrame(d)
  <2>1. PICK d \in Motions : RegisterFrame(d)
    BY <1>6
  <2>2. d \in Int /\ queue # <<>> /\ Take
    BY <2>1, ConstantsAssumption DEF RegisterFrame, Register, Registers, FrameWaits
  <2>3. FrameOK' /\ last_cloud_time' \in -1 .. MaxStamp
    BY <1>0, <2>2, TakeTyped
  <2>4. TrackingOK'
    <3>1. consecutive_failure_count' = 0 /\ is_initial' = FALSE
      BY <2>1 DEF RegisterFrame, Register
    <3>2. 0 \in 0 .. FailureLimit
      BY Bounds
    <3> QED
      BY <3>1, <3>2, <2>3, Zenon DEF TrackingOK
  <2>5. PosesOK'
    BY <1>0, <2>1, <2>2 DEF RegisterFrame, Register, PosesOK
  <2> QED
    BY <1>0, <2>1, <2>3, <2>4, <2>5 DEF RegisterFrame, Parts, LoopsOK, AnchorOK, RegistryOK, anchor, registry
<1>7. CASE \E d \in Motions : RegisterKeyframe(d)
  <2>1. PICK d \in Motions : RegisterKeyframe(d)
    BY <1>7
  <2>2. /\ d \in Int /\ queue # <<>> /\ Take
        /\ AddKeyframe(Head(queue), T_w_j_1 + d, T_lastKeyframe_keyframe + d, TRUE)
    BY <2>1, ConstantsAssumption DEF RegisterKeyframe, Register, Registers, FrameWaits
  <2>3. T_w_j_1 + d \in Int /\ T_lastKeyframe_keyframe + d \in Int /\ Head(queue) \in Nat
    BY <1>0, <2>2, HeadTyped DEF PosesOK
  <2>4. RegistryOK' /\ AnchorOK'
    BY <2>2, <2>3, Entered DEF IInv, RegistryOK, AnchorOK
  <2>5. FrameOK' /\ last_cloud_time' \in -1 .. MaxStamp
    BY <1>0, <2>2, TakeTyped
  <2>6. TrackingOK' /\ PosesOK'
    <3>1. TrackingOK'
      <4>1. consecutive_failure_count' = 0 /\ is_initial' = FALSE
        BY <2>1 DEF RegisterKeyframe, Register
      <4>2. 0 \in 0 .. FailureLimit
        BY Bounds
      <4> QED
        BY <4>1, <4>2, <2>5, Zenon DEF TrackingOK
    <3>2. /\ T_w_j' = T_w_j_1 + d /\ T_w_j_1' = T_w_j_1 + d /\ T_j_1_j' = d
          /\ T_lastKeyframe_keyframe' = 0 /\ moved' = 0
      BY <2>1 DEF RegisterKeyframe, Register, AddKeyframe, Identity
    <3> QED
      BY <3>1, <3>2, <2>2, <2>3 DEF PosesOK
  <2>7. LoopsOK'
    BY <1>0, <2>1, Bounds DEF RegisterKeyframe, LoopsOK
  <2> QED
    BY <2>4, <2>5, <2>6, <2>7 DEF Parts
<1>8. CASE Stage1 \/ Stage3
  <2>1. Correct /\ UNCHANGED <<frame, tracking, created, all_keyframes_set, keyframe_by_frame_num_map, moved>>
    BY <1>8 DEF Stage1, Stage3
  <2>2. /\ keyframe' \in [Keyframes -> KeyframeInfo]
        /\ {T_w_j', T_w_j_1', T_j_1_j', T_lastKeyframe_keyframe', T_w_j_keyframe'} \subseteq Int
        /\ T_w_j_keyframe_frame_num' \in Numbers
    BY <2>1, Corrected DEF IInv, tracking
  <2>3. LoopsOK'
    BY <1>0, <1>8, Bounds DEF IInv, Stage1, Stage3, LoopsOK, Detected
  <2>4. PosesOK' /\ AnchorOK'
    BY <1>0, <2>1, <2>2 DEF PosesOK, AnchorOK
  <2> QED
    BY <1>0, <2>1, <2>2, <2>3, <2>4 DEF Parts, FrameOK, TrackingOK, RegistryOK, frame, tracking
<1>9. CASE UNCHANGED vars
  BY <1>0, <1>9 DEF vars, frame, tracking, poses, anchor, registry, Parts, FrameOK, LoopsOK, TrackingOK,
     PosesOK, AnchorOK, RegistryOK
<1> QED
  BY <1>1, <1>2, <1>3, <1>4, <1>5, <1>6, <1>7, <1>8, <1>9 DEF Next

\* A loop whose stage 1 is to come is counted.
LEMMA NextDetected == IInv /\ [Next]_vars => Detected'
<1> SUFFICES ASSUME IInv, [Next]_vars PROVE Detected'
  OBVIOUS
<1>1. LoopsOK /\ Detected
  BY TypeParts DEF IInv, Parts
<1>2. CASE UNCHANGED <<pc, loops, inFlight>>
  BY <1>1, <1>2 DEF Detected
<1>3. CASE \E d \in Motions : RegisterKeyframe(d)
  BY <1>1, <1>3, Bounds DEF Detected, RegisterKeyframe, LoopsOK
<1>4. CASE Stage1 \/ Stage3
  BY <1>1, <1>4, Bounds DEF Detected, Stage1, Stage3, LoopsOK
<1> QED
  BY <1>2, <1>3, <1>4 DEF Next, vars, rt_callback_point_cloud_segments, RestartSource, Initialise,
     TimeReset, RegistrationFails, RegisterFrame

\* Every step keeps the numbering, the anchor and the carried pose.
LEMMA NextCarried == IInv /\ [Next]_vars => (Structure /\ AnchorExact /\ PoseCarried)'
<1> SUFFICES ASSUME IInv, [Next]_vars PROVE (Structure /\ AnchorExact /\ PoseCarried)'
  OBVIOUS
<1> USE DEF IInv
<1>0. FrameOK /\ PosesOK /\ AnchorOK
  BY TypeParts DEF Parts
<1>1. CASE UNCHANGED <<registry, anchor, is_initial, poses, moved>>
  BY <1>1 DEF Structure, Numbered, HasLatest, IsLatest, Backend, Anchored, AnchorExact, PoseCarried,
     AnchoredAtNewest, keyframe_by_frame_num, registry, anchor, poses
<1>2. UNCHANGED registry => (Numbered /\ HasLatest)'
  BY DEF registry, Structure, Numbered, HasLatest, IsLatest, Backend
<1>3. CASE Initialise
  <2>1. queue # <<>> /\ is_initial /\ AddKeyframe(Head(queue), T_w_j, Identity, FALSE)
    BY <1>3 DEF Initialise, FrameWaits
  <2>2. T_w_j \in Int /\ Identity \in Int /\ Head(queue) \in Nat
    BY <1>0, <2>1, HeadTyped DEF PosesOK, Identity
  <2>3. /\ T_w_j_keyframe_frame_num' \in Numbers /\ Numbered' /\ HasLatest'
        /\ keyframe_by_frame_num_map'[T_w_j_keyframe_frame_num'] \in 1 .. created'
        /\ AnchorExact'
        /\ keyframe_by_frame_num(T_w_j_keyframe_frame_num)' = created' => T_w_j_keyframe' = T_w_j
    BY <2>1, <2>2, Entered
  <2>4. moved' = 0 /\ is_initial' = FALSE /\ T_w_j_1' = T_w_j
    BY <1>3, <2>1 DEF Initialise, AddKeyframe, poses, Structure, Anchored
  <2>5. Anchored' /\ PoseCarried'
    BY <2>2, <2>3, <2>4 DEF Anchored, Numbers, PoseCarried, AnchoredAtNewest
  <2> QED
    BY <2>3, <2>5 DEF Structure
<1>4. CASE ResetPoses /\ UNCHANGED registry
  BY <1>2, <1>4 DEF ResetPoses, Structure, Anchored, AnchorExact, PoseCarried, AnchoredAtNewest, Identity
<1>5. CASE RegistrationFails
  <2>1. ~is_initial /\ UNCHANGED <<registry, moved>>
    BY <1>5 DEF RegistrationFails, Registers
  <2>2. CASE Borne
    <3>1. UNCHANGED <<is_initial, T_w_j_1, anchor>>
      BY <1>5, <2>2 DEF RegistrationFails
    <3> QED
      BY <1>2, <2>1, <3>1 DEF registry, anchor, Structure, Anchored, AnchorExact, PoseCarried,
         AnchoredAtNewest, keyframe_by_frame_num
  <2>3. CASE ~Borne
    BY <1>4, <1>5, <2>1, <2>3 DEF RegistrationFails
  <2> QED
    BY <2>2, <2>3
<1>6. CASE \E d \in Motions : RegisterFrame(d)
  <2>1. PICK d \in Motions : RegisterFrame(d)
    BY <1>6
  <2>2. /\ d \in Int /\ ~is_initial /\ ~is_initial' /\ UNCHANGED <<anchor, registry>>
        /\ T_w_j_1' = T_w_j_1 + d /\ moved' = moved + d
    BY <2>1, ConstantsAssumption DEF RegisterFrame, Register, Registers
  <2>3. Structure' /\ AnchorExact'
    BY <1>2, <2>2 DEF registry, anchor, Structure, Anchored, AnchorExact, keyframe_by_frame_num
  <2>4. PoseCarried'
    BY <1>0, <2>2 DEF PosesOK, AnchorOK, registry, anchor, PoseCarried, AnchoredAtNewest,
       keyframe_by_frame_num
  <2> QED
    BY <2>3, <2>4
<1>7. CASE \E d \in Motions : RegisterKeyframe(d)
  <2>1. PICK d \in Motions : RegisterKeyframe(d)
    BY <1>7
  <2>2. /\ d \in Int /\ queue # <<>>
        /\ AddKeyframe(Head(queue), T_w_j_1 + d, T_lastKeyframe_keyframe + d, TRUE)
    BY <2>1, ConstantsAssumption DEF RegisterKeyframe, Register, Registers, FrameWaits
  <2>3. T_w_j_1 + d \in Int /\ T_lastKeyframe_keyframe + d \in Int /\ Head(queue) \in Nat
    BY <1>0, <2>2, HeadTyped DEF PosesOK
  <2>4. /\ T_w_j_keyframe_frame_num' \in Numbers /\ Numbered' /\ HasLatest'
        /\ keyframe_by_frame_num_map'[T_w_j_keyframe_frame_num'] \in 1 .. created'
        /\ AnchorExact'
        /\ keyframe_by_frame_num(T_w_j_keyframe_frame_num)' = created' => T_w_j_keyframe' = T_w_j_1 + d
    BY <2>2, <2>3, Entered
  <2>5. moved' = 0 /\ is_initial' = FALSE /\ T_w_j_1' = T_w_j_1 + d
    BY <2>1 DEF RegisterKeyframe, Register, AddKeyframe
  <2>6. Anchored' /\ PoseCarried'
    BY <2>3, <2>4, <2>5 DEF Anchored, Numbers, PoseCarried, AnchoredAtNewest
  <2> QED
    BY <2>4, <2>6 DEF Structure
<1>8. CASE Stage1 \/ Stage3
  BY <1>8, Corrected DEF Stage1, Stage3, tracking
<1> QED
  BY <1>1, <1>3, <1>4, <1>5, <1>6, <1>7, <1>8
  DEF Next, vars, rt_callback_point_cloud_segments, RestartSource, TimeReset, tracking

LEMMA Invariance == Spec => []IInv
<1>1. IInv /\ [Next]_vars => IInv'
  BY NextTyped, NextDetected, NextCarried DEF IInv
<1> QED
  BY InitIInv, <1>1, PTL DEF Spec

\* Every variable keeps its type; an anchor is always known by its number.
THEOREM TypeCorrect == Spec => []TypeOK
BY Invariance, PTL DEF IInv

\* The anchor pose is always that of the keyframe the anchor number names.
THEOREM AnchorStaysExact == Spec => []AnchorExact
BY Invariance, PTL DEF IInv

\* However many corrections come between two keyframes, the tracking pose is
\* the anchor's pose and the motion since.
THEOREM PoseStaysCarried == Spec => []PoseCarried
BY Invariance, PTL DEF IInv

(***************************************************************************)
(* Numbers are places while the source's clock runs forward.               *)
(***************************************************************************)
Increasing(q, low, high) ==
    /\ \A i \in 1 .. Len(q) : low < q[i] /\ q[i] <= high
    /\ \A i, j \in 1 .. Len(q) : i < j => q[i] < q[j]

Forward ==
    restarts = 0 => /\ last_cloud_time <= clock
                    /\ Increasing(queue, last_cloud_time, clock)
                    /\ \A k \in all_keyframes_set : keyframe[k].time <= last_cloud_time

\* The frame that is taken is later than what went before.
LEMMA TakeForward ==
  ASSUME FrameOK, TrackingOK, Forward, restarts = 0, queue # <<>>, Take
  PROVE  /\ Head(queue) > last_cloud_time /\ last_cloud_time' = Head(queue)
         /\ last_cloud_time' <= clock' /\ Increasing(queue', last_cloud_time', clock')
<1>1. /\ queue \in Seq(1 .. MaxStamp) /\ Len(queue) \in Nat /\ 1 \in 1 .. Len(queue) /\ Head(queue) = queue[1]
  BY DEF FrameOK
<1>2. Len(Tail(queue)) = Len(queue) - 1 /\ \A i \in 1 .. Len(Tail(queue)) : Tail(queue)[i] = queue[i + 1]
  BY <1>1, HeadTailProperties
<1>3. queue' = Tail(queue) /\ clock' = clock /\ last_cloud_time' = Head(queue)
  BY DEF Take
<1>4. Increasing(queue, last_cloud_time, clock)
  BY DEF Forward
<1>5. queue[1] > last_cloud_time /\ queue[1] <= clock
  BY <1>1, <1>4 DEF Increasing, FrameOK, TrackingOK
<1>6. \A i \in 1 .. Len(Tail(queue)) : i + 1 \in 1 .. Len(queue) /\ 1 < i + 1
  BY <1>1, <1>2
<1>7. \A i \in 1 .. Len(Tail(queue)) : queue[1] < Tail(queue)[i] /\ Tail(queue)[i] <= clock
  BY <1>1, <1>2, <1>4, <1>6 DEF Increasing
<1>8. \A i, j \in 1 .. Len(Tail(queue)) : i < j => Tail(queue)[i] < Tail(queue)[j]
  BY <1>1, <1>2, <1>4, <1>6 DEF Increasing
<1> QED
  BY <1>1, <1>3, <1>5, <1>7, <1>8 DEF Increasing

\* A keyframe later than all others takes the last place.
LEMMA NumberedAtTheEnd ==
  ASSUME IInv, Forward, NumbersHold, restarts = 0, restarts' = 0, queue # <<>>, Take,
         NEW pose \in Int, NEW rel \in Int, NEW backend \in BOOLEAN,
         AddKeyframe(Head(queue), pose, rel, backend)
  PROVE  NumbersHold' /\ \A k \in all_keyframes_set' : keyframe'[k].time <= last_cloud_time'
<1>0. created \in Nat
  BY TypeParts DEF IInv, Parts, RegistryOK
<1> PICK new \in Nat : new = created + 1
  BY <1>0
<1> DEFINE t == Head(queue)
           info == [time |-> t, frame_num |-> NextNumber, T_w_lidar |-> pose,
                    graph_pose |-> RelativePose(rel), is_backend_keyframe |-> FALSE]
           entered == [keyframe EXCEPT ![new] = info]
           set == all_keyframes_set \cup IF \E k \in all_keyframes_set : keyframe[k].time = t THEN {} ELSE {new}
           latest == Latest(set, entered)
<1>1. FrameOK /\ TrackingOK /\ RegistryOK /\ TypeOK /\ Structure
  BY TypeParts DEF IInv, Parts
<1>2. t > last_cloud_time /\ last_cloud_time' = t /\ t \in Nat /\ last_cloud_time \in Int
  BY <1>1, TakeForward, HeadTyped DEF TrackingOK
<1>3. /\ created \in Nat /\ new \in Keyframes /\ all_keyframes_set \subseteq 1 .. created
      /\ 1 .. created \subseteq Keyframes /\ new \notin all_keyframes_set
      /\ keyframe \in [Keyframes -> KeyframeInfo]
      /\ keyframe_by_frame_num_map \in [Numbers -> 0 .. created]
  <2>1. created \in 0 .. MaxKeyframes /\ MaxKeyframes \in Nat /\ created < MaxKeyframes
    BY <1>1, Bounds DEF RegistryOK, AddKeyframe
  <2> QED
    BY <2>1, <1>1 DEF RegistryOK, Keyframes
<1>4. \A k \in all_keyframes_set : keyframe[k].time \in Nat /\ keyframe[k].time < t /\ k # new /\ k \in Keyframes
  <2> SUFFICES ASSUME NEW k \in all_keyframes_set
               PROVE  keyframe[k].time \in Nat /\ keyframe[k].time < t /\ k # new /\ k \in Keyframes
    OBVIOUS
  <2>1. k \in Keyframes /\ k # new /\ keyframe[k] \in KeyframeInfo
    BY <1>3
  <2>2. keyframe[k].time \in Nat
    BY <2>1 DEF KeyframeInfo
  <2>3. keyframe[k].time <= last_cloud_time
    BY DEF Forward
  <2> QED
    BY <2>1, <2>2, <2>3, <1>2
<1>5. all_keyframes_set' = all_keyframes_set \cup {new}
  BY <1>2, <1>4 DEF AddKeyframe
<1>6. \A k \in Keyframes : /\ keyframe'[k].time = entered[k].time
                            /\ keyframe'[k].frame_num = entered[k].frame_num
  <2>1. keyframe' = [entered EXCEPT ![latest].is_backend_keyframe = @ \/ backend]
    BY DEF AddKeyframe
  <2>2. entered[new] = info /\ \A k \in Keyframes : k # new => entered[k] = keyframe[k]
    BY <1>3
  <2> QED
    BY <1>3, <2>1, <2>2, SMTT(30) DEF KeyframeInfo
<1>7. /\ keyframe'[new].time = t /\ keyframe'[new].frame_num = Cardinality(all_keyframes_set)
      /\ \A k \in all_keyframes_set : /\ keyframe'[k].time = keyframe[k].time
                                      /\ keyframe'[k].frame_num = keyframe[k].frame_num
  BY <1>3, <1>4, <1>6 DEF NextNumber
<1>8. Position(new)' = Cardinality(all_keyframes_set)
  <2>1. {j \in all_keyframes_set' : keyframe'[j].time < keyframe'[new].time} = all_keyframes_set
    BY <1>2, <1>4, <1>5, <1>7
  <2> QED
    BY <2>1 DEF Position
<1>9. \A k \in all_keyframes_set : Position(k)' = Position(k)
  <2> SUFFICES ASSUME NEW k \in all_keyframes_set PROVE Position(k)' = Position(k)
    OBVIOUS
  <2>1. {j \in all_keyframes_set' : keyframe'[j].time < keyframe'[k].time}
          = {j \in all_keyframes_set : keyframe[j].time < keyframe[k].time}
    BY <1>2, <1>4, <1>5, <1>7
  <2> QED
    BY <2>1 DEF Position
<1>10. /\ Cardinality(all_keyframes_set) \in Numbers
       /\ keyframe_by_frame_num_map' =
             [keyframe_by_frame_num_map EXCEPT ![Cardinality(all_keyframes_set)] = new]
  <2>1. Cardinality(all_keyframes_set) \in Nat /\ Cardinality(all_keyframes_set) <= created /\ created <= MaxKeyframes
    BY <1>1, SetSize, Bounds DEF RegistryOK
  <2> QED
    BY <1>3, <2>1, Bounds DEF Numbers, AddKeyframe, NextNumber
<1>11. \A k \in all_keyframes_set : /\ keyframe[k].frame_num = Position(k)
                                    /\ keyframe_by_frame_num_map[Position(k)] = k
                                    /\ Position(k) < Cardinality(all_keyframes_set)
                                    /\ Position(k) \in Numbers
  BY <1>1, <1>3 DEF NumbersHold, PositionIsNumber, keyframe_by_frame_num, Structure, Numbered, KeyframeInfo
<1>12. \A k \in all_keyframes_set : keyframe_by_frame_num_map'[Position(k)] = k
  <2>1. Cardinality(all_keyframes_set) \in Nat
    BY <1>1, SetSize
  <2> QED
    BY <1>3, <1>10, <1>11, <2>1 DEF Numbers
<1>13. keyframe_by_frame_num_map'[Cardinality(all_keyframes_set)] = new
  BY <1>3, <1>10
<1>14. NumbersHold'
  BY <1>5, <1>7, <1>8, <1>9, <1>11, <1>12, <1>13 DEF NumbersHold, PositionIsNumber, keyframe_by_frame_num
<1> QED
  BY <1>2, <1>4, <1>5, <1>7, <1>14

\* Every step keeps places and numbers together.
LEMMA NextForward == IInv /\ Forward /\ NumbersHold /\ [Next]_vars => Forward' /\ NumbersHold'
<1> SUFFICES ASSUME IInv, Forward, NumbersHold, [Next]_vars, restarts' = 0 PROVE Forward' /\ NumbersHold'
  BY DEF Forward, NumbersHold
<1>1. FrameOK /\ TrackingOK /\ PosesOK /\ RegistryOK
  BY TypeParts DEF IInv, Parts
<1>2. CASE RestartSource
  BY <1>1, <1>2 DEF RestartSource, FrameOK
<1>3. CASE rt_callback_point_cloud_segments
  <2>1. PICK t \in clock + 1 .. MaxStamp : clock' = t /\ queue' = Append(queue, t)
    BY <1>3 DEF rt_callback_point_cloud_segments
  <2>2. /\ t \in Int /\ clock \in Int /\ clock < t /\ last_cloud_time \in Int
        /\ queue \in Seq(1 .. MaxStamp) /\ Len(queue) \in Nat
    BY <1>1, <2>1, Bounds DEF FrameOK, TrackingOK
  <2>3. /\ Len(queue') = Len(queue) + 1 /\ queue'[Len(queue) + 1] = t
        /\ \A i \in 1 .. Len(queue) : queue'[i] = queue[i] /\ queue[i] \in Int
    <3>1. \A i \in 1 .. Len(queue) : queue[i] \in Int
      <4>1. queue \in [1 .. Len(queue) -> 1 .. MaxStamp] /\ \A m \in 1 .. MaxStamp : m \in Int
        BY <2>2, LenProperties, Bounds
      <4> QED
        BY <4>1
    <3>2. queue \in Seq(Int)
      BY <2>2, <3>1
    <3> QED
      BY <2>1, <2>2, <3>1, <3>2, AppendProperties
  <2>4. UNCHANGED <<restarts, last_cloud_time, registry>>
    BY <1>3 DEF rt_callback_point_cloud_segments, tracking
  <2>5. last_cloud_time <= clock /\ Increasing(queue, last_cloud_time, clock)
    BY <2>4 DEF Forward
  <2>6. Increasing(queue', last_cloud_time', clock')
    BY <2>1, <2>2, <2>3, <2>4, <2>5 DEF Increasing
  <2>7. Forward'
    BY <2>1, <2>2, <2>4, <2>5, <2>6 DEF Forward, registry
  <2> QED
    BY <2>4, <2>7 DEF NumbersHold, PositionIsNumber, Position, keyframe_by_frame_num, registry
<1>4. ASSUME UNCHANGED <<frame, last_cloud_time, created, all_keyframes_set, keyframe_by_frame_num_map>>,
             \A k \in all_keyframes_set : /\ keyframe'[k].time = keyframe[k].time
                                          /\ keyframe'[k].frame_num = keyframe[k].frame_num
      PROVE  Forward' /\ NumbersHold'
  <2>1. Forward'
    BY <1>4 DEF Forward, frame
  <2>2. \A k \in all_keyframes_set : Position(k)' = Position(k)
    <3> SUFFICES ASSUME NEW k \in all_keyframes_set PROVE Position(k)' = Position(k)
      OBVIOUS
    <3>1. {j \in all_keyframes_set' : keyframe'[j].time < keyframe'[k].time}
            = {j \in all_keyframes_set : keyframe[j].time < keyframe[k].time}
      BY <1>4
    <3> QED
      BY <3>1 DEF Position
  <2> QED
    BY <1>4, <2>1, <2>2 DEF NumbersHold, PositionIsNumber, keyframe_by_frame_num, frame
<1>5. ASSUME Take, queue # <<>>, UNCHANGED registry
      PROVE  Forward' /\ NumbersHold'
  <2>1. restarts = 0
    BY <1>5 DEF Take
  <2>2. /\ Head(queue) > last_cloud_time /\ last_cloud_time' = Head(queue)
        /\ last_cloud_time' <= clock' /\ Increasing(queue', last_cloud_time', clock')
    BY <1>1, <1>5, <2>1, TakeForward
  <2>3. Head(queue) \in Int /\ last_cloud_time \in Int
    BY <1>1, <1>5, HeadTyped DEF TrackingOK
  <2>4. \A k \in all_keyframes_set : keyframe[k].time \in Int
    <3>1. all_keyframes_set \subseteq Keyframes
      BY <1>1, Bounds DEF RegistryOK, Keyframes
    <3> QED
      BY <3>1, <1>1 DEF RegistryOK, KeyframeInfo
  <2>5. Forward'
    BY <1>5, <2>1, <2>2, <2>3, <2>4 DEF Forward, registry
  <2> QED
    BY <1>5, <2>1, <2>5 DEF NumbersHold, PositionIsNumber, Position, keyframe_by_frame_num, registry
<1>6. ASSUME Take, queue # <<>>, NEW pose \in Int, NEW rel \in Int, NEW backend \in BOOLEAN,
             AddKeyframe(Head(queue), pose, rel, backend)
      PROVE  Forward' /\ NumbersHold'
  <2>1. restarts = 0
    BY <1>6 DEF Take
  <2>2. NumbersHold' /\ \A k \in all_keyframes_set' : keyframe'[k].time <= last_cloud_time'
    BY <1>6, <2>1, NumberedAtTheEnd
  <2>3. last_cloud_time' <= clock' /\ Increasing(queue', last_cloud_time', clock')
    BY <1>1, <1>6, <2>1, TakeForward
  <2> QED
    BY <2>2, <2>3 DEF Forward
<1>7. CASE Initialise
  <2>1. queue # <<>> /\ Take /\ AddKeyframe(Head(queue), T_w_j, Identity, FALSE)
    BY <1>7 DEF Initialise, FrameWaits
  <2>2. T_w_j \in Int /\ Identity \in Int
    BY <1>1 DEF PosesOK, Identity
  <2> QED
    BY <2>1, <2>2, <1>6
<1>8. CASE TimeReset
  <2>1. queue # <<>> /\ TimeGoesBack /\ restarts = 0
    BY <1>8 DEF TimeReset, FrameWaits, frame
  <2>2. Len(queue) \in Nat /\ 1 \in 1 .. Len(queue) /\ Head(queue) = queue[1] /\ queue[1] \in Int
        /\ last_cloud_time \in Int
    BY <1>1, <2>1, HeadTyped DEF FrameOK, TrackingOK
  <2>3. last_cloud_time < queue[1]
    BY <2>1, <2>2 DEF Forward, Increasing
  <2> QED
    BY <2>1, <2>2, <2>3 DEF TimeGoesBack
<1>9. CASE RegistrationFails
  BY <1>5, <1>9 DEF RegistrationFails, Registers, FrameWaits
<1>10. CASE \E d \in Motions : RegisterFrame(d)
  BY <1>5, <1>10 DEF RegisterFrame, Register, Registers, FrameWaits
<1>11. CASE \E d \in Motions : RegisterKeyframe(d)
  <2>1. PICK d \in Motions : RegisterKeyframe(d)
    BY <1>11
  <2>2. /\ d \in Int /\ queue # <<>> /\ Take
        /\ AddKeyframe(Head(queue), T_w_j_1 + d, T_lastKeyframe_keyframe + d, TRUE)
    BY <2>1, ConstantsAssumption DEF RegisterKeyframe, Register, Registers, FrameWaits
  <2>3. T_w_j_1 + d \in Int /\ T_lastKeyframe_keyframe + d \in Int
    BY <1>1, <2>2 DEF PosesOK
  <2> QED
    BY <2>2, <2>3, <1>6
<1>12. CASE Stage1 \/ Stage3
  <2>1. \A k \in Keyframes : /\ keyframe'[k].time = keyframe[k].time
                              /\ keyframe'[k].frame_num = keyframe[k].frame_num
    BY <1>12, Corrected DEF IInv, Stage1, Stage3, tracking
  <2>2. all_keyframes_set \subseteq Keyframes
    BY <1>1, Bounds DEF RegistryOK, Keyframes
  <2>3. UNCHANGED <<frame, last_cloud_time, created, all_keyframes_set, keyframe_by_frame_num_map>>
    BY <1>12 DEF Stage1, Stage3, tracking
  <2> QED
    BY <1>4, <2>1, <2>2, <2>3
<1>13. CASE UNCHANGED vars
  BY <1>4, <1>13 DEF vars, tracking, registry
<1> QED
  BY <1>2, <1>3, <1>7, <1>8, <1>9, <1>10, <1>11, <1>12, <1>13 DEF Next

\* While the source's clock never restarts, a keyframe's number is its place
\* in the set and leads back to it, through failures and corrections.
THEOREM NumbersStayPlaces == Spec => []NumbersHold
<1>1. Init => Forward /\ NumbersHold
  BY DEF Init, Forward, NumbersHold, PositionIsNumber, Increasing
<1> QED
  BY <1>1, Invariance, NextForward, PTL DEF Spec

=============================================================================
