-------------------------- MODULE CloudGuardProofs --------------------------
(***************************************************************************)
(* Proofs about the clouds of the keyframes, for every number of keyframes *)
(* and of loops in the queue.                                              *)
(***************************************************************************)
EXTENDS CloudGuard, SequenceTheorems, TLAPS

\* Outside an adjustment no is_being_used_by_ba flag is left behind: every flag
\* that is set belongs to a keyframe of ba_used_keyframes.
THEOREM FlagsGivenBack == Spec => []FlagsReturned
<1>1. Init => FlagsReturned
  BY DEF Init, FlagsReturned
<1>2. FlagsReturned /\ [Next]_vars => FlagsReturned'
  <2> SUFFICES ASSUME FlagsReturned, [Next]_vars
               PROVE  FlagsReturned'
    OBVIOUS
  <2> USE DEF FlagsReturned, cloudVars, workerVars
  <2>1. CASE UNCHANGED vars
    BY <2>1 DEF vars
  <2>2. CASE BeginMerge \/ EndMerge \/ BeginSegment \/ ClearTestNull \/ ClearTestFlag
             \/ ClearSeg \/ ClearGround \/ NewKeyframe \/ NewSegmentKeyframe
    BY <2>2 DEF BeginMerge, EndMerge, BeginSegment, ClearTestNull, ClearTestFlag,
       ClearSeg, ClearGround, NewKeyframe, NewSegmentKeyframe
  <2>3. CASE Stage3Clear
    BY <2>3 DEF Stage3Clear
  <2>4. CASE BeginAdjustment
    BY <2>4 DEF BeginAdjustment
  <2>5. CASE SetFlag
    BY <2>5 DEF SetFlag
  <2>6. CASE CheckPointer
    BY <2>6 DEF CheckPointer
  <2>7. CASE FinishUse
    BY <2>7 DEF FinishUse, Recheck
  <2>8. CASE ReleaseFlags
    BY <2>8 DEF ReleaseFlags
  <2> QED
    BY <2>1, <2>2, <2>3, <2>4, <2>5, <2>6, <2>7, <2>8 DEF Next
<1> QED
  BY <1>1, <1>2, PTL DEF Spec

-----------------------------------------------------------------------------
(* Type correctness                                                        *)

\* Where the threads look exists: the keyframe of the adjustment and those of the
\* loops, and there is room for the keyframe of a new segment.
Places ==
  /\ tpc \in {"null", "flag", "seg", "ground", "insert"} => size < MaxKeyframes
  /\ bpc \in {"flag", "check", "use"} => bk \in 1 .. size
  /\ bpc # "idle" => loop \in Loops
  /\ loop.keyframe <= size
  /\ \A i \in 1 .. Len(tasks) : tasks[i].keyframe <= size

\* A function on 1 .. n is a sequence of length n, and Append extends it.
LEMMA AppendFunction ==
  ASSUME NEW S, NEW n \in Nat, NEW f \in [1 .. n -> S], NEW e \in S
  PROVE  /\ Append(f, e) \in [1 .. n + 1 -> S]
         /\ Append(f, e)[n + 1] = e
         /\ \A i \in 1 .. n : Append(f, e)[i] = f[i]
<1>1. f \in Seq(S)
  BY SeqDef
<1>2. Len(f) = n
  BY <1>1, LenProperties
<1>3. Append(f, e) \in Seq(S) /\ Len(Append(f, e)) = n + 1
  BY <1>1, <1>2
<1>4. Append(f, e)[n + 1] = e /\ \A i \in 1 .. n : Append(f, e)[i] = f[i]
  BY <1>1, <1>2
<1>5. Append(f, e) \in [1 .. Len(Append(f, e)) -> S]
  BY <1>3, LenProperties
<1> QED
  BY <1>3, <1>4, <1>5

\* Labels stay labels when they are connected or merged.
LEMMA Neighbours ==
  ASSUME NEW nb \in [AllKeyframes -> SUBSET AllKeyframes],
         NEW a \in AllKeyframes, NEW b \in AllKeyframes
  PROVE  /\ Connect(nb, a, b) \in [AllKeyframes -> SUBSET AllKeyframes]
         /\ Merge(nb, a, b) \in [AllKeyframes -> SUBSET AllKeyframes]
BY DEF Connect, Merge

\* Inserting a keyframe keeps the types, whether it closes a loop or not.
LEMMA InsertTyped ==
  ASSUME TypeOK, Places, size < MaxKeyframes, NEW l \in AllKeyframes,
         NEW nb \in [AllKeyframes -> SUBSET AllKeyframes], NEW m \in BOOLEAN,
         InsertKeyframe(l, nb, m), UNCHANGED <<flag, workerVars>>,
         tpc' = "frame", cursor' \in 0 .. MaxKeyframes
  PROVE  TypeOK' /\ Places'
<1>1. size' = size + 1 /\ size \in 1 .. MaxKeyframes /\ size' \in AllKeyframes
  BY MaxKeyframesAssumption DEF InsertKeyframe, TypeOK, AllKeyframes
<1> DEFINE Task(x) == [keyframe |-> size', source |-> l, merged |-> x,
                       trajectory |-> {j \in 1 .. size : label[j] \in nb[l]} \cup {size'}]
           Inserted(x) == /\ label' = Append(label, x)
                          /\ near' = nb \/ near' = Merge(nb, l, x)
                          /\ merging' \in BOOLEAN
                          /\ UNCHANGED tasks \/ tasks' = Append(tasks, Task(x))
<1>2. PICK x \in AllKeyframes : Inserted(x)
  <2>1. ASSUME label' = Append(label, l), near' = nb, merging' = m, UNCHANGED tasks
        PROVE  Inserted(l)
    BY <2>1
  <2>2. ASSUME NEW h \in FirstBackend .. size, label' = Append(label, label[h]),
               near' = Merge(nb, l, label[h]), merging' = TRUE, UNCHANGED tasks
        PROVE  Inserted(label[h])
    BY <2>2
  <2>3. ASSUME NEW h \in FirstBackend .. size, label' = Append(label, label[h]),
               near' = nb, merging' = m, tasks' = Append(tasks, Task(label[h]))
        PROVE  Inserted(label[h])
    BY <2>3
  <2>4. \A h \in FirstBackend .. size : label[h] \in AllKeyframes
    BY <1>1 DEF TypeOK, FirstBackend
  <2> HIDE DEF Inserted
  <2> QED
    BY <1>1, <2>1, <2>2, <2>3, <2>4 DEF InsertKeyframe
<1>3. label' \in [1 .. size' -> AllKeyframes]
  <2>1. label \in [1 .. size -> AllKeyframes] /\ size \in Nat
    BY <1>1 DEF TypeOK
  <2>2. Append(label, x) \in [1 .. size + 1 -> AllKeyframes]
    BY <2>1, AppendFunction
  <2> QED
    BY <1>1, <1>2, <2>2
<1>4. near' \in [AllKeyframes -> SUBSET AllKeyframes]
  BY <1>2, Neighbours
<1>5. seg' \subseteq 1 .. size' /\ ground' \subseteq 1 .. size' /\ flag' \subseteq 1 .. size'
  BY <1>1 DEF InsertKeyframe, TypeOK
<1>6. /\ tasks' \in Seq(Loops)
      /\ \A i \in 1 .. Len(tasks') : tasks'[i].keyframe <= size'
  <2>1. \A i \in 1 .. Len(tasks) : tasks[i].keyframe <= size' /\ tasks \in Seq(Loops)
    <3>1. tasks \in Seq(Loops)
      BY DEF TypeOK
    <3>2. ASSUME NEW i \in 1 .. Len(tasks) PROVE tasks[i].keyframe <= size'
      <4>1. tasks[i] \in Loops
        BY <3>1, ElementOfSeq
      <4> QED
        BY <1>1, <4>1 DEF Places, Loops, AllKeyframes
    <3> QED
      BY <3>1, <3>2
  <2>2. CASE UNCHANGED tasks
    BY <2>1, <2>2 DEF TypeOK
  <2>3. CASE ~UNCHANGED tasks
    <3> DEFINE t == Task(x)
    <3>1. t \in Loops /\ t.keyframe = size'
      <4>1. {j \in 1 .. size : label[j] \in nb[l]} \cup {size'} \subseteq AllKeyframes
        BY <1>1, MaxKeyframesAssumption DEF AllKeyframes
      <4> QED
        BY <1>1, <4>1 DEF Loops
    <3>2. tasks' = Append(tasks, t)
      BY <1>2, <2>3
    <3> HIDE DEF t
    <3>3. /\ tasks' \in Seq(Loops) /\ Len(tasks') = Len(tasks) + 1 /\ Len(tasks) \in Nat
          /\ tasks'[Len(tasks) + 1] = t
          /\ \A i \in 1 .. Len(tasks) : tasks'[i] = tasks[i]
      BY <3>1, <3>2 DEF TypeOK
    <3> QED
      BY <1>1, <2>1, <3>1, <3>3
  <2> QED
    BY <2>2, <2>3
<1>7. /\ bpc' = bpc /\ loop' = loop /\ bk' = bk /\ used' = used
      /\ loop \in Loops \cup {NoLoop} /\ loop.keyframe \in Nat
  BY DEF workerVars, TypeOK, Loops, NoLoop, AllKeyframes
<1>8. /\ cursor' \in 0 .. MaxKeyframes /\ merging' \in BOOLEAN /\ tpc' = "frame"
      /\ bk \in 0 .. MaxKeyframes /\ used \subseteq AllKeyframes
      /\ bpc \in {"idle", "flag", "check", "use", "release", "wait"}
  BY <1>2 DEF TypeOK
<1>9. TypeOK'
  BY <1>1, <1>3, <1>4, <1>5, <1>6, <1>7, <1>8 DEF TypeOK, AllKeyframes
<1>10. Places'
  BY <1>1, <1>6, <1>7, <1>8 DEF Places
<1> QED
  BY <1>9, <1>10

\* A keyframe enters the map well typed, in the current segment or in a new one.
LEMMA KeyframeTyped ==
  ASSUME TypeOK, Places, NewKeyframe \/ NewSegmentKeyframe
  PROVE  TypeOK' /\ Places'
<1>1. size \in 1 .. MaxKeyframes /\ label[size] \in AllKeyframes /\ merging \in BOOLEAN
      /\ near \in [AllKeyframes -> SUBSET AllKeyframes]
  BY MaxKeyframesAssumption DEF TypeOK
<1>2. CASE NewKeyframe
  <2>1. /\ size < MaxKeyframes /\ InsertKeyframe(label[size], near, merging)
        /\ tpc' = "frame" /\ cursor' = cursor /\ UNCHANGED <<flag, workerVars>>
    BY <1>2 DEF NewKeyframe
  <2>2. cursor \in 0 .. MaxKeyframes
    BY DEF TypeOK
  <2> QED
    BY <1>1, <2>1, <2>2, InsertTyped
<1>3. CASE NewSegmentKeyframe
  <2> DEFINE nb == IF size = 1 THEN near
                   ELSE IF merging THEN Merge(near, size + 1, label[size])
                   ELSE Connect(near, size + 1, label[size])
  <2>1. /\ InsertKeyframe(size + 1, nb, merging /\ size = 1)
        /\ tpc' = "frame" /\ cursor' = 0 /\ UNCHANGED <<flag, workerVars>>
    BY <1>3 DEF NewSegmentKeyframe
  <2>2. size < MaxKeyframes /\ size + 1 \in AllKeyframes
    BY <1>1, <1>3, MaxKeyframesAssumption DEF NewSegmentKeyframe, Places, AllKeyframes
  <2>3. nb \in [AllKeyframes -> SUBSET AllKeyframes]
    BY <1>1, <2>2, Neighbours
  <2>4. 0 \in 0 .. MaxKeyframes /\ (merging /\ size = 1) \in BOOLEAN
    BY MaxKeyframesAssumption
  <2> HIDE DEF nb
  <2> QED
    BY <2>1, <2>2, <2>3, <2>4, InsertTyped
<1> QED
  BY <1>2, <1>3

\* The variables have their types, and what the threads look at exists.
LEMMA TypePlaces == Spec => [](TypeOK /\ Places)
<1>1. Init => TypeOK /\ Places
  <2> SUFFICES ASSUME Init PROVE TypeOK /\ Places
    OBVIOUS
  <2>1. label \in [1 .. size -> AllKeyframes]
    BY MaxKeyframesAssumption DEF Init, AllKeyframes
  <2>2. tasks \in Seq(Loops) /\ Len(tasks) = 0
    BY EmptySeq DEF Init
  <2>3. Places
    BY <2>2 DEF Init, Places, NoLoop
  <2>4. /\ near \in [AllKeyframes -> SUBSET AllKeyframes] /\ loop \in Loops \cup {NoLoop}
        /\ seg \subseteq 1 .. size /\ ground \subseteq 1 .. size /\ flag \subseteq 1 .. size
        /\ used \subseteq AllKeyframes
    BY DEF Init
  <2>5. /\ tpc = "frame" /\ bpc = "idle" /\ merging = FALSE
        /\ cursor \in 0 .. MaxKeyframes /\ size \in 1 .. MaxKeyframes
        /\ bk \in 0 .. MaxKeyframes
    BY MaxKeyframesAssumption DEF Init
  <2> QED
    BY <2>1, <2>2, <2>3, <2>4, <2>5 DEF TypeOK
<1>2. TypeOK /\ Places /\ [Next]_vars => (TypeOK /\ Places)'
  <2> SUFFICES ASSUME TypeOK, Places, [Next]_vars
               PROVE  (TypeOK /\ Places)'
    OBVIOUS
  <2> USE MaxKeyframesAssumption DEF TypeOK, Places, labelVars, cloudVars, workerVars
  <2>1. CASE UNCHANGED vars
    BY <2>1 DEF vars
  <2>2. CASE BeginMerge
    BY <2>2 DEF BeginMerge
  <2>3. CASE EndMerge
    BY <2>3 DEF EndMerge
  <2>4. CASE BeginSegment
    BY <2>4 DEF BeginSegment
  <2>5. CASE ClearTestNull
    BY <2>5 DEF ClearTestNull, GoOn
  <2>6. CASE ClearTestFlag
    BY <2>6 DEF ClearTestFlag, GoOn
  <2>7. CASE ClearSeg
    BY <2>7 DEF ClearSeg
  <2>8. CASE ClearGround
    BY <2>8 DEF ClearGround, GoOn
  <2>9. CASE NewKeyframe \/ NewSegmentKeyframe
    BY <2>9, KeyframeTyped
  <2>10. CASE Stage3Clear
    <3>1. loop \in Loops
      BY <2>10 DEF Stage3Clear
    <3>2. near' \in [AllKeyframes -> SUBSET AllKeyframes]
      BY <2>10, <3>1, Neighbours DEF Stage3Clear, Loops
    <3>3. NoLoop.keyframe <= size
      BY DEF NoLoop
    <3> QED
      BY <2>10, <3>2, <3>3 DEF Stage3Clear
  <2>11. CASE BeginAdjustment
    <3>1. /\ Head(tasks) = tasks[1] /\ tasks[1] \in Loops /\ Tail(tasks) \in Seq(Loops)
          /\ Len(tasks) \in Nat \ {0} /\ Len(Tail(tasks)) = Len(tasks) - 1
          /\ \A i \in 1 .. Len(tasks) - 1 : Tail(tasks)[i] = tasks[i + 1]
      BY <2>11, EmptySeq, HeadTailProperties DEF BeginAdjustment
    <3>2. tasks[1].keyframe \in 1 .. size
      <4>1. tasks[1].keyframe \in Nat \ {0}
        BY <3>1 DEF Loops, AllKeyframes
      <4> QED
        BY <3>1, <4>1
    <3>3. \A i \in 1 .. Len(tasks') : tasks'[i].keyframe <= size'
      BY <2>11, <3>1 DEF BeginAdjustment
    <3> QED
      BY <2>11, <3>1, <3>2, <3>3 DEF BeginAdjustment
  <2>12. CASE SetFlag
    BY <2>12 DEF SetFlag, AllKeyframes
  <2>13. CASE CheckPointer
    BY <2>13 DEF CheckPointer
  <2>14. CASE FinishUse
    <3>1. flag' \subseteq 1 .. size
      BY <2>14 DEF FinishUse, Recheck
    <3>2. bk \in 1 .. size /\ size \in 1 .. MaxKeyframes
      BY <2>14 DEF FinishUse
    <3>3. /\ bpc' \in {"flag", "release"} /\ bk' \in 1 .. size
          /\ UNCHANGED <<tpc, cursor, size, label, near, merging, seg, ground, tasks,
                         loop, used>>
      BY <2>14, <3>2 DEF FinishUse, FirstBackend
    <3>4. TypeOK'
      BY <3>1, <3>2, <3>3
    <3>5. Places'
      BY <2>14, <3>2, <3>3 DEF FinishUse
    <3> QED
      BY <3>4, <3>5
  <2>15. CASE ReleaseFlags
    <3>1. flag' \subseteq 1 .. size' /\ used' \subseteq AllKeyframes
      BY <2>15 DEF ReleaseFlags
    <3>2. bk' \in 0 .. MaxKeyframes
      BY <2>15 DEF ReleaseFlags
    <3> QED
      BY <2>15, <3>1, <3>2 DEF ReleaseFlags
  <2> QED
    BY <2>1, <2>2, <2>3, <2>4, <2>5, <2>6, <2>7, <2>8, <2>9, <2>10, <2>11, <2>12,
       <2>13, <2>14, <2>15 DEF Next
<1> QED
  BY <1>1, <1>2, PTL DEF Spec

\* The variables always have their types.
THEOREM TypeCorrect == Spec => []TypeOK
BY TypePlaces, PTL

-----------------------------------------------------------------------------
(* The clouds of the latest keyframe                                       *)

\* The latest keyframe has its clouds, and the clearing of a new segment is past
\* it once it looks at a flag.
LatestKept ==
  /\ HasClouds(size)
  /\ tpc \in {"flag", "seg", "ground"} => cursor # size

\* rt_fix_voxel_initialization adds to clouds that exist: the clearing of a new
\* segment passes over the latest keyframe, whose label it compares with, and
\* stage 3 clears only keyframes older than the one that closed the loop.
LEMMA LatestKeepsClouds == Spec => []LatestHasClouds
<1>1. Init => LatestKept
  BY DEF Init, LatestKept, HasClouds
<1>2. TypeOK /\ Places /\ LatestKept /\ [Next]_vars => LatestKept'
  <2> SUFFICES ASSUME TypeOK, Places, LatestKept, [Next]_vars
               PROVE  LatestKept'
    OBVIOUS
  <2> USE DEF LatestKept, HasClouds, labelVars, cloudVars, workerVars
  <2>1. size \in Nat
    BY DEF TypeOK
  <2>2. CASE ClearTestNull
    BY <2>2 DEF ClearTestNull, GoOn
  <2>3. CASE ClearTestFlag
    BY <2>3 DEF ClearTestFlag, GoOn
  <2>4. CASE ClearSeg
    BY <2>4 DEF ClearSeg
  <2>5. CASE ClearGround
    BY <2>5 DEF ClearGround, GoOn
  <2>6. CASE NewKeyframe \/ NewSegmentKeyframe
    BY <2>1, <2>6 DEF NewKeyframe, NewSegmentKeyframe, InsertKeyframe
  <2>7. CASE Stage3Clear
    <3>1. loop.keyframe <= size
      BY DEF Places
    <3>2. loop.keyframe \in Nat
      BY DEF TypeOK, Loops, NoLoop, AllKeyframes
    <3>3. ~(size < loop.keyframe)
      BY <2>1, <3>1, <3>2
    <3> QED
      BY <2>7, <3>3 DEF Stage3Clear
  <2>8. CASE \/ BeginMerge \/ EndMerge \/ BeginSegment \/ BeginAdjustment \/ SetFlag
             \/ CheckPointer \/ FinishUse \/ ReleaseFlags \/ UNCHANGED vars
    BY <2>8 DEF BeginMerge, EndMerge, BeginSegment, BeginAdjustment, SetFlag,
       CheckPointer, FinishUse, Recheck, ReleaseFlags, vars
  <2> QED
    BY <2>2, <2>3, <2>4, <2>5, <2>6, <2>7, <2>8 DEF Next
<1>3. LatestKept => LatestHasClouds
  BY DEF LatestKept, LatestHasClouds
<1> QED
  BY <1>1, <1>2, <1>3, TypePlaces, PTL DEF Spec
-----------------------------------------------------------------------------
(* The clouds of the keyframes that closed a loop                          *)

\* The keyframe has its clouds, or the track left its trajectory label.
Kept(k) == HasClouds(k) \/ \E j \in k + 1 .. size : label[j] # label[k]

\* The clearing of a new segment takes clouds of other labels only; the loops in
\* the queue are in the order of their keyframes, which stage 3 of an older one
\* does not touch.
LoopsKept ==
  /\ tpc \in {"flag", "seg", "ground"} => label[cursor] # label[size]
  /\ \A i \in 1 .. Len(tasks) : Kept(tasks[i].keyframe)
  /\ \A i, j \in 1 .. Len(tasks) : i < j => tasks[i].keyframe < tasks[j].keyframe
  /\ bpc # "idle" =>
       /\ Kept(loop.keyframe)
       /\ \A i \in 1 .. Len(tasks) : loop.keyframe < tasks[i].keyframe

\* The loops in the queue and in the adjustment have keyframes of the map.
LEMMA LoopKeyframes ==
  ASSUME TypeOK, Places
  PROVE  /\ size \in 1 .. MaxKeyframes
         /\ \A i \in 1 .. Len(tasks) : tasks[i].keyframe \in 1 .. size
         /\ bpc # "idle" => loop.keyframe \in 1 .. size
<1>1. size \in 1 .. MaxKeyframes
  BY DEF TypeOK
<1>2. ASSUME NEW i \in 1 .. Len(tasks) PROVE tasks[i].keyframe \in 1 .. size
  <2>1. tasks[i] \in Loops
    BY ElementOfSeq DEF TypeOK
  <2> QED
    BY <1>1, <2>1 DEF Places, Loops, AllKeyframes
<1>3. bpc # "idle" => loop.keyframe \in 1 .. size
  BY <1>1 DEF Places, Loops, AllKeyframes
<1> QED
  BY <1>1, <1>2, <1>3

\* LoopsKept survives a step that takes no loop from the queue and adds none, and
\* after which every keyframe that was kept is.
LEMMA SameLoops ==
  ASSUME TypeOK, Places, LoopsKept, UNCHANGED tasks,
         bpc' # "idle" => bpc # "idle" /\ loop' = loop,
         tpc' \in {"flag", "seg", "ground"} => label'[cursor'] # label'[size'],
         \A k \in 1 .. size : Kept(k) => Kept(k)'
  PROVE  LoopsKept'
<1>1. ASSUME NEW i \in 1 .. Len(tasks) PROVE Kept(tasks[i].keyframe)'
  <2>1. PICK k \in 1 .. size : k = tasks[i].keyframe
    BY LoopKeyframes
  <2>2. Kept(k)'
    BY <2>1 DEF LoopsKept
  <2> QED
    BY <2>1, <2>2 DEF Kept, HasClouds
<1>2. ASSUME bpc' # "idle" PROVE Kept(loop.keyframe)'
  <2>1. PICK k \in 1 .. size : k = loop.keyframe
    BY <1>2, LoopKeyframes
  <2>2. Kept(k)'
    BY <1>2, <2>1 DEF LoopsKept
  <2> QED
    BY <1>2, <2>1, <2>2 DEF Kept, HasClouds
<1>3. /\ \A i, j \in 1 .. Len(tasks) : i < j => tasks[i].keyframe < tasks[j].keyframe
      /\ bpc # "idle" => \A i \in 1 .. Len(tasks) : loop.keyframe < tasks[i].keyframe
  BY DEF LoopsKept
<1> QED
  BY <1>1, <1>2, <1>3 DEF LoopsKept

\* What the tracking thread resets in a new segment belongs to a label the track
\* has left, so every keyframe that was kept still is.
LEMMA ResetBehind ==
  ASSUME TypeOK, LoopsKept, tpc \in {"seg", "ground"}, UNCHANGED <<size, label>>,
         \A k \in 1 .. size : k # cursor /\ HasClouds(k) => HasClouds(k)'
  PROVE  \A k \in 1 .. size : Kept(k) => Kept(k)'
<1>1. label[cursor] # label[size] /\ cursor \in 1 .. size /\ size \in Nat \ {0}
  BY DEF LoopsKept, TypeOK
<1>2. cursor # size
  BY <1>1
<1>3. size \in cursor + 1 .. size
  BY <1>1, <1>2
<1> SUFFICES ASSUME NEW k \in 1 .. size, Kept(k)
             PROVE  Kept(k)'
  OBVIOUS
<1>4. CASE \E j \in k + 1 .. size : label[j] # label[k]
  BY <1>4 DEF Kept
<1>5. CASE HasClouds(k) /\ k # cursor
  BY <1>5 DEF Kept
<1>6. CASE k = cursor
  BY <1>1, <1>3, <1>6 DEF Kept
<1> QED
  BY <1>4, <1>5, <1>6 DEF Kept

\* A new keyframe has its clouds and takes none; the loop it closes is the last of
\* the queue.
LEMMA InsertKeeps ==
  ASSUME TypeOK, Places, LoopsKept, size < MaxKeyframes, NEW l \in AllKeyframes,
         NEW nb \in [AllKeyframes -> SUBSET AllKeyframes], NEW m \in BOOLEAN,
         InsertKeyframe(l, nb, m), UNCHANGED <<flag, workerVars>>, tpc' = "frame"
  PROVE  LoopsKept'
<1>1. size' = size + 1 /\ size \in 1 .. MaxKeyframes /\ MaxKeyframes \in Nat
  BY MaxKeyframesAssumption DEF InsertKeyframe, TypeOK
<1>2. seg' = seg \cup {size + 1} /\ ground' = ground \cup {size + 1}
  BY DEF InsertKeyframe
<1>3. \A h \in FirstBackend .. size : label[h] \in AllKeyframes
  BY <1>1 DEF TypeOK, FirstBackend
<1>4. PICK x \in AllKeyframes : label' = Append(label, x)
  BY <1>3 DEF InsertKeyframe
<1>5. \A i \in 1 .. size : label'[i] = label[i]
  <2>1. label \in [1 .. size -> AllKeyframes] /\ size \in Nat
    BY <1>1 DEF TypeOK
  <2> QED
    BY <1>4, <2>1, AppendFunction
<1>6. ASSUME NEW k \in 1 .. size, Kept(k) PROVE Kept(k)'
  BY <1>1, <1>2, <1>5, <1>6 DEF Kept, HasClouds
<1>7. CASE UNCHANGED tasks
  BY <1>6, <1>7, SameLoops DEF workerVars
<1>8. CASE ~UNCHANGED tasks
  <2>1. PICK t : t.keyframe = size + 1 /\ tasks' = Append(tasks, t)
    BY <1>8 DEF InsertKeyframe
  <2>2. /\ Len(tasks') = Len(tasks) + 1 /\ Len(tasks) \in Nat
        /\ tasks'[Len(tasks) + 1] = t
        /\ \A i \in 1 .. Len(tasks) : tasks'[i] = tasks[i]
    BY <2>1 DEF TypeOK
  <2>3. \A i \in 1 .. Len(tasks) : tasks[i].keyframe \in 1 .. size
    BY LoopKeyframes
  <2>4. ASSUME NEW i \in 1 .. Len(tasks)' PROVE Kept(tasks[i].keyframe)'
    <3>1. CASE i = Len(tasks) + 1
      <4>1. tasks'[i].keyframe = size + 1
        BY <2>1, <2>2, <3>1
      <4> QED
        BY <1>2, <4>1 DEF Kept, HasClouds
    <3>2. CASE i \in 1 .. Len(tasks)
      <4>1. PICK k \in 1 .. size : k = tasks[i].keyframe
        BY <2>3, <3>2
      <4>2. Kept(k)'
        BY <1>6, <3>2, <4>1 DEF LoopsKept
      <4>3. tasks'[i].keyframe = k
        BY <2>2, <3>2, <4>1
      <4> QED
        BY <4>2, <4>3 DEF Kept, HasClouds
    <3> QED
      BY <2>2, <3>1, <3>2
  <2>5. ASSUME NEW i \in 1 .. Len(tasks'), NEW j \in 1 .. Len(tasks'), i < j
        PROVE  tasks'[i].keyframe < tasks'[j].keyframe
    <3>1. i \in 1 .. Len(tasks) /\ tasks'[i] = tasks[i]
      BY <2>2, <2>5
    <3>2. CASE j = Len(tasks) + 1
      BY <1>1, <2>1, <2>2, <2>3, <3>1, <3>2
    <3>3. CASE j \in 1 .. Len(tasks)
      BY <2>2, <2>5, <3>1, <3>3 DEF LoopsKept
    <3> QED
      BY <2>2, <3>2, <3>3
  <2>6. ASSUME bpc' # "idle"
        PROVE  /\ Kept(loop.keyframe)'
               /\ \A i \in 1 .. Len(tasks') : loop'.keyframe < tasks'[i].keyframe
    <3>1. bpc # "idle" /\ loop' = loop
      BY <2>6 DEF workerVars
    <3>2. PICK k \in 1 .. size : k = loop.keyframe
      BY <3>1, LoopKeyframes
    <3>3. Kept(k)'
      BY <1>6, <3>1, <3>2 DEF LoopsKept
    <3>4. Kept(loop.keyframe)'
      BY <3>1, <3>2, <3>3 DEF Kept, HasClouds
    <3>5. ASSUME NEW i \in 1 .. Len(tasks') PROVE loop'.keyframe < tasks'[i].keyframe
      <4>1. CASE i = Len(tasks) + 1
        BY <1>1, <2>1, <2>2, <3>1, <3>2, <4>1
      <4>2. CASE i \in 1 .. Len(tasks)
        BY <2>2, <3>1, <4>2 DEF LoopsKept
      <4> QED
        BY <2>2, <4>1, <4>2
    <3> QED
      BY <3>4, <3>5
  <2> QED
    BY <2>4, <2>5, <2>6 DEF LoopsKept
<1> QED
  BY <1>7, <1>8

\* An adjustment takes the oldest loop of the queue.
LEMMA TakeKeeps ==
  ASSUME TypeOK, Places, LoopsKept, BeginAdjustment
  PROVE  LoopsKept'
<1>1. /\ Head(tasks) = tasks[1] /\ Len(tasks) \in Nat \ {0}
      /\ Len(Tail(tasks)) = Len(tasks) - 1
      /\ \A i \in 1 .. Len(tasks) - 1 : Tail(tasks)[i] = tasks[i + 1]
  BY EmptySeq, HeadTailProperties DEF BeginAdjustment, TypeOK
<1>2. /\ loop' = tasks[1] /\ tasks' = Tail(tasks)
      /\ UNCHANGED <<tpc, cursor, size, label, seg, ground>>
  BY <1>1 DEF BeginAdjustment, labelVars, cloudVars
<1>3. /\ Len(tasks') = Len(tasks) - 1 /\ 1 \in 1 .. Len(tasks)
      /\ \A i \in 1 .. Len(tasks') : tasks'[i] = tasks[i + 1] /\ i + 1 \in 1 .. Len(tasks)
  BY <1>1, <1>2
<1>4. ASSUME NEW i \in 1 .. Len(tasks)' PROVE Kept(tasks[i].keyframe)'
  BY <1>2, <1>3 DEF LoopsKept, Kept, HasClouds
<1>5. Kept(loop.keyframe)'
  BY <1>2, <1>3 DEF LoopsKept, Kept, HasClouds
<1>6. ASSUME NEW i \in 1 .. Len(tasks') PROVE loop'.keyframe < tasks'[i].keyframe
  <2>1. 1 < i + 1 /\ i + 1 \in 1 .. Len(tasks) /\ tasks'[i] = tasks[i + 1]
    BY <1>3
  <2> QED
    BY <1>2, <1>3, <2>1 DEF LoopsKept
<1>7. ASSUME NEW i \in 1 .. Len(tasks'), NEW j \in 1 .. Len(tasks'), i < j
      PROVE  tasks'[i].keyframe < tasks'[j].keyframe
  <2>1. i + 1 < j + 1
    BY <1>1, <1>3, <1>7
  <2> QED
    BY <1>3, <2>1 DEF LoopsKept
<1>8. tpc' \in {"flag", "seg", "ground"} => label'[cursor'] # label'[size']
  BY <1>2 DEF LoopsKept
<1> QED
  BY <1>4, <1>5, <1>6, <1>7, <1>8 DEF LoopsKept

\* Stage 3 clears only keyframes older than the one that closed its loop, and the
\* loops that wait were closed by younger ones.
LEMMA ClearKeeps ==
  ASSUME TypeOK, Places, LoopsKept, Stage3Clear
  PROVE  LoopsKept'
<1>1. /\ UNCHANGED <<tpc, size, label, tasks>> /\ bpc # "idle" /\ bpc' = "idle"
      /\ tpc' = "frame"
  BY DEF Stage3Clear
<1>2. \A k : (k \in seg => k \in seg' \/ k < loop.keyframe)
             /\ (k \in ground => k \in ground' \/ k < loop.keyframe)
  BY DEF Stage3Clear
<1>3. ASSUME NEW i \in 1 .. Len(tasks) PROVE Kept(tasks[i].keyframe)'
  <2>1. PICK k \in 1 .. size : k = tasks[i].keyframe
    BY LoopKeyframes
  <2>2. loop.keyframe \in 1 .. size /\ size \in Nat
    BY <1>1, LoopKeyframes, MaxKeyframesAssumption
  <2>3. Kept(k) /\ loop.keyframe < k
    BY <1>1, <2>1 DEF LoopsKept
  <2>4. ~(k < loop.keyframe)
    BY <2>2, <2>3
  <2>5. Kept(k)'
    BY <1>1, <1>2, <2>3, <2>4 DEF Kept, HasClouds
  <2> QED
    BY <1>1, <2>1, <2>5 DEF Kept, HasClouds
<1> QED
  BY <1>1, <1>3 DEF LoopsKept

\* An adjustment finds the clouds of the keyframe that closed its loop, and a
\* frame is merged into a keyframe with clouds.
THEOREM WantedCloudsKept == Spec => []CloudsKept
<1>1. Init => LoopsKept
  BY EmptySeq DEF Init, LoopsKept
<1>2. TypeOK /\ Places /\ LoopsKept /\ [Next]_vars => LoopsKept'
  <2> SUFFICES ASSUME TypeOK, Places, LoopsKept, [Next]_vars
               PROVE  LoopsKept'
    OBVIOUS
  <2> USE DEF labelVars, cloudVars, workerVars
  <2>1. CASE NewKeyframe
    <3>1. size < MaxKeyframes /\ InsertKeyframe(label[size], near, merging)
          /\ UNCHANGED <<flag, workerVars>> /\ tpc' = "frame"
      BY <2>1 DEF NewKeyframe
    <3>2. /\ label[size] \in AllKeyframes /\ merging \in BOOLEAN
          /\ near \in [AllKeyframes -> SUBSET AllKeyframes]
      BY MaxKeyframesAssumption DEF TypeOK
    <3> QED
      BY <3>1, <3>2, InsertKeeps
  <2>2. CASE NewSegmentKeyframe
    <3> DEFINE nb == IF size = 1 THEN near
                     ELSE IF merging THEN Merge(near, size + 1, label[size])
                     ELSE Connect(near, size + 1, label[size])
    <3>1. /\ InsertKeyframe(size + 1, nb, merging /\ size = 1)
          /\ tpc' = "frame" /\ UNCHANGED <<flag, workerVars>>
      BY <2>2 DEF NewSegmentKeyframe
    <3>2. size < MaxKeyframes /\ size + 1 \in AllKeyframes /\ size \in 1 .. MaxKeyframes
      BY <2>2, MaxKeyframesAssumption DEF NewSegmentKeyframe, Places, TypeOK, AllKeyframes
    <3>3. nb \in [AllKeyframes -> SUBSET AllKeyframes]
      <4>1. label[size] \in AllKeyframes /\ near \in [AllKeyframes -> SUBSET AllKeyframes]
        BY <3>2 DEF TypeOK
      <4> QED
        BY <3>2, <4>1, Neighbours
    <3>4. (merging /\ size = 1) \in BOOLEAN
      OBVIOUS
    <3> HIDE DEF nb
    <3> QED
      BY <3>1, <3>2, <3>3, <3>4, InsertKeeps
  <2>3. CASE BeginAdjustment
    BY <2>3, TakeKeeps
  <2>4. CASE Stage3Clear
    BY <2>4, ClearKeeps
  <2>5. CASE ClearSeg \/ ClearGround
    <3>1. /\ UNCHANGED <<size, label, tasks, bpc, loop>> /\ tpc \in {"seg", "ground"}
          /\ \A k \in 1 .. size : k # cursor /\ HasClouds(k) => HasClouds(k)'
      BY <2>5 DEF ClearSeg, ClearGround, HasClouds
    <3>2. \A k \in 1 .. size : Kept(k) => Kept(k)'
      BY <3>1, ResetBehind
    <3>3. tpc' \in {"flag", "seg", "ground"} => label'[cursor'] # label'[size']
      BY <2>5 DEF ClearSeg, ClearGround, GoOn, LoopsKept
    <3> QED
      BY <3>1, <3>2, <3>3, SameLoops
  <2>6. CASE ClearTestNull
    <3>1. \A k \in 1 .. size : Kept(k) => Kept(k)'
      BY <2>6 DEF ClearTestNull, Kept, HasClouds
    <3>2. tpc' \in {"flag", "seg", "ground"} => label'[cursor'] # label'[size']
      BY <2>6 DEF ClearTestNull, GoOn
    <3> QED
      BY <2>6, <3>1, <3>2, SameLoops DEF ClearTestNull
  <2>7. CASE ClearTestFlag
    <3>1. \A k \in 1 .. size : Kept(k) => Kept(k)'
      BY <2>7 DEF ClearTestFlag, Kept, HasClouds
    <3>2. tpc' \in {"flag", "seg", "ground"} => label'[cursor'] # label'[size']
      BY <2>7 DEF ClearTestFlag, GoOn, LoopsKept
    <3> QED
      BY <2>7, <3>1, <3>2, SameLoops DEF ClearTestFlag
  <2>8. CASE \/ BeginMerge \/ EndMerge \/ BeginSegment \/ SetFlag
             \/ CheckPointer \/ FinishUse \/ ReleaseFlags \/ UNCHANGED vars
    <3>1. /\ UNCHANGED <<size, label, seg, ground, tasks, loop>>
          /\ bpc' # "idle" => bpc # "idle"
          /\ tpc' \in {"flag", "seg", "ground"} => tpc' = tpc /\ cursor' = cursor
      BY <2>8 DEF BeginMerge, EndMerge, BeginSegment, SetFlag, CheckPointer,
         FinishUse, Recheck, ReleaseFlags, vars
    <3>2. \A k \in 1 .. size : Kept(k) => Kept(k)'
      BY <3>1 DEF Kept, HasClouds
    <3>3. tpc' \in {"flag", "seg", "ground"} => label'[cursor'] # label'[size']
      BY <3>1 DEF LoopsKept
    <3> QED
      BY <3>1, <3>2, <3>3, SameLoops
  <2> QED
    BY <2>1, <2>2, <2>3, <2>4, <2>5, <2>6, <2>7, <2>8 DEF Next
<1>3. LoopsKept => LoopCloudsKept
  BY DEF LoopsKept, LoopCloudsKept, Kept
<1>4. LatestHasClouds /\ LoopCloudsKept => CloudsKept
  BY DEF CloudsKept
<1> QED
  BY <1>1, <1>2, <1>3, <1>4, TypePlaces, LatestKeepsClouds, PTL DEF Spec
=============================================================================
