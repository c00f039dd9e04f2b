----------------------------- MODULE CloudGuard -----------------------------
(***************************************************************************)
(* Who may touch the raw clouds of a keyframe.                             *)
(*                                                                         *)
(* KeyframeInfo::seg_cloud_ptr and ground_cloud_ptr are read by the bundle *)
(* adjustment of a worker thread, and written and reset by the tracking    *)
(* thread.  No lock protects them: the adjustment sets the keyframe's      *)
(* is_being_used_by_ba, then checks the pointers, and the tracking thread  *)
(* asks the flag before it resets them.  Keyframes are numbered in order   *)
(* of time.  One adjustment runs at a time and stage 3 excludes it         *)
(* (StrictLoop: SingleOptimiser, Stage3Exclusive).                         *)
(***************************************************************************)
EXTENDS Naturals, Sequences, FiniteSets

CONSTANT MaxKeyframes   \* bound on the number of keyframes

ASSUME MaxKeyframesAssumption == MaxKeyframes \in Nat \ {0}

AllKeyframes == 1 .. MaxKeyframes
Loops == [keyframe : AllKeyframes, source : AllKeyframes, merged : AllKeyframes,
          trajectory : SUBSET AllKeyframes]
NoLoop == [keyframe |-> 0, source |-> 0, merged |-> 0, trajectory |-> {}]

VARIABLES
  tpc,       \* control point of the tracking thread
  cursor,    \* keyframe that clear_history_keyframe_clouds looks at
  size,      \* keyframes in all_keyframes_set
  label,     \* label_frame_num of each keyframe's trajectory label
  near,      \* neighbor_label_frame_num of each label
  merging,   \* is_loop_closure_detected
  seg,       \* keyframes whose seg_cloud_ptr is set
  ground,    \* keyframes whose ground_cloud_ptr is set
  flag,      \* keyframes whose is_being_used_by_ba is true
  tasks,     \* strict_ba_queue
  bpc,       \* control point of the adjustment
  loop,      \* the loop being adjusted
  bk,        \* keyframe the adjustment looks at
  used       \* ba_used_keyframes of its deferred pack

labelVars == <<label, near, merging>>
cloudVars == <<seg, ground, flag>>
workerVars == <<bpc, loop, bk, used>>
vars == <<tpc, cursor, size, labelVars, cloudVars, tasks, workerVars>>

TypeOK ==
  /\ tpc \in {"frame", "merge", "null", "flag", "seg", "ground", "insert"}
  /\ cursor \in 0 .. MaxKeyframes
  /\ tpc \in {"null", "flag", "seg", "ground"} => cursor \in 1 .. size
  /\ size \in 1 .. MaxKeyframes
  /\ label \in [1 .. size -> AllKeyframes]
  /\ near \in [AllKeyframes -> SUBSET AllKeyframes]
  /\ merging \in BOOLEAN
  /\ seg \subseteq 1 .. size /\ ground \subseteq 1 .. size /\ flag \subseteq 1 .. size
  /\ tasks \in Seq(Loops)
  /\ bpc \in {"idle", "flag", "check", "use", "release", "wait"}
  /\ loop \in Loops \cup {NoLoop}
  /\ bk \in 0 .. MaxKeyframes
  /\ used \subseteq AllKeyframes

\* The first frame became a keyframe with a label of its own.
Init ==
  /\ tpc = "frame" /\ cursor = 0
  /\ size = 1 /\ label = <<1>>
  /\ near = [l \in AllKeyframes |-> {l}] /\ merging = FALSE
  /\ seg = {1} /\ ground = {1} /\ flag = {}
  /\ tasks = <<>>
  /\ bpc = "idle" /\ loop = NoLoop /\ bk = 0 /\ used = {}

\* The initial keyframe never becomes a backend keyframe; the others do.  Only
\* backend keyframes are loop candidates and take part in an adjustment.
FirstBackend == 2

HasClouds(k) == k \in seg /\ k \in ground

-----------------------------------------------------------------------------
(* Tracking thread: frames that are no keyframe                            *)

\* The frame's clouds are added to those of the latest keyframe and subsampled
\* in place: a write that takes time.
BeginMerge ==
  /\ tpc = "frame"
  /\ tpc' = "merge"
  /\ UNCHANGED <<cursor, size, labelVars, cloudVars, tasks, workerVars>>

EndMerge ==
  /\ tpc = "merge"
  /\ tpc' = "frame"
  /\ UNCHANGED <<cursor, size, labelVars, cloudVars, tasks, workerVars>>

-----------------------------------------------------------------------------
(* Tracking thread: keyframes and trajectory segments                      *)

\* A new segment starts with clear_history_keyframe_clouds, from the latest
\* keyframe backwards.
BeginSegment ==
  /\ tpc = "frame" /\ size < MaxKeyframes
  /\ cursor' = size
  /\ tpc' = "null"
  /\ UNCHANGED <<size, labelVars, cloudVars, tasks, workerVars>>

\* Plausible bug: the loop goes past the oldest keyframe.
GoOnPast(k) == cursor' = k - 1 /\ tpc' = IF k = 0 THEN "insert" ELSE "null"

\* The keyframe the loop of clear_history_keyframe_clouds comes to after k: the
\* next older one, at whose label it looks first.
GoOn(k) == cursor' = k - 1 /\ tpc' = IF k = 1 THEN "insert" ELSE "null"

\* Plausible bug: the label is not looked at.
ClearTestNullAnyLabel ==
  /\ tpc = "null"
  /\ IF cursor \notin seg /\ cursor \notin ground
     THEN cursor' = 0 /\ tpc' = "insert"
     ELSE tpc' = "flag" /\ UNCHANGED cursor
  /\ UNCHANGED <<size, labelVars, cloudVars, tasks, workerVars>>

\* A keyframe of the latest one's segment is passed over; both pointers null end
\* the loop.
ClearTestNull ==
  /\ tpc = "null"
  /\ IF label[cursor] = label[size] THEN GoOn(cursor)
     ELSE IF cursor \notin seg /\ cursor \notin ground
          THEN cursor' = 0 /\ tpc' = "insert"
          ELSE tpc' = "flag" /\ UNCHANGED cursor
  /\ UNCHANGED <<size, labelVars, cloudVars, tasks, workerVars>>

\* is_being_used_by_ba.load()
ClearTestFlag ==
  /\ tpc = "flag"
  /\ IF cursor \in flag THEN GoOn(cursor) ELSE tpc' = "seg" /\ UNCHANGED cursor
  /\ UNCHANGED <<size, labelVars, cloudVars, tasks, workerVars>>

ClearSeg ==
  /\ tpc = "seg"
  /\ seg' = seg \ {cursor}
  /\ tpc' = "ground"
  /\ UNCHANGED <<cursor, size, labelVars, ground, flag, tasks, workerVars>>

ClearGround ==
  /\ tpc = "ground"
  /\ ground' = ground \ {cursor}
  /\ GoOn(cursor)
  /\ UNCHANGED <<size, labelVars, seg, flag, tasks, workerVars>>

\* TrajectoryLabel::insert_neighbor_label and merge_neighbor_label
Connect(nb, a, b) == [nb EXCEPT ![a] = @ \cup {b}, ![b] = @ \cup {a}]

Merge(nb, a, b) ==
  LET all == nb[a] \cup nb[b] IN [nb EXCEPT ![a] = all, ![b] = all]

\* A keyframe of label l is inserted and given its clouds; nb are the neighbours
\* of the labels and m is is_loop_closure_detected.  It may close a loop with an
\* older backend keyframe: a scan-to-map loop within connected segments, whose
\* labels are merged in the next iteration of run(), or else a strict loop.  Both
\* give the keyframe the label of the older one; the task of a strict loop
\* remembers the keyframes of the connected segments.
InsertKeyframe(l, nb, m) ==
  LET k == size + 1 IN
  /\ size' = k
  /\ seg' = seg \cup {k} /\ ground' = ground \cup {k}
  /\ \/ label' = Append(label, l) /\ near' = nb /\ merging' = m
        /\ UNCHANGED tasks
     \/ \E h \in FirstBackend .. size :
          /\ label[h] \in nb[l]
          /\ label' = Append(label, label[h])
          /\ near' = Merge(nb, l, label[h]) /\ merging' = TRUE
          /\ UNCHANGED tasks
     \/ \E h \in FirstBackend .. size :
          /\ label[h] \notin nb[l]
          /\ label' = Append(label, label[h])
          /\ near' = nb /\ merging' = m
          /\ tasks' = Append(tasks,
               [keyframe |-> k, source |-> l, merged |-> label[h],
                trajectory |-> {j \in 1 .. size : label[j] \in nb[l]} \cup {k}])

NewKeyframe ==
  /\ tpc = "frame" /\ size < MaxKeyframes
  /\ InsertKeyframe(label[size], near, merging)
  /\ UNCHANGED <<tpc, cursor, flag, workerVars>>

\* The label of the new segment is connected with that of the latest keyframe,
\* unless that is the only one; after a loop they are merged.
NewSegmentKeyframe ==
  /\ tpc = "insert"
  /\ LET k == size + 1 IN
       InsertKeyframe(k, IF size = 1 THEN near
                         ELSE IF merging THEN Merge(near, k, label[size])
                         ELSE Connect(near, k, label[size]),
                      merging /\ size = 1)
  /\ tpc' = "frame" /\ cursor' = 0
  /\ UNCHANGED <<flag, workerVars>>

\* Stage 3 of the adjusted loop: the older keyframes of its trajectory give up
\* their clouds, the labels are merged, and the worker is let go.
Stage3Clear ==
  /\ tpc = "frame" /\ bpc = "wait"
  /\ LET old == {k \in loop.trajectory : k < loop.keyframe /\ k \notin flag} IN
       /\ seg' = seg \ old
       /\ ground' = ground \ old
  /\ near' = Merge(near, loop.source, loop.merged)
  /\ bpc' = "idle" /\ loop' = NoLoop
  /\ UNCHANGED <<tpc, cursor, size, label, merging, flag, tasks, bk, used>>

-----------------------------------------------------------------------------
(* Worker thread: local_BA_data_association_point_clouds                   *)

BeginAdjustment ==
  /\ bpc = "idle" /\ tasks # <<>>
  /\ loop' = Head(tasks) /\ tasks' = Tail(tasks)
  /\ bk' = Head(tasks).keyframe
  /\ bpc' = "flag"
  /\ UNCHANGED <<tpc, cursor, size, labelVars, cloudVars, used>>

\* Plausible bug: the keyframe is not entered in ba_used_keyframes.
SetFlagOnly ==
  /\ bpc = "flag"
  /\ flag' = flag \cup {bk}
  /\ bpc' = "check"
  /\ UNCHANGED <<tpc, cursor, size, labelVars, seg, ground, tasks, loop, bk, used>>

\* "set flag first, ..."
SetFlag ==
  /\ bpc = "flag"
  /\ flag' = flag \cup {bk}
  /\ used' = used \cup {bk}
  /\ bpc' = "check"
  /\ UNCHANGED <<tpc, cursor, size, labelVars, seg, ground, tasks, loop, bk>>

\* "... then check pointer": a keyframe without clouds ends the association.
CheckPointer ==
  /\ bpc = "check"
  /\ IF HasClouds(bk)
     THEN bpc' = "use" /\ UNCHANGED flag
     ELSE bpc' = "release" /\ flag' = flag \ {bk}
  /\ UNCHANGED <<tpc, cursor, size, labelVars, seg, ground, tasks, loop, bk, used>>

\* load_residuals_point_clouds sets the flag and checks the pointers once more for
\* every patch that was associated, if any was.
Recheck ==
  \/ UNCHANGED flag
  \/ ~HasClouds(bk) /\ flag' = flag \ {bk}

\* The clouds were transformed, divided and associated: on to the next older
\* keyframe, unless there is none or too little was associated.
FinishUse ==
  /\ bpc = "use"
  /\ \/ bk > FirstBackend /\ bk' = bk - 1 /\ bpc' = "flag" /\ Recheck
     \/ bk = FirstBackend /\ bpc' = "release" /\ UNCHANGED bk /\ Recheck
     \/ bk < loop.keyframe /\ bpc' = "release" /\ UNCHANGED <<bk, flag>>
  /\ UNCHANGED <<tpc, cursor, size, labelVars, seg, ground, tasks, loop, used>>

\* strict_lc_worker resets the flags and hands the result over.
ReleaseFlags ==
  /\ bpc = "release"
  /\ flag' = flag \ used
  /\ used' = {} /\ bk' = 0
  /\ merging' = TRUE
  /\ bpc' = "wait"
  /\ UNCHANGED <<tpc, cursor, size, label, near, seg, ground, tasks, loop>>

-----------------------------------------------------------------------------
Next ==
  \/ BeginMerge \/ EndMerge
  \/ BeginSegment \/ ClearTestNull \/ ClearTestFlag \/ ClearSeg \/ ClearGround
  \/ NewKeyframe \/ NewSegmentKeyframe \/ Stage3Clear
  \/ BeginAdjustment \/ SetFlag \/ CheckPointer \/ FinishUse \/ ReleaseFlags

Spec == Init /\ [][Next]_vars

-----------------------------------------------------------------------------
(* Properties *)

\* Outside an adjustment no flag is left behind, on whichever path the
\* association ended: a flag that stays set would keep its clouds for ever.
FlagsReturned ==
  /\ flag \subseteq used
  /\ bpc \in {"idle", "wait"} => flag = {}

\* The latest keyframe has its clouds when rt_fix_voxel_initialization adds to
\* them: neither stage 3 nor a new segment has taken them.
LatestHasClouds == tpc = "merge" => HasClouds(size)

\* An adjustment finds the clouds of the very keyframe that closed the loop,
\* however long the loop was in the queue and whatever stage 3 of the loops
\* before it cleared, unless the track went on to another trajectory label.
LoopCloudsKept ==
  bpc = "check" /\ bk = loop.keyframe /\ ~HasClouds(bk)
    => \E j \in bk + 1 .. size : label[j] # label[bk]

\* No clearing takes clouds that are still wanted.
CloudsKept == LatestHasClouds /\ LoopCloudsKept

\* "Skip keyframes being used by BA" and "set flag first, then check pointer":
\* while the adjustment uses the clouds of a keyframe, the tracking thread
\* neither resets them nor writes to them.
UsedCloudsStable ==
  bpc = "use" => HasClouds(bk) /\ ~(tpc = "merge" /\ bk = size)
=============================================================================
