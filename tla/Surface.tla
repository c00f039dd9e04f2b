------------------------------ MODULE Surface ------------------------------
(***************************************************************************)
(* The surface of one patch: its accumulators, its spherical harmonics     *)
(* coefficients, the image and the marker rows that are computed from      *)
(* them, and the adjustment's copy of the coefficients.                    *)
(*                                                                         *)
(* Only the tracking thread writes the coefficients: it adds every scan    *)
(* that was associated with the patch, moves the patch to another plane    *)
(* while it has few points, and commits the adjusted coefficients in stage *)
(* 3, while the worker waits (StrictLoop).  The worker copies coefficients *)
(* at any time, and refreshes the markers on its own thread before its     *)
(* result is applied.                                                      *)
(*                                                                         *)
(* A surface is known by what it was computed from: the plane, how often   *)
(* each scan was added, and whether the adjustment has changed it.         *)
(***************************************************************************)
EXTENDS Integers, Sequences, FiniteSets

CONSTANTS
  MaxScans,         \* bound on the scans associated with the patch
  MaxAdjustments,   \* bound on the adjustments that use the patch
  UpdateSteps,      \* update_steps
  UpdateTimes,      \* update_initialization_times
  MinimumScans      \* minimum_points_to_fix_projection_direction, in scans

ASSUME SurfaceAssumption ==
  /\ MaxScans \in Nat \ {0} /\ MaxAdjustments \in Nat
  /\ UpdateSteps \in Nat /\ UpdateTimes \in Int /\ MinimumScans \in Nat

Scans == 1 .. MaxScans
Planes == 0 .. 1                         \* the plane is changed at most once
Counts == [Scans -> 0 .. 2]
Coefficients == [plane : Planes, count : Counts, adjusted : BOOLEAN]

\* An empty vector of coefficients, and an image or rows that show nothing or
\* what was read outside a vector.
NoCoefficients == [plane |-> 0, count |-> [s \in Scans |-> 0], adjusted |-> FALSE]
Nothing == [coefficients |-> NoCoefficients, cells |-> {}]

VARIABLES
  lowRAM,        \* is_SH_analytic_jacobian: no image is kept
  isGround,      \* is_ground: the plane stays
  publishing,    \* is_pub_dense_reconstruction
  plane,         \* which plane T_obj_lidar describes
  points,        \* pts_number in scans, or -1 once the plane is fixed
  initial,       \* initial_points_w_vec: the scans kept for another plane
  outside,       \* scans that fall outside the patch's frame
  scan,          \* the latest scan associated with the patch
  sums,          \* I_mask or AT_A_block, AT_b_block: how often each scan was added
  sumsPlane,     \* the plane in which the scans were added
  steps,         \* update_step_counter
  times,         \* initialization_counter
  initializing,  \* is_initialization
  coefficients,  \* sph_coeff
  image,         \* pyramids.I_vec and its gradients
  rows,          \* recons_v_local
  dirty,         \* recons_v_local_dirty
  adjusted,      \* BA_sph_coeff
  tpc,           \* control point of the tracking thread
  changed,       \* is_proj_axis_changed, or is_recons_updated
  moving,        \* inside update_projection_plane
  wpc,           \* control point of the worker
  adjustments,   \* adjustments begun
  stopped        \* the process has ended

modeVars == <<lowRAM, isGround, publishing>>
planeVars == <<plane, points, initial, outside, scan>>
sumVars == <<sums, sumsPlane>>
stepVars == <<steps, times, initializing>>
viewVars == <<image, rows, dirty>>
trackingVars == <<tpc, changed, moving>>
workerVars == <<adjusted, wpc, adjustments>>
vars == <<modeVars, planeVars, sumVars, stepVars, coefficients, viewVars,
          trackingVars, workerVars, stopped>>

Shown == [coefficients : Coefficients, cells : SUBSET Scans]

TypeOK ==
  /\ {lowRAM, isGround, publishing, initializing, dirty, changed, moving, stopped} \subseteq BOOLEAN
  /\ plane \in Planes /\ points \in -1 .. MaxScans
  /\ initial \in Seq(Scans) /\ Len(initial) <= MaxScans
  /\ outside \subseteq Scans /\ scan \in Scans
  /\ sums \in Counts /\ sumsPlane \in Planes
  /\ steps \in 0 .. UpdateSteps /\ times \in 0 .. MaxScans + 1
  /\ coefficients \in Coefficients /\ adjusted \in Coefficients
  /\ image \in Shown /\ rows \in Shown
  /\ tpc \in {"idle", "reset", "mask", "extract", "image", "rows", "publish", "mark"}
  /\ wpc \in {"idle", "read", "copy", "solve", "refresh", "recompute", "wait"}
  /\ adjustments \in 0 .. MaxAdjustments

-----------------------------------------------------------------------------
(* What is computed from what *)

\* The cells of the mask, known by the scans that fell into them.
Mask == {s \in Scans : sums[s] > 0}

\* What a scan adds: nothing when no point of it falls into the frame.
Added(s) == IF s \in outside THEN 0 ELSE 1

\* extract_sph_coeff solves for the coefficients of what was added so far.
Extracted == [plane |-> sumsPlane, count |-> sums, adjusted |-> FALSE]

\* The rows of the markers are those of the mask, from the coefficients or, when
\* there is one, from the image.
Recomputed ==
  IF lowRAM THEN [coefficients |-> coefficients, cells |-> Mask] ELSE image

\* The first scan created the patch, in a constructor of PatchProcession.
FirstCount == [s \in Scans |-> IF s = 1 THEN 1 ELSE 0]
FirstCoefficients == [plane |-> 0, count |-> FirstCount, adjusted |-> FALSE]

\* With low RAM the constructor computes no image and no rows.
FirstView ==
  IF lowRAM THEN image = Nothing /\ rows = Nothing /\ dirty = TRUE
  ELSE /\ image = [coefficients |-> FirstCoefficients, cells |-> {1}]
       /\ rows = image /\ dirty = FALSE

Init ==
  /\ lowRAM \in BOOLEAN /\ isGround \in BOOLEAN /\ publishing \in BOOLEAN
  /\ plane = 0 /\ points = 1 /\ outside = {} /\ scan = 1
  /\ initial = IF isGround THEN <<>> ELSE <<1>>
  /\ sums = FirstCount /\ sumsPlane = 0
  /\ steps = 0 /\ times = 0 /\ initializing = TRUE
  /\ coefficients = FirstCoefficients /\ adjusted = NoCoefficients
  /\ FirstView
  /\ tpc = "publish" /\ changed = TRUE /\ moving = FALSE
  /\ wpc = "idle" /\ adjustments = 0 /\ stopped = FALSE

-----------------------------------------------------------------------------
(* Tracking thread: update_sph_coeff_thread, with patch_update_lock held   *)

\* The scans kept for a change of plane, this one included.
Kept(s) == Append(initial, s)

\* A scan is associated with the patch.  A patch whose plane is not fixed keeps it,
\* and fixes the plane once it has points enough, perhaps to a new one.
AssociateScan ==
  /\ tpc = "idle" /\ scan < MaxScans
  /\ scan' = scan + 1
  /\ outside' \in {outside, outside \cup {scan'}}
  /\ \/ (isGround \/ points = -1)
        /\ initial' = <<>> /\ tpc' = "mask" /\ changed' = FALSE
        /\ UNCHANGED <<plane, points, moving>>
     \/ ~isGround /\ points # -1 /\ points + 1 < MinimumScans
        /\ initial' = Kept(scan') /\ points' = points + 1
        /\ tpc' = "mask" /\ changed' = FALSE
        /\ UNCHANGED <<plane, moving>>
     \/ ~isGround /\ points # -1 /\ points + 1 >= MinimumScans
        /\ \/ points' = -1 /\ initial' = <<>>
              /\ tpc' = "mask" /\ changed' = FALSE
              /\ UNCHANGED <<plane, moving>>
           \/ points' = points + 1 /\ initial' = Kept(scan')
              /\ plane' = 1
              /\ tpc' = "reset" /\ changed' = TRUE /\ moving' = TRUE
  /\ UNCHANGED <<modeVars, sumVars, stepVars, coefficients, viewVars, workerVars, stopped>>

\* Plausible bug: the sums of the old plane stay.
ResetKeepingSums ==
  /\ tpc = "reset"
  /\ sumsPlane' = plane
  /\ coefficients' = NoCoefficients
  /\ dirty' = TRUE
  /\ IF lowRAM THEN UNCHANGED <<image, rows>> ELSE image' = Nothing /\ rows' = Nothing
  /\ tpc' = "mask"
  /\ UNCHANGED <<modeVars, planeVars, sums, stepVars, changed, moving, workerVars, stopped>>

\* Everything in the old plane is emptied.
Reset ==
  /\ tpc = "reset"
  /\ sums' = [s \in Scans |-> 0] /\ sumsPlane' = plane
  /\ coefficients' = NoCoefficients
  /\ dirty' = TRUE
  /\ IF lowRAM THEN UNCHANGED <<image, rows>> ELSE image' = Nothing /\ rows' = Nothing
  /\ tpc' = "mask"
  /\ UNCHANGED <<modeVars, planeVars, stepVars, changed, moving, workerVars, stopped>>

Occurrences(seq, s) == Cardinality({i \in 1 .. Len(seq) : seq[i] = s})

\* The kept scans are added in the new plane; update_mask_low_RAM reports whether
\* any of them fell into the frame, and the first one does.
RefillMask ==
  /\ tpc = "mask" /\ moving
  /\ sums' = [s \in Scans |-> sums[s] + Added(s) * Occurrences(initial, s)]
  /\ steps' = 0 /\ times' = times + 1
  /\ tpc' = "extract"
  /\ UNCHANGED <<modeVars, planeVars, sumsPlane, initializing, coefficients, viewVars,
                 changed, moving, workerVars, stopped>>

\* The patch is published once its surface or its plane has changed.
EndUpdate == tpc' = IF changed THEN "publish" ELSE "idle"

\* Plausible bug: the counter is compared before it is increased.
StepsDoneLate == steps > UpdateSteps

\* ++update_step_counter > update_steps
StepsDone == steps + 1 > UpdateSteps

\* update_sph_residuals: the scan is added.  While the patch is new, the
\* coefficients follow every few scans; afterwards, when the sensor has moved far
\* enough since they last did.
UpdateMask ==
  /\ tpc = "mask" /\ ~moving
  /\ sums' = [sums EXCEPT ![scan] = @ + Added(scan)]
  /\ \/ lowRAM /\ scan \in outside
        /\ EndUpdate /\ UNCHANGED stepVars
     \/ ~(lowRAM /\ scan \in outside) /\ initializing
        /\ IF StepsDone
           THEN steps' = 0 /\ tpc' = "extract" /\ UNCHANGED <<times, initializing>>
           ELSE /\ steps' = steps + 1 /\ EndUpdate /\ times' = times + 1
                /\ initializing' = (UpdateTimes = -1 \/ times <= UpdateTimes)
     \/ ~(lowRAM /\ scan \in outside) /\ ~initializing
        /\ (tpc' = "extract" \/ EndUpdate)
        /\ UNCHANGED stepVars
  /\ UNCHANGED <<modeVars, planeVars, sumsPlane, coefficients, viewVars,
                 changed, moving, workerVars, stopped>>

\* The surface is up to date: after a change of plane the scan that caused it is
\* added as any other, and its plane is never changed again.
AfterExtraction ==
  IF moving
  THEN /\ tpc' = "mask" /\ moving' = FALSE
       /\ points' = -1 /\ initial' = <<>> /\ UNCHANGED changed
  ELSE /\ tpc' = "publish" /\ changed' = TRUE
       /\ UNCHANGED <<moving, points, initial>>

Extract ==
  /\ tpc = "extract"
  /\ coefficients' = Extracted
  /\ dirty' = TRUE
  /\ IF lowRAM THEN AfterExtraction
               ELSE tpc' = "image" /\ UNCHANGED <<changed, moving, points, initial>>
  /\ UNCHANGED <<modeVars, plane, outside, scan, sumVars, stepVars, image, rows,
                 workerVars, stopped>>

CalculateImage ==
  /\ tpc = "image"
  /\ image' = [coefficients |-> coefficients, cells |-> Mask]
  /\ tpc' = "rows"
  /\ UNCHANGED <<modeVars, planeVars, sumVars, stepVars, coefficients, rows, dirty,
                 changed, moving, workerVars, stopped>>

CalculateRows ==
  /\ tpc = "rows"
  /\ rows' = image /\ dirty' = FALSE
  /\ AfterExtraction
  /\ UNCHANGED <<modeVars, plane, outside, scan, sumVars, stepVars, coefficients, image,
                 workerVars, stopped>>

\* rt_publish_landmark_patch_recons: dirty rows are computed anew.
Publish ==
  /\ tpc = "publish"
  /\ IF publishing /\ dirty THEN rows' = Recomputed /\ dirty' = FALSE
                            ELSE UNCHANGED <<rows, dirty>>
  /\ tpc' = "idle" /\ changed' = FALSE
  /\ UNCHANGED <<modeVars, planeVars, sumVars, stepVars, coefficients, image, moving,
                 workerVars, stopped>>

-----------------------------------------------------------------------------
(* Tracking thread: stage 3, apply_pending_ba_updates *)

\* Plausible bug: the rows are not marked.
CommitAdjustedUnmarked ==
  /\ tpc = "idle" /\ wpc = "wait"
  /\ coefficients' = adjusted
  /\ tpc' = "idle" /\ wpc' = "idle"
  /\ UNCHANGED <<modeVars, planeVars, sumVars, stepVars, viewVars, changed, moving,
                 adjusted, adjustments, stopped>>

CommitAdjusted ==
  /\ tpc = "idle" /\ wpc = "wait"
  /\ coefficients' = adjusted
  /\ tpc' = "mark"
  /\ UNCHANGED <<modeVars, planeVars, sumVars, stepVars, viewVars, changed, moving,
                 workerVars, stopped>>

\* The rows are marked, and the worker is let go.
MarkDirty ==
  /\ tpc = "mark"
  /\ dirty' = TRUE
  /\ tpc' = "idle" /\ wpc' = "idle"
  /\ UNCHANGED <<modeVars, planeVars, sumVars, stepVars, coefficients, image, rows,
                 changed, moving, adjusted, adjustments, stopped>>

-----------------------------------------------------------------------------
(* Worker: load_residuals_point_clouds, solve, refresh                     *)

\* A scan of some keyframe was associated with the patch in the adjustment.
BeginAdjustment ==
  /\ wpc = "idle" /\ adjustments < MaxAdjustments
  /\ adjustments' = adjustments + 1
  /\ wpc' = "read"
  /\ UNCHANGED <<modeVars, planeVars, sumVars, stepVars, coefficients, viewVars,
                 trackingVars, adjusted, stopped>>

\* The patch's pose is read while no update holds patch_update_lock; the
\* coefficients are copied later, under a lock of their own.
ReadPatch ==
  /\ wpc = "read" /\ tpc \in {"idle", "mark"}
  /\ wpc' = "copy"
  /\ UNCHANGED <<modeVars, planeVars, sumVars, stepVars, coefficients, viewVars,
                 trackingVars, adjusted, adjustments, stopped>>

\* The copy is made again for every keyframe whose scan was associated.  An empty
\* one is no parameter block: the solver ends the process.
CopyCoefficients ==
  /\ wpc = "copy"
  /\ adjusted' = coefficients
  /\ IF coefficients = NoCoefficients
     THEN stopped' = TRUE /\ UNCHANGED wpc
     ELSE wpc' \in {"read", "solve"} /\ UNCHANGED stopped
  /\ UNCHANGED <<modeVars, planeVars, sumVars, stepVars, coefficients, viewVars,
                 trackingVars, adjustments>>

Solve ==
  /\ wpc = "solve"
  /\ adjusted' = [adjusted EXCEPT !.adjusted = TRUE]
  /\ wpc' = IF publishing THEN "refresh" ELSE "wait"
  /\ UNCHANGED <<modeVars, planeVars, sumVars, stepVars, coefficients, viewVars,
                 trackingVars, adjustments, stopped>>

\* refresh_dense_reconstruction_markers looks at the mark first ...
RefreshTest ==
  /\ wpc = "refresh"
  /\ wpc' = IF dirty THEN "recompute" ELSE "wait"
  /\ UNCHANGED <<modeVars, planeVars, sumVars, stepVars, coefficients, viewVars,
                 trackingVars, adjusted, adjustments, stopped>>

\* In the middle of a change of plane the vectors may be empty that rows are
\* computed from.
ReadsEmpty ==
  IF lowRAM THEN coefficients = NoCoefficients /\ Mask # {} ELSE image = Nothing

\* ... and computes the rows later.  From an empty vector they show whatever was
\* read, unless the process ends.
RefreshRows ==
  /\ wpc = "recompute"
  /\ \/ ~ReadsEmpty /\ rows' = Recomputed /\ UNCHANGED stopped
     \/ ReadsEmpty /\ rows' = Nothing /\ stopped' \in BOOLEAN
  /\ dirty' = FALSE
  /\ wpc' = "wait"
  /\ UNCHANGED <<modeVars, planeVars, sumVars, stepVars, coefficients, image,
                 trackingVars, adjusted, adjustments>>

-----------------------------------------------------------------------------
Next ==
  /\ ~stopped
  /\ \/ AssociateScan \/ Reset \/ RefillMask \/ UpdateMask \/ Extract
     \/ CalculateImage \/ CalculateRows \/ Publish
     \/ CommitAdjusted \/ MarkDirty
     \/ BeginAdjustment \/ ReadPatch \/ CopyCoefficients \/ Solve
     \/ RefreshTest \/ RefreshRows

Spec == Init /\ [][Next]_vars

-----------------------------------------------------------------------------
(* Properties *)

\* Rows that are not marked dirty are those of the present surface, whatever the
\* worker refreshed in the middle of an update or of stage 3; what the tracking
\* thread publishes misses no cell of the mask.  The image that scans are registered
\* against is never an adjusted one.
CacheCoherent ==
  tpc \in {"idle", "publish"} =>
    /\ ~dirty => /\ rows.coefficients = Recomputed.coefficients
                 /\ rows.cells \subseteq Mask
                 /\ tpc = "publish" => rows.cells = Mask
    /\ ~lowRAM => ~image.coefficients.adjusted /\ image.coefficients.plane = plane

\* The scan with which a new plane is fixed; the first one never fixes it, whatever
\* the minimum is.
FixingScan == IF MinimumScans < 2 THEN 2 ELSE MinimumScans

\* All scans are added once, in the plane of T_obj_lidar; but the one that fixed a
\* new plane is added as a kept and as a new one.
ScansWhole ==
  /\ sumsPlane = plane
  /\ \A s \in Scans :
       IF s > scan \/ s \in outside THEN sums[s] = 0
       ELSE sums[s] = 1 \/ (sums[s] = 2 /\ plane = 1 /\ s = FixingScan)

CoefficientsCurrent ==
  ~coefficients.adjusted =>
    /\ coefficients.plane = plane
    /\ initializing =>
         Cardinality({s \in Scans : coefficients.count[s] # sums[s]}) <= UpdateSteps

\* No associated scan is lost, even when the plane changes, and while the patch is
\* new its coefficients are at most update_steps scans behind, unless an adjustment
\* that was under way put its own in their place.
ScansAccounted == tpc \in {"idle", "publish"} => ScansWhole /\ CoefficientsCurrent
=============================================================================
