----------------------------- MODULE StrictLoop -----------------------------
(***************************************************************************)
(* The strict loop-closure pipeline of CurlTracking.                       *)
(*                                                                         *)
(* Two kinds of threads take part: the tracking thread (CurlTracking::run) *)
(* and the detached bundle-adjustment workers (strict_lc_worker).          *)
(*                                                                         *)
(*   stage 1  tracking   solve the pose graph with the new ICP edge, freeze*)
(*                       an overlap-removal plan, queue a StrictBATask     *)
(*   stage 2  worker     local bundle adjustment, results kept in a        *)
(*                       deferred pack and pushed as an LCResult           *)
(*   stage 3  tracking   apply the pack and the plan, then wake the worker *)
(*                                                                         *)
(* Every action is the code between two accesses to state that the other   *)
(* thread reads or writes.  Poses, points and coefficients are abstracted; *)
(* the owner of each patch, the plans, the edges and the flags are kept.   *)
(***************************************************************************)
EXTENDS Naturals, Sequences, FiniteSets

CONSTANTS
  MaxGen,      \* bound on lc_generation (loop closures in one behaviour)
  Workers,     \* identities of the detached worker threads
  Patches,     \* patch ids of the map
  Keyframes,   \* keyframes that may own a patch
  NoKeyframe   \* "not in the map" / "not in the plan"

ASSUME ConstantsAssumption ==
  /\ MaxGen \in Nat \ {0}
  /\ IsFiniteSet(Workers)
  /\ IsFiniteSet(Patches)
  /\ NoKeyframe \notin Keyframes

Gens == 1 .. MaxGen
Owners == Keyframes \cup {NoKeyframe}
NoPlan == [p \in Patches |-> NoKeyframe]
LCStates == {"IDLE", "RUNNING", "APPLYING"}

VARIABLES
  (* tracking thread *)
  tpc,         \* control point of the tracking thread
  ret,         \* where apply_pending_lc_if_any returns to
  batch,       \* the results swapped out of pending_lc_results
  processed,   \* strict_result_processed
  seen,        \* lc_state_value read by update_sph_coeff_thread
  (* atomics of CurlTracking *)
  generation,  \* lc_generation
  appliedStrict, appliedScan,   \* lc_applied_strict, lc_applied_non_strict
  lcState,     \* lc_state
  running,     \* strict_lc_running
  doneGen,     \* strict_stage3_done_gen
  (* queues *)
  queue,       \* strict_ba_queue
  pending,     \* pending_lc_results
  (* worker threads *)
  wpc,         \* control point of each worker, "none" when it does not exist
  wtask,       \* generation of the task a worker holds, 0 before the first
  wpack,       \* pending_ba_patches of its deferred pack
  (* map and pose graph *)
  owner,       \* keyframe whose local_patches holds the patch
  strictGens,  \* generations handed to strict loops
  plan,        \* OverlapRemovalPlan of each strict loop: patch |-> frozen owner
  active,      \* pending_removals_active of each plan
  refcount,    \* pending_overlap_remove_refcount
  adjusted     \* strict loops whose stage 3 was applied, in that order

trackingVars == <<tpc, ret, batch, processed, seen>>
atomicVars == <<generation, appliedStrict, appliedScan, lcState, running, doneGen>>
workerVars == <<wpc, wtask, wpack>>
mapVars == <<owner, strictGens, plan, active, refcount, adjusted>>
vars == <<trackingVars, atomicVars, queue, pending, workerVars, mapVars>>

Results == [gen : Gens, strict : BOOLEAN, pack : SUBSET Patches]

TrackingPCs == {"swap", "apply", "mark", "frame", "stage1", "arm", "push",
                "cas", "load", "rebind", "stopped"}
WorkerPCs == {"none", "pop", "associate", "solve", "store", "wait",
              "release", "recheck", "restart"}

TypeOK ==
  /\ tpc \in TrackingPCs
  /\ ret \in {"frame", "stage1"}
  /\ batch \in Seq(Results)
  /\ processed \in BOOLEAN
  /\ seen \in LCStates
  /\ generation \in 0 .. MaxGen
  /\ appliedStrict \in 0 .. MaxGen
  /\ appliedScan \in 0 .. MaxGen
  /\ lcState \in LCStates
  /\ running \in BOOLEAN
  /\ doneGen \in 0 .. MaxGen
  /\ queue \in Seq(Gens)
  /\ pending \in Seq(Results)
  /\ wpc \in [Workers -> WorkerPCs]
  /\ wtask \in [Workers -> 0 .. MaxGen]
  /\ wpack \in [Workers -> SUBSET Patches]
  /\ owner \in [Patches -> Owners]
  /\ strictGens \in SUBSET Gens
  /\ plan \in [Gens -> [Patches -> Owners]]
  /\ active \in [Gens -> BOOLEAN]
  /\ refcount \in [Patches -> Nat]
  /\ adjusted \in Seq(Gens)

Init ==
  /\ tpc = "swap" /\ ret = "frame" /\ batch = <<>> /\ processed = FALSE
  /\ seen = "IDLE"
  /\ generation = 0 /\ appliedStrict = 0 /\ appliedScan = 0
  /\ lcState = "IDLE" /\ running = FALSE /\ doneGen = 0
  /\ queue = <<>> /\ pending = <<>>
  /\ wpc = [w \in Workers |-> "none"]
  /\ wtask = [w \in Workers |-> 0]
  /\ wpack = [w \in Workers |-> {}]
  /\ owner \in [Patches -> Keyframes]
  /\ strictGens = {}
  /\ plan = [g \in Gens |-> NoPlan]
  /\ active = [g \in Gens |-> FALSE]
  /\ refcount = [p \in Patches |-> 0]
  /\ adjusted = <<>>

PlanPatches(g) == {p \in Patches : plan[g][p] # NoKeyframe}

Mapped == {p \in Patches : owner[p] # NoKeyframe}

\* Every patch of the map gets some keyframe, a patch that was erased gets none.
Rebindings ==
  {new \in [Patches -> Owners] :
     \A p \in Patches : new[p] = NoKeyframe <=> p \notin Mapped}

-----------------------------------------------------------------------------
(* Tracking thread: apply_pending_lc_if_any                                *)

\* results.swap(pending_lc_results) under lc_result_lock; an empty queue
\* returns at once.
SwapResults ==
  /\ tpc = "swap"
  /\ batch' = pending
  /\ pending' = <<>>
  /\ processed' = FALSE
  /\ tpc' = IF pending = <<>> THEN ret ELSE "apply"
  /\ UNCHANGED <<ret, seen, atomicVars, queue, workerVars, mapVars>>

\* Plausible bug: erase the count of a patch that other plans still name.
ReleasePlanErasing(g) ==
  /\ active' = [active EXCEPT ![g] = FALSE]
  /\ refcount' = [p \in Patches |->
                    IF active[g] /\ p \in PlanPatches(g) THEN 0 ELSE refcount[p]]

\* remove_pending_overlap_removals behind pending_removals_active.exchange
ReleasePlan(g) ==
  /\ active' = [active EXCEPT ![g] = FALSE]
  /\ refcount' = [p \in Patches |->
                    IF active[g] /\ p \in PlanPatches(g) /\ refcount[p] > 0
                    THEN refcount[p] - 1 ELSE refcount[p]]

\* apply_overlap_removal_plan: a patch is erased only while its owner is the
\* keyframe the plan froze.
RemoveOverlaps(g) ==
  owner' = [p \in Patches |->
              IF p \in PlanPatches(g) /\ owner[p] = plan[g][p]
              THEN NoKeyframe ELSE owner[p]]

\* Plausible bug: record the next expected generation instead of the applied one.
ApplyStrictOffByOne ==
  /\ tpc = "apply" /\ batch # <<>> /\ Head(batch).strict
  /\ LET g == Head(batch).gen IN
       /\ ReleasePlan(g) /\ RemoveOverlaps(g)
       /\ plan' = [plan EXCEPT ![g] = NoPlan]
       /\ appliedStrict' = g + 1
       /\ adjusted' = Append(adjusted, g)
  /\ tpc' = "mark"
  /\ UNCHANGED <<ret, batch, processed, seen, generation, appliedScan, lcState,
                 running, doneGen, queue, pending, workerVars, strictGens>>

\* One strict result: skipped as stale, or stage 3 under pose_graph_lock.  The
\* plan goes with its result.
ApplyStrict ==
  /\ tpc = "apply" /\ batch # <<>> /\ Head(batch).strict
  /\ LET g == Head(batch).gen IN
       /\ ReleasePlan(g)
       /\ plan' = [plan EXCEPT ![g] = NoPlan]
       /\ IF g <= appliedStrict
          THEN UNCHANGED <<appliedStrict, adjusted, owner>>
          ELSE /\ appliedStrict' = g
               /\ adjusted' = Append(adjusted, g)
               /\ RemoveOverlaps(g)
  /\ tpc' = "mark"
  /\ UNCHANGED <<ret, batch, processed, seen, generation, appliedScan, lcState,
                 running, doneGen, queue, pending, workerVars, strictGens>>

\* Plausible bug: the comparison that keeps strict_stage3_done_gen growing is
\* the wrong way round.
MarkStage3DoneInverted ==
  /\ tpc = "mark"
  /\ LET g == Head(batch).gen IN
       doneGen' = IF g < doneGen THEN g ELSE doneGen
  /\ processed' = TRUE
  /\ batch' = Tail(batch)
  /\ tpc' = "apply"
  /\ UNCHANGED <<ret, seen, generation, appliedStrict, appliedScan, lcState,
                 running, queue, pending, workerVars, mapVars>>

\* mark_strict_stage3_done: publish the generation and notify the worker
MarkStage3Done ==
  /\ tpc = "mark"
  /\ LET g == Head(batch).gen IN
       doneGen' = IF g > doneGen THEN g ELSE doneGen
  /\ processed' = TRUE
  /\ batch' = Tail(batch)
  /\ tpc' = "apply"
  /\ UNCHANGED <<ret, seen, generation, appliedStrict, appliedScan, lcState,
                 running, queue, pending, workerVars, mapVars>>

\* One scan-to-map result: only labels change, which this module leaves out.
ApplyScan ==
  /\ tpc = "apply" /\ batch # <<>> /\ ~Head(batch).strict
  /\ LET g == Head(batch).gen IN
       appliedScan' = IF g <= appliedScan THEN appliedScan ELSE g
  /\ batch' = Tail(batch)
  /\ UNCHANGED <<tpc, ret, processed, seen, generation, appliedStrict, lcState,
                 running, doneGen, queue, pending, workerVars, mapVars>>

\* After the last result: back to IDLE when a strict one was among them.
FinishApply ==
  /\ tpc = "apply" /\ batch = <<>>
  /\ lcState' = IF processed THEN "IDLE" ELSE lcState
  /\ tpc' = ret
  /\ UNCHANGED <<ret, batch, processed, seen, generation, appliedStrict,
                 appliedScan, running, doneGen, queue, pending, workerVars,
                 mapVars>>

-----------------------------------------------------------------------------
(* Tracking thread: one iteration of run()                                 *)

\* A frame that detects no loop: it is skipped (no cloud, registration
\* failed, nothing associated) or goes on to update the map.
PlainFrame ==
  /\ tpc = "frame"
  /\ \E next \in {"swap", "load"} : tpc' = next
  /\ ret' = "frame"
  /\ UNCHANGED <<batch, processed, seen, atomicVars, queue, pending, workerVars,
                 mapVars>>

\* A keyframe that closes a scan-to-map loop
ScanToMapLoop ==
  /\ tpc = "frame"
  /\ generation < MaxGen
  /\ generation' = generation + 1
  /\ pending' = Append(pending, [gen |-> generation + 1, strict |-> FALSE, pack |-> {}])
  /\ tpc' = "load"
  /\ UNCHANGED <<ret, batch, processed, seen, appliedStrict, appliedScan, lcState,
                 running, doneGen, queue, workerVars, mapVars>>

\* A keyframe that closes a strict loop: a waiting result is applied first
DetectStrictLoop ==
  /\ tpc = "frame"
  /\ generation < MaxGen
  /\ tpc' = IF lcState = "APPLYING" THEN "swap" ELSE "stage1"
  /\ ret' = "stage1"
  /\ UNCHANGED <<batch, processed, seen, atomicVars, queue, pending, workerVars,
                 mapVars>>

\* trigger_strict_lc_stage1_and_queue_ba up to the re-anchoring of the pose:
\* take a generation, solve with the ICP edge, freeze the removal plan and
\* count its patches as pending removals.
Stage1 ==
  /\ tpc = "stage1"
  /\ LET g == generation + 1 IN
       \E remove \in SUBSET Mapped :
         /\ generation' = g
         /\ strictGens' = strictGens \cup {g}
         /\ plan' = [plan EXCEPT ![g] = [p \in Patches |->
                       IF p \in remove THEN owner[p] ELSE NoKeyframe]]
         /\ active' = [active EXCEPT ![g] = (remove # {})]
         /\ refcount' = [p \in Patches |->
                           IF p \in remove THEN refcount[p] + 1 ELSE refcount[p]]
  /\ ret' = "frame"
  /\ tpc' = "arm"
  /\ UNCHANGED <<batch, processed, seen, appliedStrict, appliedScan, lcState,
                 running, doneGen, queue, pending, workerVars, owner, adjusted>>

\* Plausible bug: lc_state is left as it was.
ArmLCStateForgotten ==
  /\ tpc = "arm"
  /\ tpc' = "push"
  /\ UNCHANGED <<ret, batch, processed, seen, atomicVars, queue, pending,
                 workerVars, mapVars>>

\* lc_state.store(RUNNING)
ArmLCState ==
  /\ tpc = "arm"
  /\ lcState' = "RUNNING"
  /\ tpc' = "push"
  /\ UNCHANGED <<ret, batch, processed, seen, generation, appliedStrict,
                 appliedScan, running, doneGen, queue, pending, workerVars,
                 mapVars>>

\* Plausible bug: the newest task is pushed to the front of the deque.
PushTaskFront ==
  /\ tpc = "push"
  /\ queue' = <<generation>> \o queue
  /\ tpc' = "cas"
  /\ UNCHANGED <<ret, batch, processed, seen, atomicVars, pending, workerVars,
                 mapVars>>

\* start_strict_lc_task: push under strict_ba_queue_lock
PushTask ==
  /\ tpc = "push"
  /\ queue' = Append(queue, generation)
  /\ tpc' = "cas"
  /\ UNCHANGED <<ret, batch, processed, seen, atomicVars, pending, workerVars,
                 mapVars>>

\* Plausible bug: every task starts a thread.
StartWorkerAlways ==
  /\ tpc = "cas"
  /\ running' = TRUE
  /\ \E w \in Workers : wpc[w] = "none" /\ wpc' = [wpc EXCEPT ![w] = "pop"]
  /\ tpc' = "load"
  /\ UNCHANGED <<ret, batch, processed, seen, generation, appliedStrict,
                 appliedScan, lcState, doneGen, queue, pending, wtask, wpack,
                 mapVars>>

\* start_strict_lc_task: compare_exchange_strong, and a new detached thread
StartWorker ==
  /\ tpc = "cas"
  /\ IF running
     THEN UNCHANGED <<running, wpc>>
     ELSE /\ running' = TRUE
          /\ \E w \in Workers : /\ wpc[w] = "none"
                                /\ wpc' = [wpc EXCEPT ![w] = "pop"]
  /\ tpc' = "load"
  /\ UNCHANGED <<ret, batch, processed, seen, generation, appliedStrict,
                 appliedScan, lcState, doneGen, queue, pending, wtask, wpack,
                 mapVars>>

\* update_sph_coeff_thread reads lc_state ...
LoadLCState ==
  /\ tpc = "load"
  /\ seen' = lcState
  /\ tpc' = "rebind"
  /\ UNCHANGED <<ret, batch, processed, atomicVars, queue, pending, workerVars,
                 mapVars>>

\* Plausible bug: only lc_state is asked, which stage 3 of an earlier loop set
\* to IDLE.
RebindPatchesByState ==
  /\ tpc = "rebind"
  /\ owner' \in Rebindings
  /\ owner' # owner => seen = "IDLE"
  /\ tpc' = "swap"
  /\ UNCHANGED <<ret, batch, processed, seen, atomicVars, queue, pending,
                 workerVars, strictGens, plan, active, refcount, adjusted>>

\* ... then strict_lc_running; when neither says that a strict loop is active
\* the associated patches may move to other keyframes (update_patch_keyframe).
RebindPatches ==
  /\ tpc = "rebind"
  /\ owner' \in Rebindings
  /\ owner' # owner => ~running /\ seen = "IDLE"
  /\ tpc' = "swap"
  /\ UNCHANGED <<ret, batch, processed, seen, atomicVars, queue, pending,
                 workerVars, strictGens, plan, active, refcount, adjusted>>

\* ros::ok() turned false: the loop ends, nothing pending is applied.
StopTracking ==
  /\ tpc = "swap" /\ ret = "frame"
  /\ tpc' = "stopped"
  /\ UNCHANGED <<ret, batch, processed, seen, atomicVars, queue, pending,
                 workerVars, mapVars>>

-----------------------------------------------------------------------------
(* Worker threads: strict_lc_worker                                        *)

\* Plausible bug: take the newest task.
PopTaskNewest(w) ==
  /\ wpc[w] = "pop"
  /\ IF queue = <<>>
     THEN /\ wpc' = [wpc EXCEPT ![w] = "release"]
          /\ UNCHANGED <<queue, wtask>>
     ELSE /\ wpc' = [wpc EXCEPT ![w] = "associate"]
          /\ wtask' = [wtask EXCEPT ![w] = queue[Len(queue)]]
          /\ queue' = SubSeq(queue, 1, Len(queue) - 1)
  /\ UNCHANGED <<trackingVars, atomicVars, pending, wpack, mapVars>>

\* Take the front task under strict_ba_queue_lock, or leave the loop.
PopTask(w) ==
  /\ wpc[w] = "pop"
  /\ IF queue = <<>>
     THEN /\ wpc' = [wpc EXCEPT ![w] = "release"]
          /\ UNCHANGED <<queue, wtask>>
     ELSE /\ wpc' = [wpc EXCEPT ![w] = "associate"]
          /\ wtask' = [wtask EXCEPT ![w] = Head(queue)]
          /\ queue' = Tail(queue)
  /\ UNCHANGED <<trackingVars, atomicVars, pending, wpack, mapVars>>

\* Plausible bug: patches that wait for removal are associated too.
AssociateAll(w) ==
  /\ wpc[w] = "associate"
  /\ \E pack \in SUBSET Mapped : wpack' = [wpack EXCEPT ![w] = pack]
  /\ wpc' = [wpc EXCEPT ![w] = "solve"]
  /\ UNCHANGED <<trackingVars, atomicVars, queue, pending, wtask, mapVars>>

\* run_local_BA_after_pose_update, data association: the patches to optimise
\* are in the map and not in the pending-removal snapshot.  The code looks them
\* up one after the other; meanwhile only stage 1 of a later loop can intervene,
\* which adds to the snapshot, so any pack it can find was possible at once.
Associate(w) ==
  /\ wpc[w] = "associate"
  /\ \E pack \in SUBSET {p \in Mapped : refcount[p] = 0} :
       wpack' = [wpack EXCEPT ![w] = pack]
  /\ wpc' = [wpc EXCEPT ![w] = "solve"]
  /\ UNCHANGED <<trackingVars, atomicVars, queue, pending, wtask, mapVars>>

\* The rest of the adjustment; the LCResult is pushed under lc_result_lock.
SolveAndPush(w) ==
  /\ wpc[w] = "solve"
  /\ pending' = Append(pending, [gen |-> wtask[w], strict |-> TRUE, pack |-> wpack[w]])
  /\ wpc' = [wpc EXCEPT ![w] = "store"]
  /\ UNCHANGED <<trackingVars, atomicVars, queue, wtask, wpack, mapVars>>

\* lc_state.store(APPLYING), after the result became visible
StoreApplying(w) ==
  /\ wpc[w] = "store"
  /\ lcState' = "APPLYING"
  /\ wpc' = [wpc EXCEPT ![w] = "wait"]
  /\ UNCHANGED <<trackingVars, generation, appliedStrict, appliedScan, running,
                 doneGen, queue, pending, wtask, wpack, mapVars>>

\* Plausible bug: the worker goes on without waiting for stage 3.
AwaitStage3Skipped(w) ==
  /\ wpc[w] = "wait"
  /\ wpc' = [wpc EXCEPT ![w] = "pop"]
  /\ wtask' = [wtask EXCEPT ![w] = 0]
  /\ wpack' = [wpack EXCEPT ![w] = {}]
  /\ UNCHANGED <<trackingVars, atomicVars, queue, pending, mapVars>>

\* strict_stage3_cv.wait(done_gen >= task.gen); the locals of the loop body end.
AwaitStage3(w) ==
  /\ wpc[w] = "wait"
  /\ doneGen >= wtask[w]
  /\ wpc' = [wpc EXCEPT ![w] = "pop"]
  /\ wtask' = [wtask EXCEPT ![w] = 0]
  /\ wpack' = [wpack EXCEPT ![w] = {}]
  /\ UNCHANGED <<trackingVars, atomicVars, queue, pending, mapVars>>

\* strict_lc_running.store(false)
ReleaseRunning(w) ==
  /\ wpc[w] = "release"
  /\ running' = FALSE
  /\ wpc' = [wpc EXCEPT ![w] = "recheck"]
  /\ UNCHANGED <<trackingVars, generation, appliedStrict, appliedScan, lcState,
                 doneGen, queue, pending, wtask, wpack, mapVars>>

\* Plausible bug: the queue is not looked at again after strict_lc_running is
\* given back.
RecheckQueueSkipped(w) ==
  /\ wpc[w] = "recheck"
  /\ wpc' = [wpc EXCEPT ![w] = "none"]
  /\ UNCHANGED <<trackingVars, atomicVars, queue, pending, wtask, wpack, mapVars>>

\* need_restart: was a task queued since the loop was left?
RecheckQueue(w) ==
  /\ wpc[w] = "recheck"
  /\ wpc' = [wpc EXCEPT ![w] = IF queue = <<>> THEN "none" ELSE "restart"]
  /\ UNCHANGED <<trackingVars, atomicVars, queue, pending, wtask, wpack, mapVars>>

\* The second compare_exchange_strong.  The thread ends after spawning its
\* successor, so the successor takes over its identity.
Restart(w) ==
  /\ wpc[w] = "restart"
  /\ running' = TRUE
  /\ wpc' = [wpc EXCEPT ![w] = IF running THEN "none" ELSE "pop"]
  /\ UNCHANGED <<trackingVars, generation, appliedStrict, appliedScan, lcState,
                 doneGen, queue, pending, wtask, wpack, mapVars>>

-----------------------------------------------------------------------------
TrackingStep ==
  \/ SwapResults \/ ApplyStrict \/ MarkStage3Done \/ ApplyScan \/ FinishApply
  \/ PlainFrame \/ ScanToMapLoop \/ DetectStrictLoop
  \/ Stage1 \/ ArmLCState \/ PushTask \/ StartWorker
  \/ LoadLCState \/ RebindPatches

WorkerStep(w) ==
  \/ PopTask(w) \/ Associate(w) \/ SolveAndPush(w) \/ StoreApplying(w)
  \/ AwaitStage3(w) \/ ReleaseRunning(w) \/ RecheckQueue(w) \/ Restart(w)

Next ==
  \/ TrackingStep
  \/ StopTracking
  \/ \E w \in Workers : WorkerStep(w)

Spec == Init /\ [][Next]_vars

\* Each thread is scheduled by the operating system and blocks only where the
\* code blocks; ros::ok() need never turn false.
Fairness ==
  /\ WF_vars(TrackingStep)
  /\ \A w \in Workers : WF_vars(WorkerStep(w))

FairSpec == Spec /\ Fairness

-----------------------------------------------------------------------------
(* Properties *)

\* Strict loops that were started and whose stage 3 was not applied yet.
Outstanding == strictGens \ {adjusted[i] : i \in 1 .. Len(adjusted)}

\* Control points of the while loop of strict_lc_worker, up to the store that
\* gives strict_lc_running back.
InLoop(w) == wpc[w] \in {"pop", "associate", "solve", "store", "wait", "release"}

\* At most one thread optimises at a time, and strict_lc_running is true exactly
\* while one does: the two compare_exchange_strong of start_strict_lc_task and
\* of the end of strict_lc_worker never let a second worker in.
SingleOptimiser ==
  /\ \A v, w \in Workers : InLoop(v) /\ InLoop(w) => v = w
  /\ running <=> \E w \in Workers : InLoop(w)

\* While the tracking thread rewrites poses, coefficients and patches in stage 3
\* of apply_pending_lc_if_any, no worker reads them: the worker stays in the
\* wait on strict_stage3_cv until mark_strict_stage3_done.
Stage3Exclusive ==
  tpc = "mark" \/ (tpc = "apply" /\ batch # <<>> /\ Head(batch).strict)
    => \A w \in Workers : wpc[w] \notin {"associate", "solve"}

\* update_sph_coeff_thread reads lc_state and strict_lc_running one after the
\* other while a worker changes both: whenever they let it rebind patches, no
\* strict loop is between its stage 1 and its stage 3.
RebindSafe ==
  tpc = "rebind" /\ ~running /\ seen = "IDLE" => Outstanding = {}

\* pending_overlap_remove_refcount counts the plans that still wait for their
\* stage 3, also when several plans name the same patch; when none waits, no
\* patch is left excluded from data association.
RefcountExact ==
  /\ \A p \in Patches :
       refcount[p] = Cardinality({g \in Gens : active[g] /\ p \in PlanPatches(g)})
  /\ \A g \in Gens : active[g] <=> g \in Outstanding /\ PlanPatches(g) # {}

\* The owners frozen in an OverlapRemovalPlan are still right when the plan is
\* applied, however long the adjustment took: a patch keeps its owner or was
\* erased by an earlier plan.  ("Patch keyframe mismatch during removal apply!"
\* of apply_overlap_removal_plan is never printed.)
PlanFresh ==
  \A g \in Outstanding : \A p \in PlanPatches(g) :
    owner[p] \in {plan[g][p], NoKeyframe}

\* The patches of a deferred pack still exist when their coefficients are
\* committed, and the loop's own plan erases none of them: plans of later loops
\* are applied later, plans of earlier loops were excluded at association.
PackAlive ==
  tpc = "apply" /\ batch # <<>> /\ Head(batch).strict =>
    Head(batch).pack \subseteq Mapped \ PlanPatches(Head(batch).gen)

\* What a strict loop decided about the map seconds before its stage 3 holds
\* when stage 3 applies it.
PlansHold == PlanFresh /\ PackAlive

\* No result is dropped as stale ("result.gen <= last_applied"): strict and
\* scan-to-map results each arrive in the order of their generations.
ResultsInOrder ==
  tpc = "apply" /\ batch # <<>> =>
    Head(batch).gen > (IF Head(batch).strict THEN appliedStrict ELSE appliedScan)

\* A queued task always has a thread that will look at the queue: a worker in
\* its loop or about to recheck, or the tracking thread about to start one.
NoLostTask ==
  queue # <<>> => \/ running
                  \/ tpc = "cas"
                  \/ \E w \in Workers : wpc[w] \in {"recheck", "restart"}

\* Every strict loop is eventually applied, unless the tracking thread ends
\* first.
EveryLoopApplied ==
  \A g \in Gens :
    (g \in strictGens) ~> (g \notin Outstanding \/ tpc = "stopped")

\* A worker that waits for stage 3 is woken, unless the tracking thread ends
\* first: strict_stage3_done_gen is published for each result.
WorkerWoken ==
  \A w \in Workers :
    (wpc[w] = "wait") ~> (wpc[w] # "wait" \/ tpc = "stopped")

\* No loop and no worker is left behind.
Progress == EveryLoopApplied /\ WorkerWoken

\* When every strict loop was applied and no worker thread is left, lc_state is
\* back to IDLE: update_sph_coeff_thread calls the other states
\* "is_strict_lc_active".
IdleWhenNoLoop ==
  Outstanding = {} /\ (\A w \in Workers : wpc[w] = "none") /\ tpc = "frame"
    => lcState = "IDLE"

-----------------------------------------------------------------------------
(* Inductive invariants: what the proofs rest on                           *)

Holding == {"associate", "solve", "store", "wait"}

\* Where the tracking thread returns to, and what it holds in the meantime; a
\* worker past the queue holds a task.
Control ==
  /\ ret = "stage1" => tpc \in {"swap", "apply", "mark", "stage1"} /\ generation < MaxGen
  /\ tpc = "stage1" => ret = "stage1"
  /\ tpc = "mark" => batch # <<>> /\ Head(batch).strict
  /\ tpc \notin {"apply", "mark"} => batch = <<>>
  /\ tpc \in {"arm", "push"} => generation > 0
  /\ \A w \in Workers : wpc[w] \in Holding => wtask[w] > 0

\* Generations grow along the pipeline: what was published, what a worker holds,
\* what is queued, what is about to be queued.
Order ==
  /\ doneGen <= generation
  /\ \A i \in 1 .. Len(queue) : doneGen < queue[i] /\ queue[i] <= generation
  /\ \A i, j \in 1 .. Len(queue) : i < j => queue[i] < queue[j]
  /\ \A w \in Workers : wpc[w] \in Holding =>
       wtask[w] <= generation /\ \A i \in 1 .. Len(queue) : wtask[w] < queue[i]
  /\ \A w \in Workers : wpc[w] \in {"associate", "solve"} => doneGen < wtask[w]
  /\ tpc \in {"arm", "push"} =>
       /\ doneGen < generation
       /\ \A i \in 1 .. Len(queue) : queue[i] < generation
       /\ \A w \in Workers : wpc[w] \in Holding => wtask[w] < generation

StrictIn(s) == {i \in 1 .. Len(s) : s[i].strict}

\* The worker of this generation waits for a stage 3 that was not published.
Waited(g) ==
  /\ doneGen < g
  /\ \E w \in Workers : wpc[w] \in {"store", "wait"} /\ wtask[w] = g

\* A strict result on its way is the only one, and its worker waits for it.
Handover ==
  /\ \A i, j \in StrictIn(batch) : i = j
  /\ \A i, j \in StrictIn(pending) : i = j
  /\ StrictIn(batch) = {} \/ StrictIn(pending) = {}
  /\ \A i \in StrictIn(batch) : Waited(batch[i].gen)
  /\ \A i \in StrictIn(pending) : Waited(pending[i].gen)

\* Generations are in order from detection to stage 3, and the one strict result on
\* its way has its worker waiting, so that none is ever dropped as stale.
Tickets == Order /\ Handover

-----------------------------------------------------------------------------
(* Refinement *)

\* Loops that no worker has taken yet; the newest is not in the queue before
\* start_strict_lc_task pushes it.
Unpopped == IF tpc \in {"arm", "push"} THEN Append(queue, generation) ELSE queue

\* The loop a worker holds, or whose result is on its way: popped, not applied.
Popped == {g \in Outstanding : \A i \in 1 .. Len(Unpopped) : Unpopped[i] # g}

Pipeline == INSTANCE LoopPipeline WITH
  waiting <- Unpopped,
  current <- IF Popped = {} THEN 0 ELSE CHOOSE g \in Popped : TRUE,
  ready <- \E r \in {(batch \o pending)[i] : i \in 1 .. Len(batch \o pending)} :
             r.strict /\ r.gen \in Outstanding,
  done <- adjusted

\* The threads, flags and queues of CurlTracking implement the pipeline: loops
\* are adjusted one at a time, in order of detection, and stage 3 of one comes
\* before the adjustment of the next.
ImplementsPipeline == Pipeline!Spec
=============================================================================
