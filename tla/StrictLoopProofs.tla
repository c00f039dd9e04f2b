-------------------------- MODULE StrictLoopProofs --------------------------
(***************************************************************************)
(* Proofs about the strict loop-closure pipeline, about what it does to    *)
(* the map, and that its threads implement LoopPipeline, for every number  *)
(* of loops, workers, patches and keyframes.                               *)
(***************************************************************************)
EXTENDS StrictLoop, SequenceTheorems, FiniteSetTheorems, TLAPS

\* What Head, Tail and Len are for a sequence that is not empty.
LEMMA HeadTail ==
  ASSUME NEW S, NEW s \in Seq(S), s # <<>>
  PROVE  /\ Head(s) \in S /\ Head(s) = s[1]
         /\ Tail(s) \in Seq(S) /\ Len(s) \in Nat \ {0}
         /\ Len(Tail(s)) = Len(s) - 1
         /\ \A i \in 1 .. Len(s) - 1 : Tail(s)[i] = s[i + 1]
<1>1. Len(s) \in Nat \ {0}
  BY EmptySeq
<1> QED
  BY <1>1, HeadTailProperties

-----------------------------------------------------------------------------
(* Type correctness                                                        *)

\* The initial state is well typed and its control points fit together.
LEMMA TypeInit == Init => TypeOK /\ Control
<1> SUFFICES ASSUME Init PROVE TypeOK /\ Control
  OBVIOUS
<1> USE DEF Init
<1>1. Control
  BY ConstantsAssumption DEF Control, Holding
<1>2. batch \in Seq(Results) /\ pending \in Seq(Results) /\ queue \in Seq(Gens)
      /\ adjusted \in Seq(Gens)
  BY EmptySeq
<1>3. /\ owner \in [Patches -> Owners] /\ strictGens \in SUBSET Gens
      /\ plan \in [Gens -> [Patches -> Owners]]
      /\ active \in [Gens -> BOOLEAN] /\ refcount \in [Patches -> Nat]
  BY DEF Owners, NoPlan
<1>4. /\ wpc \in [Workers -> WorkerPCs] /\ wtask \in [Workers -> 0 .. MaxGen]
      /\ wpack \in [Workers -> SUBSET Patches]
  BY ConstantsAssumption DEF WorkerPCs
<1>5. /\ tpc \in TrackingPCs /\ ret \in {"frame", "stage1"} /\ processed \in BOOLEAN
      /\ seen \in LCStates /\ lcState \in LCStates /\ running \in BOOLEAN
  BY DEF TrackingPCs, LCStates
<1>6. /\ generation \in 0 .. MaxGen /\ appliedStrict \in 0 .. MaxGen
      /\ appliedScan \in 0 .. MaxGen /\ doneGen \in 0 .. MaxGen
  BY ConstantsAssumption
<1> HIDE DEF Init
<1> QED
  BY <1>1, <1>2, <1>3, <1>4, <1>5, <1>6 DEF TypeOK

\* Every step of the tracking thread keeps the types and the control points.
LEMMA TypeTracking ==
  ASSUME TypeOK, Control, TrackingStep
  PROVE  TypeOK' /\ Control'
<1> USE ConstantsAssumption DEF Gens, Owners, NoPlan, LCStates, TrackingPCs, WorkerPCs,
        Results, Holding, atomicVars, workerVars, mapVars
<1>1. CASE SwapResults
  BY <1>1 DEF SwapResults, TypeOK, Control
<1>2. CASE ApplyStrict
  <2>1. Head(batch) \in Results
    BY <1>2, HeadTail DEF ApplyStrict, TypeOK
  <2> DEFINE g == Head(batch).gen
  <2>2. g \in Gens
    BY <2>1
  <2> HIDE DEF g
  <2>3. refcount' \in [Patches -> Nat] /\ active' \in [Gens -> BOOLEAN]
    BY <1>2, <2>2 DEF ApplyStrict, ReleasePlan, TypeOK, g
  <2>4. plan' \in [Gens -> [Patches -> Owners]]
    BY <1>2, <2>2 DEF ApplyStrict, TypeOK, g
  <2>5. owner' \in [Patches -> Owners]
    BY <1>2, <2>2 DEF ApplyStrict, RemoveOverlaps, TypeOK, g
  <2>6. adjusted' \in Seq(Gens) /\ appliedStrict' \in 0 .. MaxGen
    <3>1. CASE g <= appliedStrict
      <4>1. adjusted' = adjusted /\ appliedStrict' = appliedStrict
        BY <1>2, <3>1 DEF ApplyStrict, g
      <4> QED
        BY <4>1 DEF TypeOK
    <3>2. CASE ~(g <= appliedStrict)
      <4>1. adjusted' = Append(adjusted, g) /\ appliedStrict' = g
        BY <1>2, <3>2 DEF ApplyStrict, g
      <4> QED
        BY <2>2, <4>1 DEF TypeOK
    <3> QED
      BY <3>1, <3>2
  <2>7. Control'
    BY <1>2 DEF ApplyStrict, Control
  <2> QED
    BY <1>2, <2>3, <2>4, <2>5, <2>6, <2>7 DEF ApplyStrict, TypeOK
<1>3. CASE MarkStage3Done
  <2>1. batch # <<>> /\ batch \in Seq(Results)
    BY <1>3 DEF MarkStage3Done, TypeOK, Control
  <2>2. Head(batch) \in Results /\ Tail(batch) \in Seq(Results)
    BY <2>1, HeadTail
  <2> QED
    BY <1>3, <2>2 DEF MarkStage3Done, TypeOK, Control
<1>4. CASE ApplyScan
  <2>1. Head(batch) \in Results /\ Tail(batch) \in Seq(Results)
    BY <1>4, HeadTail DEF ApplyScan, TypeOK
  <2> QED
    BY <1>4, <2>1 DEF ApplyScan, TypeOK, Control
<1>5. CASE FinishApply
  BY <1>5 DEF FinishApply, TypeOK, Control
<1>6. CASE PlainFrame
  BY <1>6 DEF PlainFrame, TypeOK, Control
<1>7. CASE ScanToMapLoop
  BY <1>7 DEF ScanToMapLoop, TypeOK, Control
<1>8. CASE DetectStrictLoop
  BY <1>8 DEF DetectStrictLoop, TypeOK, Control
<1>9. CASE Stage1
  BY <1>9 DEF Stage1, TypeOK, Control, Mapped
<1>10. CASE ArmLCState
  BY <1>10 DEF ArmLCState, TypeOK, Control
<1>11. CASE PushTask
  BY <1>11 DEF PushTask, TypeOK, Control
<1>12. CASE StartWorker
  BY <1>12 DEF StartWorker, TypeOK, Control
<1>13. CASE LoadLCState
  BY <1>13 DEF LoadLCState, TypeOK, Control
<1>14. CASE RebindPatches
  BY <1>14 DEF RebindPatches, Rebindings, TypeOK, Control
<1> QED
  BY <1>1, <1>2, <1>3, <1>4, <1>5, <1>6, <1>7, <1>8, <1>9, <1>10, <1>11, <1>12,
     <1>13, <1>14 DEF TrackingStep

\* So does every step of a worker.
LEMMA TypeWorker ==
  ASSUME TypeOK, Control, NEW w \in Workers, WorkerStep(w)
  PROVE  TypeOK' /\ Control'
<1> USE ConstantsAssumption DEF Gens, Owners, NoPlan, LCStates, TrackingPCs, WorkerPCs,
        Results, Holding, trackingVars, atomicVars, workerVars, mapVars
<1>1. CASE PopTask(w)
  <2>1. queue # <<>> => Head(queue) \in Gens /\ Tail(queue) \in Seq(Gens)
    BY HeadTail DEF TypeOK
  <2>2. /\ queue' \in Seq(Gens) /\ wpc' \in [Workers -> WorkerPCs]
        /\ wtask' \in [Workers -> 0 .. MaxGen]
    <3>1. CASE queue = <<>>
      <4>1. queue' = queue /\ wtask' = wtask /\ wpc' = [wpc EXCEPT ![w] = "release"]
        BY <1>1, <3>1 DEF PopTask
      <4> QED
        BY <4>1 DEF TypeOK
    <3>2. CASE queue # <<>>
      <4>1. /\ queue' = Tail(queue) /\ wtask' = [wtask EXCEPT ![w] = Head(queue)]
            /\ wpc' = [wpc EXCEPT ![w] = "associate"]
        BY <1>1, <3>2 DEF PopTask
      <4> QED
        BY <2>1, <3>2, <4>1 DEF TypeOK
    <3> QED
      BY <3>1, <3>2
  <2>3. Control'
    BY <1>1, <2>1, SMTT(30) DEF PopTask, TypeOK, Control
  <2> QED
    BY <1>1, <2>2, <2>3, SMTT(30) DEF PopTask, TypeOK
<1>2. CASE Associate(w)
  BY <1>2 DEF Associate, Mapped, TypeOK, Control
<1>3. CASE SolveAndPush(w)
  BY <1>3 DEF SolveAndPush, TypeOK, Control
<1>4. CASE StoreApplying(w)
  BY <1>4 DEF StoreApplying, TypeOK, Control
<1>5. CASE AwaitStage3(w)
  BY <1>5 DEF AwaitStage3, TypeOK, Control
<1>6. CASE ReleaseRunning(w)
  BY <1>6, ZenonT(60) DEF ReleaseRunning, TypeOK, Control
<1>7. CASE RecheckQueue(w)
  BY <1>7, SMTT(60) DEF RecheckQueue, TypeOK, Control
<1>8. CASE Restart(w)
  BY <1>8 DEF Restart, TypeOK, Control
<1> QED
  BY <1>1, <1>2, <1>3, <1>4, <1>5, <1>6, <1>7, <1>8 DEF WorkerStep

\* A task, a result or a return point is only used where there is one.
LEMMA TypeControl == Spec => [](TypeOK /\ Control)
<1>1. Init => TypeOK /\ Control
  BY TypeInit
<1>2. TypeOK /\ Control /\ [Next]_vars => (TypeOK /\ Control)'
  <2> SUFFICES ASSUME TypeOK, Control, [Next]_vars
               PROVE  (TypeOK /\ Control)'
    OBVIOUS
  <2>1. CASE TrackingStep
    BY <2>1, TypeTracking
  <2>2. CASE StopTracking
    BY <2>2 DEF StopTracking, TypeOK, Control, TrackingPCs, atomicVars, workerVars, mapVars
  <2>3. CASE \E w \in Workers : WorkerStep(w)
    BY <2>3, TypeWorker
  <2>4. CASE UNCHANGED vars
    BY <2>4 DEF TypeOK, Control, vars, trackingVars, atomicVars, workerVars, mapVars
  <2> QED
    BY <2>1, <2>2, <2>3, <2>4 DEF Next
<1> QED
  BY <1>1, <1>2, PTL DEF Spec

\* The variables always have their types.
THEOREM TypeCorrect == Spec => []TypeOK
BY TypeControl, PTL

-----------------------------------------------------------------------------
(* The worker threads and the queue                                        *)

\* A step that leaves running and the loop of every worker alone keeps
\* SingleOptimiser.
LEMMA SameLoops ==
  ASSUME SingleOptimiser, running' = running,
         \A w \in Workers : InLoop(w)' <=> InLoop(w)
  PROVE  SingleOptimiser'
BY DEF SingleOptimiser

\* At most one worker is in its loop, exactly while strict_lc_running is true:
\* the two compare_exchange_strong never let a second one in.
THEOREM OneOptimiser == Spec => []SingleOptimiser
<1>1. Init => SingleOptimiser
  BY DEF Init, SingleOptimiser, InLoop
<1>2. TypeOK /\ SingleOptimiser /\ [Next]_vars => SingleOptimiser'
  <2> SUFFICES ASSUME TypeOK, SingleOptimiser, [Next]_vars
               PROVE  SingleOptimiser'
    OBVIOUS
  <2>1. CASE StartWorker
    <3>1. CASE running
      BY <2>1, <3>1, SameLoops DEF StartWorker, InLoop
    <3>2. CASE ~running
      BY <2>1, <3>2 DEF StartWorker, SingleOptimiser, InLoop, TypeOK
    <3> QED
      BY <3>1, <3>2
  <2>2. CASE TrackingStep /\ ~StartWorker
    <3>1. UNCHANGED <<running, wpc>>
      BY <2>2 DEF TrackingStep, SwapResults, ApplyStrict, MarkStage3Done, ApplyScan,
         FinishApply, PlainFrame, ScanToMapLoop, DetectStrictLoop, Stage1, ArmLCState,
         PushTask, LoadLCState, RebindPatches, atomicVars, workerVars
    <3> QED
      BY <3>1, SameLoops DEF InLoop
  <2>3. CASE StopTracking \/ UNCHANGED vars
    BY <2>3, SameLoops DEF StopTracking, vars, atomicVars, workerVars, InLoop
  <2>4. ASSUME NEW w \in Workers, WorkerStep(w)
        PROVE  SingleOptimiser'
    <3> USE DEF atomicVars, InLoop, TypeOK
    <3>1. CASE PopTask(w)
      <4>1. running' = running /\ \E pc \in {"release", "associate"} :
              wpc[w] = "pop" /\ wpc' = [wpc EXCEPT ![w] = pc]
        BY <3>1 DEF PopTask
      <4> QED
        BY <4>1, SameLoops
    <3>2. CASE Associate(w)
      BY <3>2, SameLoops DEF Associate
    <3>3. CASE SolveAndPush(w)
      BY <3>3, SameLoops DEF SolveAndPush
    <3>4. CASE StoreApplying(w)
      BY <3>4, SameLoops DEF StoreApplying
    <3>5. CASE AwaitStage3(w)
      BY <3>5, SameLoops DEF AwaitStage3
    <3>6. CASE ReleaseRunning(w)
      BY <3>6 DEF ReleaseRunning, SingleOptimiser
    <3>7. CASE RecheckQueue(w)
      BY <3>7, SameLoops DEF RecheckQueue
    <3>8. CASE Restart(w)
      BY <3>8 DEF Restart, SingleOptimiser
    <3> QED
      BY <2>4, <3>1, <3>2, <3>3, <3>4, <3>5, <3>6, <3>7, <3>8 DEF WorkerStep
  <2> QED
    BY <2>1, <2>2, <2>3, <2>4 DEF Next
<1> QED
  BY <1>1, <1>2, TypeCorrect, PTL DEF Spec

\* A queued task always has a thread that will look at the queue.
THEOREM TasksKept == Spec => []NoLostTask
<1>1. Init => NoLostTask
  BY DEF Init, NoLostTask
<1>2. TypeOK /\ NoLostTask /\ [Next]_vars => NoLostTask'
  <2> SUFFICES ASSUME TypeOK, NoLostTask, [Next]_vars
               PROVE  NoLostTask'
    OBVIOUS
  <2>1. CASE StartWorker
    BY <2>1 DEF StartWorker, NoLostTask
  <2>2. CASE PushTask
    BY <2>2 DEF PushTask, NoLostTask
  <2>3. CASE TrackingStep /\ ~StartWorker /\ ~PushTask
    BY <2>3 DEF TrackingStep, SwapResults, ApplyStrict, MarkStage3Done, ApplyScan,
       FinishApply, PlainFrame, ScanToMapLoop, DetectStrictLoop, Stage1, ArmLCState,
       LoadLCState, RebindPatches, atomicVars, workerVars, NoLostTask
  <2>4. CASE StopTracking \/ UNCHANGED vars
    BY <2>4 DEF StopTracking, vars, trackingVars, atomicVars, workerVars, NoLostTask
  <2>5. ASSUME NEW w \in Workers, WorkerStep(w)
        PROVE  NoLostTask'
    <3> USE DEF trackingVars, atomicVars, NoLostTask, TypeOK
    <3>1. CASE PopTask(w)
      <4>1. /\ queue' # <<>> => queue # <<>>
            /\ running' = running /\ tpc' = tpc
            /\ wpc[w] = "pop" /\ \A v \in Workers \ {w} : wpc'[v] = wpc[v]
        BY <3>1 DEF PopTask
      <4> QED
        BY <4>1
    <3>2. CASE Associate(w)
      BY <3>2 DEF Associate
    <3>3. CASE SolveAndPush(w)
      BY <3>3 DEF SolveAndPush
    <3>4. CASE StoreApplying(w)
      BY <3>4 DEF StoreApplying
    <3>5. CASE AwaitStage3(w)
      BY <3>5 DEF AwaitStage3
    <3>6. CASE ReleaseRunning(w)
      BY <3>6 DEF ReleaseRunning
    <3>7. CASE RecheckQueue(w)
      BY <3>7 DEF RecheckQueue
    <3>8. CASE Restart(w)
      BY <3>8 DEF Restart
    <3> QED
      BY <2>5, <3>1, <3>2, <3>3, <3>4, <3>5, <3>6, <3>7, <3>8 DEF WorkerStep
  <2> QED
    BY <2>1, <2>2, <2>3, <2>4, <2>5 DEF Next
<1> QED
  BY <1>1, <1>2, TypeCorrect, PTL DEF Spec

-----------------------------------------------------------------------------
(* The hand-over from the worker to stage 3                                *)

\* Order survives when no worker takes a task and no counter or queue changes.
LEMMA SameOrder ==
  ASSUME Order, UNCHANGED <<doneGen, generation, queue>>,
         tpc' \in {"arm", "push"} => tpc \in {"arm", "push"},
         \A v \in Workers : wpc'[v] \in Holding =>
           wpc[v] \in Holding /\ wtask'[v] = wtask[v],
         \A v \in Workers : wpc'[v] \in {"associate", "solve"} =>
           wpc[v] \in {"associate", "solve"}
  PROVE  Order'
BY DEF Order, Holding

\* The worker of the strict result at the head of the batch waits for it, so no
\* worker associates or solves.
LEMMA HeadWaited ==
  ASSUME TypeOK, SingleOptimiser, Handover, batch # <<>>, Head(batch).strict
  PROVE  /\ Head(batch) = batch[1] /\ 1 \in StrictIn(batch)
         /\ Waited(Head(batch).gen)
         /\ \A v \in Workers : wpc[v] \notin {"associate", "solve"}
<1>1. Head(batch) = batch[1] /\ Len(batch) \in Nat \ {0}
  BY HeadTail DEF TypeOK
<1>2. 1 \in StrictIn(batch)
  BY <1>1 DEF StrictIn
<1>3. Waited(Head(batch).gen)
  BY <1>1, <1>2 DEF Handover
<1>4. PICK w \in Workers : wpc[w] \in {"store", "wait"}
  BY <1>3 DEF Waited
<1>5. ASSUME NEW v \in Workers, wpc[v] \in {"associate", "solve"} PROVE FALSE
  <2>1. v = w
    BY <1>4, <1>5 DEF SingleOptimiser, InLoop
  <2> QED
    BY <2>1, <1>4, <1>5
<1> QED
  BY <1>1, <1>2, <1>3, <1>5

\* Every step of the tracking thread keeps the generations in order.
LEMMA OrderTracking ==
  ASSUME TypeOK, Control, SingleOptimiser, Order, Handover, TrackingStep
  PROVE  Order'
<1> USE DEF atomicVars, workerVars
<1>1. CASE MarkStage3Done
  <2> DEFINE g == Head(batch).gen
  <2>1. batch # <<>> /\ Head(batch).strict /\ Head(batch) \in Results
    BY <1>1, HeadTail DEF MarkStage3Done, Control, TypeOK
  <2>2. Waited(g) /\ \A v \in Workers : wpc[v] \notin {"associate", "solve"}
    BY <2>1, HeadWaited
  <2>3. g \in Nat /\ doneGen \in Nat
    BY <2>1 DEF Results, Gens, TypeOK
  <2>4. doneGen < g /\ g <= generation /\ \A i \in 1 .. Len(queue) : g < queue[i]
    BY <2>2 DEF Waited, Order, Holding
  <2> HIDE DEF g
  <2>5. doneGen' = g /\ tpc' = "apply" /\ UNCHANGED <<generation, queue, wpc, wtask>>
    BY <1>1, <2>3, <2>4 DEF MarkStage3Done, g
  <2> QED
    BY <2>2, <2>3, <2>4, <2>5 DEF Order
<1>2. CASE ScanToMapLoop \/ Stage1
  <2>1. /\ generation' = generation + 1
        /\ UNCHANGED <<doneGen, queue, wpc, wtask>>
    BY <1>2 DEF ScanToMapLoop, Stage1
  <2>2. /\ generation \in Nat /\ doneGen \in Nat
        /\ \A i \in 1 .. Len(queue) : queue[i] \in Nat
        /\ \A w \in Workers : wtask[w] \in Nat
    <3>1. ASSUME NEW i \in 1 .. Len(queue) PROVE queue[i] \in Gens
      BY <3>1, ElementOfSeq DEF TypeOK
    <3> QED
      BY <3>1, ConstantsAssumption DEF TypeOK, Gens
  <2> QED
    BY <2>1, <2>2 DEF Order
<1>3. CASE PushTask
  <2>1. /\ queue' = Append(queue, generation) /\ tpc = "push" /\ tpc' = "cas"
        /\ UNCHANGED <<doneGen, generation, wpc, wtask>>
    BY <1>3 DEF PushTask
  <2>2. /\ Len(queue') = Len(queue) + 1 /\ Len(queue) \in Nat
        /\ queue'[Len(queue) + 1] = generation
        /\ \A i \in 1 .. Len(queue) : queue'[i] = queue[i]
    BY <2>1 DEF TypeOK
  <2>3. generation \in Nat
    BY DEF TypeOK
  <2> QED
    BY <2>1, <2>2, <2>3 DEF Order
<1>4. CASE StartWorker
  <2>1. \A v \in Workers : wpc'[v] = wpc[v] \/ wpc'[v] = "pop"
    BY <1>4 DEF StartWorker, TypeOK
  <2> QED
    BY <1>4, <2>1, SameOrder DEF StartWorker, Holding
<1>5. CASE ~(MarkStage3Done \/ ScanToMapLoop \/ Stage1 \/ PushTask \/ StartWorker)
  <2>1. UNCHANGED <<doneGen, generation, queue, wpc, wtask>>
    BY <1>5 DEF TrackingStep, SwapResults, ApplyStrict, ApplyScan, FinishApply,
       PlainFrame, DetectStrictLoop, ArmLCState, LoadLCState, RebindPatches
  <2>2. tpc' \in {"arm", "push"} => tpc \in {"arm", "push"}
    BY <1>5 DEF TrackingStep, SwapResults, ApplyStrict, ApplyScan, FinishApply,
       PlainFrame, DetectStrictLoop, ArmLCState, LoadLCState, RebindPatches, TypeOK
  <2> QED
    BY <2>1, <2>2, SameOrder
<1> QED
  BY <1>1, <1>2, <1>3, <1>4, <1>5

\* So does every step of a worker.
LEMMA OrderWorker ==
  ASSUME TypeOK, Order, NEW w \in Workers, WorkerStep(w)
  PROVE  Order'
<1> USE DEF trackingVars, atomicVars
<1>1. CASE PopTask(w)
  <2>1. CASE queue = <<>>
    <3>1. /\ wpc' = [wpc EXCEPT ![w] = "release"]
          /\ UNCHANGED <<tpc, doneGen, generation, queue, wtask>>
      BY <1>1, <2>1 DEF PopTask
    <3> QED
      BY <3>1, SameOrder DEF TypeOK, Holding
  <2>2. CASE queue # <<>>
    <3>1. /\ wpc' = [wpc EXCEPT ![w] = "associate"]
          /\ wtask' = [wtask EXCEPT ![w] = Head(queue)]
          /\ queue' = Tail(queue)
          /\ UNCHANGED <<tpc, doneGen, generation>>
      BY <1>1, <2>2 DEF PopTask
    <3>2. /\ Head(queue) = queue[1] /\ Len(queue) \in Nat \ {0}
          /\ Len(queue') = Len(queue) - 1
          /\ \A i \in 1 .. Len(queue) - 1 : queue'[i] = queue[i + 1]
      BY <2>2, <3>1, HeadTail DEF TypeOK
    <3>3. \A i \in 1 .. Len(queue) - 1 : i + 1 \in 1 .. Len(queue) /\ 1 < i + 1
      BY <3>2
    <3>4. /\ wtask'[w] = queue[1] /\ 1 \in 1 .. Len(queue)
          /\ \A v \in Workers : v # w => wtask'[v] = wtask[v] /\ wpc'[v] = wpc[v]
      BY <3>1, <3>2 DEF TypeOK
    <3> QED
      BY <3>1, <3>2, <3>3, <3>4 DEF Order
  <2> QED
    BY <2>1, <2>2
<1>2. CASE ~PopTask(w)
  <2>1. UNCHANGED <<tpc, doneGen, generation, queue>>
    BY <1>2 DEF WorkerStep, Associate, SolveAndPush, StoreApplying, AwaitStage3,
       ReleaseRunning, RecheckQueue, Restart
  <2>2. /\ \A v \in Workers : v # w => wpc'[v] = wpc[v] /\ wtask'[v] = wtask[v]
        /\ wpc'[w] \in Holding => wpc[w] \in Holding /\ wtask'[w] = wtask[w]
        /\ wpc'[w] \in {"associate", "solve"} => wpc[w] \in {"associate", "solve"}
    <3>1. CASE Associate(w)
      BY <3>1 DEF Associate, TypeOK, Holding
    <3>2. CASE SolveAndPush(w)
      BY <3>2 DEF SolveAndPush, TypeOK, Holding
    <3>3. CASE StoreApplying(w)
      BY <3>3 DEF StoreApplying, TypeOK, Holding
    <3>4. CASE AwaitStage3(w)
      BY <3>4 DEF AwaitStage3, TypeOK, Holding
    <3>5. CASE ReleaseRunning(w)
      BY <3>5 DEF ReleaseRunning, TypeOK, Holding
    <3>6. CASE RecheckQueue(w)
      BY <3>6 DEF RecheckQueue, TypeOK, Holding
    <3>7. CASE Restart(w)
      BY <3>7 DEF Restart, TypeOK, Holding
    <3> QED
      BY <1>2, <3>1, <3>2, <3>3, <3>4, <3>5, <3>6, <3>7 DEF WorkerStep
  <2> QED
    BY <2>1, <2>2, SameOrder
<1> QED
  BY <1>1, <1>2

\* Handover survives when results stay where they are and the workers that wait
\* go on waiting.
LEMMA SameHandover ==
  ASSUME Handover, UNCHANGED <<batch, pending, doneGen>>,
         \A v \in Workers : wpc[v] \in {"store", "wait"} =>
           wpc'[v] \in {"store", "wait"} /\ wtask'[v] = wtask[v]
  PROVE  Handover'
<1>1. ASSUME NEW g, Waited(g) PROVE Waited(g)'
  BY <1>1 DEF Waited
<1> QED
  BY <1>1 DEF Handover, StrictIn

\* Every step of the tracking thread keeps the hand-over: the result that is
\* taken out of the batch is the one its worker waits for.
LEMMA HandoverTracking ==
  ASSUME TypeOK, Control, SingleOptimiser, Handover, TrackingStep
  PROVE  Handover'
<1> USE DEF atomicVars, workerVars
<1>1. CASE SwapResults
  <2>1. /\ batch = <<>> /\ batch' = pending /\ pending' = <<>>
        /\ UNCHANGED <<doneGen, wpc, wtask>>
    BY <1>1 DEF SwapResults, Control
  <2>2. StrictIn(batch') = StrictIn(pending) /\ StrictIn(pending') = {}
    BY <2>1 DEF StrictIn
  <2>3. ASSUME NEW g, Waited(g) PROVE Waited(g)'
    BY <2>1, <2>3 DEF Waited
  <2> QED
    BY <2>1, <2>2, <2>3 DEF Handover, StrictIn
<1>2. CASE MarkStage3Done
  <2>1. batch # <<>> /\ Head(batch).strict /\ batch' = Tail(batch) /\ pending' = pending
    BY <1>2 DEF MarkStage3Done, Control
  <2>2. 1 \in StrictIn(batch)
    BY <2>1, HeadWaited
  <2>3. /\ Len(batch') = Len(batch) - 1 /\ Len(batch) \in Nat \ {0}
        /\ \A i \in 1 .. Len(batch) - 1 : batch'[i] = batch[i + 1]
    BY <2>1, HeadTail DEF TypeOK
  <2>4. ASSUME NEW i \in StrictIn(batch') PROVE FALSE
    <3>1. i + 1 \in StrictIn(batch) /\ i + 1 # 1
      BY <2>3, <2>4 DEF StrictIn
    <3> QED
      BY <2>2, <3>1 DEF Handover
  <2>5. StrictIn(pending') = {}
    BY <2>1, <2>2 DEF Handover, StrictIn
  <2> QED
    BY <2>4, <2>5 DEF Handover, StrictIn
<1>3. CASE ApplyScan
  <2>1. batch # <<>> /\ batch' = Tail(batch)
        /\ UNCHANGED <<pending, doneGen, wpc, wtask>>
    BY <1>3 DEF ApplyScan
  <2>2. /\ Len(batch') = Len(batch) - 1 /\ Len(batch) \in Nat \ {0}
        /\ \A i \in 1 .. Len(batch) - 1 : batch'[i] = batch[i + 1]
    BY <2>1, HeadTail DEF TypeOK
  <2>3. \A i \in StrictIn(batch') :
          i \in Nat /\ i + 1 \in StrictIn(batch) /\ batch'[i] = batch[i + 1]
    BY <2>2 DEF StrictIn
  <2>5. \A i, j \in StrictIn(batch') : i = j
    BY <2>3 DEF Handover
  <2>6. StrictIn(batch) = {} => StrictIn(batch') = {}
    BY <2>3
  <2>7. \A i \in StrictIn(batch') : Waited(batch[i + 1].gen)
    BY <2>3 DEF Handover
  <2>8. StrictIn(pending') = StrictIn(pending) /\ pending' = pending
    BY <2>1 DEF StrictIn
  <2> QED
    BY <2>1, <2>3, <2>5, <2>6, <2>7, <2>8 DEF Handover, Waited, StrictIn
<1>4. CASE ScanToMapLoop
  <2> DEFINE r == [gen |-> generation + 1, strict |-> FALSE, pack |-> {}]
  <2>1. pending' = Append(pending, r) /\ UNCHANGED <<batch, doneGen, wpc, wtask>>
    BY <1>4 DEF ScanToMapLoop
  <2>2. /\ Len(pending') = Len(pending) + 1 /\ Len(pending) \in Nat
        /\ pending'[Len(pending) + 1] = r
        /\ \A i \in 1 .. Len(pending) : pending'[i] = pending[i]
    BY <2>1 DEF TypeOK
  <2>3. ~r.strict
    OBVIOUS
  <2>4. \A i \in StrictIn(pending') : i \in StrictIn(pending) /\ pending'[i] = pending[i]
    BY <2>2, <2>3 DEF StrictIn
  <2>5. \A i \in StrictIn(pending') : Waited(pending[i].gen)
    BY <2>4 DEF Handover
  <2>6. StrictIn(pending) = {} => StrictIn(pending') = {}
    BY <2>4
  <2>7. StrictIn(batch') = StrictIn(batch) /\ batch' = batch
    BY <2>1 DEF StrictIn
  <2> QED
    BY <2>1, <2>4, <2>5, <2>6, <2>7 DEF Handover, Waited, StrictIn
<1>5. CASE StartWorker
  <2>1. \A v \in Workers : wpc[v] \in {"store", "wait"} => wpc'[v] = wpc[v]
    BY <1>5 DEF StartWorker, TypeOK
  <2> QED
    BY <1>5, <2>1, SameHandover DEF StartWorker
<1>6. CASE ~(SwapResults \/ MarkStage3Done \/ ApplyScan \/ ScanToMapLoop \/ StartWorker)
  <2>1. UNCHANGED <<batch, pending, doneGen, wpc, wtask>>
    BY <1>6 DEF TrackingStep, ApplyStrict, FinishApply, PlainFrame, DetectStrictLoop,
       Stage1, ArmLCState, PushTask, LoadLCState, RebindPatches
  <2> QED
    BY <2>1, SameHandover
<1> QED
  BY <1>1, <1>2, <1>3, <1>4, <1>5, <1>6

\* While a worker that is in its loop does not wait for stage 3, no strict
\* result is on its way.
LEMMA NoStrictResult ==
  ASSUME SingleOptimiser, Handover, NEW w \in Workers, InLoop(w),
         wpc[w] \notin {"store", "wait"} \/ wtask[w] <= doneGen,
         wtask[w] \in Nat, doneGen \in Nat
  PROVE  StrictIn(batch) = {} /\ StrictIn(pending) = {}
<1>1. ASSUME NEW g, Waited(g) PROVE FALSE
  <2>1. PICK v \in Workers : wpc[v] \in {"store", "wait"} /\ wtask[v] = g
    BY <1>1 DEF Waited
  <2>2. v = w
    BY <2>1 DEF SingleOptimiser, InLoop
  <2> QED
    BY <1>1, <2>1, <2>2 DEF Waited
<1> QED
  BY <1>1 DEF Handover

\* Every step of a worker keeps the hand-over: it pushes a result only when
\* there is none, and goes on only when its generation was published.
LEMMA HandoverWorker ==
  ASSUME TypeOK, SingleOptimiser, Order, Handover, NEW w \in Workers, WorkerStep(w)
  PROVE  Handover'
<1> USE DEF trackingVars, atomicVars
<1>1. CASE SolveAndPush(w)
  <2> DEFINE r == [gen |-> wtask[w], strict |-> TRUE, pack |-> wpack[w]]
  <2>1. /\ wpc[w] = "solve" /\ wpc' = [wpc EXCEPT ![w] = "store"]
        /\ pending' = Append(pending, r) /\ UNCHANGED <<batch, doneGen, wtask>>
    BY <1>1 DEF SolveAndPush
  <2>2. StrictIn(batch) = {} /\ StrictIn(pending) = {}
    <3>1. wtask[w] \in Nat /\ doneGen \in Nat
      BY DEF TypeOK
    <3> QED
      BY <2>1, <3>1, NoStrictResult DEF InLoop
  <2>3. /\ Len(pending') = Len(pending) + 1 /\ Len(pending) \in Nat
        /\ pending'[Len(pending) + 1] = r
        /\ \A i \in 1 .. Len(pending) : pending'[i] = pending[i]
    BY <2>1 DEF TypeOK
  <2>4. \A i \in StrictIn(pending') : i = Len(pending) + 1
    BY <2>2, <2>3 DEF StrictIn
  <2>5. doneGen < wtask[w]
    BY <2>1 DEF Order
  <2>6. wpc'[w] = "store"
    BY <2>1 DEF TypeOK
  <2>7. Waited(wtask[w])'
    BY <2>1, <2>5, <2>6 DEF Waited
  <2>8. \A i \in StrictIn(pending') : pending'[i].gen = wtask'[w]
    <3>1. r.gen = wtask[w] /\ wtask'[w] = wtask[w]
      BY <2>1
    <3> HIDE DEF r
    <3> QED
      BY <2>3, <2>4, <3>1
  <2>9. StrictIn(batch') = {}
    BY <2>1, <2>2 DEF StrictIn
  <2> QED
    BY <2>1, <2>4, <2>7, <2>8, <2>9, SMTT(30) DEF Handover, StrictIn
<1>2. CASE AwaitStage3(w)
  <2>1. /\ wpc[w] = "wait" /\ doneGen >= wtask[w]
        /\ UNCHANGED <<batch, pending>>
    BY <1>2 DEF AwaitStage3
  <2>2. StrictIn(batch) = {} /\ StrictIn(pending) = {}
    <3>1. wtask[w] \in Nat /\ doneGen \in Nat
      BY DEF TypeOK
    <3> QED
      BY <2>1, <3>1, NoStrictResult DEF InLoop
  <2> QED
    BY <2>1, <2>2 DEF Handover, StrictIn
<1>3. CASE ~(SolveAndPush(w) \/ AwaitStage3(w))
  <2>1. UNCHANGED <<batch, pending, doneGen>>
    BY <1>3 DEF WorkerStep, PopTask, Associate, StoreApplying, ReleaseRunning,
       RecheckQueue, Restart
  <2>2. /\ \A v \in Workers : v # w => wpc'[v] = wpc[v] /\ wtask'[v] = wtask[v]
        /\ wpc[w] \in {"store", "wait"} =>
             wpc'[w] \in {"store", "wait"} /\ wtask'[w] = wtask[w]
    <3>1. CASE PopTask(w)
      BY <3>1 DEF PopTask, TypeOK
    <3>2. CASE Associate(w)
      BY <3>2 DEF Associate, TypeOK
    <3>3. CASE StoreApplying(w)
      BY <3>3 DEF StoreApplying, TypeOK
    <3>4. CASE ReleaseRunning(w)
      BY <3>4 DEF ReleaseRunning, TypeOK
    <3>5. CASE RecheckQueue(w)
      BY <3>5 DEF RecheckQueue, TypeOK
    <3>6. CASE Restart(w)
      BY <3>6 DEF Restart, TypeOK
    <3> QED
      BY <1>3, <3>1, <3>2, <3>3, <3>4, <3>5, <3>6 DEF WorkerStep
  <2> QED
    BY <2>1, <2>2, SameHandover
<1> QED
  BY <1>1, <1>2, <1>3

\* strict_lc_worker and apply_pending_lc_if_any: the generations are in order and
\* every strict result has its waiting worker.
THEOREM OrderHandover == Spec => []Tickets
<1>1. Init => Order /\ Handover
  <2> SUFFICES ASSUME Init PROVE Order /\ Handover
    OBVIOUS
  <2>1. StrictIn(batch) = {} /\ StrictIn(pending) = {}
    BY DEF Init, StrictIn
  <2> QED
    BY <2>1 DEF Init, Order, Handover, Holding
<1>2. TypeOK /\ Control /\ SingleOptimiser /\ Order /\ Handover /\ [Next]_vars
        => (Order /\ Handover)'
  <2> SUFFICES ASSUME TypeOK, Control, SingleOptimiser, Order, Handover, [Next]_vars
               PROVE  (Order /\ Handover)'
    OBVIOUS
  <2>1. CASE TrackingStep
    BY <2>1, OrderTracking, HandoverTracking
  <2>2. CASE StopTracking \/ UNCHANGED vars
    <3>1. /\ UNCHANGED <<doneGen, generation, queue, batch, pending, wpc, wtask>>
          /\ tpc' = "stopped" \/ tpc' = tpc
      BY <2>2 DEF StopTracking, vars, trackingVars, atomicVars, workerVars
    <3> QED
      BY <3>1, SameOrder, SameHandover
  <2>3. CASE \E w \in Workers : WorkerStep(w)
    BY <2>3, OrderWorker, HandoverWorker
  <2> QED
    BY <2>1, <2>2, <2>3 DEF Next
<1> QED
  BY <1>1, <1>2, TypeControl, OneOptimiser, PTL DEF Spec, Tickets

\* While the tracking thread applies or acknowledges a strict result, no worker
\* associates or solves: its own worker waits for it, and there is no other.
THEOREM Stage3Alone == Spec => []Stage3Exclusive
<1>1. TypeOK /\ Control /\ SingleOptimiser /\ Tickets => Stage3Exclusive
  BY HeadWaited DEF Control, Stage3Exclusive, Tickets
<1> QED
  BY <1>1, TypeControl, OneOptimiser, OrderHandover, PTL

-----------------------------------------------------------------------------
(* Plans, counts and results: the inductive invariants                     *)

\* The generations of strict loops, and those of them that were applied;
\* lc_applied_strict is ahead of strict_stage3_done_gen only between the two
\* halves of stage 3.
Applied ==
  /\ strictGens \subseteq 1 .. generation
  /\ \A i \in 1 .. Len(adjusted) : adjusted[i] <= appliedStrict
  /\ appliedStrict = IF tpc = "mark" THEN Head(batch).gen ELSE doneGen

\* Tasks are made for strict loops only.
Known ==
  /\ tpc \in {"arm", "push"} => generation \in strictGens
  /\ \A i \in 1 .. Len(queue) : queue[i] \in strictGens
  /\ \A w \in Workers : wpc[w] \in Holding => wtask[w] \in strictGens

\* The loop is taken by a worker, or its result is on its way to stage 3.
InHand(g) ==
  \/ \E w \in Workers : wpc[w] \in {"associate", "solve"} /\ wtask[w] = g
  \/ \E i \in StrictIn(pending) : pending[i].gen = g
  \/ tpc # "mark" /\ \E i \in StrictIn(batch) : batch[i].gen = g

\* A loop that is not applied yet is about to be queued, queued, or in hand.
Placed(g) ==
  \/ tpc \in {"arm", "push"} /\ g = generation
  \/ \E i \in 1 .. Len(queue) : queue[i] = g
  \/ InHand(g)

Located == \A g \in Outstanding : Placed(g)

\* A worker that will look at the queue before it leaves its loop.
Pulling == \E w \in Workers : wpc[w] \in {"pop"} \cup Holding

\* Where lc_state is IDLE, was seen IDLE or is about to become IDLE, a loop that
\* is not applied yet has a worker in its loop.
Guarded ==
  /\ tpc \in {"push", "cas"} => lcState # "IDLE"
  /\ \/ lcState = "IDLE" /\ tpc # "arm"
     \/ tpc = "rebind" /\ seen = "IDLE"
     \/ tpc \in {"apply", "mark"} /\ processed
     => Outstanding = {} \/ Pulling

ScanIn(s) == {i \in 1 .. Len(s) : ~s[i].strict}

Rising(s) ==
  \A i \in ScanIn(s) :
    /\ appliedScan < s[i].gen /\ s[i].gen <= generation
    /\ \A j \in ScanIn(s) : i < j => s[i].gen < s[j].gen

\* Scan-to-map results are in the order of their generations, in the batch, in
\* the queue behind it, and with respect to what was applied.
ScanOrder ==
  /\ appliedScan <= generation
  /\ Rising(batch) /\ Rising(pending)
  /\ \A i \in ScanIn(batch) : \A j \in ScanIn(pending) : batch[i].gen < pending[j].gen

\* A plan exists only between stage 1 and stage 3 of its loop.
Planned == \A g \in Gens \ Outstanding : plan[g] = NoPlan

\* A pack, with its worker or on its way to stage 3, is made of patches of the
\* map that the loop's own plan leaves alone.
Intact(pack, g) == pack \subseteq Mapped \ PlanPatches(g)

Packs ==
  /\ \A w \in Workers : wpc[w] = "solve" => Intact(wpack[w], wtask[w])
  /\ \A i \in StrictIn(pending) : Intact(pending[i].pack, pending[i].gen)
  /\ tpc # "mark" =>
       \A i \in StrictIn(batch) : Intact(batch[i].pack, batch[i].gen)

-----------------------------------------------------------------------------
(* Sequences and the head of the batch                                     *)

\* The elements of a tail are those of the sequence behind its head.
LEMMA TailIn ==
  ASSUME NEW S, NEW s \in Seq(S), s # <<>>
  PROVE  /\ \A i \in 1 .. Len(Tail(s)) : i + 1 \in 1 .. Len(s) /\ Tail(s)[i] = s[i + 1]
         /\ \A j \in 1 .. Len(s) :
              j = 1 \/ (j - 1 \in 1 .. Len(Tail(s)) /\ Tail(s)[j - 1] = s[j])
<1>1. /\ Len(s) \in Nat \ {0} /\ Len(Tail(s)) = Len(s) - 1
      /\ \A i \in 1 .. Len(s) - 1 : Tail(s)[i] = s[i + 1]
  BY HeadTail
<1>2. ASSUME NEW j \in 1 .. Len(s), j # 1
      PROVE  j - 1 \in 1 .. Len(Tail(s)) /\ Tail(s)[j - 1] = s[j]
  <2>1. j - 1 \in 1 .. Len(s) - 1 /\ (j - 1) + 1 = j
    BY <1>1, <1>2
  <2> QED
    BY <1>1, <2>1
<1> QED
  BY <1>1, <1>2

\* The elements of an extended sequence.
LEMMA AppendIn ==
  ASSUME NEW S, NEW s \in Seq(S), NEW e \in S
  PROVE  /\ Len(s) \in Nat /\ Len(Append(s, e)) = Len(s) + 1
         /\ Append(s, e)[Len(s) + 1] = e
         /\ \A i \in 1 .. Len(s) : Append(s, e)[i] = s[i]
         /\ \A i \in 1 .. Len(s) + 1 : i \in 1 .. Len(s) \/ i = Len(s) + 1
OBVIOUS

\* A strict result at the head of the batch is the only one on its way; its
\* generation is new, and its worker waits.
LEMMA HeadOnly ==
  ASSUME TypeOK, SingleOptimiser, Handover, batch # <<>>, Head(batch).strict
  PROVE  /\ Head(batch) \in Results /\ Head(batch) = batch[1]
         /\ StrictIn(batch) = {1} /\ StrictIn(pending) = {}
         /\ Waited(Head(batch).gen)
         /\ Head(batch).gen \in Gens /\ doneGen < Head(batch).gen
<1>1. Head(batch) \in Results /\ Head(batch) = batch[1]
  BY HeadTail DEF TypeOK
<1>2. 1 \in StrictIn(batch) /\ Waited(Head(batch).gen)
  BY HeadWaited
<1>3. StrictIn(batch) = {1} /\ StrictIn(pending) = {}
  BY <1>2 DEF Handover
<1> QED
  BY <1>1, <1>2, <1>3 DEF Waited, Results

-----------------------------------------------------------------------------
(* Which loops there are                                                   *)

\* Stage 3 never meets a stale result: it applies the plan and moves on.
LEMMA Stage3Applies ==
  ASSUME TypeOK, SingleOptimiser, Handover, Applied, ApplyStrict
  PROVE  LET g == Head(batch).gen IN
         /\ g \in Gens /\ doneGen < g /\ appliedStrict = doneGen
         /\ adjusted' = Append(adjusted, g) /\ appliedStrict' = g
         /\ RemoveOverlaps(g)
         /\ Outstanding' = Outstanding \ {g}
<1> DEFINE g == Head(batch).gen
<1>1. g \in Gens /\ doneGen < g
  BY HeadOnly DEF ApplyStrict
<1>2. appliedStrict = doneGen /\ ~(g <= appliedStrict)
  BY <1>1 DEF ApplyStrict, Applied, TypeOK, Gens
<1>3. /\ appliedStrict' = g /\ adjusted' = Append(adjusted, g) /\ RemoveOverlaps(g)
      /\ strictGens' = strictGens
  BY <1>2 DEF ApplyStrict
<1> HIDE DEF g
<1>4. {adjusted'[i] : i \in 1 .. Len(adjusted')} =
        {adjusted[i] : i \in 1 .. Len(adjusted)} \cup {g}
  BY <1>1, <1>3, AppendIn DEF TypeOK
<1>5. Outstanding' = Outstanding \ {g}
  BY <1>3, <1>4 DEF Outstanding
<1> QED
  BY <1>1, <1>2, <1>3, <1>5 DEF g

\* Every step of the tracking thread keeps Applied: a strict result is never
\* stale when stage 3 looks at it.
LEMMA AppliedTracking ==
  ASSUME TypeOK, Control, SingleOptimiser, Handover, Applied, TrackingStep
  PROVE  Applied'
<1> USE DEF atomicVars, workerVars, mapVars
<1>1. CASE ApplyStrict
  <2> DEFINE g == Head(batch).gen
  <2>1. /\ g \in Gens /\ doneGen < g /\ appliedStrict = doneGen
        /\ appliedStrict' = g /\ adjusted' = Append(adjusted, g)
    BY <1>1, Stage3Applies
  <2>2. tpc' = "mark" /\ UNCHANGED <<batch, strictGens, generation>>
    BY <1>1 DEF ApplyStrict
  <2>3. \A i \in 1 .. Len(adjusted) : adjusted[i] \in Nat
    <3>1. \A i \in 1 .. Len(adjusted) : adjusted[i] \in Gens
      BY ElementOfSeq DEF TypeOK
    <3> QED
      BY <3>1 DEF Gens
  <2> HIDE DEF g
  <2>4. \A i \in 1 .. Len(adjusted') : adjusted'[i] <= g
    BY <2>1, <2>3, AppendIn DEF Applied, TypeOK, Gens
  <2> QED
    BY <2>1, <2>2, <2>4 DEF Applied, g
<1>2. CASE MarkStage3Done
  <2> DEFINE g == Head(batch).gen
  <2>1. batch # <<>> /\ Head(batch).strict /\ tpc = "mark"
    BY <1>2 DEF MarkStage3Done, Control
  <2>2. g \in Gens /\ doneGen < g
    BY <2>1, HeadOnly
  <2> HIDE DEF g
  <2>3. /\ doneGen' = g /\ tpc' = "apply"
        /\ UNCHANGED <<strictGens, generation, appliedStrict, adjusted>>
    BY <1>2, <2>2 DEF MarkStage3Done, TypeOK, Gens, g
  <2> QED
    BY <2>1, <2>3 DEF Applied, g
<1>3. CASE ScanToMapLoop \/ Stage1
  <2>1. /\ generation' = generation + 1 /\ tpc \notin {"mark"} /\ tpc' # "mark"
        /\ strictGens' \subseteq strictGens \cup {generation'}
        /\ UNCHANGED <<appliedStrict, doneGen, adjusted>>
    BY <1>3 DEF ScanToMapLoop, Stage1
  <2>2. generation \in Nat
    BY DEF TypeOK
  <2> QED
    BY <2>1, <2>2 DEF Applied
<1>4. CASE ~(ApplyStrict \/ MarkStage3Done \/ ScanToMapLoop \/ Stage1)
  <2>1. /\ tpc # "mark" /\ tpc' # "mark"
        /\ UNCHANGED <<generation, strictGens, appliedStrict, doneGen, adjusted>>
    BY <1>4 DEF TrackingStep, SwapResults, ApplyScan, FinishApply, PlainFrame,
       DetectStrictLoop, ArmLCState, PushTask, StartWorker, LoadLCState,
       RebindPatches, TypeOK
  <2> QED
    BY <2>1 DEF Applied
<1> QED
  BY <1>1, <1>2, <1>3, <1>4

\* Every step of the tracking thread keeps Known.
LEMMA KnownTracking ==
  ASSUME TypeOK, Known, TrackingStep
  PROVE  Known'
<1> USE DEF atomicVars, workerVars, mapVars
<1>1. CASE Stage1
  <2>1. /\ generation' \in strictGens' /\ strictGens \subseteq strictGens'
        /\ UNCHANGED <<queue, wpc, wtask>>
    BY <1>1 DEF Stage1
  <2> QED
    BY <2>1 DEF Known
<1>2. CASE PushTask
  <2>1. /\ tpc = "push" /\ tpc' = "cas" /\ queue' = Append(queue, generation)
        /\ UNCHANGED <<strictGens, wpc, wtask>>
    BY <1>2 DEF PushTask
  <2>2. generation \in strictGens /\ generation \in Gens
    BY <2>1 DEF Known, TypeOK
  <2> QED
    BY <2>1, <2>2, AppendIn DEF Known, TypeOK
<1>3. CASE StartWorker
  BY <1>3 DEF StartWorker, Known, Holding, TypeOK
<1>4. CASE ~(Stage1 \/ PushTask \/ StartWorker)
  <2>1. /\ tpc' \in {"arm", "push"} => tpc \in {"arm", "push"} /\ generation' = generation
        /\ UNCHANGED <<strictGens, queue, wpc, wtask>>
    BY <1>4 DEF TrackingStep, SwapResults, ApplyStrict, MarkStage3Done, ApplyScan,
       FinishApply, PlainFrame, ScanToMapLoop, DetectStrictLoop, ArmLCState,
       LoadLCState, RebindPatches, TypeOK
  <2> QED
    BY <2>1 DEF Known
<1> QED
  BY <1>1, <1>2, <1>3, <1>4

\* What a worker does to its control point and its task, and to nothing else.
LEMMA WorkerFrame ==
  ASSUME TypeOK, NEW w \in Workers, WorkerStep(w)
  PROVE  /\ UNCHANGED <<trackingVars, generation, appliedStrict, appliedScan, doneGen,
                        mapVars>>
         /\ \A v \in Workers : v # w =>
              wpc'[v] = wpc[v] /\ wtask'[v] = wtask[v] /\ wpack'[v] = wpack[v]
<1> USE DEF trackingVars, atomicVars, mapVars, TypeOK
<1>1. CASE PopTask(w)
  BY <1>1 DEF PopTask
<1>2. CASE Associate(w)
  BY <1>2 DEF Associate
<1>3. CASE SolveAndPush(w)
  BY <1>3 DEF SolveAndPush
<1>4. CASE StoreApplying(w)
  BY <1>4 DEF StoreApplying
<1>5. CASE AwaitStage3(w)
  BY <1>5 DEF AwaitStage3
<1>6. CASE ReleaseRunning(w)
  BY <1>6 DEF ReleaseRunning
<1>7. CASE RecheckQueue(w)
  BY <1>7 DEF RecheckQueue
<1>8. CASE Restart(w)
  BY <1>8 DEF Restart
<1> QED
  BY <1>1, <1>2, <1>3, <1>4, <1>5, <1>6, <1>7, <1>8 DEF WorkerStep

\* The control points a worker can go through outside PopTask.
LEMMA WorkerMoves ==
  ASSUME TypeOK, NEW w \in Workers, WorkerStep(w), ~PopTask(w)
  PROVE  /\ queue' = queue
         /\ wpc'[w] \in Holding => wpc[w] \in Holding /\ wtask'[w] = wtask[w]
         /\ \/ wpc[w] = "associate" /\ wpc'[w] = "solve"
            \/ wpc[w] = "solve" /\ wpc'[w] = "store"
            \/ wpc[w] = "store" /\ wpc'[w] = "wait"
            \/ wpc[w] = "wait" /\ wpc'[w] = "pop"
            \/ wpc[w] \notin {"pop"} \cup Holding /\ wpc'[w] \notin Holding
<1> USE DEF TypeOK, Holding
<1>2. CASE Associate(w)
  BY <1>2 DEF Associate
<1>3. CASE SolveAndPush(w)
  BY <1>3 DEF SolveAndPush
<1>4. CASE StoreApplying(w)
  BY <1>4 DEF StoreApplying
<1>5. CASE AwaitStage3(w)
  BY <1>5 DEF AwaitStage3
<1>6. CASE ReleaseRunning(w)
  BY <1>6 DEF ReleaseRunning
<1>7. CASE RecheckQueue(w)
  BY <1>7 DEF RecheckQueue
<1>8. CASE Restart(w)
  BY <1>8 DEF Restart
<1> QED
  BY <1>2, <1>3, <1>4, <1>5, <1>6, <1>7, <1>8 DEF WorkerStep

\* PopTask takes the head of the queue.
LEMMA PopMoves ==
  ASSUME TypeOK, NEW w \in Workers, PopTask(w)
  PROVE  /\ wpc[w] = "pop" /\ UNCHANGED <<batch, pending, lcState>>
         /\ \/ queue = <<>> /\ wpc'[w] = "release" /\ UNCHANGED <<queue, wtask>>
            \/ /\ queue # <<>> /\ wpc'[w] = "associate"
               /\ wtask'[w] = queue[1] /\ queue' = Tail(queue)
<1>1. queue # <<>> => Head(queue) = queue[1]
  BY HeadTail DEF TypeOK
<1> QED
  BY <1>1 DEF PopTask, TypeOK, trackingVars, atomicVars

\* Every step of a worker keeps Known.
LEMMA KnownWorker ==
  ASSUME TypeOK, Known, NEW w \in Workers, WorkerStep(w)
  PROVE  Known'
<1>1. /\ UNCHANGED <<tpc, generation, strictGens>>
      /\ \A v \in Workers : v # w => wpc'[v] = wpc[v] /\ wtask'[v] = wtask[v]
  BY WorkerFrame DEF trackingVars, mapVars
<1>2. CASE PopTask(w)
  <2>1. CASE queue = <<>>
    BY <1>1, <1>2, <2>1, PopMoves DEF Known, Holding
  <2>2. CASE queue # <<>>
    <3>1. wtask'[w] = queue[1] /\ queue' = Tail(queue) /\ 1 \in 1 .. Len(queue)
      BY <1>2, <2>2, PopMoves, HeadTail DEF TypeOK
    <3>2. \A i \in 1 .. Len(queue') : queue'[i] \in strictGens
      BY <2>2, <3>1, TailIn DEF Known, TypeOK
    <3> QED
      BY <1>1, <3>1, <3>2 DEF Known
  <2> QED
    BY <2>1, <2>2
<1>3. CASE ~PopTask(w)
  BY <1>1, <1>3, WorkerMoves DEF Known
<1> QED
  BY <1>2, <1>3

-----------------------------------------------------------------------------
(* Where the loops are                                                     *)

\* Every step of the tracking thread keeps Located: results move from the queue
\* to the batch, and only an applied one is dropped.
LEMMA LocatedTracking ==
  ASSUME TypeOK, Control, SingleOptimiser, Handover, Applied, Located, TrackingStep
  PROVE  Located'
<1> USE DEF atomicVars, workerVars, mapVars
<1>1. CASE SwapResults
  <2>1. /\ batch = <<>> /\ batch' = pending /\ tpc = "swap" /\ tpc' # "mark"
        /\ UNCHANGED <<queue, wpc, wtask, strictGens, adjusted>>
    BY <1>1 DEF SwapResults, Control, TypeOK
  <2>2. StrictIn(batch) = {} /\ StrictIn(batch') = StrictIn(pending)
    BY <2>1 DEF StrictIn
  <2>3. ASSUME NEW h, Placed(h) PROVE Placed(h)'
    BY <2>1, <2>2, <2>3 DEF Placed, InHand
  <2> QED
    BY <2>1, <2>3 DEF Located, Outstanding
<1>2. CASE ApplyStrict
  <2> DEFINE g == Head(batch).gen
  <2>1. Outstanding' = Outstanding \ {g}
    BY <1>2, Stage3Applies
  <2>2. StrictIn(batch) = {1} /\ batch[1].gen = g
    BY <1>2, HeadOnly DEF ApplyStrict
  <2>3. /\ tpc = "apply" /\ tpc' = "mark"
        /\ UNCHANGED <<batch, pending, queue, wpc, wtask>>
    BY <1>2 DEF ApplyStrict
  <2> HIDE DEF g
  <2>4. ASSUME NEW h, Placed(h), h # g PROVE Placed(h)'
    BY <2>2, <2>3, <2>4 DEF Placed, InHand, StrictIn
  <2> QED
    BY <2>1, <2>4 DEF Located
<1>3. CASE MarkStage3Done
  <2>1. /\ tpc = "mark" /\ tpc' = "apply"
        /\ UNCHANGED <<pending, queue, wpc, wtask, strictGens, adjusted>>
    BY <1>3 DEF MarkStage3Done
  <2>2. ASSUME NEW h, Placed(h) PROVE Placed(h)'
    BY <2>1, <2>2 DEF Placed, InHand, StrictIn
  <2> QED
    BY <2>1, <2>2 DEF Located, Outstanding
<1>4. CASE ApplyScan
  <2>1. /\ batch # <<>> /\ ~Head(batch).strict /\ batch' = Tail(batch)
        /\ UNCHANGED <<tpc, generation, pending, queue, wpc, wtask, strictGens, adjusted>>
    BY <1>4 DEF ApplyScan
  <2>2. Head(batch) = batch[1]
    BY <2>1, HeadTail DEF TypeOK
  <2>3. \A j \in 1 .. Len(batch) :
          j = 1 \/ (j - 1 \in 1 .. Len(batch') /\ batch'[j - 1] = batch[j])
    BY <2>1, TailIn DEF TypeOK
  <2>4. \A j \in StrictIn(batch) :
          j - 1 \in StrictIn(batch') /\ batch'[j - 1] = batch[j]
    BY <2>1, <2>2, <2>3 DEF StrictIn
  <2>5. StrictIn(pending') = StrictIn(pending)
    BY <2>1 DEF StrictIn
  <2>6. ASSUME NEW h, Placed(h) PROVE Placed(h)'
    BY <2>1, <2>4, <2>5, <2>6 DEF Placed, InHand
  <2> QED
    BY <2>1, <2>6 DEF Located, Outstanding
<1>5. CASE ScanToMapLoop
  <2>1. /\ tpc = "frame"
        /\ \E r \in Results : pending' = Append(pending, r)
        /\ UNCHANGED <<batch, queue, wpc, wtask, strictGens, adjusted>>
        /\ tpc' # "mark"
    <3> DEFINE r == [gen |-> generation + 1, strict |-> FALSE, pack |-> {}]
    <3>1. r \in Results
      BY <1>5, ConstantsAssumption DEF ScanToMapLoop, Results, Gens, TypeOK
    <3>2. pending' = Append(pending, r)
      BY <1>5 DEF ScanToMapLoop
    <3> HIDE DEF r
    <3> QED
      BY <1>5, <3>1, <3>2 DEF ScanToMapLoop
  <2>2. \A i \in StrictIn(pending) : i \in StrictIn(pending') /\ pending'[i] = pending[i]
    BY <2>1, AppendIn DEF StrictIn, TypeOK
  <2>3. StrictIn(batch') = StrictIn(batch)
    BY <2>1 DEF StrictIn
  <2>4. ASSUME NEW h, Placed(h) PROVE Placed(h)'
    BY <2>1, <2>2, <2>3, <2>4 DEF Placed, InHand
  <2> QED
    BY <2>1, <2>4 DEF Located, Outstanding
<1>6. CASE Stage1
  <2>1. /\ tpc = "stage1" /\ tpc' = "arm"
        /\ strictGens' = strictGens \cup {generation'}
        /\ UNCHANGED <<batch, pending, queue, wpc, wtask, adjusted>>
    BY <1>6 DEF Stage1
  <2>2. ASSUME NEW h, Placed(h) PROVE Placed(h)'
    BY <2>1, <2>2 DEF Placed, InHand, StrictIn
  <2>3. Placed(generation)'
    BY <2>1 DEF Placed
  <2> QED
    BY <2>1, <2>2, <2>3 DEF Located, Outstanding
<1>7. CASE PushTask
  <2>1. /\ tpc = "push" /\ tpc' = "cas" /\ queue' = Append(queue, generation)
        /\ UNCHANGED <<batch, pending, wpc, wtask, strictGens, adjusted>>
    BY <1>7 DEF PushTask
  <2>2. /\ \A i \in 1 .. Len(queue) : i \in 1 .. Len(queue') /\ queue'[i] = queue[i]
        /\ \E i \in 1 .. Len(queue') : queue'[i] = generation
    <3>1. generation \in Gens
      BY <2>1 DEF Control, TypeOK, Gens
    <3>2. /\ Len(queue) \in Nat /\ Len(queue') = Len(queue) + 1
          /\ queue'[Len(queue) + 1] = generation
          /\ \A i \in 1 .. Len(queue) : queue'[i] = queue[i]
      BY <2>1, <3>1, AppendIn DEF TypeOK
    <3> QED
      BY <3>2
  <2>3. ASSUME NEW h, Placed(h) PROVE Placed(h)'
    BY <2>1, <2>2, <2>3 DEF Placed, InHand, StrictIn
  <2> QED
    BY <2>1, <2>3 DEF Located, Outstanding
<1>8. CASE StartWorker
  <2>1. /\ tpc = "cas" /\ tpc' = "load"
        /\ \A w \in Workers : wpc[w] \in {"associate", "solve"} => wpc'[w] = wpc[w]
        /\ UNCHANGED <<batch, pending, queue, wtask, strictGens, adjusted>>
    BY <1>8 DEF StartWorker, TypeOK
  <2>2. ASSUME NEW h, Placed(h) PROVE Placed(h)'
    BY <2>1, <2>2 DEF Placed, InHand, StrictIn
  <2> QED
    BY <2>1, <2>2 DEF Located, Outstanding
<1>9. CASE ~(SwapResults \/ ApplyStrict \/ MarkStage3Done \/ ApplyScan \/ ScanToMapLoop
             \/ Stage1 \/ PushTask \/ StartWorker)
  <2>1. /\ tpc \in {"arm", "push"} => tpc' \in {"arm", "push"}
        /\ tpc # "mark" /\ tpc' # "mark"
        /\ UNCHANGED <<generation, batch, pending, queue, wpc, wtask, strictGens, adjusted>>
    BY <1>9 DEF TrackingStep, FinishApply, PlainFrame, DetectStrictLoop, ArmLCState,
       LoadLCState, RebindPatches, TypeOK
  <2>2. ASSUME NEW h, Placed(h) PROVE Placed(h)'
    BY <2>1, <2>2 DEF Placed, InHand, StrictIn
  <2> QED
    BY <2>1, <2>2 DEF Located, Outstanding
<1> QED
  BY <1>1, <1>2, <1>3, <1>4, <1>5, <1>6, <1>7, <1>8, <1>9

\* Every step of a worker keeps Located: a task becomes an adjustment, and an
\* adjustment a result.
LEMMA LocatedWorker ==
  ASSUME TypeOK, Located, NEW w \in Workers, WorkerStep(w)
  PROVE  Located'
<1>1. /\ UNCHANGED <<tpc, generation, batch, strictGens, adjusted>>
      /\ \A v \in Workers : v # w => wpc'[v] = wpc[v] /\ wtask'[v] = wtask[v]
  BY WorkerFrame DEF trackingVars, mapVars
<1>2. CASE PopTask(w)
  <2>1. wpc[w] = "pop" /\ pending' = pending
    BY <1>2, PopMoves
  <2>2. ASSUME NEW i \in 1 .. Len(queue)
        PROVE  \/ wpc'[w] = "associate" /\ wtask'[w] = queue[i]
               \/ \E j \in 1 .. Len(queue') : queue'[j] = queue[i]
    <3>1. CASE queue = <<>>
      BY <1>2, <3>1, PopMoves
    <3>2. CASE queue # <<>>
      <4>1. wpc'[w] = "associate" /\ wtask'[w] = queue[1] /\ queue' = Tail(queue)
        BY <1>2, <3>2, PopMoves
      <4>2. i = 1 \/ (i - 1 \in 1 .. Len(Tail(queue)) /\ Tail(queue)[i - 1] = queue[i])
        BY <3>2, TailIn DEF TypeOK
      <4> QED
        BY <4>1, <4>2
    <3> QED
      BY <3>1, <3>2
  <2>3. ASSUME NEW h, Placed(h) PROVE Placed(h)'
    BY <1>1, <2>1, <2>2, <2>3 DEF Placed, InHand, StrictIn
  <2> QED
    BY <1>1, <2>3 DEF Located, Outstanding
<1>3. CASE SolveAndPush(w)
  <2> DEFINE r == [gen |-> wtask[w], strict |-> TRUE, pack |-> wpack[w]]
  <2>1. /\ pending' = Append(pending, r) /\ queue' = queue /\ wpc[w] = "solve"
    BY <1>3 DEF SolveAndPush
  <2>2. r.strict /\ r.gen = wtask[w]
    OBVIOUS
  <2> HIDE DEF r
  <2>3. /\ \A i \in 1 .. Len(pending) : i \in 1 .. Len(pending') /\ pending'[i] = pending[i]
        /\ Len(pending) + 1 \in 1 .. Len(pending')
        /\ pending'[Len(pending) + 1] = r
    BY <2>1 DEF TypeOK
  <2>4. \A i \in StrictIn(pending) : i \in StrictIn(pending') /\ pending'[i] = pending[i]
    BY <2>3 DEF StrictIn
  <2>5. Len(pending) + 1 \in StrictIn(pending') /\ pending'[Len(pending) + 1].gen = wtask[w]
    BY <2>2, <2>3 DEF StrictIn
  <2>6. StrictIn(batch') = StrictIn(batch)
    BY <1>1 DEF StrictIn
  <2>7. ASSUME NEW h, Placed(h) PROVE Placed(h)'
    BY <1>1, <2>1, <2>4, <2>5, <2>6, <2>7 DEF Placed, InHand
  <2> QED
    BY <1>1, <2>7 DEF Located, Outstanding
<1>4. CASE ~PopTask(w) /\ ~SolveAndPush(w)
  <2>1. queue' = queue /\ pending' = pending
    BY <1>4 DEF WorkerStep, Associate, StoreApplying, AwaitStage3, ReleaseRunning,
       RecheckQueue, Restart
  <2>2. wpc[w] \in {"associate", "solve"} =>
          wpc'[w] \in {"associate", "solve"} /\ wtask'[w] = wtask[w]
    <3>1. CASE Associate(w)
      BY <3>1 DEF Associate, TypeOK
    <3>2. CASE ~Associate(w)
      BY <1>4, <3>2 DEF WorkerStep, StoreApplying, AwaitStage3, ReleaseRunning,
         RecheckQueue, Restart
    <3> QED
      BY <3>1, <3>2
  <2>3. ASSUME NEW h, Placed(h) PROVE Placed(h)'
    BY <1>1, <2>1, <2>2, <2>3 DEF Placed, InHand, StrictIn
  <2> QED
    BY <1>1, <2>3 DEF Located, Outstanding
<1> QED
  BY <1>2, <1>3, <1>4

\* Every step of the tracking thread keeps Guarded: lc_state is set to IDLE only
\* behind a strict result, whose worker comes back to the queue.
LEMMA GuardedTracking ==
  ASSUME TypeOK, Control, SingleOptimiser, Handover, Applied, Guarded, TrackingStep
  PROVE  Guarded'
<1> USE DEF atomicVars, workerVars, mapVars
<1>1. CASE ApplyStrict
  <2>1. /\ tpc = "apply" /\ tpc' = "mark"
        /\ UNCHANGED <<lcState, processed, wpc>>
    BY <1>1 DEF ApplyStrict
  <2>2. Outstanding' \subseteq Outstanding
    BY <1>1, Stage3Applies
  <2> QED
    BY <2>1, <2>2 DEF Guarded, Pulling, Holding
<1>2. CASE MarkStage3Done
  <2>1. batch # <<>> /\ Head(batch).strict /\ tpc' = "apply" /\ wpc' = wpc
    BY <1>2 DEF MarkStage3Done, Control
  <2>2. Waited(Head(batch).gen)
    BY <2>1, HeadOnly
  <2>3. Pulling'
    BY <2>1, <2>2 DEF Waited, Pulling, Holding
  <2> QED
    BY <2>1, <2>3 DEF Guarded
<1>3. CASE Stage1
  BY <1>3 DEF Stage1, Guarded
<1>4. CASE StartWorker
  BY <1>4 DEF StartWorker, Guarded
<1>5. CASE ~(ApplyStrict \/ MarkStage3Done \/ Stage1 \/ StartWorker)
  <2>1. UNCHANGED <<strictGens, adjusted, wpc>>
    BY <1>5 DEF TrackingStep, SwapResults, ApplyScan, FinishApply, PlainFrame,
       ScanToMapLoop, DetectStrictLoop, ArmLCState, PushTask, LoadLCState, RebindPatches
  <2>2. Outstanding' = Outstanding /\ Pulling' = Pulling
    BY <2>1 DEF Outstanding, Pulling
  <2>3. CASE SwapResults
    BY <2>2, <2>3 DEF SwapResults, Guarded, TypeOK
  <2>4. CASE ApplyScan
    BY <2>2, <2>4 DEF ApplyScan, Guarded
  <2>5. CASE FinishApply
    BY <2>2, <2>5 DEF FinishApply, Guarded, TypeOK
  <2>6. CASE PlainFrame \/ ScanToMapLoop \/ DetectStrictLoop
    BY <2>2, <2>6 DEF PlainFrame, ScanToMapLoop, DetectStrictLoop, Guarded
  <2>7. CASE ArmLCState \/ PushTask
    BY <2>2, <2>7 DEF ArmLCState, PushTask, Guarded
  <2>8. CASE LoadLCState \/ RebindPatches
    BY <2>2, <2>8 DEF LoadLCState, RebindPatches, Guarded
  <2> QED
    BY <1>5, <2>3, <2>4, <2>5, <2>6, <2>7, <2>8 DEF TrackingStep
<1> QED
  BY <1>1, <1>2, <1>3, <1>4, <1>5

\* A worker that finds the queue empty leaves no loop behind, unless the
\* tracking thread is about to queue one.
LEMMA NothingQueued ==
  ASSUME TypeOK, SingleOptimiser, Handover, Located, NEW w \in Workers,
         wpc[w] = "pop", queue = <<>>, tpc \notin {"arm", "push"}
  PROVE  Outstanding = {}
<1>1. StrictIn(batch) = {} /\ StrictIn(pending) = {}
  <2>1. wtask[w] \in Nat /\ doneGen \in Nat
    BY DEF TypeOK
  <2> QED
    BY <2>1, NoStrictResult DEF InLoop
<1>2. ASSUME NEW v \in Workers, wpc[v] \in {"associate", "solve"} PROVE FALSE
  <2>1. v = w
    BY <1>2 DEF SingleOptimiser, InLoop
  <2> QED
    BY <1>2, <2>1
<1>3. 1 .. Len(queue) = {}
  OBVIOUS
<1> QED
  BY <1>1, <1>2, <1>3 DEF Located, Placed, InHand

\* Every step of a worker keeps Guarded.
LEMMA GuardedWorker ==
  ASSUME TypeOK, SingleOptimiser, Handover, Located, Guarded,
         NEW w \in Workers, WorkerStep(w)
  PROVE  Guarded'
<1>1. /\ UNCHANGED <<tpc, seen, processed, strictGens, adjusted>>
      /\ \A v \in Workers : v # w => wpc'[v] = wpc[v]
  BY WorkerFrame DEF trackingVars, mapVars
<1>2. Outstanding' = Outstanding
  BY <1>1 DEF Outstanding
<1>3. CASE PopTask(w) /\ queue = <<>>
  <2>1. wpc[w] = "pop" /\ lcState' = lcState
    BY <1>3, PopMoves
  <2>2. tpc \notin {"arm", "push"} => Outstanding = {}
    BY <1>3, <2>1, NothingQueued
  <2> QED
    BY <1>1, <1>2, <2>1, <2>2 DEF Guarded
<1>4. CASE PopTask(w) /\ queue # <<>>
  <2>1. wpc'[w] = "associate" /\ lcState' = lcState
    BY <1>4, PopMoves
  <2> QED
    BY <1>1, <1>2, <2>1 DEF Guarded, Pulling, Holding
<1>5. CASE ~PopTask(w)
  <2>1. lcState' = lcState \/ lcState' = "APPLYING"
    BY <1>5 DEF WorkerStep, Associate, SolveAndPush, StoreApplying, AwaitStage3,
       ReleaseRunning, RecheckQueue, Restart, atomicVars
  <2>2. Pulling => Pulling'
    <3>1. SUFFICES ASSUME NEW v \in Workers, wpc[v] \in {"pop"} \cup Holding
                   PROVE  wpc'[v] \in {"pop"} \cup Holding
      BY DEF Pulling
    <3>2. CASE v # w
      BY <1>1, <3>1, <3>2
    <3>3. CASE v = w
      BY <1>5, <3>1, <3>3, WorkerMoves DEF Holding, WorkerStep, Associate, SolveAndPush,
         StoreApplying, AwaitStage3, ReleaseRunning, RecheckQueue, Restart
    <3> QED
      BY <3>2, <3>3
  <2> QED
    BY <1>1, <1>2, <2>1, <2>2 DEF Guarded
<1> QED
  BY <1>3, <1>4, <1>5

-----------------------------------------------------------------------------
(* Scan-to-map results                                                     *)

\* Every step of the tracking thread keeps the scan-to-map results in order.
LEMMA ScanTracking ==
  ASSUME TypeOK, Control, ScanOrder, TrackingStep
  PROVE  ScanOrder'
<1> USE DEF atomicVars, workerVars, mapVars
<1>1. CASE SwapResults
  <2>1. batch = <<>> /\ batch' = pending /\ pending' = <<>>
        /\ UNCHANGED <<appliedScan, generation>>
    BY <1>1 DEF SwapResults, Control
  <2>2. ScanIn(batch') = ScanIn(pending) /\ ScanIn(pending') = {}
    BY <2>1 DEF ScanIn
  <2> QED
    BY <2>1, <2>2 DEF ScanOrder, Rising
<1>2. CASE MarkStage3Done \/ ApplyScan
  <2>1. batch # <<>> /\ batch' = Tail(batch) /\ UNCHANGED <<pending, generation>>
    BY <1>2 DEF MarkStage3Done, ApplyScan, Control
  <2>2. /\ Head(batch) = batch[1] /\ 1 \in 1 .. Len(batch)
        /\ \A i \in 1 .. Len(batch') : i + 1 \in 1 .. Len(batch) /\ batch'[i] = batch[i + 1]
    BY <2>1, HeadTail, TailIn DEF TypeOK
  <2>3. \A i \in ScanIn(batch') : i + 1 \in ScanIn(batch) /\ batch'[i] = batch[i + 1]
    BY <2>2 DEF ScanIn
  <2>4. \A i, j \in ScanIn(batch') : i < j => i + 1 < j + 1
    BY DEF ScanIn
  <2>5. ScanIn(pending') = ScanIn(pending)
    BY <2>1 DEF ScanIn
  <2>6. /\ appliedScan' <= generation
        /\ \A i \in ScanIn(batch') : appliedScan' < batch'[i].gen
        /\ \A i \in ScanIn(pending') : appliedScan' < pending[i].gen
    <3>1. CASE MarkStage3Done
      BY <2>1, <2>3, <2>5, <3>1 DEF MarkStage3Done, ScanOrder, Rising
    <3>2. CASE ApplyScan
      <4>1. 1 \in ScanIn(batch) /\ appliedScan' \in {appliedScan, batch[1].gen}
        BY <2>2, <3>2 DEF ApplyScan, ScanIn
      <4>2. \A i \in ScanIn(batch') : 1 < i + 1
        BY DEF ScanIn
      <4> QED
        BY <2>3, <2>5, <4>1, <4>2 DEF ScanOrder, Rising
    <3> QED
      BY <1>2, <3>1, <3>2
  <2>7. Rising(batch)'
    <3>1. \A i \in ScanIn(batch') : batch'[i].gen <= generation'
      BY <2>1, <2>3 DEF ScanOrder, Rising
    <3>2. \A i, j \in ScanIn(batch') : i < j => batch'[i].gen < batch'[j].gen
      BY <2>3, <2>4 DEF ScanOrder, Rising
    <3> QED
      BY <2>6, <3>1, <3>2 DEF Rising
  <2>8. Rising(pending)'
    BY <2>1, <2>5, <2>6 DEF ScanOrder, Rising
  <2> QED
    BY <2>1, <2>3, <2>5, <2>6, <2>7, <2>8 DEF ScanOrder
<1>3. CASE ScanToMapLoop
  <2> DEFINE r == [gen |-> generation + 1, strict |-> FALSE, pack |-> {}]
             n == Len(pending) + 1
  <2>1. /\ pending' = Append(pending, r) /\ generation' = generation + 1
        /\ UNCHANGED <<batch, appliedScan>>
    BY <1>3 DEF ScanToMapLoop
  <2>2. r.gen = generation' /\ r.gen = generation + 1
    BY <2>1
  <2> HIDE DEF r
  <2>3. /\ Len(pending') = n /\ Len(pending) \in Nat /\ pending'[n] = r
        /\ \A i \in 1 .. Len(pending) : pending'[i] = pending[i]
    BY <2>1 DEF TypeOK
  <2>4. \A i \in ScanIn(pending') :
          \/ i \in ScanIn(pending) /\ pending'[i] = pending[i] /\ i < n
          \/ i = n /\ pending'[i] = r
    BY <2>3 DEF ScanIn
  <2>5. ScanIn(batch') = ScanIn(batch)
    BY <2>1 DEF ScanIn
  <2>6. /\ \A i \in ScanIn(batch) : batch[i].gen \in Nat
        /\ \A i \in ScanIn(pending) : pending[i].gen \in Nat
        /\ generation \in Nat /\ appliedScan \in Nat /\ n \in Nat
    <3>1. /\ \A i \in 1 .. Len(batch) : batch[i] \in Results
          /\ \A i \in 1 .. Len(pending) : pending[i] \in Results
      BY ElementOfSeq DEF TypeOK
    <3> QED
      BY <2>3, <3>1, SMTT(30) DEF ScanIn, Results, Gens, TypeOK
  <2>7. /\ \A i \in ScanIn(batch) : batch[i].gen < r.gen
        /\ \A i \in ScanIn(pending) : pending[i].gen < r.gen
        /\ appliedScan < r.gen
    BY <2>2, <2>6 DEF ScanOrder, Rising
  <2>8. Rising(pending)'
    <3>1. ASSUME NEW i \in ScanIn(pending')
          PROVE  appliedScan' < pending'[i].gen /\ pending'[i].gen <= generation'
      <4>1. CASE i \in ScanIn(pending) /\ pending'[i] = pending[i]
        BY <2>1, <2>2, <2>6, <2>7, <4>1 DEF ScanOrder, Rising
      <4>2. CASE pending'[i] = r
        BY <2>1, <2>2, <2>6, <2>7, <4>2
      <4> QED
        BY <2>4, <3>1, <4>1, <4>2
    <3>2. ASSUME NEW i \in ScanIn(pending'), NEW j \in ScanIn(pending'), i < j
          PROVE  pending'[i].gen < pending'[j].gen
      <4>1. i \in ScanIn(pending) /\ pending'[i] = pending[i]
        <5>1. i \in Nat /\ j \in Nat /\ j <= n
          BY <2>3 DEF ScanIn
        <5> QED
          BY <2>4, <2>6, <3>2, <5>1
      <4>2. CASE j \in ScanIn(pending) /\ pending'[j] = pending[j]
        BY <3>2, <4>1, <4>2 DEF ScanOrder, Rising
      <4>3. CASE pending'[j] = r
        BY <2>7, <4>1, <4>3
      <4> QED
        BY <2>4, <4>2, <4>3
    <3> QED
      BY <3>1, <3>2 DEF Rising
  <2>9. \A i \in ScanIn(batch) : batch[i].gen <= generation'
    BY <2>2, <2>6, <2>7
  <2>10. \A i \in ScanIn(batch) : \A j \in ScanIn(pending') : batch[i].gen < pending'[j].gen
    BY <2>4, <2>7 DEF ScanOrder, Rising
  <2>11. appliedScan' <= generation'
    BY <2>1, <2>2, <2>6, <2>7
  <2> QED
    BY <2>1, <2>5, <2>8, <2>9, <2>10, <2>11 DEF ScanOrder, Rising
<1>4. CASE ~(SwapResults \/ MarkStage3Done \/ ApplyScan \/ ScanToMapLoop)
  <2>1. /\ generation' = generation \/ generation' = generation + 1
        /\ UNCHANGED <<batch, pending, appliedScan>>
    BY <1>4 DEF TrackingStep, ApplyStrict, FinishApply, PlainFrame, DetectStrictLoop,
       Stage1, ArmLCState, PushTask, StartWorker, LoadLCState, RebindPatches
  <2>2. /\ generation \in Nat /\ generation <= generation' /\ generation' \in Nat
        /\ appliedScan \in Nat
    BY <2>1 DEF TypeOK
  <2>3. /\ \A i \in ScanIn(batch) : batch[i].gen \in Nat
        /\ \A i \in ScanIn(pending) : pending[i].gen \in Nat
    <3>1. /\ \A i \in 1 .. Len(batch) : batch[i] \in Results
          /\ \A i \in 1 .. Len(pending) : pending[i] \in Results
      BY ElementOfSeq DEF TypeOK
    <3> QED
      BY <3>1 DEF ScanIn, Results, Gens
  <2>4. ScanIn(batch') = ScanIn(batch) /\ ScanIn(pending') = ScanIn(pending)
    BY <2>1 DEF ScanIn
  <2> QED
    BY <2>1, <2>2, <2>3, <2>4 DEF ScanOrder, Rising
<1> QED
  BY <1>1, <1>2, <1>3, <1>4

\* A worker pushes strict results only.
LEMMA ScanWorker ==
  ASSUME TypeOK, ScanOrder, NEW w \in Workers, WorkerStep(w)
  PROVE  ScanOrder'
<1>1. UNCHANGED <<batch, generation, appliedScan>>
  BY WorkerFrame DEF trackingVars
<1>2. \A i \in ScanIn(pending') : i \in ScanIn(pending) /\ pending'[i] = pending[i]
  <2>1. CASE SolveAndPush(w)
    <3> DEFINE r == [gen |-> wtask[w], strict |-> TRUE, pack |-> wpack[w]]
    <3>1. pending' = Append(pending, r)
      BY <2>1 DEF SolveAndPush
    <3>2. r.strict
      OBVIOUS
    <3> HIDE DEF r
    <3>3. pending \in Seq(Results \cup {r}) /\ r \in Results \cup {r}
      BY DEF TypeOK
    <3>4. /\ Len(pending') = Len(pending) + 1 /\ pending'[Len(pending) + 1] = r
          /\ \A i \in 1 .. Len(pending) : pending'[i] = pending[i]
      BY <3>1, <3>3, AppendProperties
    <3>5. Len(pending) \in Nat
      BY <3>3, LenProperties
    <3> QED
      BY <3>2, <3>4, <3>5 DEF ScanIn
  <2>2. CASE ~SolveAndPush(w)
    <3>1. pending' = pending
      BY <2>2 DEF WorkerStep, PopTask, Associate, StoreApplying, AwaitStage3,
         ReleaseRunning, RecheckQueue, Restart
    <3> QED
      BY <3>1 DEF ScanIn
  <2> QED
    BY <2>1, <2>2
<1>3. ScanIn(batch') = ScanIn(batch)
  BY <1>1 DEF ScanIn
<1> QED
  BY <1>1, <1>2, <1>3 DEF ScanOrder, Rising

-----------------------------------------------------------------------------
(* Where every loop is, what lc_state says of it, and the order of results *)

Whereabouts == Applied /\ Known /\ Located /\ Guarded /\ ScanOrder

\* What the earlier theorems establish of every state.
Base == TypeOK /\ Control /\ SingleOptimiser /\ Tickets

LEMMA BaseHolds == Spec => []Base
BY TypeControl, OneOptimiser, OrderHandover, PTL DEF Base

LEMMA WhereaboutsHold == Spec => []Whereabouts
<1>1. Init => Whereabouts
  <2> SUFFICES ASSUME Init PROVE Whereabouts
    OBVIOUS
  <2>1. /\ StrictIn(batch) = {} /\ StrictIn(pending) = {}
        /\ ScanIn(batch) = {} /\ ScanIn(pending) = {} /\ Outstanding = {}
    BY DEF Init, StrictIn, ScanIn, Outstanding
  <2> QED
    BY <2>1 DEF Init, Whereabouts, Applied, Known, Located, Guarded, ScanOrder, Rising,
       Holding
<1>2. Base /\ Whereabouts /\ [Next]_vars => Whereabouts'
  <2> SUFFICES ASSUME Base, Whereabouts, [Next]_vars
               PROVE  Whereabouts'
    OBVIOUS
  <2> USE DEF Base, Tickets, Whereabouts
  <2>1. CASE TrackingStep
    BY <2>1, AppliedTracking, KnownTracking, LocatedTracking, GuardedTracking, ScanTracking
  <2>2. CASE StopTracking \/ UNCHANGED vars
    <3>1. /\ UNCHANGED <<ret, batch, processed, seen, atomicVars, queue, pending,
                         workerVars, mapVars>>
          /\ tpc' = tpc \/ (tpc = "swap" /\ tpc' = "stopped")
      BY <2>2 DEF StopTracking, vars, trackingVars
    <3> USE DEF atomicVars, workerVars, mapVars
    <3>2. Outstanding' = Outstanding
      BY <3>1 DEF Outstanding
    <3>3. StrictIn(batch)' = StrictIn(batch) /\ StrictIn(pending)' = StrictIn(pending)
      BY <3>1 DEF StrictIn
    <3>4. ASSUME NEW g, Placed(g) PROVE Placed(g)'
      BY <3>1, <3>3, <3>4 DEF Placed, InHand
    <3>5. Located'
      BY <3>2, <3>4 DEF Located
    <3>6. Applied' /\ Known'
      BY <3>1 DEF Applied, Known
    <3>7. Guarded'
      BY <3>1, <3>2 DEF Guarded, Pulling
    <3>8. ScanOrder'
      BY <3>1 DEF ScanOrder, Rising, ScanIn
    <3> QED
      BY <3>5, <3>6, <3>7, <3>8
  <2>3. ASSUME NEW w \in Workers, WorkerStep(w) PROVE Whereabouts'
    <3>1. UNCHANGED <<tpc, batch, generation, appliedStrict, doneGen, strictGens, adjusted>>
      BY <2>3, WorkerFrame DEF trackingVars, mapVars
    <3>2. Applied'
      BY <3>1 DEF Applied
    <3> QED
      BY <2>3, <3>2, KnownWorker, LocatedWorker, GuardedWorker, ScanWorker
  <2> QED
    BY <2>1, <2>2, <2>3 DEF Next
<1> QED
  BY <1>1, <1>2, BaseHolds, PTL DEF Spec

\* Whenever lc_state and strict_lc_running, read one after the other, let the
\* tracking thread rebind patches, no strict loop is between its stages 1 and 3.
THEOREM RebindGuarded == Spec => []RebindSafe
<1>1. Base /\ Whereabouts => RebindSafe
  <2> SUFFICES ASSUME Base, Whereabouts, tpc = "rebind", ~running, seen = "IDLE"
               PROVE  Outstanding = {}
    BY DEF RebindSafe
  <2>1. Outstanding = {} \/ Pulling
    BY DEF Whereabouts, Guarded
  <2>2. ~Pulling
    BY DEF Base, SingleOptimiser, InLoop, Pulling, Holding
  <2> QED
    BY <2>1, <2>2
<1> QED
  BY <1>1, BaseHolds, WhereaboutsHold, PTL

\* No result is dropped as stale: each kind of result comes in the order of the
\* generations.
THEOREM NoneStale == Spec => []ResultsInOrder
<1>1. Base /\ Whereabouts => ResultsInOrder
  <2> SUFFICES ASSUME Base, Whereabouts, tpc = "apply", batch # <<>>
               PROVE  Head(batch).gen >
                        (IF Head(batch).strict THEN appliedStrict ELSE appliedScan)
    BY DEF ResultsInOrder
  <2> USE DEF Base, Tickets, Whereabouts
  <2>1. CASE Head(batch).strict
    <3>1. Head(batch).gen \in Gens /\ doneGen < Head(batch).gen
      BY <2>1, HeadOnly
    <3>2. appliedStrict = doneGen
      BY DEF Applied
    <3> QED
      BY <2>1, <3>1, <3>2 DEF TypeOK, Gens
  <2>2. CASE ~Head(batch).strict
    <3>1. Head(batch) \in Results /\ Head(batch) = batch[1] /\ 1 \in 1 .. Len(batch)
      BY HeadTail DEF TypeOK
    <3>2. appliedScan < Head(batch).gen
      BY <2>2, <3>1 DEF ScanOrder, Rising, ScanIn
    <3> QED
      BY <2>2, <3>1, <3>2 DEF TypeOK, Results, Gens
  <2> QED
    BY <2>1, <2>2
<1> QED
  BY <1>1, BaseHolds, WhereaboutsHold, PTL

-----------------------------------------------------------------------------
(* The removal plans                                                       *)

\* The plans that count a patch as a pending removal.
Counting(p) == {g \in Gens : active[g] /\ p \in PlanPatches(g)}

LEMMA CountingFinite ==
  ASSUME NEW p
  PROVE  IsFiniteSet(Counting(p)) /\ Cardinality(Counting(p)) \in Nat
<1>1. IsFiniteSet(Gens)
  BY ConstantsAssumption, FS_Interval DEF Gens
<1>2. Counting(p) \in SUBSET Gens
  BY DEF Counting
<1> QED
  BY <1>1, <1>2, FS_Subset, FS_CardinalityType

\* Stage 1 adds its loop, which no plan and no list knew before.
LEMMA Stage1Adds ==
  ASSUME TypeOK, Control, Order, Applied, Stage1
  PROVE  /\ generation' = generation + 1 /\ generation' \in Gens
         /\ generation' \notin Outstanding
         /\ Outstanding' = Outstanding \cup {generation'}
<1>1. generation' = generation + 1 /\ generation < MaxGen /\ generation \in Nat
      /\ strictGens' = strictGens \cup {generation'} /\ adjusted' = adjusted
      /\ tpc = "stage1"
  BY DEF Stage1, Control, TypeOK
<1>2. generation' \notin strictGens
  BY <1>1 DEF Applied
<1>3. appliedStrict <= generation
  BY <1>1 DEF Applied, Order
<1>4. ASSUME NEW i \in 1 .. Len(adjusted) PROVE adjusted[i] # generation'
  <2>1. adjusted[i] \in Gens
    BY ElementOfSeq DEF TypeOK
  <2>2. adjusted[i] <= appliedStrict
    BY DEF Applied
  <2> QED
    BY <1>1, <1>3, <2>1, <2>2 DEF Gens, TypeOK
<1> QED
  BY <1>1, <1>2, <1>4, ConstantsAssumption DEF Outstanding, Gens

\* What stage 1 freezes.
LEMMA Stage1Plan ==
  ASSUME TypeOK, Stage1, NEW g \in Gens, g = generation + 1
  PROVE  \E remove \in SUBSET Mapped :
           /\ PlanPatches(g)' = remove
           /\ \A p \in remove : plan'[g][p] = owner[p]
           /\ \A h \in Gens \ {g} : PlanPatches(h)' = PlanPatches(h) /\ plan'[h] = plan[h]
           /\ active' = [active EXCEPT ![g] = (remove # {})]
           /\ refcount' = [p \in Patches |->
                             IF p \in remove THEN refcount[p] + 1 ELSE refcount[p]]
<1>1. PICK remove \in SUBSET Mapped :
        /\ plan' = [plan EXCEPT ![g] = [p \in Patches |->
                      IF p \in remove THEN owner[p] ELSE NoKeyframe]]
        /\ active' = [active EXCEPT ![g] = (remove # {})]
        /\ refcount' = [p \in Patches |->
                          IF p \in remove THEN refcount[p] + 1 ELSE refcount[p]]
  BY DEF Stage1
<1>2. plan'[g] = [p \in Patches |-> IF p \in remove THEN owner[p] ELSE NoKeyframe]
  BY <1>1 DEF TypeOK
<1>3. PlanPatches(g)' = remove /\ \A p \in remove : plan'[g][p] = owner[p]
  BY <1>2 DEF PlanPatches, Mapped
<1>4. \A h \in Gens \ {g} : PlanPatches(h)' = PlanPatches(h) /\ plan'[h] = plan[h]
  BY <1>1 DEF TypeOK, PlanPatches
<1> QED
  BY <1>1, <1>3, <1>4

\* Stage 3 drops the plan of its loop and leaves the others alone.
LEMMA Stage3Plan ==
  ASSUME TypeOK, ApplyStrict, NEW g \in Gens, g = Head(batch).gen
  PROVE  /\ plan'[g] = NoPlan /\ PlanPatches(g)' = {} /\ active'[g] = FALSE
         /\ \A h \in Gens \ {g} :
              /\ PlanPatches(h)' = PlanPatches(h) /\ plan'[h] = plan[h]
              /\ active'[h] = active[h]
         /\ refcount' = [p \in Patches |->
              IF active[g] /\ p \in PlanPatches(g) /\ refcount[p] > 0
              THEN refcount[p] - 1 ELSE refcount[p]]
<1>1. plan' = [plan EXCEPT ![g] = NoPlan] /\ ReleasePlan(g)
  BY DEF ApplyStrict
<1>2. plan'[g] = NoPlan /\ \A h \in Gens \ {g} : plan'[h] = plan[h]
  BY <1>1 DEF TypeOK
<1>3. PlanPatches(g)' = {} /\ \A h \in Gens \ {g} : PlanPatches(h)' = PlanPatches(h)
  BY <1>2 DEF PlanPatches, NoPlan
<1>4. active'[g] = FALSE /\ \A h \in Gens \ {g} : active'[h] = active[h]
  BY <1>1 DEF ReleasePlan, TypeOK
<1> QED
  BY <1>1, <1>2, <1>3, <1>4 DEF ReleasePlan

\* A plan exists only between the stages 1 and 3 of its loop, and the counts are
\* those of the plans that wait for stage 3.
Counted == RefcountExact /\ Planned

\* Stage 1 counts the patches of the new plan.
LEMMA CountedStage1 ==
  ASSUME TypeOK, Control, Order, Applied, Counted, Stage1
  PROVE  Counted'
<1>1. PICK g \in Gens : /\ g = generation + 1 /\ g \notin Outstanding
                        /\ Outstanding' = Outstanding \cup {g}
  BY Stage1Adds
<1>2. PICK remove \in SUBSET Mapped :
        /\ PlanPatches(g)' = remove
        /\ \A h \in Gens \ {g} : PlanPatches(h)' = PlanPatches(h) /\ plan'[h] = plan[h]
        /\ active' = [active EXCEPT ![g] = (remove # {})]
        /\ refcount' = [p \in Patches |->
                          IF p \in remove THEN refcount[p] + 1 ELSE refcount[p]]
  BY <1>1, Stage1Plan
<1>3. ~active[g]
  BY <1>1 DEF Counted, RefcountExact
<1>4. active'[g] = (remove # {}) /\ \A h \in Gens \ {g} : active'[h] = active[h]
  BY <1>1, <1>2 DEF TypeOK
<1>5. ASSUME NEW p \in Patches
      PROVE  refcount'[p] = Cardinality(Counting(p))'
  <2>1. g \notin Counting(p)
    BY <1>3 DEF Counting
  <2>2. refcount[p] = Cardinality(Counting(p))
    BY DEF Counted, RefcountExact, Counting
  <2>3. CASE p \in remove
    <3>1. Counting(p)' = Counting(p) \cup {g}
      BY <1>1, <1>2, <1>4, <2>3 DEF Counting
    <3>2. Cardinality(Counting(p) \cup {g}) = Cardinality(Counting(p)) + 1
      BY <2>1, CountingFinite, FS_AddElement
    <3> QED
      BY <1>2, <2>2, <2>3, <3>1, <3>2
  <2>4. CASE p \notin remove
    <3>1. Counting(p)' = Counting(p)
      BY <1>1, <1>2, <1>3, <1>4, <2>4 DEF Counting
    <3> QED
      BY <1>2, <2>2, <2>4, <3>1
  <2> QED
    BY <2>3, <2>4
<1>6. \A h \in Gens : active'[h] <=> h \in Outstanding' /\ PlanPatches(h)' # {}
  <2>1. active'[g] <=> g \in Outstanding' /\ PlanPatches(g)' # {}
    BY <1>1, <1>2, <1>4
  <2>2. \A h \in Gens \ {g} : active'[h] <=> h \in Outstanding' /\ PlanPatches(h)' # {}
    BY <1>1, <1>2, <1>4 DEF Counted, RefcountExact
  <2> QED
    BY <2>1, <2>2
<1>7. Planned'
  BY <1>1, <1>2 DEF Counted, Planned
<1> QED
  BY <1>5, <1>6, <1>7 DEF Counted, RefcountExact, Counting

\* Stage 3 gives the counts of its plan back.
LEMMA CountedStage3 ==
  ASSUME TypeOK, SingleOptimiser, Handover, Applied, Counted, ApplyStrict
  PROVE  Counted'
<1>1. PICK g \in Gens : g = Head(batch).gen /\ Outstanding' = Outstanding \ {g}
  BY Stage3Applies
<1>2. /\ plan'[g] = NoPlan /\ PlanPatches(g)' = {} /\ active'[g] = FALSE
      /\ \A h \in Gens \ {g} :
           /\ PlanPatches(h)' = PlanPatches(h) /\ plan'[h] = plan[h]
           /\ active'[h] = active[h]
      /\ refcount' = [p \in Patches |->
           IF active[g] /\ p \in PlanPatches(g) /\ refcount[p] > 0
           THEN refcount[p] - 1 ELSE refcount[p]]
  BY <1>1, Stage3Plan
<1>3. ASSUME NEW p \in Patches
      PROVE  refcount'[p] = Cardinality(Counting(p))'
  <2>1. refcount[p] = Cardinality(Counting(p)) /\ refcount[p] \in Nat
    BY DEF Counted, RefcountExact, Counting, TypeOK
  <2>2. Counting(p)' = Counting(p) \ {g}
    BY <1>1, <1>2 DEF Counting
  <2>3. Cardinality(Counting(p) \ {g}) =
          IF g \in Counting(p) THEN Cardinality(Counting(p)) - 1 ELSE Cardinality(Counting(p))
    BY CountingFinite, FS_RemoveElement
  <2>4. g \in Counting(p) <=> active[g] /\ p \in PlanPatches(g)
    BY <1>1 DEF Counting
  <2>5. g \in Counting(p) => refcount[p] > 0
    BY <2>1, CountingFinite, FS_EmptySet
  <2> QED
    BY <1>2, <2>1, <2>2, <2>3, <2>4, <2>5
<1>4. \A h \in Gens : active'[h] <=> h \in Outstanding' /\ PlanPatches(h)' # {}
  <2>1. active'[g] <=> g \in Outstanding' /\ PlanPatches(g)' # {}
    BY <1>1, <1>2
  <2>2. \A h \in Gens \ {g} : active'[h] <=> h \in Outstanding' /\ PlanPatches(h)' # {}
    BY <1>1, <1>2 DEF Counted, RefcountExact
  <2> QED
    BY <2>1, <2>2
<1>5. Planned'
  BY <1>1, <1>2 DEF Counted, Planned
<1> QED
  BY <1>3, <1>4, <1>5 DEF Counted, RefcountExact, Counting

LEMMA CountedHolds == Spec => []Counted
<1>1. Init => Counted
  <2> SUFFICES ASSUME Init PROVE Counted
    OBVIOUS
  <2>1. Outstanding = {} /\ \A g \in Gens : ~active[g] /\ plan[g] = NoPlan
    BY DEF Init, Outstanding
  <2>2. \A p \in Patches : Counting(p) = {} /\ refcount[p] = 0
    BY <2>1 DEF Init, Counting
  <2> QED
    BY <2>1, <2>2, FS_EmptySet DEF Counted, RefcountExact, Counting, Planned
<1>2. Base /\ Whereabouts /\ Counted /\ [Next]_vars => Counted'
  <2> SUFFICES ASSUME Base, Whereabouts, Counted, [Next]_vars
               PROVE  Counted'
    OBVIOUS
  <2> USE DEF Base, Tickets, Whereabouts
  <2>1. CASE ApplyStrict
    BY <2>1, CountedStage3
  <2>2. CASE Stage1
    BY <2>2, CountedStage1
  <2>3. CASE ~(ApplyStrict \/ Stage1)
    <3>1. UNCHANGED <<strictGens, adjusted, plan, active, refcount>>
      <4>1. CASE TrackingStep \/ StopTracking \/ UNCHANGED vars
        BY <2>3, <4>1 DEF TrackingStep, SwapResults, MarkStage3Done, ApplyScan,
           FinishApply, PlainFrame, ScanToMapLoop, DetectStrictLoop, ArmLCState, PushTask,
           StartWorker, LoadLCState, RebindPatches, StopTracking, vars, mapVars
      <4>2. CASE \E w \in Workers : WorkerStep(w)
        BY <4>2, WorkerFrame DEF mapVars
      <4> QED
        BY <4>1, <4>2 DEF Next
    <3> QED
      BY <3>1 DEF Counted, RefcountExact, Planned, Outstanding, PlanPatches
  <2> QED
    BY <2>1, <2>2, <2>3
<1> QED
  BY <1>1, <1>2, BaseHolds, WhereaboutsHold, PTL DEF Spec

\* pending_overlap_remove_refcount is the number of plans that wait for stage 3,
\* patch by patch, also when plans overlap.
THEOREM RefcountsExact == Spec => []RefcountExact
BY CountedHolds, PTL DEF Counted

-----------------------------------------------------------------------------
(* What a loop decided about the map still holds at its stage 3            *)

\* No step but stage 3 and a rebinding changes owners, and a rebinding does so
\* only when no plan exists.
LEMMA FreshStep ==
  ASSUME Base, Whereabouts, RebindSafe, PlanFresh, [Next]_vars
  PROVE  PlanFresh'
<1> USE DEF Base, Tickets, Whereabouts
<1>1. CASE ApplyStrict
  <2>1. PICK g \in Gens : /\ g = Head(batch).gen /\ RemoveOverlaps(g)
                          /\ Outstanding' = Outstanding \ {g}
    BY <1>1, Stage3Applies
  <2>2. \A h \in Gens \ {g} : PlanPatches(h)' = PlanPatches(h) /\ plan'[h] = plan[h]
    BY <1>1, <2>1, Stage3Plan
  <2>3. \A p \in Patches : owner'[p] \in {owner[p], NoKeyframe}
    BY <2>1 DEF RemoveOverlaps
  <2>4. Outstanding \subseteq Gens
    BY DEF Outstanding, TypeOK
  <2> QED
    BY <2>1, <2>2, <2>3, <2>4 DEF PlanFresh, PlanPatches
<1>2. CASE Stage1
  <2>1. PICK g \in Gens : g = generation + 1 /\ Outstanding' = Outstanding \cup {g}
    BY <1>2, Stage1Adds
  <2>2. /\ \A p \in PlanPatches(g)' : plan'[g][p] = owner[p]
        /\ \A h \in Gens \ {g} : PlanPatches(h)' = PlanPatches(h) /\ plan'[h] = plan[h]
    BY <1>2, <2>1, Stage1Plan
  <2>3. owner' = owner
    BY <1>2 DEF Stage1
  <2>4. Outstanding \subseteq Gens
    BY DEF Outstanding, TypeOK
  <2> QED
    BY <2>1, <2>2, <2>3, <2>4 DEF PlanFresh
<1>3. CASE RebindPatches
  <2>1. UNCHANGED <<strictGens, adjusted, plan>>
    BY <1>3 DEF RebindPatches
  <2>2. owner' # owner => Outstanding = {}
    BY <1>3 DEF RebindPatches, RebindSafe
  <2> QED
    BY <2>1, <2>2 DEF PlanFresh, Outstanding, PlanPatches
<1>4. CASE ~(ApplyStrict \/ Stage1 \/ RebindPatches)
  <2>1. UNCHANGED <<strictGens, adjusted, plan, owner>>
    <3>1. CASE TrackingStep \/ StopTracking \/ UNCHANGED vars
      BY <1>4, <3>1 DEF TrackingStep, SwapResults, MarkStage3Done, ApplyScan,
         FinishApply, PlainFrame, ScanToMapLoop, DetectStrictLoop, ArmLCState, PushTask,
         StartWorker, LoadLCState, StopTracking, vars, mapVars
    <3>2. CASE \E w \in Workers : WorkerStep(w)
      BY <3>2, WorkerFrame DEF mapVars
    <3> QED
      BY <3>1, <3>2 DEF Next
  <2> QED
    BY <2>1 DEF PlanFresh, Outstanding, PlanPatches
<1> QED
  BY <1>1, <1>2, <1>3, <1>4

\* A patch in no removal count is in no plan.
LEMMA UncountedUnplanned ==
  ASSUME TypeOK, Counted, NEW p \in Patches, refcount[p] = 0, NEW g \in Gens
  PROVE  p \notin PlanPatches(g)
<1>1. Counting(p) = {}
  BY CountingFinite, FS_EmptySet DEF Counted, RefcountExact, Counting
<1>2. SUFFICES ASSUME p \in PlanPatches(g) PROVE FALSE
  OBVIOUS
<1>3. g \in Outstanding
  BY <1>2 DEF Counted, Planned, PlanPatches, NoPlan
<1>4. active[g]
  BY <1>2, <1>3 DEF Counted, RefcountExact
<1> QED
  BY <1>1, <1>2, <1>4 DEF Counting

\* The generation of a strict result is known, and older than any new loop.
LEMMA ResultGens ==
  ASSUME TypeOK, Order, Handover
  PROVE  /\ \A i \in StrictIn(batch) : batch[i].gen \in Gens /\ batch[i].gen <= generation
         /\ \A i \in StrictIn(pending) :
              pending[i].gen \in Gens /\ pending[i].gen <= generation
<1>1. ASSUME NEW g, Waited(g) PROVE g <= generation
  BY <1>1 DEF Waited, Order, Holding
<1>2. /\ \A i \in 1 .. Len(batch) : batch[i] \in Results
      /\ \A i \in 1 .. Len(pending) : pending[i] \in Results
  BY ElementOfSeq DEF TypeOK
<1> QED
  BY <1>1, <1>2 DEF Handover, StrictIn, Results

\* Packs survive when the map does, packs are only moved, and no worker begins to
\* solve.
LEMMA SamePacks ==
  ASSUME Packs, UNCHANGED <<owner, plan>>,
         \A w \in Workers : wpc'[w] = "solve" =>
           wpc[w] = "solve" /\ wtask'[w] = wtask[w] /\ wpack'[w] = wpack[w],
         \A i \in StrictIn(pending') :
           Intact(pending'[i].pack, pending'[i].gen),
         tpc' # "mark" => \A i \in StrictIn(batch') :
           Intact(batch'[i].pack, batch'[i].gen)
  PROVE  Packs'
<1>1. Mapped' = Mapped
  BY DEF Mapped
<1>2. \A i \in StrictIn(pending') : Intact(pending[i].pack, pending[i].gen)'
  BY <1>1 DEF Intact, PlanPatches
<1>3. tpc' # "mark" => \A i \in StrictIn(batch') : Intact(batch[i].pack, batch[i].gen)'
  BY <1>1 DEF Intact, PlanPatches
<1>4. \A w \in Workers : wpc'[w] = "solve" => Intact(wpack[w], wtask[w])'
  <2> SUFFICES ASSUME NEW w \in Workers, wpc'[w] = "solve"
               PROVE  Intact(wpack[w], wtask[w])'
    OBVIOUS
  <2>1. Intact(wpack[w], wtask[w]) /\ wtask'[w] = wtask[w] /\ wpack'[w] = wpack[w]
    BY DEF Packs
  <2> QED
    BY <1>1, <2>1 DEF Intact, PlanPatches
<1> QED
  BY <1>2, <1>3, <1>4 DEF Packs

\* Every step of the tracking thread keeps the packs intact: it erases patches
\* only at stage 3, when no other pack exists, and plans them for removal only
\* in loops newer than any pack.
LEMMA PacksTracking ==
  ASSUME Base, Whereabouts, Packs, TrackingStep
  PROVE  Packs'
<1> USE DEF Base, Tickets, Whereabouts, atomicVars, workerVars, mapVars
<1>1. CASE SwapResults
  <2>1. /\ batch' = pending /\ pending' = <<>>
        /\ UNCHANGED <<wpc, wtask, wpack, owner, plan>>
    BY <1>1 DEF SwapResults
  <2>2. StrictIn(batch') = StrictIn(pending) /\ StrictIn(pending') = {}
    BY <2>1 DEF StrictIn
  <2> QED
    BY <2>1, <2>2 DEF Packs, Intact, Mapped, PlanPatches
<1>2. CASE ApplyStrict
  <2>1. /\ tpc' = "mark" /\ UNCHANGED <<pending, wpc>>
        /\ batch # <<>> /\ Head(batch).strict
    BY <1>2 DEF ApplyStrict
  <2>2. \A v \in Workers : wpc[v] # "solve"
    BY <2>1, HeadWaited
  <2>3. StrictIn(pending') = {}
    BY <2>1, HeadOnly DEF StrictIn
  <2> QED
    BY <2>1, <2>2, <2>3 DEF Packs
<1>3. CASE MarkStage3Done
  <2>1. /\ batch # <<>> /\ Head(batch).strict /\ batch' = Tail(batch)
        /\ UNCHANGED <<pending, wpc, wtask, wpack, owner, plan>>
    BY <1>3 DEF MarkStage3Done, Control
  <2>2. StrictIn(batch) = {1}
    BY <2>1, HeadOnly
  <2>3. StrictIn(batch') = {}
    <3>1. ASSUME NEW i \in StrictIn(batch') PROVE FALSE
      <4>1. i + 1 \in StrictIn(batch) /\ i + 1 # 1
        BY <2>1, <3>1, TailIn DEF StrictIn, TypeOK
      <4> QED
        BY <2>2, <4>1
    <3> QED
      BY <3>1
  <2>4. StrictIn(pending') = StrictIn(pending)
    BY <2>1 DEF StrictIn
  <2> QED
    BY <2>1, <2>3, <2>4 DEF Packs, Intact, Mapped, PlanPatches
<1>4. CASE ApplyScan
  <2>1. /\ batch # <<>> /\ batch' = Tail(batch)
        /\ UNCHANGED <<tpc, pending, wpc, wtask, wpack, owner, plan>>
    BY <1>4 DEF ApplyScan
  <2>2. \A i \in StrictIn(batch') : i + 1 \in StrictIn(batch) /\ batch'[i] = batch[i + 1]
    BY <2>1, TailIn DEF StrictIn, TypeOK
  <2>3. StrictIn(pending') = StrictIn(pending)
    BY <2>1 DEF StrictIn
  <2>4. \A i \in StrictIn(batch') : tpc' # "mark" => Intact(batch'[i].pack, batch'[i].gen)
    BY <2>1, <2>2 DEF Packs
  <2> QED
    BY <2>1, <2>3, <2>4, SamePacks DEF Packs
<1>5. CASE ScanToMapLoop
  <2> DEFINE r == [gen |-> generation + 1, strict |-> FALSE, pack |-> {}]
  <2>1. /\ pending' = Append(pending, r) /\ tpc = "frame"
        /\ UNCHANGED <<batch, wpc, wtask, wpack, owner, plan>>
    BY <1>5 DEF ScanToMapLoop
  <2>2. ~r.strict
    OBVIOUS
  <2> HIDE DEF r
  <2>3. \A i \in StrictIn(pending') : i \in StrictIn(pending) /\ pending'[i] = pending[i]
    BY <2>1, <2>2 DEF StrictIn, TypeOK
  <2>4. StrictIn(batch') = StrictIn(batch)
    BY <2>1 DEF StrictIn
  <2>5. \A i \in StrictIn(pending') : Intact(pending'[i].pack, pending'[i].gen)
    BY <2>3 DEF Packs
  <2> QED
    BY <2>1, <2>4, <2>5, SamePacks DEF Packs
<1>6. CASE Stage1
  <2>1. PICK g \in Gens : g = generation + 1
    BY <1>6, Stage1Adds
  <2>2. \A h \in Gens \ {g} : PlanPatches(h)' = PlanPatches(h)
    BY <1>6, <2>1, Stage1Plan
  <2>3. UNCHANGED <<batch, pending, wpc, wtask, wpack, owner>> /\ tpc = "stage1"
    BY <1>6 DEF Stage1
  <2>4. ASSUME NEW h \in Gens, h <= generation, NEW pack, Intact(pack, h)
        PROVE  Intact(pack, h)'
    <3>1. h # g
      BY <2>1, <2>4 DEF TypeOK, Gens
    <3> QED
      BY <2>2, <2>3, <2>4, <3>1 DEF Intact, Mapped
  <2>5. ASSUME NEW w \in Workers, wpc[w] = "solve"
        PROVE  wtask[w] \in Gens /\ wtask[w] <= generation
    BY <2>5 DEF Order, Holding, Control, TypeOK, Gens
  <2>6. /\ \A i \in StrictIn(batch) : batch[i].gen \in Gens /\ batch[i].gen <= generation
        /\ \A i \in StrictIn(pending) :
             pending[i].gen \in Gens /\ pending[i].gen <= generation
    BY ResultGens
  <2>7. StrictIn(batch') = StrictIn(batch) /\ StrictIn(pending') = StrictIn(pending)
    BY <2>3 DEF StrictIn
  <2>8. \A w \in Workers : wpc'[w] = "solve" => Intact(wpack[w], wtask[w])'
    BY <2>3, <2>4, <2>5 DEF Packs
  <2>9. \A i \in StrictIn(pending') : Intact(pending[i].pack, pending[i].gen)'
    BY <2>3, <2>4, <2>6, <2>7 DEF Packs
  <2>10. \A i \in StrictIn(batch') : Intact(batch[i].pack, batch[i].gen)'
    BY <2>3, <2>4, <2>6, <2>7 DEF Packs
  <2> QED
    BY <2>8, <2>9, <2>10 DEF Packs
<1>7. CASE RebindPatches
  <2>1. UNCHANGED <<batch, pending, wpc, wtask, wpack, plan>> /\ tpc = "rebind"
    BY <1>7 DEF RebindPatches
  <2>2. Mapped' = Mapped
    BY <1>7 DEF RebindPatches, Rebindings, Mapped
  <2>3. StrictIn(batch') = StrictIn(batch) /\ StrictIn(pending') = StrictIn(pending)
    BY <2>1 DEF StrictIn
  <2> QED
    BY <2>1, <2>2, <2>3 DEF Packs, Intact, PlanPatches
<1>8. CASE StartWorker
  <2>1. /\ tpc = "cas" /\ UNCHANGED <<batch, pending, wtask, wpack, owner, plan>>
        /\ \A w \in Workers : wpc'[w] = "solve" => wpc[w] = "solve"
    BY <1>8 DEF StartWorker, TypeOK
  <2>2. StrictIn(batch') = StrictIn(batch) /\ StrictIn(pending') = StrictIn(pending)
    BY <2>1 DEF StrictIn
  <2> QED
    BY <2>1, <2>2 DEF Packs, Intact, Mapped, PlanPatches
<1>9. CASE ~(SwapResults \/ ApplyStrict \/ MarkStage3Done \/ ApplyScan \/ ScanToMapLoop
             \/ Stage1 \/ RebindPatches \/ StartWorker)
  <2>1. /\ UNCHANGED <<batch, pending, wpc, wtask, wpack, owner, plan>>
        /\ tpc # "mark"
    BY <1>9 DEF TrackingStep, FinishApply, PlainFrame, DetectStrictLoop, ArmLCState,
       PushTask, LoadLCState
  <2>2. StrictIn(batch') = StrictIn(batch) /\ StrictIn(pending') = StrictIn(pending)
    BY <2>1 DEF StrictIn
  <2> QED
    BY <2>1, <2>2 DEF Packs, Intact, Mapped, PlanPatches
<1> QED
  BY <1>1, <1>2, <1>3, <1>4, <1>5, <1>6, <1>7, <1>8, <1>9

\* Every step of a worker keeps the packs intact: a pack is made of patches that
\* no plan names, and is handed over as it is.
LEMMA PacksWorker ==
  ASSUME Base, Counted, Packs, NEW w \in Workers, WorkerStep(w)
  PROVE  Packs'
<1> USE DEF Base, Tickets
<1>1. /\ UNCHANGED <<tpc, batch, owner, plan>>
      /\ \A v \in Workers : v # w =>
           wpc'[v] = wpc[v] /\ wtask'[v] = wtask[v] /\ wpack'[v] = wpack[v]
  BY WorkerFrame DEF trackingVars, mapVars
<1>2. StrictIn(batch') = StrictIn(batch)
  BY <1>1 DEF StrictIn
<1>4. CASE Associate(w)
  <2>1. /\ wpack'[w] \subseteq {p \in Mapped : refcount[p] = 0} /\ wtask' = wtask
        /\ pending' = pending /\ wpc[w] = "associate"
    BY <1>4 DEF Associate, TypeOK
  <2>2. wtask[w] \in Gens
    BY <2>1 DEF Control, Holding, TypeOK, Gens
  <2>3. \A p \in wpack'[w] : p \in Mapped /\ p \notin PlanPatches(wtask[w])
    BY <2>1, <2>2, UncountedUnplanned DEF Mapped
  <2>4. StrictIn(pending') = StrictIn(pending)
    BY <2>1 DEF StrictIn
  <2> QED
    BY <1>1, <1>2, <2>1, <2>3, <2>4 DEF Packs, Intact, Mapped, PlanPatches
<1>5. CASE SolveAndPush(w)
  <2> DEFINE r == [gen |-> wtask[w], strict |-> TRUE, pack |-> wpack[w]]
  <2>1. /\ pending' = Append(pending, r) /\ wpc[w] = "solve" /\ wpc'[w] = "store"
        /\ UNCHANGED <<wtask, wpack>>
    BY <1>5 DEF SolveAndPush, TypeOK
  <2>2. r.gen = wtask[w] /\ r.pack = wpack[w]
    OBVIOUS
  <2> HIDE DEF r
  <2>3. \A i \in StrictIn(pending') :
          \/ i \in StrictIn(pending) /\ pending'[i] = pending[i]
          \/ pending'[i] = r
    BY <2>1 DEF StrictIn, TypeOK
  <2>4. Intact(r.pack, r.gen)
    BY <2>1, <2>2 DEF Packs
  <2>5. \A i \in StrictIn(pending') : Intact(pending'[i].pack, pending'[i].gen)
    BY <2>3, <2>4 DEF Packs
  <2>6. \A v \in Workers : wpc'[v] = "solve" =>
          wpc[v] = "solve" /\ wtask'[v] = wtask[v] /\ wpack'[v] = wpack[v]
    BY <1>1, <2>1
  <2> QED
    BY <1>1, <1>2, <2>5, <2>6, SamePacks DEF Packs
<1>6. CASE ~(Associate(w) \/ SolveAndPush(w))
  <2>1. pending' = pending /\ wpc'[w] # "solve"
    BY <1>6 DEF WorkerStep, PopTask, StoreApplying, AwaitStage3, ReleaseRunning,
       RecheckQueue, Restart, TypeOK
  <2>2. StrictIn(pending') = StrictIn(pending)
    BY <2>1 DEF StrictIn
  <2> QED
    BY <1>1, <1>2, <2>1, <2>2 DEF Packs, Intact, Mapped, PlanPatches
<1> QED
  BY <1>4, <1>5, <1>6

\* What a strict loop froze at stage 1, and what its adjustment used, holds when
\* stage 3 applies it: owners are as frozen, the patches of the pack exist.
THEOREM PlansStillHold == Spec => []PlansHold
<1>1. Init => PlanFresh /\ Packs
  <2> SUFFICES ASSUME Init PROVE PlanFresh /\ Packs
    OBVIOUS
  <2>1. StrictIn(batch) = {} /\ StrictIn(pending) = {} /\ Outstanding = {}
    BY DEF Init, StrictIn, Outstanding
  <2> QED
    BY <2>1 DEF Init, PlanFresh, Packs
<1>2. Base /\ Whereabouts /\ Counted /\ RebindSafe /\ PlanFresh /\ Packs /\ [Next]_vars
        => PlanFresh' /\ Packs'
  <2> SUFFICES ASSUME Base, Whereabouts, Counted, RebindSafe, PlanFresh, Packs, [Next]_vars
               PROVE  Packs'
    BY FreshStep
  <2>1. CASE TrackingStep
    BY <2>1, PacksTracking
  <2>2. CASE StopTracking \/ UNCHANGED vars
    <3>1. /\ UNCHANGED <<batch, pending, wpc, wtask, wpack, owner, plan>>
          /\ tpc' = tpc \/ tpc = "swap"
      BY <2>2 DEF StopTracking, vars, trackingVars, workerVars, mapVars
    <3>2. StrictIn(batch') = StrictIn(batch) /\ StrictIn(pending') = StrictIn(pending)
      BY <3>1 DEF StrictIn
    <3> QED
      BY <3>1, <3>2 DEF Packs, Intact, Mapped, PlanPatches
  <2>3. CASE \E w \in Workers : WorkerStep(w)
    BY <2>3, PacksWorker
  <2> QED
    BY <2>1, <2>2, <2>3 DEF Next
<1>3. Base /\ PlanFresh /\ Packs => PlansHold
  <2> SUFFICES ASSUME Base, PlanFresh, Packs, tpc = "apply", batch # <<>>, Head(batch).strict
               PROVE  Head(batch).pack \subseteq Mapped \ PlanPatches(Head(batch).gen)
    BY DEF PlansHold, PackAlive
  <2>1. StrictIn(batch) = {1} /\ Head(batch) = batch[1]
    BY HeadOnly DEF Base, Tickets
  <2> QED
    BY <2>1 DEF Packs, Intact
<1> QED
  BY <1>1, <1>2, <1>3, BaseHolds, WhereaboutsHold, CountedHolds, RebindGuarded, PTL DEF Spec

-----------------------------------------------------------------------------
(* The threads implement the pipeline                                      *)

\* What the mapping of StrictLoop says of a loop in hand and of its result.
Current == IF Popped = {} THEN 0 ELSE CHOOSE g \in Popped : TRUE

Ready == \E r \in {(batch \o pending)[i] : i \in 1 .. Len(batch \o pending)} :
           r.strict /\ r.gen \in Outstanding

\* The strict results of two sequences are those of their concatenation.
LEMMA StrictResults ==
  ASSUME NEW b \in Seq(Results), NEW q \in Seq(Results), NEW O
  PROVE  (\E r \in {(b \o q)[i] : i \in 1 .. Len(b \o q)} : r.strict /\ r.gen \in O)
           <=> \/ \E i \in StrictIn(b) : b[i].gen \in O
               \/ \E i \in StrictIn(q) : q[i].gen \in O
<1> DEFINE m == Len(b)
           n == Len(q)
           s == b \o q
<1>1. /\ m \in Nat /\ n \in Nat /\ Len(s) = m + n
      /\ \A i \in 1 .. m + n : s[i] = IF i <= m THEN b[i] ELSE q[i - m]
  OBVIOUS
<1>2. \A i \in 1 .. m : i \in 1 .. Len(s) /\ s[i] = b[i]
  BY <1>1
<1>3. \A i \in 1 .. n : i + m \in 1 .. Len(s) /\ s[i + m] = q[i]
  <2> SUFFICES ASSUME NEW i \in 1 .. n
               PROVE  i + m \in 1 .. Len(s) /\ s[i + m] = q[i]
    OBVIOUS
  <2>1. i + m \in 1 .. m + n /\ ~(i + m <= m) /\ (i + m) - m = i
    BY <1>1
  <2> HIDE DEF m, n, s
  <2> QED
    BY <1>1, <2>1
<1>4. \A i \in 1 .. Len(s) :
        (i \in 1 .. m /\ s[i] = b[i]) \/ (i - m \in 1 .. n /\ s[i] = q[i - m])
  <2> HIDE DEF m, n, s
  <2> QED
    BY <1>1
<1> HIDE DEF s
<1> QED
  BY <1>2, <1>3, <1>4 DEF StrictIn, s

\* The loops that no worker has taken.
Untaken(h) == \/ tpc \in {"arm", "push"} /\ h = generation
              \/ \E i \in 1 .. Len(queue) : queue[i] = h

\* What the mapping says, loop by loop and result by result.
Mapping ==
  /\ \A h : (\E i \in 1 .. Len(Unpopped) : Unpopped[i] = h) <=> Untaken(h)
  /\ Popped = {h \in Outstanding : ~Untaken(h)}
  /\ Ready <=> \/ \E i \in StrictIn(batch) : batch[i].gen \in Outstanding
               \/ \E i \in StrictIn(pending) : pending[i].gen \in Outstanding

LEMMA MappingIs ==
  ASSUME TypeOK, Control
  PROVE  Mapping
<1>1. Ready <=> \/ \E i \in StrictIn(batch) : batch[i].gen \in Outstanding
                \/ \E i \in StrictIn(pending) : pending[i].gen \in Outstanding
  BY StrictResults DEF Ready, TypeOK
<1>2. CASE tpc \in {"arm", "push"}
  <2>1. generation \in Gens /\ Unpopped = Append(queue, generation) /\ queue \in Seq(Gens)
    BY <1>2 DEF Control, TypeOK, Gens, Unpopped
  <2>2. /\ Len(queue) \in Nat
        /\ Len(Unpopped) = Len(queue) + 1 /\ Unpopped[Len(queue) + 1] = generation
        /\ \A i \in 1 .. Len(queue) : Unpopped[i] = queue[i]
    BY <2>1, AppendIn
  <2>3. \A h : (\E i \in 1 .. Len(Unpopped) : Unpopped[i] = h) <=> Untaken(h)
    BY <1>2, <2>2 DEF Untaken
  <2> QED
    BY <1>1, <2>3 DEF Popped, Mapping
<1>3. CASE tpc \notin {"arm", "push"}
  BY <1>1, <1>3 DEF Unpopped, Untaken, Popped, Mapping
<1> QED
  BY <1>2, <1>3

\* A loop that was popped is in hand.
LEMMA PoppedInHand ==
  ASSUME Mapping, Located, NEW g \in Popped
  PROVE  InHand(g)
BY DEF Mapping, Located, Placed, Untaken

\* A strict loop newer than everything applied is not applied yet.
LEMMA NewerOutstanding ==
  ASSUME TypeOK, Applied, NEW g \in strictGens, appliedStrict < g
  PROVE  g \in Outstanding
<1>1. ASSUME NEW i \in 1 .. Len(adjusted) PROVE adjusted[i] # g
  <2>1. adjusted[i] \in Gens
    BY ElementOfSeq DEF TypeOK
  <2> QED
    BY <2>1 DEF Applied, TypeOK, Gens
<1> QED
  BY <1>1 DEF Outstanding

LEMMA CurrentIs ==
  ASSUME NEW g
  PROVE  /\ Popped = {} => Current = 0
         /\ Popped = {g} => Current = g
BY DEF Current

\* A step that takes no loop, applies none and leaves the results that count is
\* none of the pipeline.
LEMMA Stutter ==
  ASSUME Mapping, Mapping', UNCHANGED <<Outstanding, adjusted, Unpopped>>,
         \A i \in StrictIn(batch') : batch'[i].gen \in Outstanding =>
           \/ \E j \in StrictIn(batch) : batch[j].gen = batch'[i].gen
           \/ \E j \in StrictIn(pending) : pending[j].gen = batch'[i].gen,
         \A i \in StrictIn(pending') : pending'[i].gen \in Outstanding =>
           \E j \in StrictIn(pending) : pending[j].gen = pending'[i].gen,
         \A j \in StrictIn(batch) : batch[j].gen \in Outstanding =>
           \E i \in StrictIn(batch') : batch'[i].gen = batch[j].gen,
         \A j \in StrictIn(pending) : pending[j].gen \in Outstanding =>
           \/ \E i \in StrictIn(pending') : pending'[i].gen = pending[j].gen
           \/ \E i \in StrictIn(batch') : batch'[i].gen = pending[j].gen
  PROVE  UNCHANGED Pipeline!vars
<1>1. Ready' = Ready
  <2>1. Ready' <=> Ready
    BY DEF Mapping
  <2> QED
    BY <2>1 DEF Ready
<1>2. Popped' = Popped
  BY DEF Popped
<1> QED
  BY <1>1, <1>2 DEF Pipeline!vars, Ready

\* Generations in hand and applied are not newer than lc_generation.
LEMMA KnownGens ==
  ASSUME Base, Whereabouts
  PROVE  /\ \A g \in Outstanding : g \in Gens /\ g <= generation
         /\ \A i \in 1 .. Len(adjusted) : adjusted[i] \in Gens /\ adjusted[i] <= generation
         /\ generation \in Nat
<1> USE DEF Base, Tickets, Whereabouts
<1>1. strictGens \subseteq 1 .. generation /\ generation \in Nat /\ strictGens \subseteq Gens
  BY DEF Applied, TypeOK
<1>2. \A i \in 1 .. Len(adjusted) : adjusted[i] \in Gens
  BY ElementOfSeq DEF TypeOK
<1>3. appliedStrict <= generation
  <2>1. CASE tpc = "mark"
    <3>1. batch # <<>> /\ Head(batch).strict
      BY <2>1 DEF Control
    <3>2. StrictIn(batch) = {1} /\ batch[1] = Head(batch)
      BY <3>1, HeadOnly
    <3> QED
      BY <2>1, <3>2, ResultGens DEF Applied
  <2>2. CASE tpc # "mark"
    BY <2>2 DEF Applied, Order
  <2> QED
    BY <2>1, <2>2
<1>4. \A i \in 1 .. Len(adjusted) : adjusted[i] <= generation
  BY <1>1, <1>2, <1>3 DEF Applied, TypeOK, Gens
<1> QED
  BY <1>1, <1>2, <1>4 DEF Outstanding

\* Stage 1 is Detect: the new loop is newer than all the pipeline knows.
LEMMA Stage1Detects ==
  ASSUME Base, Whereabouts, Mapping, Mapping', Stage1
  PROVE  Pipeline!Next
<1> USE DEF Base, Tickets, Whereabouts
<1>1. PICK g \in Gens : /\ g = generation + 1 /\ generation' = g /\ g \notin Outstanding
                        /\ Outstanding' = Outstanding \cup {g}
  BY Stage1Adds
<1>2. /\ tpc = "stage1" /\ tpc' = "arm"
      /\ UNCHANGED <<queue, adjusted, batch, pending>>
  BY DEF Stage1
<1>3. Unpopped = queue /\ Unpopped' = Append(Unpopped, g)
  BY <1>1, <1>2 DEF Unpopped
<1>4. ASSUME NEW i \in 1 .. Len(Unpopped) PROVE Unpopped[i] < g
  <2>1. Unpopped[i] <= generation /\ Unpopped[i] \in Gens
    BY <1>3, ElementOfSeq DEF Order, TypeOK
  <2> QED
    BY <1>1, <2>1 DEF Gens, TypeOK
<1>5. \A i \in 1 .. Len(adjusted) : adjusted[i] < g
  BY <1>1, KnownGens DEF Gens
<1>6. Popped' = Popped
  <2>1. Popped = {h \in Outstanding : ~Untaken(h)}
    BY DEF Mapping
  <2>2. Popped' = {h \in Outstanding' : ~Untaken(h)'}
    BY DEF Mapping
  <2>3. \A h : Untaken(h)' <=> Untaken(h) \/ h = g
    BY <1>1, <1>2 DEF Untaken
  <2> QED
    BY <1>1, <2>1, <2>2, <2>3
<1>7. Current' = Current /\ Current < g
  <2>1. \A h \in Popped : h \in Gens /\ h <= generation
    BY KnownGens DEF Popped
  <2>2. Popped # {} => Current \in Popped
    BY DEF Current
  <2> QED
    BY <1>1, <1>6, <2>1, <2>2, KnownGens, CurrentIs DEF Current, Gens
<1>8. Ready' = Ready
  <2>1. /\ StrictIn(batch') = StrictIn(batch) /\ StrictIn(pending') = StrictIn(pending)
    BY <1>2 DEF StrictIn
  <2>2. /\ \A i \in StrictIn(batch) : batch[i].gen # g
        /\ \A i \in StrictIn(pending) : pending[i].gen # g
    <3>1. generation \in Nat /\ g = generation + 1
      BY <1>1, KnownGens
    <3>2. /\ \A i \in StrictIn(batch) : batch[i].gen \in Nat /\ batch[i].gen <= generation
          /\ \A i \in StrictIn(pending) :
               pending[i].gen \in Nat /\ pending[i].gen <= generation
      BY ResultGens DEF Gens
    <3> QED
      BY <3>1, <3>2
  <2>3. Ready <=> \/ \E i \in StrictIn(batch) : batch[i].gen \in Outstanding
                  \/ \E i \in StrictIn(pending) : pending[i].gen \in Outstanding
    BY DEF Mapping
  <2>4. Ready' <=> \/ \E i \in StrictIn(batch') : batch'[i].gen \in Outstanding'
                   \/ \E i \in StrictIn(pending') : pending'[i].gen \in Outstanding'
    BY DEF Mapping
  <2>5. Ready' <=> Ready
    BY <1>1, <1>2, <2>1, <2>2, <2>3, <2>4
  <2> QED
    BY <2>5 DEF Ready
<1> QED
  BY <1>2, <1>3, <1>4, <1>5, <1>7, <1>8
     DEF Pipeline!Next, Pipeline!Detect, Current, Ready, Gens

\* Stage 3 of apply_pending_lc_if_any is Apply: the loop it applies is the one in
\* hand, and its result is there.
LEMMA Stage3ImplementsApply ==
  ASSUME Base, Whereabouts, Mapping, Mapping', ApplyStrict
  PROVE  Pipeline!Next
<1> USE DEF Base, Tickets, Whereabouts
<1>1. PICK g \in Gens : /\ g = Head(batch).gen /\ doneGen < g /\ appliedStrict = doneGen
                        /\ adjusted' = Append(adjusted, g)
                        /\ Outstanding' = Outstanding \ {g}
  BY Stage3Applies
<1>2. /\ tpc = "apply" /\ tpc' = "mark" /\ batch # <<>> /\ Head(batch).strict
      /\ UNCHANGED <<batch, pending, queue, generation>>
  BY DEF ApplyStrict
<1>3. /\ StrictIn(batch) = {1} /\ StrictIn(pending) = {} /\ batch[1].gen = g /\ Waited(g)
      /\ \A v \in Workers : wpc[v] \notin {"associate", "solve"}
  BY <1>1, <1>2, HeadOnly, HeadWaited
<1>4. PICK w \in Workers : wpc[w] \in {"store", "wait"} /\ wtask[w] = g
  BY <1>3 DEF Waited
<1>5. g \in Outstanding
  <2>1. g \in strictGens
    BY <1>4 DEF Known, Holding
  <2> QED
    BY <1>1, <2>1, NewerOutstanding
<1>6. ~Untaken(g)
  BY <1>1, <1>2, <1>4 DEF Untaken, Order, Holding, Gens
<1>7. Popped = {g}
  <2>1. \A h : InHand(h) => h = g
    BY <1>3 DEF InHand
  <2>2. \A h \in Popped : h = g
    BY <2>1, PoppedInHand
  <2> QED
    BY <1>5, <1>6, <2>2 DEF Mapping
<1>8. Unpopped' = Unpopped
  BY <1>2 DEF Unpopped
<1>9. Popped' = {}
  BY <1>1, <1>7, <1>8 DEF Popped
<1>10. Ready
  BY <1>3, <1>5 DEF Mapping
<1>11. ~Ready'
  <2>1. StrictIn(batch') = {1} /\ StrictIn(pending') = {} /\ batch'[1].gen = g
    BY <1>2, <1>3 DEF StrictIn
  <2> QED
    BY <1>1, <2>1 DEF Mapping
<1>12. Current = g /\ Current' = 0 /\ g # 0
  BY <1>7, <1>9 DEF Current, Gens
<1>13. Ready' = FALSE
  BY <1>11 DEF Ready
<1> QED
  BY <1>1, <1>8, <1>10, <1>12, <1>13 DEF Pipeline!Next, Pipeline!Apply, Current, Ready

\* A worker that takes a task adjusts: no other loop is in hand.
LEMMA PopImplementsAdjust ==
  ASSUME Base, Whereabouts, Mapping, Mapping', NEW w \in Workers, PopTask(w), queue # <<>>
  PROVE  Pipeline!Next
<1> USE DEF Base, Tickets, Whereabouts
<1>0. PICK g \in Gens : g = queue[1]
  BY HeadTail DEF TypeOK
<1>1. /\ wpc[w] = "pop" /\ UNCHANGED <<batch, pending>>
      /\ wpc'[w] = "associate" /\ wtask'[w] = g /\ queue' = Tail(queue)
  BY <1>0, PopMoves
<1>2. /\ UNCHANGED <<tpc, generation, strictGens, adjusted>>
      /\ Outstanding' = Outstanding
  BY WorkerFrame DEF WorkerStep, trackingVars, mapVars, Outstanding
<1>3. /\ Head(queue) = g /\ Len(queue) \in Nat \ {0} /\ 1 \in 1 .. Len(queue)
      /\ Len(queue') = Len(queue) - 1
      /\ \A i \in 1 .. Len(queue) - 1 : queue'[i] = queue[i + 1]
  BY <1>0, <1>1, HeadTail DEF TypeOK
<1>4. StrictIn(batch) = {} /\ StrictIn(pending) = {}
  <2>1. wtask[w] \in Nat /\ doneGen \in Nat
    BY DEF TypeOK
  <2> QED
    BY <1>1, <2>1, NoStrictResult DEF InLoop
<1>5. Popped = {}
  <2>1. ASSUME NEW h, InHand(h) PROVE FALSE
    BY <1>1, <1>4, <2>1 DEF InHand, SingleOptimiser, InLoop
  <2> QED
    BY <2>1, PoppedInHand
<1>6. g \in Outstanding
  <2>1. appliedStrict = doneGen
    BY <1>4, HeadOnly DEF Applied, Control
  <2>2. g \in strictGens /\ doneGen < g
    BY <1>0, <1>3 DEF Known, Order
  <2> QED
    BY <2>1, <2>2, NewerOutstanding
<1>7. Unpopped # <<>> /\ Head(Unpopped) = g /\ Unpopped' = Tail(Unpopped)
  <2>1. CASE tpc \in {"arm", "push"}
    <3>1. generation \in Gens
      BY <2>1 DEF Control, TypeOK, Gens
    <3>2. Unpopped = Append(queue, generation) /\ Unpopped' = Append(Tail(queue), generation)
      BY <1>1, <1>2, <2>1 DEF Unpopped
    <3>3. queue \in Seq(Gens) /\ queue # <<>>
      BY DEF TypeOK
    <3>4. /\ Head(Append(queue, generation)) = Head(queue)
          /\ Tail(Append(queue, generation)) = Append(Tail(queue), generation)
      BY <3>3, HeadTailAppend
    <3>5. Append(queue, generation) # <<>>
      BY <3>1, <3>3, AppendProperties
    <3> QED
      BY <1>3, <3>2, <3>4, <3>5
  <2>2. CASE tpc \notin {"arm", "push"}
    BY <1>1, <1>2, <1>3, <2>2 DEF Unpopped
  <2> QED
    BY <2>1, <2>2
<1>8. Popped' = {g}
  <2>1. ~Untaken(g)'
    <3>1. ASSUME NEW i \in 1 .. Len(queue') PROVE queue'[i] # g
      <4>1. i + 1 \in 1 .. Len(queue) /\ 1 < i + 1 /\ queue'[i] = queue[i + 1]
        BY <1>3
      <4>2. queue[i + 1] \in Gens
        BY <4>1, ElementOfSeq DEF TypeOK
      <4> QED
        BY <1>0, <1>3, <4>1, <4>2 DEF Order, Gens
    <3>2. tpc \in {"arm", "push"} => g # generation
      BY <1>0, <1>3 DEF Order, Gens, TypeOK
    <3> QED
      BY <1>2, <3>1, <3>2 DEF Untaken
  <2>2. ASSUME NEW h \in Outstanding, h # g, ~Untaken(h)' PROVE FALSE
    <3>1. Untaken(h)
      BY <1>5, <2>2 DEF Mapping
    <3>2. \A i \in 1 .. Len(queue) : queue[i] = h => \E j \in 1 .. Len(queue') : queue'[j] = h
      <4>1. \A j \in 1 .. Len(queue) :
              j = 1 \/ (j - 1 \in 1 .. Len(queue') /\ queue'[j - 1] = queue[j])
        BY <1>1, TailIn DEF TypeOK
      <4> QED
        BY <1>0, <2>2, <4>1
    <3> QED
      BY <1>2, <2>2, <3>1, <3>2 DEF Untaken
  <2> QED
    BY <1>2, <1>6, <2>1, <2>2 DEF Mapping
<1>9. Ready' = Ready
  BY <1>1, <1>2 DEF Ready
<1>10. Current = 0 /\ Current' = g
  <2>1. ASSUME NEW h, Popped' = {h} PROVE Current' = h
    BY <2>1 DEF Current
  <2> QED
    BY <1>5, <1>8, <2>1 DEF Current
<1> QED
  BY <1>2, <1>7, <1>9, <1>10 DEF Pipeline!Next, Pipeline!Adjust, Current, Ready

\* A worker that pushes its result completes the loop in hand.
LEMMA SolveImplementsComplete ==
  ASSUME Base, Whereabouts, Mapping, Mapping', NEW w \in Workers, SolveAndPush(w)
  PROVE  Pipeline!Next
<1> USE DEF Base, Tickets, Whereabouts
<1> DEFINE g == wtask[w]
           r == [gen |-> g, strict |-> TRUE, pack |-> wpack[w]]
<1>1. wpc[w] = "solve" /\ pending' = Append(pending, r) /\ queue' = queue
  BY DEF SolveAndPush
<1>2. /\ UNCHANGED <<tpc, generation, adjusted, Unpopped, Outstanding, Popped>>
  BY <1>1, WorkerFrame
     DEF WorkerStep, trackingVars, mapVars, Outstanding, Unpopped, Popped
<1>3. g \in Gens /\ g \in strictGens /\ doneGen < g
  BY <1>1 DEF Order, Known, Control, Holding, TypeOK, Gens
<1>4. StrictIn(batch) = {} /\ StrictIn(pending) = {}
  <2>1. wtask[w] \in Nat /\ doneGen \in Nat
    BY DEF TypeOK
  <2> QED
    BY <1>1, <2>1, NoStrictResult DEF InLoop
<1>5. g \in Outstanding
  <2>1. appliedStrict = doneGen
    BY <1>4, HeadOnly DEF Applied, Control
  <2> QED
    BY <1>3, <2>1, NewerOutstanding
<1>6. g \in Popped
  <2>1. ~Untaken(g)
    BY <1>1, <1>3 DEF Untaken, Order, Holding, Gens, TypeOK
  <2> QED
    BY <1>5, <2>1 DEF Mapping
<1>7. ~Ready
  BY <1>4 DEF Mapping
<1>8. Ready'
  <2>1. r.strict /\ r.gen = g
    OBVIOUS
  <2> HIDE DEF r
  <2>2. /\ Len(pending) + 1 \in 1 .. Len(pending')
        /\ pending'[Len(pending) + 1] = r
    BY <1>1 DEF TypeOK
  <2>3. Len(pending) + 1 \in StrictIn(pending') /\ pending'[Len(pending) + 1].gen = g
    BY <2>1, <2>2 DEF StrictIn
  <2> QED
    BY <1>2, <1>5, <2>3 DEF Mapping
<1>9. Current # 0 /\ Current' = Current
  <2>1. Current \in Popped /\ \A h \in Popped : h \in Gens
    BY <1>6, KnownGens DEF Current, Popped
  <2> QED
    BY <1>2, <2>1 DEF Current, Gens
<1>10. Ready = FALSE /\ Ready' = TRUE
  BY <1>7, <1>8 DEF Ready
<1> QED
  BY <1>2, <1>9, <1>10 DEF Pipeline!Next, Pipeline!Complete, Current, Ready

\* The other steps of the tracking thread leave the loops where they are: results
\* change queues, a result that was applied is dropped, a loop is queued.
LEMMA TrackingStutters ==
  ASSUME Base, Whereabouts, Mapping, Mapping', TrackingStep, ~Stage1, ~ApplyStrict
  PROVE  UNCHANGED Pipeline!vars
<1> USE DEF Base, Tickets, Whereabouts, atomicVars, workerVars, mapVars
<1>1. UNCHANGED <<strictGens, adjusted>> /\ Outstanding' = Outstanding
  BY DEF TrackingStep, SwapResults, MarkStage3Done, ApplyScan, FinishApply, PlainFrame,
     ScanToMapLoop, DetectStrictLoop, ArmLCState, PushTask, StartWorker, LoadLCState,
     RebindPatches, Outstanding
<1>2. Unpopped' = Unpopped
  BY DEF TrackingStep, SwapResults, MarkStage3Done, ApplyScan, FinishApply, PlainFrame,
     ScanToMapLoop, DetectStrictLoop, ArmLCState, PushTask, StartWorker, LoadLCState,
     RebindPatches, Unpopped, TypeOK
<1>3. CASE SwapResults
  <2>1. batch = <<>> /\ batch' = pending /\ pending' = <<>>
    BY <1>3 DEF SwapResults, Control
  <2>2. /\ StrictIn(batch) = {} /\ StrictIn(pending') = {}
        /\ StrictIn(batch') = StrictIn(pending)
    BY <2>1 DEF StrictIn
  <2> QED
    BY <1>1, <1>2, <2>1, <2>2, Stutter
<1>4. CASE MarkStage3Done
  <2>1. /\ tpc = "mark" /\ batch # <<>> /\ Head(batch).strict /\ batch' = Tail(batch)
        /\ pending' = pending
    BY <1>4 DEF MarkStage3Done, Control
  <2>2. PICK g \in Gens : g = Head(batch).gen
    BY <2>1, HeadOnly
  <2>3. /\ StrictIn(batch) = {1} /\ StrictIn(pending) = {} /\ batch[1].gen = g /\ Waited(g)
        /\ \A v \in Workers : wpc[v] \notin {"associate", "solve"}
    BY <2>1, <2>2, HeadOnly, HeadWaited
  <2>4. g \notin Outstanding
    <3>1. ~InHand(g)
      BY <2>1, <2>3 DEF InHand
    <3>2. PICK w \in Workers : wpc[w] \in {"store", "wait"} /\ wtask[w] = g
      BY <2>3 DEF Waited
    <3>3. ~Untaken(g)
      BY <2>1, <3>2 DEF Untaken, Order, Holding, Gens
    <3> QED
      BY <3>1, <3>3 DEF Located, Placed, Untaken
  <2>5. StrictIn(batch') = {}
    <3>1. \A i \in StrictIn(batch') : i + 1 \in StrictIn(batch) /\ i + 1 # 1
      BY <2>1, TailIn DEF StrictIn, TypeOK
    <3> QED
      BY <2>3, <3>1
  <2>6. StrictIn(pending') = {}
    BY <2>1, <2>3 DEF StrictIn
  <2> QED
    BY <1>1, <1>2, <2>3, <2>4, <2>5, <2>6, Stutter
<1>5. CASE ApplyScan
  <2>1. /\ batch # <<>> /\ ~Head(batch).strict /\ batch' = Tail(batch)
        /\ pending' = pending /\ Head(batch) = batch[1]
    BY <1>5, HeadTail DEF ApplyScan, TypeOK
  <2>2. \A i \in StrictIn(batch') : i + 1 \in StrictIn(batch) /\ batch'[i] = batch[i + 1]
    BY <2>1, TailIn DEF StrictIn, TypeOK
  <2>3. \A j \in StrictIn(batch) : j - 1 \in StrictIn(batch') /\ batch'[j - 1] = batch[j]
    BY <2>1, TailIn DEF StrictIn, TypeOK
  <2>4. StrictIn(pending') = StrictIn(pending)
    BY <2>1 DEF StrictIn
  <2> QED
    BY <1>1, <1>2, <2>1, <2>2, <2>3, <2>4, Stutter
<1>6. CASE ScanToMapLoop
  <2> DEFINE r == [gen |-> generation + 1, strict |-> FALSE, pack |-> {}]
  <2>1. pending' = Append(pending, r) /\ batch' = batch
    BY <1>6 DEF ScanToMapLoop
  <2>2. ~r.strict
    OBVIOUS
  <2> HIDE DEF r
  <2>3. /\ \A i \in StrictIn(pending') : i \in StrictIn(pending) /\ pending'[i] = pending[i]
        /\ \A i \in StrictIn(pending) : i \in StrictIn(pending') /\ pending'[i] = pending[i]
    BY <2>1, <2>2 DEF StrictIn, TypeOK
  <2>4. StrictIn(batch') = StrictIn(batch)
    BY <2>1 DEF StrictIn
  <2> QED
    BY <1>1, <1>2, <2>1, <2>3, <2>4, Stutter
<1>7. CASE ~(SwapResults \/ MarkStage3Done \/ ApplyScan \/ ScanToMapLoop)
  <2>1. batch' = batch /\ pending' = pending
    BY <1>7 DEF TrackingStep, FinishApply, PlainFrame, DetectStrictLoop, ArmLCState,
       PushTask, StartWorker, LoadLCState, RebindPatches
  <2>2. StrictIn(batch') = StrictIn(batch) /\ StrictIn(pending') = StrictIn(pending)
    BY <2>1 DEF StrictIn
  <2> QED
    BY <1>1, <1>2, <2>1, <2>2, Stutter
<1> QED
  BY <1>3, <1>4, <1>5, <1>6, <1>7

\* A worker that neither takes a task nor pushes a result leaves the pipeline alone.
LEMMA WorkerStutters ==
  ASSUME TypeOK, Mapping, Mapping', NEW w \in Workers, WorkerStep(w), ~SolveAndPush(w),
         PopTask(w) => queue = <<>>
  PROVE  UNCHANGED Pipeline!vars
<1>1. UNCHANGED <<tpc, generation, batch, strictGens, adjusted>>
  BY WorkerFrame DEF trackingVars, mapVars
<1>2. queue' = queue /\ pending' = pending
  BY DEF WorkerStep, PopTask, Associate, StoreApplying, AwaitStage3, ReleaseRunning,
     RecheckQueue, Restart
<1>3. Outstanding' = Outstanding /\ Unpopped' = Unpopped
  BY <1>1, <1>2 DEF Outstanding, Unpopped
<1>4. StrictIn(batch') = StrictIn(batch) /\ StrictIn(pending') = StrictIn(pending)
  BY <1>1, <1>2 DEF StrictIn
<1> QED
  BY <1>1, <1>2, <1>3, <1>4, Stutter

\* The tracking thread, the workers, their flags and queues implement the
\* pipeline: loops are adjusted one at a time, in the order of their detection,
\* and each is applied before the next adjustment begins.
THEOREM PipelineImplemented == Spec => ImplementsPipeline
<1>1. Init => Pipeline!Init
  <2> SUFFICES ASSUME Init PROVE Pipeline!Init
    OBVIOUS
  <2>1. Popped = {} /\ Unpopped = <<>> /\ adjusted = <<>>
    BY DEF Init, Popped, Outstanding, Unpopped
  <2>2. ~Ready
    BY DEF Init, Ready
  <2> QED
    BY <2>1, <2>2 DEF Pipeline!Init, Ready
<1>2. Base => Mapping
  BY MappingIs DEF Base
<1>3. Base /\ Whereabouts /\ Mapping /\ Mapping' /\ [Next]_vars
        => [Pipeline!Next]_(Pipeline!vars)
  <2> SUFFICES ASSUME Base, Whereabouts, Mapping, Mapping', [Next]_vars
               PROVE  Pipeline!Next \/ UNCHANGED Pipeline!vars
    OBVIOUS
  <2>1. CASE Stage1
    BY <2>1, Stage1Detects
  <2>2. CASE ApplyStrict
    BY <2>2, Stage3ImplementsApply
  <2>3. CASE TrackingStep /\ ~Stage1 /\ ~ApplyStrict
    BY <2>3, TrackingStutters
  <2>4. CASE StopTracking \/ UNCHANGED vars
    <3>1. /\ UNCHANGED <<batch, pending, queue, generation, strictGens, adjusted>>
          /\ tpc' \in {"arm", "push"} <=> tpc \in {"arm", "push"}
      BY <2>4 DEF StopTracking, vars, trackingVars, atomicVars, mapVars
    <3>2. Outstanding' = Outstanding /\ Unpopped' = Unpopped
      BY <3>1 DEF Outstanding, Unpopped
    <3>3. StrictIn(batch') = StrictIn(batch) /\ StrictIn(pending') = StrictIn(pending)
      BY <3>1 DEF StrictIn
    <3> QED
      BY <3>1, <3>2, <3>3, Stutter
  <2>5. ASSUME NEW w \in Workers, WorkerStep(w)
        PROVE  Pipeline!Next \/ UNCHANGED Pipeline!vars
    <3>1. CASE PopTask(w) /\ queue # <<>>
      BY <3>1, PopImplementsAdjust
    <3>2. CASE SolveAndPush(w)
      BY <3>2, SolveImplementsComplete
    <3>3. CASE ~SolveAndPush(w) /\ (PopTask(w) => queue = <<>>)
      BY <2>5, <3>3, WorkerStutters DEF Base
    <3> QED
      BY <3>1, <3>2, <3>3
  <2> QED
    BY <2>1, <2>2, <2>3, <2>4, <2>5 DEF Next, TrackingStep
<1> QED
  BY <1>1, <1>2, <1>3, BaseHolds, WhereaboutsHold, PTL DEF Spec, ImplementsPipeline, Pipeline!Spec
=============================================================================
