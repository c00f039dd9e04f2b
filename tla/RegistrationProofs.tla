------------------------- MODULE RegistrationProofs -------------------------
(***************************************************************************)
(* Proofs about the association of cells with patches, for every set of    *)
(* cells and patches, every overlap and any number of keyframes and loops, *)
(* and about the recognition of scans, for every size of the grid and any  *)
(* scans.                                                                  *)
(***************************************************************************)
EXTENDS Registration, SequenceTheorems, FiniteSetTheorems, TLAPS

-----------------------------------------------------------------------------
(* What the three callers share                                            *)

\* The overlaps a caller works with are overlaps.
LEMMA AdmittedTyped ==
  ASSUME NEW overlap \in Overlaps, NEW admitted
  PROVE  intersected_score_pairs(overlap, admitted) \in Overlaps
BY RegistrationAssumption DEF Overlaps, intersected_score_pairs

\* So are those of the cells of an adjusted keyframe.
LEMMA KeyframeTyped == KeyframeOverlaps \subseteq Overlaps
<1> SUFFICES ASSUME NEW k \in KeyframeOverlaps PROVE k \in Overlaps
  OBVIOUS
<1>1. PICK o \in [KeyframeCells -> [Patches -> 0 .. MaxIoU]] :
        k = [c \in Cells |-> IF c \in KeyframeCells THEN o[c] ELSE [p \in Patches |-> 0]]
  BY DEF KeyframeOverlaps
<1>2. [p \in Patches |-> 0] \in [Patches -> 0 .. MaxIoU]
  BY RegistrationAssumption
<1> QED
  BY <1>1, <1>2 DEF Overlaps

\* The overlap of a cell with the patch it picked is positive.
LEMMA PickTouches ==
  ASSUME NEW iou \in Overlaps, NEW picked \in Picks(iou),
         NEW c \in Cells, NEW p \in Patches, picked[c] = p
  PROVE  iou[c][p] \in 1 .. MaxIoU
BY RegistrationAssumption DEF Overlaps, Picks

\* What the patches collect are cells with the overlap they were picked for.
LEMMA CollectedTyped ==
  ASSUME NEW asso \in [Patches -> SUBSET (Cells \X (1 .. MaxIoU))],
         NEW iou \in Overlaps, NEW picked \in Picks(iou)
  PROVE  Collected(asso, iou, picked) \in [Patches -> SUBSET (Cells \X (1 .. MaxIoU))]
<1>1. ASSUME NEW p \in Patches
      PROVE  {<<c, iou[c][p]>> : c \in {d \in Cells : picked[d] = p}}
               \subseteq Cells \X (1 .. MaxIoU)
  BY PickTouches
<1> QED
  BY <1>1 DEF Collected

\* Starting from nothing, a patch holds exactly the cells that picked it.
LEMMA CollectedIs ==
  ASSUME NEW iou, NEW picked, NEW p \in Patches, NEW a
  PROVE  a \in Collected(NoneCollected, iou, picked)[p]
           <=> \E c \in Cells : picked[c] = p /\ a = <<c, iou[c][p]>>
BY DEF Collected, NoneCollected

\* Clearing the patches that were picked undoes a collection.
LEMMA ClearedAll ==
  ASSUME NEW iou, NEW picked \in Picks(iou)
  PROVE  Cleared(Collected(NoneCollected, iou, picked), picked) = NoneCollected
<1>1. ASSUME NEW p \in Patches, p \notin Range(picked)
      PROVE  Collected(NoneCollected, iou, picked)[p] = {}
  <2>1. DOMAIN picked = Cells
    BY DEF Picks
  <2>2. \A c \in Cells : picked[c] # p
    BY <1>1, <2>1 DEF Range
  <2> QED
    BY <2>2 DEF Collected, NoneCollected
<1> QED
  BY <1>1 DEF Cleared, NoneCollected

\* The pairs that stand are those of the best cells: each cell and each patch is in
\* one pair at most, a cell has the patch it overlaps most, and a patch that is a
\* cell's only best goes to a cell that overlaps it as much.
LEMMA StandingBest ==
  ASSUME NEW iou \in Overlaps, NEW picked \in Picks(iou),
         NEW best \in Bests(Collected(NoneCollected, iou, picked))
  PROVE  BestOfBoth(iou, Standing(picked, best))
<1> DEFINE asso == Collected(NoneCollected, iou, picked)
<1>1. /\ picked \in [Cells -> Patches \cup {NoPatch}]
      /\ \A c \in Cells : picked[c] = NoPatch => \A p \in Patches : iou[c][p] = 0
      /\ \A c \in Cells : picked[c] # NoPatch =>
            iou[c][picked[c]] > 0 /\ \A p \in Patches : iou[c][p] <= iou[c][picked[c]]
  BY DEF Picks
<1>2. \A c \in Cells, p \in Patches : iou[c][p] \in Nat
  BY DEF Overlaps
<1>3. \A a : a \in Standing(picked, best) <=>
              \E c \in Cells : picked[c] # NoPatch /\ best[picked[c]] = c
                                 /\ a = <<c, picked[c]>>
  BY DEF Standing
<1>4. ASSUME NEW a \in Standing(picked, best), NEW b \in Standing(picked, best), a # b
      PROVE  a[1] # b[1] /\ a[2] # b[2]
  BY <1>3, <1>4
<1>5. ASSUME NEW a \in Standing(picked, best), NEW p \in Patches
      PROVE  iou[a[1]][p] <= iou[a[1]][a[2]]
  BY <1>1, <1>3
<1>6. ASSUME NEW c \in Cells, NEW p \in Patches, iou[c][p] > 0,
             \A q \in Patches \ {p} : iou[c][q] < iou[c][p]
      PROVE  \E a \in Standing(picked, best) : a[2] = p /\ iou[a[1]][p] >= iou[c][p]
  <2>1. picked[c] = p
    BY <1>1, <1>2, <1>6
  <2>2. <<c, iou[c][p]>> \in asso[p]
    BY <2>1, CollectedIs
  <2>3. PICK a \in asso[p] : a[1] = best[p] /\ \A b \in asso[p] : b[2] <= a[2]
    BY <2>2 DEF Bests
  <2>4. PICK d \in Cells : picked[d] = p /\ a = <<d, iou[d][p]>>
    BY <2>3, CollectedIs
  <2>5. best[p] = d /\ iou[c][p] <= iou[d][p]
    BY <2>2, <2>3, <2>4
  <2>6. <<d, p>> \in Standing(picked, best)
    BY <1>3, <2>4, <2>5, RegistrationAssumption
  <2>7. iou[d][p] >= iou[c][p]
    BY <1>2, <2>5
  <2> QED
    BY <2>6, <2>7
<1> QED
  BY <1>4, <1>5, <1>6 DEF BestOfBoth

-----------------------------------------------------------------------------
(* The two threads                                                         *)

\* What a thread has collected and matched is what its cells picked, starting from
\* nothing; the worker has a loop to adjust, and a loop is adjusted once at most
\* for each keyframe.
Stages ==
  /\ pc = "idle" => data_asso = NoneCollected
  /\ pc # "idle" => /\ patch_info_ptr \in Picks(IoU)
                    /\ data_asso = Collected(NoneCollected, IoU, patch_info_ptr)
  /\ pc = "matched" => \E best \in Bests(data_asso) : pairs = Standing(patch_info_ptr, best)
  /\ worker.pc # "idle" =>
       /\ tasks > 0
       /\ worker.patch_info_ptr \in Picks(worker.IoU)
       /\ local_data_asso = Collected(NoneCollected, worker.IoU, worker.patch_info_ptr)
  /\ worker.pc = "matched" => \E best \in Bests(local_data_asso) :
                                 worker.pairs = Standing(worker.patch_info_ptr, best)
  /\ loop => ~is_registration_succeed /\ tasks < Len(polarcontexts_)
  /\ tasks <= Len(polarcontexts_)

\* One more descriptor may be kept while the bound is not reached.
LEMMA Longer ==
  ASSUME polarcontexts_ \in BoundedSeq(Scans, MaxKeyframes),
         Len(polarcontexts_) < MaxKeyframes, NEW scan \in Scans
  PROVE  /\ Append(polarcontexts_, scan) \in BoundedSeq(Scans, MaxKeyframes)
         /\ Len(Append(polarcontexts_, scan)) = Len(polarcontexts_) + 1
         /\ Len(polarcontexts_) \in Nat
<1>1. PICK m \in 0 .. MaxKeyframes : polarcontexts_ \in [1 .. m -> Scans]
  BY DEF BoundedSeq, SeqOf
<1>2. MaxKeyframes \in Nat /\ m \in Nat
  BY RegistrationAssumption
<1>3. polarcontexts_ \in Seq(Scans) /\ Len(polarcontexts_) = m
  BY <1>1, <1>2, SeqDef, LenProperties
<1>4. /\ Append(polarcontexts_, scan) \in Seq(Scans)
      /\ Len(Append(polarcontexts_, scan)) = m + 1
  BY <1>3, AppendProperties
<1>5. Append(polarcontexts_, scan) \in [1 .. m + 1 -> Scans]
  BY <1>4, LenProperties
<1>6. m + 1 \in 0 .. MaxKeyframes
  BY <1>2, <1>3
<1> QED
  BY <1>2, <1>3, <1>4, <1>5, <1>6 DEF BoundedSeq, SeqOf

\* The number of descriptors is a number within the bound.
LEMMA Length ==
  ASSUME polarcontexts_ \in BoundedSeq(Scans, MaxKeyframes)
  PROVE  Len(polarcontexts_) \in 0 .. MaxKeyframes
<1>1. PICK m \in 0 .. MaxKeyframes : polarcontexts_ \in [1 .. m -> Scans]
  BY DEF BoundedSeq, SeqOf
<1>2. MaxKeyframes \in Nat /\ m \in Nat
  BY RegistrationAssumption
<1>3. Len(polarcontexts_) = m
  BY <1>1, <1>2, SeqDef, LenProperties
<1> QED
  BY <1>3

\* Nothing is collected or picked at first.
LEMMA NothingTyped ==
  /\ NoneCollected \in [Patches -> SUBSET (Cells \X (1 .. MaxIoU))]
  /\ NoOverlap \in Overlaps
  /\ NonePicked \in [Cells -> Patches \cup {NoPatch}]
BY RegistrationAssumption DEF NoneCollected, NoOverlap, NonePicked, Overlaps

\* A collection keeps the types and is what the cells picked.
LEMMA CollectKeeps ==
  ASSUME TypeOK, Stages, Collect
  PROVE  TypeOK' /\ Stages'
<1> USE DEF adjusting, tracking
<1>1. PICK overlap \in Overlaps, admitted \in SUBSET Patches :
        /\ IoU' = intersected_score_pairs(overlap, admitted)
        /\ patch_info_ptr' \in Picks(IoU')
        /\ data_asso' = Collected(data_asso, IoU', patch_info_ptr')
  BY DEF Collect
<1>2. IoU' \in Overlaps
  BY <1>1, AdmittedTyped
<1>3. patch_info_ptr' \in [Cells -> Patches \cup {NoPatch}]
  BY <1>1 DEF Picks
<1>4. data_asso' \in [Patches -> SUBSET (Cells \X (1 .. MaxIoU))]
  BY <1>1, <1>2, CollectedTyped DEF TypeOK
<1>5. data_asso' = Collected(NoneCollected, IoU', patch_info_ptr')
  BY <1>1 DEF Collect, Stages
<1>6. /\ pc' = "collected"
      /\ UNCHANGED <<loop, pairs, is_registration_succeed, worker, local_data_asso, tasks,
                     polarcontexts_>>
  BY DEF Collect
<1>7. TypeOK'
  BY <1>2, <1>3, <1>4, <1>6 DEF TypeOK
<1>8. Stages'
  BY <1>1, <1>5, <1>6 DEF Stages
<1> QED
  BY <1>7, <1>8

\* The pairs that stand are pairs of a cell and a patch.
LEMMA StandingTyped ==
  ASSUME NEW picked \in [Cells -> Patches \cup {NoPatch}], NEW best
  PROVE  Standing(picked, best) \subseteq Cells \X Patches
BY DEF Standing

\* Matching keeps the types and leaves the pairs of the best cells.
LEMMA MatchKeeps ==
  ASSUME TypeOK, Stages, Match
  PROVE  TypeOK' /\ Stages'
<1>1. PICK best \in Bests(data_asso) : pairs' = Standing(patch_info_ptr, best)
  BY DEF Match
<1>2. pairs' \subseteq Cells \X Patches
  BY <1>1, StandingTyped DEF TypeOK
<1>3. /\ pc = "collected" /\ pc' = "matched"
      /\ UNCHANGED <<data_asso, loop, IoU, patch_info_ptr, is_registration_succeed, worker,
                     local_data_asso, tasks, polarcontexts_>>
  BY DEF Match, adjusting
<1>4. TypeOK'
  BY <1>2, <1>3 DEF TypeOK
<1>5. Stages'
  BY <1>1, <1>3 DEF Stages
<1> QED
  BY <1>4, <1>5

\* The end of a registration clears what it collected.
LEMMA FinishKeeps ==
  ASSUME TypeOK, Stages, Finish
  PROVE  TypeOK' /\ Stages'
<1>1. /\ pc = "matched" /\ pc' = "idle" /\ loop' = FALSE
      /\ is_registration_succeed' = (~loop /\ pose_pairs >= MinPairs)
      /\ tasks' = IF loop THEN tasks + 1 ELSE tasks
      /\ IoU' = NoOverlap /\ patch_info_ptr' = NonePicked /\ pairs' = {}
      /\ UNCHANGED <<worker, local_data_asso, polarcontexts_>>
  BY DEF Finish
<1>2. data_asso' = NoneCollected
  BY <1>1, ClearedAll DEF Finish, Clear, Stages
<1>3. /\ tasks' \in 0 .. MaxKeyframes /\ tasks' <= Len(polarcontexts_) /\ tasks <= tasks'
      /\ tasks \in Nat
  <2>1. Len(polarcontexts_) \in 0 .. MaxKeyframes /\ tasks \in 0 .. MaxKeyframes
    BY Length DEF TypeOK
  <2> QED
    BY <1>1, <2>1, RegistrationAssumption DEF Stages
<1>4. is_registration_succeed' \in BOOLEAN
  BY <1>1
<1>5. TypeOK'
  BY <1>1, <1>2, <1>3, <1>4, NothingTyped DEF TypeOK
<1>6. Stages'
  BY <1>1, <1>2, <1>3 DEF Stages
<1> QED
  BY <1>5, <1>6

\* A keyframe may close a loop once a keyframe came before it.
LEMMA KeyframeKeeps ==
  ASSUME TypeOK, Stages, Keyframe
  PROVE  TypeOK' /\ Stages'
<1>1. PICK scan \in Scans : polarcontexts_' = Append(polarcontexts_, scan)
  BY DEF Keyframe
<1>2. /\ polarcontexts_' \in BoundedSeq(Scans, MaxKeyframes)
      /\ Len(polarcontexts_') = Len(polarcontexts_) + 1
      /\ Len(polarcontexts_) \in Nat
  BY <1>1, Longer DEF Keyframe, TypeOK
<1>3. /\ is_registration_succeed' = FALSE
      /\ UNCHANGED <<data_asso, pc, IoU, patch_info_ptr, pairs, worker, local_data_asso,
                     tasks>>
  BY DEF Keyframe, adjusting
<1>4. loop' \in BOOLEAN
  BY DEF Keyframe
<1>5. tasks < Len(polarcontexts_') /\ tasks \in Nat
  BY <1>2 DEF Stages, TypeOK
<1>6. TypeOK'
  BY <1>2, <1>3, <1>4 DEF TypeOK
<1>7. Stages'
  BY <1>2, <1>3, <1>5 DEF Stages
<1> QED
  BY <1>6, <1>7

\* A step of the worker leaves the tracking thread's patches alone.
LEMMA WorkerKeeps ==
  ASSUME TypeOK, Stages, WorkerCollect \/ WorkerMatch \/ WorkerFinish
  PROVE  TypeOK' /\ Stages'
<1> USE DEF tracking
<1>1. CASE WorkerCollect
  <2>1. PICK overlap \in KeyframeOverlaps, refused \in SUBSET Patches :
          \E picked \in Picks(intersected_score_pairs(overlap, Patches \ refused)) :
            /\ worker' = [pc |-> "collected",
                          IoU |-> intersected_score_pairs(overlap, Patches \ refused),
                          patch_info_ptr |-> picked, pairs |-> {}]
            /\ local_data_asso' =
                 Collected(NoneCollected,
                           intersected_score_pairs(overlap, Patches \ refused), picked)
    BY <1>1 DEF WorkerCollect
  <2>2. PICK iou \in Overlaps : iou = intersected_score_pairs(overlap, Patches \ refused)
    BY KeyframeTyped, AdmittedTyped
  <2>3. PICK picked \in Picks(iou) :
          /\ worker' = [pc |-> "collected", IoU |-> iou, patch_info_ptr |-> picked,
                        pairs |-> {}]
          /\ local_data_asso' = Collected(NoneCollected, iou, picked)
    BY <2>1, <2>2
  <2>4. picked \in [Cells -> Patches \cup {NoPatch}]
    BY DEF Picks
  <2>5. local_data_asso' \in [Patches -> SUBSET (Cells \X (1 .. MaxIoU))]
    BY <2>3, NothingTyped, CollectedTyped
  <2>6. /\ tasks > 0
        /\ UNCHANGED <<data_asso, pc, loop, IoU, patch_info_ptr, pairs,
                       is_registration_succeed, tasks, polarcontexts_>>
    BY <1>1 DEF WorkerCollect
  <2>7. TypeOK'
    BY <2>3, <2>4, <2>5, <2>6 DEF TypeOK
  <2>8. Stages'
    BY <2>3, <2>6 DEF Stages
  <2> QED
    BY <2>7, <2>8
<1>2. CASE WorkerMatch
  <2>1. PICK best \in Bests(local_data_asso) :
          worker' = [worker EXCEPT !.pc = "matched",
                                   !.pairs = Standing(worker.patch_info_ptr, best)]
    BY <1>2 DEF WorkerMatch, WorkerAsso
  <2>2. /\ worker.pc = "collected"
        /\ UNCHANGED <<data_asso, pc, loop, IoU, patch_info_ptr, pairs,
                       is_registration_succeed, local_data_asso, tasks, polarcontexts_>>
    BY <1>2 DEF WorkerMatch
  <2>3. Standing(worker.patch_info_ptr, best) \subseteq Cells \X Patches
    BY StandingTyped DEF TypeOK
  <2>4. /\ worker'.pc = "matched" /\ worker'.IoU = worker.IoU
        /\ worker'.patch_info_ptr = worker.patch_info_ptr
        /\ worker'.pairs = Standing(worker.patch_info_ptr, best)
    BY <2>1 DEF TypeOK
  <2>5. TypeOK'
    BY <2>1, <2>2, <2>3 DEF TypeOK
  <2>6. Stages'
    BY <2>2, <2>4 DEF Stages
  <2> QED
    BY <2>5, <2>6
<1>3. CASE WorkerFinish
  <2>1. /\ worker.pc = "matched" /\ worker' = Idle /\ local_data_asso' = NoneCollected
        /\ tasks' \in {tasks, tasks - 1}
        /\ UNCHANGED <<data_asso, pc, loop, IoU, patch_info_ptr, pairs,
                       is_registration_succeed, polarcontexts_>>
    BY <1>3 DEF WorkerFinish
  <2>2. tasks > 0 /\ tasks \in 0 .. MaxKeyframes /\ Len(polarcontexts_) \in Nat
    BY <2>1, Length DEF Stages, TypeOK
  <2>3. tasks' \in 0 .. MaxKeyframes /\ tasks' <= tasks
    BY <2>1, <2>2, RegistrationAssumption
  <2>4. TypeOK'
    BY <2>1, <2>3, NothingTyped DEF TypeOK, Idle
  <2>5. Stages'
    BY <2>1, <2>2, <2>3 DEF Stages, Idle
  <2> QED
    BY <2>4, <2>5
<1> QED
  BY <1>1, <1>2, <1>3

\* Types and stages hold at all times.
LEMMA StagesHold == Spec => [](TypeOK /\ Stages)
<1>1. Init => TypeOK /\ Stages
  <2> SUFFICES ASSUME Init PROVE TypeOK /\ Stages
    OBVIOUS
  <2>1. <<>> \in BoundedSeq(Scans, MaxKeyframes)
    <3>1. <<>> \in [1 .. 0 -> Scans] /\ 0 \in 0 .. MaxKeyframes
      BY RegistrationAssumption
    <3> QED
      BY <3>1 DEF BoundedSeq, SeqOf
  <2>2. TypeOK
    <3>1. worker \in [pc : {"idle", "collected", "matched"}, IoU : Overlaps,
                     patch_info_ptr : [Cells -> Patches \cup {NoPatch}],
                     pairs : SUBSET (Cells \X Patches)]
      BY NothingTyped DEF Init, Idle
    <3>2. tasks \in 0 .. MaxKeyframes
      BY RegistrationAssumption DEF Init
    <3>3. polarcontexts_ \in BoundedSeq(Scans, MaxKeyframes)
      BY <2>1 DEF Init
    <3>4. /\ data_asso = NoneCollected /\ local_data_asso = NoneCollected
          /\ pc = "idle" /\ loop = FALSE /\ IoU = NoOverlap /\ pairs = {}
          /\ patch_info_ptr = NonePicked /\ is_registration_succeed = FALSE
      BY DEF Init
    <3> QED
      BY <3>1, <3>2, <3>3, <3>4, NothingTyped DEF TypeOK
  <2>3. Stages
    BY DEF Init, Stages, Idle
  <2> QED
    BY <2>2, <2>3
<1>2. TypeOK /\ Stages /\ [Next]_vars => (TypeOK /\ Stages)'
  <2> SUFFICES ASSUME TypeOK, Stages, [Next]_vars PROVE (TypeOK /\ Stages)'
    OBVIOUS
  <2>1. CASE NothingAssociated
    <3>1. /\ loop /\ loop' = FALSE /\ tasks' = tasks + 1 /\ pc = "idle"
          /\ UNCHANGED <<data_asso, pc, IoU, patch_info_ptr, pairs,
                         is_registration_succeed, worker, local_data_asso,
                         polarcontexts_>>
      BY <2>1 DEF NothingAssociated
    <3>2. Len(polarcontexts_) \in 0 .. MaxKeyframes /\ tasks \in 0 .. MaxKeyframes
      BY Length DEF TypeOK
    <3>3. tasks' \in 0 .. MaxKeyframes /\ tasks' <= Len(polarcontexts_) /\ tasks' > 0
      BY <3>1, <3>2, RegistrationAssumption DEF Stages
    <3>4. TypeOK'
      BY <3>1, <3>3 DEF TypeOK
    <3>5. Stages'
      BY <3>1, <3>3 DEF Stages
    <3> QED
      BY <3>4, <3>5
  <2>2. CASE UNCHANGED vars
    BY <2>2 DEF vars, tracking, adjusting, TypeOK, Stages
  <2> QED
    BY <2>1, <2>2, CollectKeeps, MatchKeeps, FinishKeeps, KeyframeKeeps, WorkerKeeps DEF Next
<1> QED
  BY <1>1, <1>2, PTL DEF Spec

\* The variables always have their types: no loop is adjusted more than once for
\* each keyframe, and the patches hold nothing but cells with their overlaps.
THEOREM TypeCorrect == Spec => []TypeOK
BY StagesHold, PTL

\* No registration leaves anything for the next one in the patches, also none that
\* fails and none that runs for a loop.
THEOREM NothingIsLeft == Spec => []NothingLeft
<1>1. TypeOK /\ Stages => NothingLeft
  BY DEF Stages, NothingLeft
<1> QED
  BY <1>1, StagesHold, PTL

\* A pair of a cell and a patch stands only if each is the other's best, on the
\* tracking thread and on the worker, whatever the other one is associating.
THEOREM PairsAreMutual == Spec => []MutualBest
<1>1. TypeOK /\ Stages => MutualBest
  <2> SUFFICES ASSUME TypeOK, Stages PROVE MutualBest
    OBVIOUS
  <2>1. pc = "matched" => BestOfBoth(IoU, pairs)
    BY StandingBest DEF TypeOK, Stages
  <2>2. worker.pc = "matched" => BestOfBoth(worker.IoU, worker.pairs)
    BY StandingBest DEF TypeOK, Stages
  <2> QED
    BY <2>1, <2>2 DEF MutualBest
<1> QED
  BY <1>1, StagesHold, PTL

-----------------------------------------------------------------------------
(* Sums over finite sets                                                   *)

\* A set that has zero and with every number the next one has them all.
LEMMA EveryNumber ==
  ASSUME NEW T, 0 \in T, \A i \in Nat : i \in T => i + 1 \in T
  PROVE  Nat \subseteq T
<1> SUFFICES ASSUME NEW k \in Nat, k \notin T PROVE FALSE
  OBVIOUS
<1> DEFINE Missing == {i \in Nat : i \notin T}
<1>1. PICK least \in Missing : \A i \in Missing : <<i, least>> \notin OpToRel(<, Nat)
  BY k \in Missing, Missing \subseteq Nat, NatLessThanWellFounded, WFMin
<1>2. least \in Nat /\ least \notin T
  BY <1>1
<1>3. least # 0
  BY <1>2
<1>4. least - 1 \in Nat /\ least - 1 < least
  BY <1>2, <1>3
<1>5. CASE least - 1 \in T
  <2>1. (least - 1) + 1 \in T
    BY <1>4, <1>5
  <2> QED
    BY <1>2, <2>1
<1>6. CASE least - 1 \notin T
  <2>1. least - 1 \in Missing
    BY <1>4, <1>6
  <2>2. <<least - 1, least>> \in OpToRel(<, Nat)
    BY <1>2, <1>4 DEF OpToRel
  <2> QED
    BY <1>1, <2>1, <2>2
<1> QED
  BY <1>5, <1>6

\* The element that a fold takes next, and what it leaves.
Taken(s) == CHOOSE x \in s : TRUE
Rest(s) == s \ {Taken(s)}

LEMMA RestSmaller ==
  ASSUME NEW D, IsFiniteSet(D), NEW s \in SUBSET D, s # {}
  PROVE  /\ Taken(s) \in s /\ Rest(s) \in SUBSET D /\ s = Rest(s) \cup {Taken(s)}
         /\ IsFiniteSet(s) /\ IsFiniteSet(Rest(s))
         /\ Cardinality(s) \in Nat /\ Cardinality(s) = Cardinality(Rest(s)) + 1
<1>1. Taken(s) \in s
  BY DEF Taken
<1>2. IsFiniteSet(s) /\ Cardinality(s) \in Nat
  BY FS_Subset, FS_CardinalityType
<1>3. IsFiniteSet(Rest(s)) /\ Cardinality(Rest(s)) = Cardinality(s) - 1
  BY <1>1, <1>2, FS_RemoveElement DEF Rest
<1> QED
  BY <1>1, <1>2, <1>3 DEF Rest

\* What holds of the empty set and, with what a fold leaves, of every subset.
LEMMA ByTaking ==
  ASSUME NEW D, IsFiniteSet(D), NEW T, {} \in T,
         \A s \in SUBSET D : s # {} /\ Rest(s) \in T => s \in T
  PROVE  SUBSET D \subseteq T
<1> DEFINE N == {n \in Nat : \A s \in SUBSET D : Cardinality(s) = n => s \in T}
<1>1. 0 \in N
  <2> SUFFICES ASSUME NEW s \in SUBSET D, Cardinality(s) = 0 PROVE s \in T
    OBVIOUS
  <2>1. s = {}
    BY FS_Subset, FS_EmptySet
  <2> QED
    BY <2>1
<1>2. ASSUME NEW n \in Nat, n \in N PROVE n + 1 \in N
  <2> SUFFICES ASSUME NEW s \in SUBSET D, Cardinality(s) = n + 1 PROVE s \in T
    OBVIOUS
  <2>1. s # {}
    <3>1. Cardinality({}) = 0
      BY FS_EmptySet
    <3> QED
      BY <3>1
  <2>2. Rest(s) \in SUBSET D /\ Cardinality(s) = Cardinality(Rest(s)) + 1
        /\ Cardinality(Rest(s)) \in Nat
    BY <2>1, RestSmaller, FS_CardinalityType
  <2>3. Cardinality(Rest(s)) = n
    BY <2>2
  <2>4. Rest(s) \in T
    BY <1>2, <2>2, <2>3
  <2> QED
    BY <2>1, <2>4
<1>3. Nat \subseteq N
  <2> HIDE DEF N
  <2> QED
    BY ONLY <1>1, <1>2, EveryNumber
<1>4. \A s \in SUBSET D : Cardinality(s) \in Nat
  BY FS_Subset, FS_CardinalityType
<1> QED
  BY <1>3, <1>4

\* The partial sums that SumFunction is defined by.
Partial(f, D, g) ==
  g = [s \in SUBSET D |-> IF s = {} THEN 0 ELSE f[Taken(s)] + g[Rest(s)]]

LEMMA PartialExists ==
  ASSUME NEW D, IsFiniteSet(D), NEW f
  PROVE  \E g : Partial(f, D, g)
<1> DEFINE Small(n) == {s \in SUBSET D : Cardinality(s) <= n}
           Upto(n, g) == g = [s \in Small(n) |-> IF s = {} THEN 0 ELSE f[Taken(s)] + g[Rest(s)]]
           N == {n \in Nat : \E g : Upto(n, g)}
<1>1. 0 \in N
  <2> DEFINE g == [s \in Small(0) |-> 0]
  <2>1. \A s \in Small(0) : s = {}
    <3> SUFFICES ASSUME NEW s \in Small(0) PROVE s = {}
      OBVIOUS
    <3>1. IsFiniteSet(s) /\ Cardinality(s) \in Nat /\ Cardinality(s) <= 0
      BY FS_Subset, FS_CardinalityType
    <3>2. Cardinality(s) = 0
      BY <3>1
    <3> QED
      BY <3>1, <3>2, FS_EmptySet
  <2>2. Upto(0, g)
    <3> HIDE DEF Small
    <3>1. \A s \in Small(0) : (IF s = {} THEN 0 ELSE f[Taken(s)] + g[Rest(s)]) = 0
      BY <2>1
    <3> QED
      BY <3>1
  <2> HIDE DEF g, Upto
  <2> QED
    BY <2>2
<1>2. ASSUME NEW n \in Nat, n \in N PROVE n + 1 \in N
  <2>1. PICK g : Upto(n, g)
    BY <1>2
  <2> DEFINE h == [s \in Small(n + 1) |->
                     IF s = {} THEN 0 ELSE f[Taken(s)] + g[Rest(s)]]
  <2>2. ASSUME NEW s \in Small(n + 1), s # {} PROVE Rest(s) \in Small(n) /\ Rest(s) \in Small(n + 1)
    <3>1. /\ Rest(s) \in SUBSET D /\ Cardinality(s) \in Nat
          /\ Cardinality(s) = Cardinality(Rest(s)) + 1 /\ Cardinality(Rest(s)) \in Nat
      BY <2>2, RestSmaller, FS_CardinalityType
    <3> QED
      BY <3>1
  <2>3. ASSUME NEW s \in Small(n) PROVE s \in Small(n + 1)
    <3>1. Cardinality(s) \in Nat
      BY FS_Subset, FS_CardinalityType
    <3> QED
      BY <3>1
  <2> HIDE DEF Small
  <2>4. \A s \in Small(n) : g[s] = h[s]
    <3>1. g = [s \in Small(n) |-> IF s = {} THEN 0 ELSE f[Taken(s)] + g[Rest(s)]]
      BY <2>1
    <3>2. \A s \in Small(n) : g[s] = IF s = {} THEN 0 ELSE f[Taken(s)] + g[Rest(s)]
      BY <3>1
    <3> QED
      BY <2>3, <3>2
  <2>5. \A s \in Small(n + 1) : (IF s = {} THEN 0 ELSE f[Taken(s)] + g[Rest(s)])
                                  = (IF s = {} THEN 0 ELSE f[Taken(s)] + h[Rest(s)])
    BY <2>2, <2>4
  <2>6. Upto(n + 1, h)
    BY <2>5
  <2> HIDE DEF h, Upto
  <2> QED
    BY <2>6
<1>3. Nat \subseteq N
  <2> HIDE DEF N
  <2> QED
    BY ONLY <1>1, <1>2, EveryNumber
<1>4. Cardinality(D) \in Nat
  BY FS_CardinalityType
<1>5. PICK g : Upto(Cardinality(D), g)
  BY <1>3, <1>4
<1>6. Small(Cardinality(D)) = SUBSET D
  BY FS_Subset
<1>7. Partial(f, D, g)
  BY <1>5, <1>6 DEF Partial
<1> QED
  BY <1>7

\* SumFunction by its partial sums.
LEMMA Summed ==
  ASSUME NEW D, IsFiniteSet(D), NEW f, DOMAIN f = D
  PROVE  \E g : Partial(f, D, g) /\ SumFunction(f) = g[D]
<1> DEFINE g == CHOOSE h : Partial(f, D, h)
<1>1. Partial(f, D, g)
  BY PartialExists
<1>2. SumFunction(f) = g[D]
  BY DEF SumFunction, SumFunctionOnSet, FoldFunctionOnSet, MapThenFoldSet, Partial, Taken, Rest
<1> HIDE DEF g
<1> QED
  BY <1>1, <1>2

LEMMA FloorBounds ==
  ASSUME NEW a \in Int, NEW b \in Nat \ {0}
  PROVE  /\ a \div b \in Int /\ a % b \in 0 .. b - 1
         /\ (a \div b) * b <= a /\ a < (a \div b) * b + b
         /\ a = (a \div b) * b + (a % b)
<1>1. b > 0 /\ b \in Int
  OBVIOUS
<1>2. a % b \in 0 .. b - 1
  BY <1>1
<1>3. a = b * (a \div b) + (a % b)
  BY <1>1
<1>4. a \div b \in Int
  BY <1>1
<1> QED
  BY <1>1, <1>2, <1>3, <1>4

LEMMA Cancel ==
  ASSUME NEW a \in Int, NEW b \in Int, NEW c \in Nat \ {0}, a * c > b * c
  PROVE  a > b
<1>1. ASSUME a <= b PROVE a * c <= b * c
  BY <1>1
<1> QED
  BY <1>1

\* There is one way to write a number with a remainder.
LEMMA Divides ==
  ASSUME NEW a \in Int, NEW b \in Nat \ {0}, NEW q \in Int, NEW m \in 0 .. b - 1,
         a = q * b + m
  PROVE  a \div b = q /\ a % b = m
<1> DEFINE x == a \div b
           y == a % b
<1>1. x \in Int /\ y \in 0 .. b - 1 /\ a = x * b + y
  BY FloorBounds
<1> HIDE DEF x, y
<1>2. x * b \in Int /\ q * b \in Int
  BY <1>1
<1>3. (x + 1) * b = x * b + b /\ (q + 1) * b = q * b + b
  BY <1>1
<1>4. (x + 1) * b > q * b /\ (q + 1) * b > x * b
  BY <1>1, <1>2, <1>3
<1>5. x + 1 > q /\ q + 1 > x
  BY <1>1, <1>4, Cancel, x + 1 \in Int, q + 1 \in Int
<1>6. x = q
  BY <1>1, <1>5
<1>7. y = m
  BY <1>1, <1>2, <1>6
<1> QED
  BY <1>6, <1>7 DEF x, y

\* A sum of naturals: bounded by the largest, above zero with one of them, and what
\* all of them are times their number.
LEMMA SumBounds ==
  ASSUME NEW D, IsFiniteSet(D), NEW f \in [D -> Nat], NEW k \in Nat, \A x \in D : f[x] <= k
  PROVE  SumFunction(f) \in Nat /\ SumFunction(f) <= k * Cardinality(D)
<1>1. PICK g : Partial(f, D, g) /\ SumFunction(f) = g[D]
  BY Summed
<1> DEFINE T == {s \in SUBSET D : g[s] \in Nat /\ g[s] <= k * Cardinality(s)}
<1>2. \A s \in SUBSET D : g[s] = IF s = {} THEN 0 ELSE f[Taken(s)] + g[Rest(s)]
  BY <1>1 DEF Partial
<1>3. {} \in T
  <2>1. Cardinality({}) = 0 /\ g[{}] = 0
    BY <1>2, FS_EmptySet
  <2> QED
    BY <2>1
<1>4. ASSUME NEW s \in SUBSET D, s # {}, Rest(s) \in T PROVE s \in T
  <2> DEFINE c == Cardinality(Rest(s))
             v == f[Taken(s)]
             w == g[Rest(s)]
  <2>1. /\ Taken(s) \in s /\ Cardinality(s) = c + 1 /\ c \in Nat
        /\ Rest(s) \in SUBSET D
    BY <1>4, RestSmaller, FS_CardinalityType
  <2>2. g[s] = v + w
    BY <1>2, <1>4
  <2>3. w \in Nat /\ w <= k * c /\ v \in Nat /\ v <= k
    BY <1>4, <2>1
  <2> HIDE DEF c, v, w
  <2>4. k * (c + 1) = k * c + k /\ k * c \in Nat
    BY <2>1
  <2>5. g[s] \in Nat /\ g[s] <= k * (c + 1)
    BY <2>2, <2>3, <2>4
  <2> QED
    BY <2>1, <2>5
<1>5. SUBSET D \subseteq T
  <2> HIDE DEF T
  <2> QED
    BY <1>3, <1>4, ByTaking
<1>6. g[D] \in Nat /\ g[D] <= k * Cardinality(D)
  BY <1>5
<1> QED
  BY <1>1, <1>6

LEMMA SumNatural ==
  ASSUME NEW D, IsFiniteSet(D), NEW f \in [D -> Nat]
  PROVE  SumFunction(f) \in Nat
<1>1. PICK g : Partial(f, D, g) /\ SumFunction(f) = g[D]
  BY Summed
<1> DEFINE T == {s \in SUBSET D : g[s] \in Nat}
<1>2. \A s \in SUBSET D : g[s] = IF s = {} THEN 0 ELSE f[Taken(s)] + g[Rest(s)]
  BY <1>1 DEF Partial
<1>3. {} \in T
  <2>1. {} \in SUBSET D /\ g[{}] = 0
    BY <1>2
  <2> QED
    BY <2>1
<1>4. ASSUME NEW s \in SUBSET D, s # {}, Rest(s) \in T PROVE s \in T
  <2>1. Taken(s) \in s
    BY <1>4, RestSmaller
  <2>2. f[Taken(s)] \in Nat /\ g[Rest(s)] \in Nat
    BY <1>4, <2>1
  <2> QED
    BY <1>2, <1>4, <2>2
<1>5. SUBSET D \subseteq T
  <2> HIDE DEF T
  <2> QED
    BY <1>3, <1>4, ByTaking
<1> QED
  BY <1>1, <1>5

LEMMA SumPositive ==
  ASSUME NEW D, IsFiniteSet(D), NEW f \in [D -> Nat], NEW a \in D, f[a] > 0
  PROVE  SumFunction(f) > 0
<1>1. PICK g : Partial(f, D, g) /\ SumFunction(f) = g[D]
  BY Summed
<1> DEFINE T == {s \in SUBSET D : g[s] \in Nat /\ (a \in s => g[s] > 0)}
<1>2. \A s \in SUBSET D : g[s] = IF s = {} THEN 0 ELSE f[Taken(s)] + g[Rest(s)]
  BY <1>1 DEF Partial
<1>3. {} \in T
  <2>1. {} \in SUBSET D /\ a \notin {}
    OBVIOUS
  <2>2. g[{}] = 0
    BY <1>2, <2>1
  <2>3. g[{}] \in Nat
    BY <2>2
  <2> QED
    BY <2>1, <2>3
<1>4. ASSUME NEW s \in SUBSET D, s # {}, Rest(s) \in T PROVE s \in T
  <2>1. Taken(s) \in s /\ s = Rest(s) \cup {Taken(s)}
    BY <1>4, RestSmaller
  <2>2. f[Taken(s)] \in Nat /\ g[Rest(s)] \in Nat /\ g[s] = f[Taken(s)] + g[Rest(s)]
    BY <1>2, <1>4, <2>1
  <2>3. a \in s => f[Taken(s)] > 0 \/ g[Rest(s)] > 0
    BY <1>4, <2>1
  <2> QED
    BY <2>2, <2>3
<1>5. SUBSET D \subseteq T
  <2> HIDE DEF T
  <2> QED
    BY <1>3, <1>4, ByTaking
<1> QED
  BY <1>1, <1>5

LEMMA SumConstant ==
  ASSUME NEW D, IsFiniteSet(D), NEW k \in Nat, NEW f, DOMAIN f = D, \A x \in D : f[x] = k
  PROVE  SumFunction(f) = k * Cardinality(D)
<1>1. PICK g : Partial(f, D, g) /\ SumFunction(f) = g[D]
  BY Summed
<1> DEFINE T == {s \in SUBSET D : g[s] = k * Cardinality(s)}
<1>2. \A s \in SUBSET D : g[s] = IF s = {} THEN 0 ELSE f[Taken(s)] + g[Rest(s)]
  BY <1>1 DEF Partial
<1>3. {} \in T
  <2>1. Cardinality({}) = 0 /\ g[{}] = 0
    BY <1>2, FS_EmptySet
  <2> QED
    BY <2>1
<1>4. ASSUME NEW s \in SUBSET D, s # {}, Rest(s) \in T PROVE s \in T
  <2> DEFINE c == Cardinality(Rest(s))
             w == g[Rest(s)]
  <2>1. Taken(s) \in s /\ Cardinality(s) = c + 1 /\ c \in Nat
    BY <1>4, RestSmaller, FS_CardinalityType
  <2>2. g[s] = k + w
    BY <1>2, <1>4, <2>1
  <2>3. w = k * c
    BY <1>4
  <2> HIDE DEF c, w
  <2>4. k * (c + 1) = k * c + k /\ k * c \in Nat
    BY <2>1
  <2>5. g[s] = k * (c + 1)
    BY <2>2, <2>3, <2>4
  <2> QED
    BY <2>1, <2>5
<1>5. SUBSET D \subseteq T
  <2> HIDE DEF T
  <2> QED
    BY <1>3, <1>4, ByTaking
<1> QED
  BY <1>1, <1>5

\* Naturals have a least one, and things that are counted a first best one.
LEMMA LeastNatural ==
  ASSUME NEW S, S \subseteq Nat, S # {}
  PROVE  \E x \in S : \A y \in S : x <= y
<1>1. PICK x \in S : \A y \in S : <<y, x>> \notin OpToRel(<, Nat)
  BY NatLessThanWellFounded, WFMin
<1>2. ASSUME NEW y \in S PROVE x <= y
  <2>1. x \in Nat /\ y \in Nat
    OBVIOUS
  <2>2. ~ (y < x)
    BY <1>1, <2>1 DEF OpToRel
  <2> QED
    BY <2>1, <2>2
<1> QED
  BY <1>2

LEMMA FirstBest ==
  ASSUME NEW S, S \subseteq Nat, S # {}, NEW d \in [S -> Nat]
  PROVE  \E c \in S : \A e \in S : d[c] <= d[e] /\ (d[c] = d[e] => c <= e)
<1> DEFINE V == {d[c] : c \in S}
<1>1. V \subseteq Nat /\ V # {}
  OBVIOUS
<1>2. PICK v \in V : \A w \in V : v <= w
  BY <1>1, LeastNatural
<1> DEFINE B == {c \in S : d[c] = v}
<1>3. B \subseteq Nat /\ B # {}
  BY <1>2
<1>4. PICK c \in B : \A e \in B : c <= e
  BY <1>3, LeastNatural
<1>5. \A e \in S : d[c] <= d[e] /\ (d[c] = d[e] => c <= e)
  BY <1>2, <1>4
<1> QED
  BY <1>4, <1>5

-----------------------------------------------------------------------------
(* Least and greatest numbers                                              *)

\* The least and the greatest number of a set.
Least(S, x) == x \in S /\ \A y \in S : x <= y
Greatest(S, x) == x \in S /\ \A y \in S : x >= y

\* A finite set of numbers that is not empty has a least and a greatest one.
LEMMA Extremes ==
  ASSUME NEW S, S \subseteq Int, IsFiniteSet(S), S # {}
  PROVE  Least(S, Min(S)) /\ Greatest(S, Max(S))
<1> DEFINE Ends(A) == (\E x \in A : Least(A, x)) /\ (\E x \in A : Greatest(A, x))
           T == {n \in Nat : \A A \in SUBSET Int :
                               IsFiniteSet(A) /\ Cardinality(A) = n + 1 => Ends(A)}
<1>1. 0 \in T
  <2> SUFFICES ASSUME NEW A \in SUBSET Int, IsFiniteSet(A), Cardinality(A) = 0 + 1
               PROVE  Ends(A)
    OBVIOUS
  <2>1. Cardinality(A) = 1
    OBVIOUS
  <2>2. PICK x : A = {x}
    BY ONLY IsFiniteSet(A), <2>1, FS_Singleton
  <2>3. x \in Int /\ x <= x /\ x >= x
    BY <2>2
  <2> QED
    BY <2>2, <2>3 DEF Least, Greatest
<1>2. ASSUME NEW n \in Nat, n \in T PROVE n + 1 \in T
  <2> SUFFICES ASSUME NEW A \in SUBSET Int, IsFiniteSet(A), Cardinality(A) = (n + 1) + 1
               PROVE  Ends(A)
    OBVIOUS
  <2>1. PICK x : x \in A
    BY FS_EmptySet
  <2> DEFINE B == A \ {x}
  <2>2. IsFiniteSet(B) /\ Cardinality(B) = n + 1 /\ B \in SUBSET Int
    BY <2>1, FS_RemoveElement
  <2>3. Ends(B)
    BY <1>2, <2>2
  <2>4. PICK lo \in B : Least(B, lo)
    BY <2>3
  <2>5. PICK hi \in B : Greatest(B, hi)
    BY <2>3
  <2>6. \E y \in A : Least(A, y)
    <3>1. CASE x <= lo
      BY <2>1, <2>4, <3>1 DEF Least
    <3>2. CASE lo <= x
      BY <2>1, <2>4, <3>2 DEF Least
    <3> QED
      BY <2>1, <2>4, <3>1, <3>2
  <2>7. \E y \in A : Greatest(A, y)
    <3>1. CASE x >= hi
      BY <2>1, <2>5, <3>1 DEF Greatest
    <3>2. CASE hi >= x
      BY <2>1, <2>5, <3>2 DEF Greatest
    <3> QED
      BY <2>1, <2>5, <3>1, <3>2
  <2> QED
    BY <2>6, <2>7
<1>3. Nat \subseteq T
  <2> HIDE DEF T
  <2> QED
    BY ONLY <1>1, <1>2, EveryNumber
<1>4. Cardinality(S) \in Nat \ {0}
  BY FS_CardinalityType, FS_EmptySet
<1>5. Cardinality(S) - 1 \in T /\ Cardinality(S) = (Cardinality(S) - 1) + 1
  BY <1>3, <1>4
<1>6. Ends(S)
  BY <1>5
<1>7. Least(S, Min(S))
  BY <1>6 DEF Min, Least
<1>8. Greatest(S, Max(S))
  BY <1>6 DEF Max, Greatest
<1> QED
  BY <1>7, <1>8

\* The values of a function on a finite set are finitely many.
LEMMA ImageFinite ==
  ASSUME NEW S, IsFiniteSet(S), NEW f
  PROVE  IsFiniteSet({f[x] : x \in S})
<1> DEFINE T == {f[x] : x \in S}
           g == [x \in S |-> f[x]]
<1>1. g \in Surjection(S, T)
  BY DEF Surjection
<1> HIDE DEF g, T
<1>2. IsFiniteSet(T)
  BY <1>1, FS_Surjection
<1> QED
  BY <1>2 DEF T

\* Two numbers are a finite set of them.
LEMMA PairEnds ==
  ASSUME NEW x \in Int, NEW y \in Int
  PROVE  Least({x, y}, Min({x, y})) /\ Greatest({x, y}, Max({x, y}))
<1>1. {x, y} = {x} \cup {y} /\ {x, y} # {} /\ {x, y} \subseteq Int
  OBVIOUS
<1>2. IsFiniteSet({x, y})
  <2>1. IsFiniteSet({x})
    BY FS_Singleton
  <2>2. IsFiniteSet({x} \cup {y})
    BY <2>1, FS_AddElement
  <2> QED
    BY <1>1, <2>2
<1> QED
  BY <1>1, <1>2, Extremes

-----------------------------------------------------------------------------
(* Sectors                                                                 *)

LEMMA Counts ==
  /\ PC_NUM_SECTOR \in Nat \ {0, 1} /\ PC_NUM_RING \in Nat \ {0} /\ FullTurn \in Nat \ {0}
  /\ Sectors # {} /\ Sectors \subseteq Nat /\ IsFiniteSet(Sectors) /\ IsFiniteSet(Rings)
  /\ Cardinality(Sectors) \in Nat
<1>1. /\ PC_NUM_SECTOR \in Nat \ {0, 1} /\ PC_NUM_RING \in Nat \ {0} /\ FullTurn \in Nat \ {0}
  BY ScanContextAssumption
<1>2. IsFiniteSet(Sectors) /\ IsFiniteSet(Rings)
  BY <1>1, FS_Interval DEF Sectors, Rings
<1>3. 0 \in Sectors /\ Sectors \subseteq Nat
  BY <1>1 DEF Sectors
<1> QED
  BY <1>1, <1>2, <1>3, FS_CardinalityType

\* The remainder of a number less than one turn away.
Wrap(a) ==
  IF a < 0 THEN a + PC_NUM_SECTOR ELSE IF a >= PC_NUM_SECTOR THEN a - PC_NUM_SECTOR ELSE a

LEMMA Wraps ==
  ASSUME NEW a \in Int, -PC_NUM_SECTOR <= a, a < 2 * PC_NUM_SECTOR
  PROVE  a % PC_NUM_SECTOR = Wrap(a) /\ Wrap(a) \in Sectors
<1> DEFINE N == PC_NUM_SECTOR
<1>1. N \in Nat \ {0}
  BY Counts
<1>2. /\ 0 \in Int /\ 1 \in Int /\ -1 \in Int
      /\ 0 * N = 0 /\ 1 * N = N /\ (-1) * N = -N
  BY <1>1
<1>3. CASE a < 0
  <2>1. a + N \in 0 .. N - 1 /\ a = (-1) * N + (a + N)
    BY <1>1, <1>2, <1>3
  <2>2. a % N = a + N
    BY <1>1, <1>2, <2>1, Divides
  <2> QED
    BY <1>3, <2>1, <2>2 DEF Wrap, Sectors
<1>4. CASE 0 <= a /\ a < N
  <2>1. a \in 0 .. N - 1 /\ a = 0 * N + a
    BY <1>1, <1>2, <1>4
  <2>2. a % N = a
    BY <1>1, <1>2, <2>1, Divides
  <2> QED
    BY <1>1, <1>4, <2>1, <2>2 DEF Wrap, Sectors
<1>5. CASE a >= N
  <2>1. a - N \in 0 .. N - 1 /\ a = 1 * N + (a - N)
    BY <1>1, <1>2, <1>5
  <2>2. a % N = a - N
    BY <1>1, <1>2, <2>1, Divides
  <2> QED
    BY <1>1, <1>5, <2>1, <2>2 DEF Wrap, Sectors
<1> QED
  BY <1>1, <1>3, <1>4, <1>5

\* Turning there and back, and twice.
LEMMA Turning ==
  ASSUME NEW s \in Sectors, NEW n \in Sectors
  PROVE  /\ (s - n) % PC_NUM_SECTOR \in Sectors /\ (s + n) % PC_NUM_SECTOR \in Sectors
         /\ \A t \in Sectors : t = (s - n) % PC_NUM_SECTOR <=> s = (t + n) % PC_NUM_SECTOR
<1> DEFINE N == PC_NUM_SECTOR
<1>1. N \in Nat \ {0} /\ s \in 0 .. N - 1 /\ n \in 0 .. N - 1
  BY Counts DEF Sectors
<1>2. (s - n) % N = Wrap(s - n) /\ Wrap(s - n) \in Sectors
  BY <1>1, Wraps
<1>3. (s + n) % N = Wrap(s + n) /\ Wrap(s + n) \in Sectors
  BY <1>1, Wraps
<1>4. ASSUME NEW t \in Sectors PROVE t = Wrap(s - n) <=> s = (t + n) % N
  <2>1. t \in 0 .. N - 1
    BY DEF Sectors
  <2>2. (t + n) % N = Wrap(t + n)
    BY <1>1, <2>1, Wraps
  <2>3. t = Wrap(s - n) <=> s = Wrap(t + n)
    BY <1>1, <2>1 DEF Wrap
  <2> QED
    BY <2>2, <2>3
<1> QED
  BY <1>2, <1>3, <1>4

LEMMA TurningTwice ==
  ASSUME NEW s \in Sectors, NEW m \in Sectors, NEW n \in Sectors
  PROVE  LET N == PC_NUM_SECTOR
             t == (s + n) % N
             j == (m - n) % N
         IN  /\ t \in Sectors /\ j \in Sectors
             /\ (t - n) % N = s /\ (t - m) % N = (s - j) % N
             /\ j = 0 => m = n
<1> DEFINE N == PC_NUM_SECTOR
           t == Wrap(s + n)
           j == Wrap(m - n)
<1>1. N \in Nat \ {0} /\ s \in 0 .. N - 1 /\ m \in 0 .. N - 1 /\ n \in 0 .. N - 1
  BY Counts DEF Sectors
<1>2. (s + n) % N = t /\ t \in Sectors
  BY <1>1, Wraps
<1>3. (m - n) % N = j /\ j \in Sectors
  BY <1>1, Wraps
<1>4. t \in 0 .. N - 1 /\ j \in 0 .. N - 1
  BY <1>2, <1>3 DEF Sectors
<1>5. /\ (t - n) % N = Wrap(t - n) /\ (t - m) % N = Wrap(t - m) /\ (s - j) % N = Wrap(s - j)
  <2> DEFINE a == t - n
             b == t - m
             c == s - j
  <2> HIDE DEF t, j
  <2>1. /\ a \in Int /\ -N <= a /\ a < 2 * N
        /\ b \in Int /\ -N <= b /\ b < 2 * N
        /\ c \in Int /\ -N <= c /\ c < 2 * N
    BY <1>1, <1>4
  <2> HIDE DEF a, b, c
  <2>2. a % N = Wrap(a) /\ b % N = Wrap(b) /\ c % N = Wrap(c)
    BY <2>1, Wraps
  <2> QED
    BY <2>2 DEF a, b, c
<1>6. Wrap(t - n) = s
  BY <1>1 DEF Wrap
<1>7. Wrap(t - m) = Wrap(s - j)
  BY <1>1 DEF Wrap
<1>8. j = 0 => m = n
  BY <1>1 DEF Wrap
<1> QED
  BY <1>2, <1>3, <1>5, <1>6, <1>7, <1>8

LEMMA Clamped ==
  ASSUME NEW n \in Nat \ {0}, NEW x \in 1 .. n
  PROVE  Clamp(x, n) = x
<1> DEFINE lo == Min({x, n})
           hi == Max({lo, 1})
<1>1. Least({x, n}, lo)
  BY PairEnds
<1> HIDE DEF lo
<1>2. lo = x
  BY <1>1 DEF Least
<1>3. Greatest({lo, 1}, hi)
  BY <1>2, PairEnds
<1> HIDE DEF hi
<1>4. hi = x
  BY <1>2, <1>3 DEF Greatest
<1> QED
  BY <1>4 DEF Clamp, lo, hi

\* The width of a sector.
Width == FullTurn \div PC_NUM_SECTOR

LEMMA Widths == Width \in Nat \ {0} /\ FullTurn = Width * PC_NUM_SECTOR
<1>1. FullTurn \in Nat \ {0} /\ PC_NUM_SECTOR \in Nat \ {0} /\ FullTurn % PC_NUM_SECTOR = 0
  BY ScanContextAssumption
<1>2. /\ Width \in Int
      /\ FullTurn = Width * PC_NUM_SECTOR + (FullTurn % PC_NUM_SECTOR)
  BY <1>1, FloorBounds DEF Width
<1>3. Width * PC_NUM_SECTOR \in Int
  BY <1>1, <1>2
<1>4. FullTurn = Width * PC_NUM_SECTOR
  BY <1>1, <1>2, <1>3
<1>5. Width > 0
  <2>1. 0 * PC_NUM_SECTOR = 0
    BY <1>1
  <2>2. Width * PC_NUM_SECTOR > 0 * PC_NUM_SECTOR
    BY <1>1, <1>4, <2>1
  <2> QED
    BY <1>1, <1>2, <2>2, Cancel
<1> QED
  BY <1>2, <1>4, <1>5

\* The sector of an azimuth inside one.
LEMMA SectorInside ==
  ASSUME NEW q \in Sectors, NEW m \in 1 .. Width - 1
  PROVE  SectorOf(q * Width + m) = q
<1> DEFINE N == PC_NUM_SECTOR
           F == FullTurn
           az == q * Width + m
           up == az * N + F - 1
           r == m * N - 1
<1>1. /\ N \in Nat \ {0} /\ F \in Nat \ {0} /\ Width \in Nat \ {0} /\ F = Width * N
      /\ q \in 0 .. N - 1 /\ m \in Nat \ {0} /\ m <= Width - 1
  BY Counts, Widths DEF Sectors
<1>2. az * N = q * F + m * N
  <2>1. (q * Width) * N = q * (Width * N)
    BY <1>1
  <2>2. q * Width \in Int
    BY <1>1
  <2>3. az * N = (q * Width) * N + m * N
    BY <1>1, <2>2
  <2> QED
    BY <1>1, <2>1, <2>3
<1>3. m * N \in Nat /\ m * N >= N /\ m * N <= F - N
  <2>1. m * N <= (Width - 1) * N
    BY <1>1
  <2>2. (Width - 1) * N = F - N
    BY <1>1
  <2>3. 1 * N <= m * N
    BY <1>1
  <2> QED
    BY <1>1, <2>1, <2>2, <2>3
<1>4. r \in 0 .. F - 1
  BY <1>1, <1>3
<1>5. (q + 1) * F = q * F + F /\ q * F \in Int
  BY <1>1
<1>6. up \in Int /\ up = (q + 1) * F + r
  <2> HIDE DEF az
  <2> QED
    BY <1>1, <1>2, <1>3, <1>5
<1>7. up \div F = q + 1
  <2> HIDE DEF up, r
  <2>1. q + 1 \in Int
    BY <1>1
  <2> QED
    BY <1>1, <1>4, <1>6, <2>1, Divides
<1>8. CeilDiv(az * N, F) = q + 1
  BY <1>7 DEF CeilDiv
<1>9. Clamp(q + 1, N) = q + 1
  <2>1. q + 1 \in 1 .. N
    BY <1>1
  <2> QED
    BY <1>1, <2>1, Clamped
<1>10. SectorOf(az) = (q + 1) - 1
  BY <1>8, <1>9 DEF SectorOf
<1> QED
  BY <1>1, <1>10

\* A point inside a sector turns with it.
LEMMA SectorTurns ==
  ASSUME NEW az \in 0 .. FullTurn - 1, az % Width # 0, NEW n \in Sectors
  PROVE  LET next == (az + n * Width) % FullTurn
         IN  /\ SectorOf(az) \in Sectors /\ next \in 0 .. FullTurn - 1
             /\ SectorOf(next) = (SectorOf(az) + n) % PC_NUM_SECTOR
<1> DEFINE N == PC_NUM_SECTOR
           F == FullTurn
           w == Width
           q == az \div w
           m == az % w
           t == Wrap(q + n)
           next == (az + n * w) % F
<1>1. N \in Nat \ {0} /\ F \in Nat \ {0} /\ w \in Nat \ {0} /\ F = w * N /\ n \in 0 .. N - 1
  BY Counts, Widths DEF Sectors
<1>2. q \in Int /\ m \in 1 .. w - 1 /\ az = q * w + m
  <2>1. az \in Int
    OBVIOUS
  <2>2. q \in Int /\ m \in 0 .. w - 1 /\ az = q * w + m
    BY <1>1, <2>1, FloorBounds
  <2> HIDE DEF q, m
  <2>3. m # 0
    BY DEF m
  <2> QED
    BY <1>1, <2>2, <2>3
<1> HIDE DEF q, m, w
<1>3. q \in Sectors
  <2>1. q * w \in Int /\ N * w = F /\ (q + 1) * w = q * w + w /\ 0 * w = 0
    BY <1>1, <1>2
  <2>2. N * w > q * w
    BY <1>1, <1>2, <2>1
  <2>3. (q + 1) * w > 0 * w
    BY <1>1, <1>2, <2>1
  <2>4. N > q
    BY <1>1, <1>2, <2>2, Cancel
  <2>5. q + 1 > 0
    BY <1>1, <1>2, <2>3, Cancel, q + 1 \in Int
  <2> QED
    BY <1>1, <1>2, <2>4, <2>5 DEF Sectors
<1>4. SectorOf(az) = q
  BY <1>2, <1>3, SectorInside DEF w
<1>5. q \in 0 .. N - 1
  BY <1>3 DEF Sectors
<1>6. (q + n) % N = t /\ t \in Sectors /\ t \in 0 .. N - 1
  BY <1>1, <1>5, Wraps DEF Sectors
<1>7. \E k \in {0, 1} : q + n = k * N + t
  BY <1>1, <1>5 DEF Wrap
<1> HIDE DEF t
<1>8. PICK k \in {0, 1} : q + n = k * N + t
  BY <1>7
<1>9. az + n * w = k * F + (t * w + m)
  <2>1. (q + n) * w = q * w + n * w /\ q * w \in Int /\ n * w \in Int
    BY <1>1, <1>2
  <2>2. (k * N + t) * w = k * (N * w) + t * w
    <3>1. CASE k = 0
      BY <1>1, <1>6, <3>1
    <3>2. CASE k = 1
      BY <1>1, <1>6, <3>2
    <3> QED
      BY <3>1, <3>2
  <2>3. N * w = F
    BY <1>1
  <2>4. q * w + n * w = k * F + t * w
    BY <1>8, <2>1, <2>2, <2>3
  <2>5. k * F \in Int /\ t * w \in Int
    BY <1>1, <1>6
  <2> QED
    BY <1>2, <2>1, <2>4, <2>5
<1>10. t * w + m \in 0 .. F - 1
  <2>1. t * w <= (N - 1) * w /\ (N - 1) * w = F - w /\ t * w \in Int /\ t * w >= 0
    BY <1>1, <1>6
  <2> QED
    BY <1>1, <1>2, <2>1
<1>11. next = t * w + m
  <2> DEFINE a == az + n * w
             b == t * w + m
  <2>1. a \in Int /\ b \in 0 .. F - 1 /\ k \in Int /\ a = k * F + b
    BY <1>1, <1>9, <1>10
  <2> HIDE DEF a, b
  <2>2. a % F = b
    BY <1>1, <2>1, Divides
  <2> QED
    BY <2>2 DEF a, b
<1>12. SectorOf(t * w + m) = t
  BY <1>2, <1>6, SectorInside DEF w
<1> HIDE DEF next
<1>13. SectorOf(next) = (SectorOf(az) + n) % N
  BY <1>4, <1>6, <1>11, <1>12
<1> QED
  BY <1>3, <1>4, <1>10, <1>11, <1>13 DEF next, w

-----------------------------------------------------------------------------
(* Descriptors                                                             *)

Columns == [Rings -> Nat]
Descriptors == [Sectors -> Columns]
Keys == [Sectors -> Nat]

\* The heights of the points in a bin.
Heights(scan, s, r) ==
  {pt.z : pt \in {q \in scan : /\ q.range <= PC_MAX_RADIUS
                              /\ SectorOf(q.azimuth) = s
                              /\ RingOf(q.range) = r}}

LEMMA ScanPoints ==
  ASSUME NEW scan \in Scans
  PROVE  /\ IsFiniteSet(scan)
         /\ scan \subseteq [range : Nat, azimuth : 0 .. FullTurn - 1, z : Nat]
BY RegistrationAssumption

LEMMA DescriptorTyped ==
  ASSUME NEW scan \in Scans
  PROVE  makeScancontext(scan) \in Descriptors
<1>1. ASSUME NEW s \in Sectors, NEW r \in Rings
      PROVE  Max({0} \cup Heights(scan, s, r)) \in Nat
  <2> DEFINE H == {0} \cup Heights(scan, s, r)
             f == [pt \in scan |-> pt.z]
             Z == {f[pt] : pt \in scan}
  <2>1. /\ \A pt \in scan : f[pt] = pt.z /\ pt.z \in Nat
        /\ IsFiniteSet(scan)
    BY ScanPoints
  <2> HIDE DEF f
  <2>2. IsFiniteSet(Z)
    BY <2>1, ImageFinite
  <2>3. Heights(scan, s, r) \subseteq Z /\ Z \subseteq Nat
    BY <2>1 DEF Heights
  <2>4. IsFiniteSet(Heights(scan, s, r))
    BY <2>2, <2>3, FS_Subset
  <2>5. IsFiniteSet(Heights(scan, s, r) \cup {0})
    BY <2>4, FS_AddElement
  <2>6. H = Heights(scan, s, r) \cup {0} /\ H # {} /\ H \subseteq Nat
    BY <2>3
  <2> HIDE DEF H, Z
  <2>7. IsFiniteSet(H) /\ H \subseteq Int
    BY <2>5, <2>6
  <2>8. Max(H) \in H
    BY <2>6, <2>7, Extremes DEF Greatest
  <2> QED
    BY <2>6, <2>8 DEF H
<1>2. makeScancontext(scan)
         = [s \in Sectors |-> [r \in Rings |-> Max({0} \cup Heights(scan, s, r))]]
  BY DEF makeScancontext, Heights
<1> QED
  BY <1>1, <1>2 DEF Descriptors, Columns

\* The descriptor of a turned scan is the descriptor, shifted.
LEMMA TurnedShifts ==
  ASSUME NEW scan \in Scans, OffBorders(scan), NEW n \in Sectors
  PROVE  makeScancontext(Turned(scan, n)) = circshift(makeScancontext(scan), n)
<1> DEFINE N == PC_NUM_SECTOR
           turn(az) == (az + n * Width) % FullTurn
           T(pt) == [pt EXCEPT !.azimuth = turn(pt.azimuth)]
<1>1. Turned(scan, n) = {T(pt) : pt \in scan}
  BY DEF Turned, Width
<1>2. ASSUME NEW pt \in scan
      PROVE  /\ T(pt).z = pt.z /\ T(pt).range = pt.range
             /\ SectorOf(pt.azimuth) \in Sectors
             /\ SectorOf(T(pt).azimuth) = (SectorOf(pt.azimuth) + n) % N
  <2> DEFINE az == pt.azimuth
  <2>1. pt \in [range : Nat, azimuth : 0 .. FullTurn - 1, z : Nat]
    BY ScanPoints
  <2>2. T(pt).z = pt.z /\ T(pt).range = pt.range /\ T(pt).azimuth = turn(az)
    BY <2>1
  <2>3. az \in 0 .. FullTurn - 1 /\ az % Width # 0
    BY <2>1 DEF OffBorders, Width
  <2> HIDE DEF az
  <2>4. SectorOf(az) \in Sectors /\ SectorOf(turn(az)) = (SectorOf(az) + n) % N
    BY <2>3, SectorTurns
  <2> QED
    BY <2>2, <2>4 DEF az
<1> HIDE DEF T
<1>3. ASSUME NEW s \in Sectors, NEW r
      PROVE  Heights(Turned(scan, n), s, r) = Heights(scan, (s - n) % N, r)
  <2>1. \A pt \in scan : SectorOf(T(pt).azimuth) = s <=> SectorOf(pt.azimuth) = (s - n) % N
    BY <1>2, Turning
  <2>2. \A z : z \in Heights(Turned(scan, n), s, r) <=>
               \E pt \in scan : /\ z = T(pt).z /\ T(pt).range <= PC_MAX_RADIUS
                                /\ SectorOf(T(pt).azimuth) = s /\ RingOf(T(pt).range) = r
    BY <1>1 DEF Heights
  <2>3. \A z : z \in Heights(scan, (s - n) % N, r) <=>
               \E pt \in scan : /\ z = pt.z /\ pt.range <= PC_MAX_RADIUS
                                /\ SectorOf(pt.azimuth) = (s - n) % N /\ RingOf(pt.range) = r
    BY DEF Heights
  <2>4. \A z : z \in Heights(Turned(scan, n), s, r) <=> z \in Heights(scan, (s - n) % N, r)
    BY <1>2, <2>1, <2>2, <2>3
  <2> QED
    BY <2>4
<1>4. \A sc : makeScancontext(sc)
                = [s \in Sectors |-> [r \in Rings |-> Max({0} \cup Heights(sc, s, r))]]
  BY DEF makeScancontext, Heights
<1>5. \A s \in Sectors : (s - n) % N \in Sectors
  BY Turning
<1>6. \A s \in Sectors : makeScancontext(Turned(scan, n))[s] = makeScancontext(scan)[(s - n) % N]
  BY <1>3, <1>4, <1>5
<1>7. DOMAIN makeScancontext(Turned(scan, n)) = Sectors
  BY <1>4
<1>8. makeScancontext(Turned(scan, n)) = [s \in Sectors |-> makeScancontext(Turned(scan, n))[s]]
  BY <1>4
<1>9. makeScancontext(Turned(scan, n)) = [s \in Sectors |-> makeScancontext(scan)[(s - n) % N]]
  BY <1>6, <1>8
<1> QED
  BY <1>9 DEF circshift

\* The product of columns of heights: zero with itself only where all are.
LEMMA DotTyped ==
  ASSUME NEW c \in Columns, NEW e \in Columns
  PROVE  Dot(c, e) \in Nat
<1> DEFINE f == [r \in Rings |-> c[r] * e[r]]
<1>1. f \in [Rings -> Nat]
  <2>1. \A r \in Rings : c[r] \in Nat /\ e[r] \in Nat
    BY DEF Columns
  <2>2. \A x, y \in Nat : x * y \in Nat
    OBVIOUS
  <2> QED
    BY <2>1, <2>2
<1> HIDE DEF f
<1>2. SumFunction(f) \in Nat
  BY <1>1, Counts, SumNatural
<1> QED
  BY <1>2 DEF Dot, f

LEMMA DotPositive ==
  ASSUME NEW c \in Columns, NEW r \in Rings, c[r] # 0
  PROVE  Dot(c, c) # 0
<1> DEFINE f == [q \in Rings |-> c[q] * c[q]]
<1>1. \A q \in Rings : c[q] \in Nat
  BY DEF Columns
<1>2. \A x \in Nat : x * x \in Nat /\ (x # 0 => x * x > 0)
  OBVIOUS
<1>3. f \in [Rings -> Nat] /\ f[r] > 0
  BY <1>1, <1>2
<1> HIDE DEF f
<1>4. SumFunction(f) > 0
  BY <1>3, Counts, SumPositive
<1> QED
  BY <1>4 DEF Dot, f

LEMMA KeyTyped ==
  ASSUME NEW sc \in Descriptors
  PROVE  makeSectorkeyFromScancontext(sc) \in Keys
<1>1. ASSUME NEW s \in Sectors PROVE SumFunction(sc[s]) \in Nat
  <2>1. sc[s] \in [Rings -> Nat]
    BY DEF Descriptors, Columns
  <2> QED
    BY <2>1, Counts, SumNatural
<1> QED
  BY <1>1 DEF makeSectorkeyFromScancontext, Keys

LEMMA ShiftTyped ==
  ASSUME NEW A, NEW k \in [Sectors -> A], NEW n \in Sectors
  PROVE  circshift(k, n) \in [Sectors -> A]
<1>1. \A s \in Sectors : (s - n) % PC_NUM_SECTOR \in Sectors
  BY Turning
<1> QED
  BY <1>1 DEF circshift

LEMMA KeyShifts ==
  ASSUME NEW sc, NEW n \in Sectors
  PROVE  makeSectorkeyFromScancontext(circshift(sc, n))
           = circshift(makeSectorkeyFromScancontext(sc), n)
<1>1. \A s \in Sectors : (s - n) % PC_NUM_SECTOR \in Sectors
  BY Turning
<1> QED
  BY <1>1 DEF makeSectorkeyFromScancontext, circshift

\* Keys differ by nothing exactly where they are the same.
LEMMA Differing ==
  ASSUME NEW k \in Keys, NEW l \in Keys
  PROVE  KeyDiff(k, l) \in Nat /\ (KeyDiff(k, l) = 0 <=> k = l)
<1> DEFINE f == [s \in Sectors |-> (k[s] - l[s]) * (k[s] - l[s])]
<1>1. \A s \in Sectors : k[s] \in Nat /\ l[s] \in Nat
  BY DEF Keys
<1>2. \A x, y \in Nat : /\ (x - y) * (x - y) \in Nat
                       /\ (x # y => (x - y) * (x - y) > 0)
                       /\ (x = y => (x - y) * (x - y) = 0)
  <2> SUFFICES ASSUME NEW x \in Nat, NEW y \in Nat
               PROVE  /\ (x - y) * (x - y) \in Nat
                      /\ (x # y => (x - y) * (x - y) > 0)
                      /\ (x = y => (x - y) * (x - y) = 0)
    OBVIOUS
  <2> DEFINE d == x - y
  <2>1. d \in Int /\ (d = 0 <=> x = y)
    OBVIOUS
  <2> HIDE DEF d
  <2>2. d * d \in Nat /\ (d # 0 => d * d > 0) /\ (d = 0 => d * d = 0)
    <3>1. CASE d = 0
      BY <3>1
    <3>2. CASE d > 0
      BY <2>1, <3>2
    <3>3. CASE d < 0
      BY <2>1, <3>3
    <3> QED
      BY <2>1, <3>1, <3>2, <3>3
  <2> QED
    BY <2>1, <2>2 DEF d
<1>3. /\ f \in [Sectors -> Nat]
      /\ \A s \in Sectors : (k[s] # l[s] => f[s] > 0) /\ (k[s] = l[s] => f[s] = 0)
  BY <1>1, <1>2
<1> HIDE DEF f
<1>4. SumFunction(f) \in Nat
  BY <1>3, Counts, SumNatural
<1>5. ASSUME k # l PROVE SumFunction(f) > 0
  <2>1. PICK s \in Sectors : k[s] # l[s]
    BY <1>5 DEF Keys
  <2>2. f[s] > 0
    BY <1>3, <2>1
  <2> QED
    BY <1>3, <2>2, Counts, SumPositive
<1>6. ASSUME k = l PROVE SumFunction(f) = 0
  <2>1. \A s \in Sectors : f[s] = 0
    BY <1>3, <1>6
  <2>2. DOMAIN f = Sectors
    BY <1>3
  <2>3. SumFunction(f) = 0 * Cardinality(Sectors)
    BY <2>1, <2>2, Counts, SumConstant
  <2> QED
    BY <2>3, Counts
<1>7. KeyDiff(k, l) = SumFunction(f)
  BY DEF KeyDiff, f
<1> QED
  BY <1>4, <1>5, <1>6, <1>7

\* The alignment is a turn, and of the keys of a scan and of the same scan turned
\* it is the turn.
LEMMA Aligns ==
  ASSUME NEW k \in Keys, NEW l \in Keys
  PROVE  LET n == fastAlignUsingVkey(k, l)
         IN  n \in Sectors /\ \A m \in Sectors : KeyDiff(k, circshift(l, n)) <= KeyDiff(k, circshift(l, m))
<1> DEFINE d == [n \in Sectors |-> KeyDiff(k, circshift(l, n))]
           Best(n) == \A m \in Sectors : d[n] <= d[m] /\ (d[n] = d[m] => n <= m)
<1>1. \A n \in Sectors : circshift(l, n) \in Keys
  BY ShiftTyped DEF Keys
<1>2. d \in [Sectors -> Nat] /\ \A n \in Sectors : d[n] = KeyDiff(k, circshift(l, n))
  BY <1>1, Differing
<1> HIDE DEF d
<1>3. \E n \in Sectors : Best(n)
  <2>1. d \in [Sectors -> Nat] /\ Sectors \subseteq Nat /\ Sectors # {}
    BY <1>2, Counts
  <2> QED
    BY ONLY <2>1, FirstBest, ZenonT(60)
<1>4. fastAlignUsingVkey(k, l) = CHOOSE n \in Sectors : Best(n)
  BY <1>2 DEF fastAlignUsingVkey
<1> DEFINE a == CHOOSE n \in Sectors : Best(n)
<1>5. a \in Sectors /\ Best(a)
  BY <1>3
<1> HIDE DEF a
<1>6. \A m \in Sectors : KeyDiff(k, circshift(l, a)) <= KeyDiff(k, circshift(l, m))
  BY <1>2, <1>5
<1> QED
  BY <1>4, <1>5, <1>6 DEF a

LEMMA AlignsTurned ==
  ASSUME NEW k \in Keys, NEW n \in Sectors,
         \A j \in Sectors \ {0} : circshift(k, j) # k
  PROVE  fastAlignUsingVkey(circshift(k, n), k) = n
<1> DEFINE N == PC_NUM_SECTOR
           t == circshift(k, n)
           a == fastAlignUsingVkey(t, k)
           j == (a - n) % N
<1>1. t \in Keys
  BY ShiftTyped DEF Keys
<1>2. a \in Sectors /\ KeyDiff(t, circshift(k, a)) <= KeyDiff(t, circshift(k, n))
  BY <1>1, Aligns
<1> HIDE DEF a
<1>3. circshift(k, a) \in Keys
  BY <1>2, ShiftTyped DEF Keys
<1>4. KeyDiff(t, t) = 0 /\ KeyDiff(t, circshift(k, a)) \in Nat
  <2> HIDE DEF t
  <2> QED
    BY <1>1, <1>3, Differing
<1>5. KeyDiff(t, circshift(k, a)) = 0
  BY <1>2, <1>4
<1>6. t = circshift(k, a)
  BY <1>1, <1>3, <1>5, Differing
<1>7. j \in Sectors /\ (j = 0 => a = n)
  <2>1. 0 \in Sectors
    BY Counts DEF Sectors
  <2> QED
    BY <1>2, <2>1, TurningTwice
<1>8. ASSUME NEW s \in Sectors PROVE k[(s - j) % N] = k[s]
  <2> DEFINE u == (s + n) % N
  <2>1. u \in Sectors /\ (u - n) % N = s /\ (u - a) % N = (s - j) % N
    BY <1>2, TurningTwice
  <2> HIDE DEF u, j
  <2>2. circshift(k, n)[u] = k[(u - n) % N] /\ circshift(k, a)[u] = k[(u - a) % N]
    BY <2>1 DEF circshift
  <2> QED
    BY <1>6, <2>1, <2>2
<1>9. circshift(k, j) = k
  BY <1>8 DEF circshift, Keys
<1>10. j = 0
  BY <1>7, <1>9
<1> QED
  BY <1>7, <1>10 DEF a

-----------------------------------------------------------------------------
(* Distances                                                               *)

LEMMA SimilarityTyped ==
  ASSUME NEW c \in Columns, NEW e \in Columns
  PROVE  /\ Similarity(c, e) \in 0 .. 100
         /\ c = e /\ Dot(c, c) # 0 => Similarity(c, e) = 100
<1> DEFINE a == Dot(c, c)
           b == Dot(e, e)
           p == Dot(c, e)
           S == {x \in 0 .. 100 : x * x * a * b <= 10000 * p * p}
<1>1. a \in Nat /\ b \in Nat /\ p \in Nat
  BY DotTyped
<1>2. c = e => a = p /\ b = p
  OBVIOUS
<1>3. Similarity(c, e) = Max(S)
  BY DEF Similarity
<1> HIDE DEF a, b, p
<1>4. 0 \in S
  <2>1. 0 * 0 * a * b = 0
    BY <1>1
  <2>2. p * p \in Nat
    BY <1>1
  <2>3. 10000 * p * p = 10000 * (p * p)
    BY <1>1
  <2>4. 10000 * (p * p) >= 0
    BY <2>2
  <2> QED
    BY <2>1, <2>3, <2>4
<1>5. S \subseteq 0 .. 100 /\ S \subseteq Int
  OBVIOUS
<1>6. IsFiniteSet(S)
  <2>1. 0 \in Int /\ 100 \in Int
    OBVIOUS
  <2>2. IsFiniteSet(0 .. 100)
    BY ONLY <2>1, FS_Interval
  <2> HIDE DEF S
  <2> QED
    BY <1>5, <2>2, FS_Subset
<1>7. c = e => 100 \in S
  <2> SUFFICES ASSUME c = e PROVE 100 \in S
    OBVIOUS
  <2>1. 100 * 100 * a * b = 10000 * p * p
    BY <1>1, <1>2
  <2>2. 10000 * p * p \in Int
    BY <1>1
  <2> QED
    BY <2>1, <2>2
<1> HIDE DEF S
<1>8. Greatest(S, Max(S))
  BY <1>4, <1>5, <1>6, Extremes
<1>9. Max(S) \in S /\ Max(S) \in 0 .. 100
  BY <1>5, <1>8 DEF Greatest
<1>10. ASSUME c = e PROVE Max(S) = 100
  <2>1. Max(S) >= 100
    BY <1>7, <1>8, <1>10 DEF Greatest
  <2> QED
    BY <1>9, <2>1
<1> QED
  BY <1>3, <1>9, <1>10

\* The sectors where both have points.
Effective(sc1, sc2) == {s \in Sectors : Dot(sc1[s], sc1[s]) # 0 /\ Dot(sc2[s], sc2[s]) # 0}

LEMMA DirectTyped ==
  ASSUME NEW sc1 \in Descriptors, NEW sc2 \in Descriptors
  PROVE  /\ distDirectSC(sc1, sc2) \in Nat
         /\ sc1 = sc2 /\ Effective(sc1, sc2) # {} => distDirectSC(sc1, sc2) = 0
<1> DEFINE eff == Effective(sc1, sc2)
           f == [s \in eff |-> Similarity(sc1[s], sc2[s])]
           n == Cardinality(eff)
           total == SumFunction(f)
           mean == total \div n
<1>1. eff \subseteq Sectors /\ IsFiniteSet(eff)
  BY Counts, FS_Subset DEF Effective
<1>2. \A s \in eff : /\ f[s] \in 0 .. 100 /\ f[s] \in Nat /\ f[s] <= 100
                     /\ sc1 = sc2 => f[s] = 100
  <2> SUFFICES ASSUME NEW s \in eff
               PROVE  f[s] \in 0 .. 100 /\ (sc1 = sc2 => f[s] = 100)
    OBVIOUS
  <2>1. sc1[s] \in Columns /\ sc2[s] \in Columns /\ f[s] = Similarity(sc1[s], sc2[s])
    BY <1>1 DEF Descriptors
  <2>2. Dot(sc1[s], sc1[s]) # 0
    BY DEF Effective
  <2> HIDE DEF eff, f
  <2> QED
    BY <2>1, <2>2, SimilarityTyped
<1>3. distDirectSC(sc1, sc2) = IF eff = {} THEN Unlike ELSE 100 - mean
  BY DEF distDirectSC, Effective
<1>4. f \in [eff -> Nat] /\ DOMAIN f = eff
  BY <1>2
<1> HIDE DEF eff, f
<1>5. total \in Nat /\ total <= 100 * n
  BY <1>1, <1>2, <1>4, SumBounds
<1>6. sc1 = sc2 => total = 100 * n
  BY <1>1, <1>2, <1>4, SumConstant
<1>7. n \in Nat /\ (eff # {} => n # 0)
  BY <1>1, FS_CardinalityType, FS_EmptySet
<1> HIDE DEF n, total
<1>8. ASSUME eff # {}
      PROVE  mean \in 0 .. 100 /\ (sc1 = sc2 => mean = 100)
  <2>1. n \in Nat \ {0} /\ total \in Int
    BY <1>5, <1>7, <1>8
  <2>2. mean \in Int /\ mean * n <= total /\ total < mean * n + n
    BY <2>1, FloorBounds
  <2> HIDE DEF mean
  <2>3. (mean + 1) * n = mean * n + n /\ 101 * n = 100 * n + n /\ 0 * n = 0 /\ mean * n \in Int
    BY <2>1, <2>2
  <2>4. 101 * n > mean * n /\ (mean + 1) * n > 0 * n
    BY <1>5, <2>1, <2>2, <2>3
  <2>5. 101 > mean /\ mean + 1 > 0
    BY <2>1, <2>2, <2>4, Cancel, mean + 1 \in Int
  <2>6. ASSUME sc1 = sc2 PROVE mean = 100
    <3>1. (mean + 1) * n > 100 * n
      BY <1>6, <2>2, <2>3, <2>6
    <3>2. mean + 1 > 100
      BY <2>1, <2>2, <3>1, Cancel, mean + 1 \in Int
    <3> QED
      BY <2>2, <2>5, <3>2
  <2> QED
    BY <2>2, <2>5, <2>6
<1> HIDE DEF mean
<1> QED
  BY <1>3, <1>8 DEF Unlike, eff

\* The turns that are tried: those around the alignment.
Searched(n) == {(n + i) % PC_NUM_SECTOR : i \in -SearchRadius .. SearchRadius}

LEMMA SearchedTurns ==
  ASSUME NEW n \in Sectors
  PROVE  n \in Searched(n) /\ Searched(n) \subseteq Sectors
<1> DEFINE N == PC_NUM_SECTOR
           R == SearchRadius
<1>1. N \in Nat \ {0} /\ n \in 0 .. N - 1
  BY Counts DEF Sectors
<1>2. R \in Nat
  <2> DEFINE a == SEARCH_RATIO * N + 100
  <2>1. SEARCH_RATIO \in Nat
    BY ScanContextAssumption
  <2>2. SEARCH_RATIO * N \in Nat
    BY <1>1, <2>1
  <2>3. a \in Nat /\ a >= 100
    BY <2>2
  <2>4. R = a \div 200
    BY DEF SearchRadius
  <2> HIDE DEF a
  <2>5. a \div 200 \in Int /\ a < (a \div 200) * 200 + 200
    BY <2>3, FloorBounds
  <2> QED
    BY <2>3, <2>4, <2>5
<1>3. \A i \in Int : (n + i) % N \in Sectors
  <2> SUFFICES ASSUME NEW i \in Int PROVE (n + i) % N \in Sectors
    OBVIOUS
  <2> DEFINE a == n + i
  <2>1. a \in Int
    BY <1>1
  <2> HIDE DEF a
  <2>2. a % N \in 0 .. N - 1
    BY <1>1, <2>1, FloorBounds
  <2> QED
    BY <2>2 DEF a, Sectors
<1>4. (n + 0) % N = n
  <2>1. n + 0 = n /\ n \in Int /\ -N <= n /\ n < 2 * N
    BY <1>1
  <2>2. n % N = Wrap(n)
    BY <2>1, Wraps
  <2>3. Wrap(n) = n
    BY <1>1 DEF Wrap
  <2> QED
    BY <2>1, <2>2, <2>3
<1> HIDE DEF R
<1>5. 0 \in -R .. R
  BY <1>2
<1>6. n \in Searched(n)
  BY <1>4, <1>5 DEF Searched, R
<1>7. Searched(n) \subseteq Sectors
  BY <1>2, <1>3 DEF Searched, R
<1> QED
  BY <1>6, <1>7

LEMMA DistanceTyped ==
  ASSUME NEW sc1 \in Descriptors, NEW sc2 \in Descriptors
  PROVE  LET n == fastAlignUsingVkey(makeSectorkeyFromScancontext(sc1),
                                     makeSectorkeyFromScancontext(sc2))
         IN  /\ n \in Sectors /\ distanceBtnScanContext(sc1, sc2) \in Nat
             /\ distanceBtnScanContext(sc1, sc2) <= distDirectSC(sc1, circshift(sc2, n))
<1> DEFINE n == fastAlignUsingVkey(makeSectorkeyFromScancontext(sc1),
                                   makeSectorkeyFromScancontext(sc2))
           f == [m \in Searched(n) |-> distDirectSC(sc1, circshift(sc2, m))]
           D == {f[m] : m \in Searched(n)}
<1>1. n \in Sectors
  BY KeyTyped, Aligns
<1>2. distanceBtnScanContext(sc1, sc2)
        = Min({distDirectSC(sc1, circshift(sc2, m)) : m \in Searched(n)})
  BY DEF distanceBtnScanContext, Searched
<1> HIDE DEF n
<1>3. n \in Searched(n) /\ Searched(n) \subseteq Sectors
  BY <1>1, SearchedTurns
<1>4. \A m \in Searched(n) : /\ f[m] = distDirectSC(sc1, circshift(sc2, m))
                             /\ f[m] \in Nat
  <2> SUFFICES ASSUME NEW m \in Searched(n) PROVE distDirectSC(sc1, circshift(sc2, m)) \in Nat
    OBVIOUS
  <2>1. m \in Sectors
    BY <1>3
  <2>2. circshift(sc2, m) \in Descriptors
    BY <2>1, ShiftTyped DEF Descriptors
  <2> QED
    BY <2>2, DirectTyped
<1>5. {distDirectSC(sc1, circshift(sc2, m)) : m \in Searched(n)} = D
  BY <1>4
<1>6. IsFiniteSet(Searched(n))
  BY <1>3, Counts, FS_Subset
<1> HIDE DEF f
<1>7. IsFiniteSet(D)
  BY <1>6, ImageFinite
<1>8. D \subseteq Nat /\ f[n] \in D
  BY <1>3, <1>4
<1> HIDE DEF D
<1>9. Least(D, Min(D))
  <2>1. D \subseteq Int /\ D # {}
    BY <1>8
  <2> QED
    BY <1>7, <2>1, Extremes
<1>10. Min(D) \in Nat /\ Min(D) <= f[n]
  BY <1>8, <1>9 DEF Least
<1> QED
  BY <1>1, <1>2, <1>3, <1>4, <1>5, <1>10 DEF n

\* A sector key that tells the heading comes from a descriptor with points.
LEMMA TellingHasPoints ==
  ASSUME NEW sc \in Descriptors, NEW n \in Sectors,
         \A j \in Sectors \ {0} :
            circshift(makeSectorkeyFromScancontext(sc), j) # makeSectorkeyFromScancontext(sc)
  PROVE  Effective(circshift(sc, n), circshift(sc, n)) # {}
<1> DEFINE k == makeSectorkeyFromScancontext(sc)
<1>1. SUFFICES ASSUME Effective(circshift(sc, n), circshift(sc, n)) = {} PROVE FALSE
  OBVIOUS
<1>2. ASSUME NEW s \in Sectors PROVE k[s] = 0
  <2> DEFINE t == (s + n) % PC_NUM_SECTOR
  <2>1. t \in Sectors /\ (t - n) % PC_NUM_SECTOR = s
    BY Turning
  <2> HIDE DEF t
  <2>2. circshift(sc, n)[t] = sc[s]
    BY <2>1 DEF circshift
  <2>3. Dot(sc[s], sc[s]) = 0
    BY <1>1, <2>1, <2>2 DEF Effective
  <2>4. sc[s] \in Columns
    BY DEF Descriptors
  <2>5. \A r \in Rings : sc[s][r] = 0
    BY <2>3, <2>4, DotPositive
  <2>6. DOMAIN sc[s] = Rings
    BY <2>4 DEF Columns
  <2>7. SumFunction(sc[s]) = 0 * Cardinality(Rings)
    BY <2>5, <2>6, Counts, SumConstant
  <2>8. Cardinality(Rings) \in Nat
    BY Counts, FS_CardinalityType
  <2> QED
    BY <2>7, <2>8 DEF makeSectorkeyFromScancontext
<1>3. 1 \in Sectors \ {0}
  BY Counts DEF Sectors
<1>4. \A s \in Sectors : (s - 1) % PC_NUM_SECTOR \in Sectors
  BY <1>3, Turning
<1>5. k = [s \in Sectors |-> k[s]]
  BY DEF makeSectorkeyFromScancontext
<1> HIDE DEF k
<1>6. circshift(k, 1) = [s \in Sectors |-> k[s]]
  BY <1>2, <1>4 DEF circshift
<1>7. circshift(k, 1) = k
  BY <1>5, <1>6
<1> QED
  BY <1>3, <1>7 DEF k

\* A scan seen again from another heading is at no distance.
LEMMA TurnedIsNear ==
  ASSUME NEW scan \in Scans, OffBorders(scan), TellsHeading(scan), NEW n \in Sectors
  PROVE  distanceBtnScanContext(makeScancontext(Turned(scan, n)), makeScancontext(scan)) = 0
<1> DEFINE sc == makeScancontext(scan)
           k == makeSectorkeyFromScancontext(sc)
           t == circshift(sc, n)
<1>1. sc \in Descriptors /\ makeScancontext(Turned(scan, n)) = t
  BY DescriptorTyped, TurnedShifts
<1>2. \A j \in Sectors \ {0} : circshift(k, j) # k
  BY DEF TellsHeading
<1> HIDE DEF sc
<1>3. t \in Descriptors
  BY <1>1, ShiftTyped DEF Descriptors
<1>4. k \in Keys /\ makeSectorkeyFromScancontext(t) = circshift(k, n)
  BY <1>1, KeyTyped, KeyShifts
<1>5. Effective(t, t) # {}
  BY <1>1, <1>2, TellingHasPoints
<1> HIDE DEF k, t
<1>6. fastAlignUsingVkey(makeSectorkeyFromScancontext(t), k) = n
  BY <1>2, <1>4, AlignsTurned
<1>7. distDirectSC(t, t) = 0
  BY <1>3, <1>5, DirectTyped
<1>8. /\ distanceBtnScanContext(t, sc) \in Nat
      /\ distanceBtnScanContext(t, sc) <= distDirectSC(t, circshift(sc, n))
  BY <1>1, <1>3, <1>6, DistanceTyped DEF k
<1>9. distanceBtnScanContext(t, sc) = 0
  BY <1>7, <1>8 DEF t
<1> QED
  BY <1>1, <1>9 DEF sc

-----------------------------------------------------------------------------
(* Detection                                                               *)

\* A candidate at no distance: what is detected is one too.
LEMMA FoundAtNoDistance ==
  ASSUME NEW size \in Nat, NEW d \in [0 .. size - 1 -> Nat], NEW c \in 0 .. size - 1,
         size - 1 - c >= NUM_EXCLUDE_RECENT, d[c] = 0
  PROVE  LET found == detectLoopClosureID(size, size - 1, d)
         IN  found \in 0 .. size - 1 /\ size - 1 - found >= NUM_EXCLUDE_RECENT /\ d[found] = 0
<1> DEFINE query == size - 1
           near == {i \in Candidates(size, query) : d[i] < SC_DIST_THRES}
           found == detectLoopClosureID(size, query, d)
           First(x) == \A y \in near : d[x] <= d[y] /\ (d[x] = d[y] => x <= y)
<1>1. SC_DIST_THRES \in Nat \ {0} /\ NUM_EXCLUDE_RECENT \in Nat \ {0}
  BY ScanContextAssumption
<1>2. query \in 0 .. size - 1 /\ ~ (size < NUM_EXCLUDE_RECENT + 1)
  BY <1>1
<1>3. c \in near
  BY <1>1 DEF Candidates
<1>4. /\ near \subseteq 0 .. size - 1 /\ near \subseteq Nat
      /\ \A i \in near : query - i >= NUM_EXCLUDE_RECENT
  BY <1>1 DEF Candidates
<1>5. found = CHOOSE x \in near : First(x)
  BY <1>2, <1>3 DEF detectLoopClosureID
<1> HIDE DEF near, found
<1>6. \E x \in near : First(x)
  <2> DEFINE g == [i \in near |-> d[i]]
  <2>1. g \in [near -> Nat] /\ \A i \in near : g[i] = d[i]
    BY <1>4
  <2> HIDE DEF g
  <2>2. g \in [near -> Nat] /\ near \subseteq Nat /\ near # {}
    BY <1>3, <1>4, <2>1
  <2>3. \E x \in near : \A y \in near : g[x] <= g[y] /\ (g[x] = g[y] => x <= y)
    BY ONLY <2>2, FirstBest, ZenonT(60)
  <2> QED
    BY <2>1, <2>3
<1>7. found \in near /\ First(found)
  BY <1>5, <1>6
<1>8. d[found] \in Nat /\ d[found] <= 0
  BY <1>3, <1>4, <1>7
<1>9. found \in 0 .. size - 1 /\ query - found >= NUM_EXCLUDE_RECENT
  BY <1>4, <1>7
<1>10. d[found] = 0
  BY <1>8
<1> QED
  BY <1>9, <1>10 DEF found

\* The scans kept are those of keyframes.
LEMMA ScansKept ==
  ASSUME TypeOK
  PROVE  /\ Len(polarcontexts_) \in Nat
         /\ \A i \in 0 .. Len(polarcontexts_) - 1 : polarcontexts_[i + 1] \in Scans
<1>1. PICK m \in 0 .. MaxKeyframes : polarcontexts_ \in [1 .. m -> Scans]
  BY DEF TypeOK, BoundedSeq, SeqOf
<1>2. m \in Nat
  BY RegistrationAssumption
<1>3. Len(polarcontexts_) = m
  BY <1>1, <1>2, SeqDef, LenProperties
<1>4. \A i \in 0 .. m - 1 : i + 1 \in 1 .. m
  BY <1>2
<1> QED
  BY <1>1, <1>2, <1>3, <1>4

LEMMA RevisitFound ==
  ASSUME TypeOK
  PROVE  RevisitRecognised
<1> DEFINE size == Len(polarcontexts_)
           query == size - 1
           scan(i) == polarcontexts_[i + 1]
           d == [i \in 0 .. size - 1 |-> Distances[scan(query)][scan(i)]]
           found == Detected(polarcontexts_)
<1>1. size \in Nat /\ \A i \in 0 .. size - 1 : scan(i) \in Scans
  BY ScansKept
<1>2. \A s, t \in Scans :
        Distances[s][t] = distanceBtnScanContext(makeScancontext(s), makeScancontext(t))
  BY DEF Distances
<1>3. Last(polarcontexts_) = scan(query)
  BY <1>1 DEF Last
<1>4. found = detectLoopClosureID(size, query, d)
  BY <1>3 DEF Detected
<1>5. \A i \in 0 .. size - 1 : d[i] = Distances[scan(query)][scan(i)]
  OBVIOUS
<1>6. \A i \in 0 .. size - 1 : d[i] = distanceBtnScanContext(makeScancontext(scan(query)),
                                                            makeScancontext(scan(i)))
  <2> SUFFICES ASSUME NEW i \in 0 .. size - 1
               PROVE  d[i] = distanceBtnScanContext(makeScancontext(scan(query)),
                                                    makeScancontext(scan(i)))
    OBVIOUS
  <2>1. scan(query) \in Scans /\ scan(i) \in Scans
    BY <1>1
  <2> HIDE DEF d, scan
  <2> QED
    BY <1>2, <1>5, <2>1
<1>7. d \in [0 .. size - 1 -> Nat]
  <2>1. ASSUME NEW i \in 0 .. size - 1 PROVE d[i] \in Nat
    <3>1. scan(query) \in Scans /\ scan(i) \in Scans
      BY <1>1
    <3> HIDE DEF d, scan
    <3>2. makeScancontext(scan(query)) \in Descriptors /\ makeScancontext(scan(i)) \in Descriptors
      BY <3>1, DescriptorTyped
    <3> QED
      BY <1>6, <3>2, DistanceTyped
  <2> QED
    BY <2>1
<1> HIDE DEF d, found
<1>8. SUFFICES ASSUME NEW c \in 0 .. query - NUM_EXCLUDE_RECENT,
                      NEW n \in Sectors, scan(query) = Turned(scan(c), n),
                      OffBorders(scan(c)), TellsHeading(scan(c))
               PROVE  /\ found >= 0 /\ query - found >= NUM_EXCLUDE_RECENT
                      /\ Distances[scan(query)][scan(found)] = 0
  BY <1>3 DEF RevisitRecognised, found
<1>9. NUM_EXCLUDE_RECENT \in Nat \ {0}
  BY ScanContextAssumption
<1>10. c \in 0 .. size - 1 /\ query - c >= NUM_EXCLUDE_RECENT
  BY <1>1, <1>9
<1>11. d[c] = 0
  <2>1. scan(c) \in Scans
    BY <1>1, <1>10
  <2>2. d[c] = distanceBtnScanContext(makeScancontext(scan(query)), makeScancontext(scan(c)))
    BY <1>6, <1>10
  <2> HIDE DEF scan
  <2> QED
    BY <1>8, <2>1, <2>2, TurnedIsNear
<1>12. found \in 0 .. size - 1 /\ query - found >= NUM_EXCLUDE_RECENT /\ d[found] = 0
  <2> HIDE DEF size
  <2> QED
    BY <1>1, <1>4, <1>7, <1>10, <1>11, FoundAtNoDistance
<1>13. Distances[scan(query)][scan(found)] = 0
  BY <1>5, <1>12
<1> QED
  BY <1>12, <1>13

\* A keyframe that sees what an old enough keyframe saw, from any heading, finds a
\* keyframe that looks the same, in a grid of any size, unless points are on borders
\* of sectors or the sector key does not tell the heading.
THEOREM RevisitsAreRecognised == Spec => []RevisitRecognised
BY RevisitFound, TypeCorrect, PTL
=============================================================================
