---------------------------- MODULE Registration ----------------------------
(***************************************************************************)
(* Finding out which patches of the map a scan sees, and whether a new     *)
(* keyframe has been somewhere before.  Three callers associate the cells  *)
(* of a divided scan with patches in the same way:                         *)
(*                                                                         *)
(*   curl_registration_method            the tracking thread, every frame  *)
(*   curl_registration_method_minimum    the tracking thread, when a       *)
(*                                       keyframe may close a loop         *)
(*   get_associations_from_raw_points    the worker that adjusts a loop    *)
(*                                                                         *)
(* Each cell picks the patch it overlaps most, each picked patch collects  *)
(* the cells that did, and a pair stands if the cell is the best of them.  *)
(* The tracking thread collects in the patches themselves (data_asso), the *)
(* worker in a map of its own.                                             *)
(***************************************************************************)
EXTENDS ScanContext, Sequences, SequencesExt, Functions, TLC

CONSTANTS Cells,            \* <<region, number>> of each cell of a scan
          KeyframeCells,    \* those of a scan the worker associates
          GroundCells, Patches, GroundPatches,
          MaxIoU,           \* overlaps are 0 .. MaxIoU
          max_region_pairs, \* max_region_ground_pairs and max_region_seg_pairs
          MinPairs,         \* the literal 5
          Scans,            \* scans of keyframes, sets of points
          MaxKeyframes      \* bound

NoPatch == "none"

ASSUME RegistrationAssumption ==
    /\ Cells \subseteq Nat \X Nat
    /\ {GroundCells, KeyframeCells} \subseteq SUBSET Cells /\ GroundPatches \subseteq Patches
    /\ NoPatch \notin Patches
    /\ {MaxIoU, max_region_pairs, MinPairs, MaxKeyframes} \subseteq Nat
    /\ \A scan \in Scans :
        IsFiniteSet(scan) /\ scan \subseteq [range : Nat, azimuth : 0 .. FullTurn - 1, z : Nat]

VARIABLES
    data_asso,      \* of each patch: the cells that picked it, and their IoU
    pc,             \* tracking thread: "idle", "collected", "matched"
    loop,           \* it associates the scan of a keyframe that may close a loop
    IoU,            \* of its cells and the patches it may use
    patch_info_ptr, \* the patch each cell picked
    pairs,          \* the pairs that stand
    is_registration_succeed,
    worker,         \* the same for the worker: pc, IoU, patch_info_ptr, pairs
    local_data_asso,
    tasks,          \* loops the worker has yet to adjust
    polarcontexts_  \* the scans the descriptors were made from, by frame_num

tracking == <<pc, loop, IoU, patch_info_ptr, pairs, is_registration_succeed>>
adjusting == <<worker, local_data_asso, tasks>>
vars == <<data_asso, tracking, adjusting, polarcontexts_>>

NoOverlap == [c \in Cells |-> [p \in Patches |-> 0]]
NonePicked == [c \in Cells |-> NoPatch]
NoneCollected == [p \in Patches |-> {}]
Idle == [pc |-> "idle", IoU |-> NoOverlap, patch_info_ptr |-> NonePicked, pairs |-> {}]

Init ==
    /\ data_asso = NoneCollected
    /\ pc = "idle" /\ loop = FALSE
    /\ IoU = NoOverlap /\ patch_info_ptr = NonePicked /\ pairs = {}
    /\ is_registration_succeed = FALSE
    /\ worker = Idle /\ local_data_asso = NoneCollected /\ tasks = 0
    /\ polarcontexts_ = <<>>

(***************************************************************************)
(* Association.                                                            *)
(***************************************************************************)
\* What query_data_association_overlap finds: an overlap for each pair.
Overlaps == [Cells -> [Patches -> 0 .. MaxIoU]]
KeyframeOverlaps ==
    {[c \in Cells |-> IF c \in KeyframeCells THEN o[c] ELSE [p \in Patches |-> 0]] :
        o \in [KeyframeCells -> [Patches -> 0 .. MaxIoU]]}

\* Ground goes with ground, and only patches the caller admits are used.
intersected_score_pairs(overlap, admitted) ==
    [c \in Cells |-> [p \in Patches |->
        IF p \in admitted /\ (c \in GroundCells <=> p \in GroundPatches) THEN overlap[c][p] ELSE 0]]

\* Mutant: patches that do not overlap are not sorted out.
PicksTouching(iou) ==
    {f \in [Cells -> Patches] : \A c \in Cells, p \in Patches : iou[c][p] <= iou[c][f[c]]}

\* Each cell picks the first of the patches sorted by IoU; any of equals.
Picks(iou) ==
    {f \in [Cells -> Patches \cup {NoPatch}] : \A c \in Cells :
        IF f[c] = NoPatch THEN \A p \in Patches : iou[c][p] = 0
        ELSE iou[c][f[c]] > 0 /\ \A p \in Patches : iou[c][p] <= iou[c][f[c]]}

\* The picked patches collect the cells.
Collected(asso, iou, picked) ==
    [p \in Patches |-> asso[p] \cup {<<c, iou[c][p]>> : c \in {d \in Cells : picked[d] = p}}]

\* The best cell of each patch that collected any; any of equals.
Bests(asso) ==
    {best \in [{p \in Patches : asso[p] # {}} -> Cells] :
        \A p \in DOMAIN best : \E a \in asso[p] : a[1] = best[p] /\ \A b \in asso[p] : b[2] <= a[2]}

\* A pair stands if each is the other's best.
Standing(picked, best) ==
    {<<c, picked[c]>> : c \in {d \in Cells : picked[d] # NoPatch /\ best[picked[d]] = d}}

\* ScanDataAsso::clear
Cleared(asso, picked) == [p \in Patches |-> IF p \in Range(picked) THEN {} ELSE asso[p]]

\* Pairs that enter the solve: a few of each region, ground and other apart.
InRegion(cells, i) == {a \in pairs : a[1] \in cells /\ a[1][1] = i}
pose_pairs ==
    MapThenSumSet(LAMBDA i : Min({max_region_pairs, Cardinality(InRegion(GroundCells, i))})
                           + Min({max_region_pairs, Cardinality(InRegion(Cells \ GroundCells, i))}),
                  {c[1] : c \in Cells})

(***************************************************************************)
(* The tracking thread.                                                    *)
(***************************************************************************)
\* Patches of labels that are not connected are refused in a frame, and
\* those not associated with the history keyframe when a loop may close.
Collect ==
    /\ pc = "idle" /\ pc' = "collected"
    /\ \E overlap \in Overlaps, admitted \in SUBSET Patches :
        /\ IoU' = intersected_score_pairs(overlap, admitted)
        /\ patch_info_ptr' \in Picks(IoU')
        /\ data_asso' = Collected(data_asso, IoU', patch_info_ptr')
    /\ UNCHANGED <<loop, pairs, is_registration_succeed, adjusting, polarcontexts_>>

Match ==
    /\ pc = "collected" /\ pc' = "matched"
    /\ \E best \in Bests(data_asso) : pairs' = Standing(patch_info_ptr, best)
    /\ UNCHANGED <<data_asso, loop, IoU, patch_info_ptr, is_registration_succeed, adjusting,
                   polarcontexts_>>

\* Mutant: a registration with too few pairs returns before it clears.
ClearIfEnough ==
    data_asso' = IF pose_pairs < MinPairs THEN data_asso ELSE Cleared(data_asso, patch_info_ptr)

Clear == data_asso' = Cleared(data_asso, patch_info_ptr)

\* What was collected is cleared, then the pairs are counted.  Whether a
\* loop's registration succeeded is not looked at: the loop is adjusted from
\* the pose it ends with.
Finish ==
    /\ pc = "matched" /\ pc' = "idle"
    /\ Clear
    /\ loop' = FALSE
    /\ is_registration_succeed' = (~loop /\ pose_pairs >= MinPairs)
    /\ tasks' = IF loop THEN tasks + 1 ELSE tasks
    /\ IoU' = NoOverlap /\ patch_info_ptr' = NonePicked /\ pairs' = {}
    /\ UNCHANGED <<worker, local_data_asso, polarcontexts_>>

(***************************************************************************)
(* A registered frame that becomes a keyframe: its descriptor is kept, and *)
(* it may close a loop with one of the keyframes near it.  The first needs *)
(* no registration.                                                        *)
(***************************************************************************)
\* Distances of the scans' descriptors.
Distances ==
    LET sc == [s \in Scans |-> makeScancontext(s)]
    IN [s \in Scans |-> [t \in Scans |-> distanceBtnScanContext(sc[s], sc[t])]]

Detected(contexts) ==
    detectLoopClosureID(Len(contexts), Len(contexts) - 1,
                        [c \in 0 .. Len(contexts) - 1 |-> Distances[Last(contexts)][contexts[c + 1]]])

\* detect_loop_for_keyframe: a keyframe close by, on a trajectory that is
\* not connected, or the most similar one if it is among the near ones on
\* such a trajectory; then whether the icp converges.
Keyframe ==
    /\ pc = "idle" /\ (is_registration_succeed \/ polarcontexts_ = <<>>)
    /\ is_registration_succeed' = FALSE
    /\ Len(polarcontexts_) < MaxKeyframes
    /\ \E scan \in Scans : polarcontexts_' = Append(polarcontexts_, scan)
    /\ \E simple \in BOOLEAN, valid_keyframe_indices \in SUBSET (0 .. Len(polarcontexts_) - 1) :
        loop' \in {FALSE, /\ valid_keyframe_indices # {}
                          /\ simple \/ Detected(polarcontexts_') \in valid_keyframe_indices}
    /\ UNCHANGED <<data_asso, pc, IoU, patch_info_ptr, pairs, adjusting>>

\* curl_registration_method_minimum returns at once if the history keyframe
\* has no associated patches.
NothingAssociated ==
    /\ pc = "idle" /\ loop /\ loop' = FALSE
    /\ tasks' = tasks + 1
    /\ UNCHANGED <<data_asso, pc, IoU, patch_info_ptr, pairs, is_registration_succeed, worker,
                   local_data_asso, polarcontexts_>>

(***************************************************************************)
(* The worker, for each keyframe of the adjustment.  Patches the keyframe  *)
(* owns, that wait for removal, or whose label is not one of the history's *)
(* are refused.                                                            *)
(***************************************************************************)
WorkerCollect ==
    /\ tasks > 0 /\ worker.pc = "idle"
    /\ \E overlap \in KeyframeOverlaps, refused \in SUBSET Patches :
        LET iou == intersected_score_pairs(overlap, Patches \ refused)
        IN \E picked \in Picks(iou) :
            /\ worker' = [pc |-> "collected", IoU |-> iou, patch_info_ptr |-> picked, pairs |-> {}]
            /\ local_data_asso' = Collected(NoneCollected, iou, picked)
    /\ UNCHANGED <<data_asso, tracking, tasks, polarcontexts_>>

\* Mutant: the worker reads what the patches themselves collected.
WorkerAssoShared ==
    [p \in Patches |-> IF p \in Range(worker.patch_info_ptr) /\ data_asso[p] # {}
                       THEN data_asso[p] ELSE local_data_asso[p]]

WorkerAsso == local_data_asso

WorkerMatch ==
    /\ worker.pc = "collected"
    /\ \E best \in Bests(WorkerAsso) :
        worker' = [worker EXCEPT !.pc = "matched", !.pairs = Standing(worker.patch_info_ptr, best)]
    /\ UNCHANGED <<data_asso, tracking, local_data_asso, tasks, polarcontexts_>>

\* The next keyframe, or the end of the adjustment.
WorkerFinish ==
    /\ worker.pc = "matched"
    /\ worker' = Idle /\ local_data_asso' = NoneCollected
    /\ tasks' \in {tasks, tasks - 1}
    /\ UNCHANGED <<data_asso, tracking, polarcontexts_>>

Next == \/ Collect \/ Match \/ Finish \/ Keyframe \/ NothingAssociated
        \/ WorkerCollect \/ WorkerMatch \/ WorkerFinish

Spec == Init /\ [][Next]_vars

(***************************************************************************)
(* Properties.                                                             *)
(***************************************************************************)
TypeOK ==
    /\ data_asso \in [Patches -> SUBSET (Cells \X (1 .. MaxIoU))]
    /\ local_data_asso \in [Patches -> SUBSET (Cells \X (1 .. MaxIoU))]
    /\ pc \in {"idle", "collected", "matched"} /\ loop \in BOOLEAN
    /\ IoU \in Overlaps
    /\ patch_info_ptr \in [Cells -> Patches \cup {NoPatch}]
    /\ pairs \subseteq Cells \X Patches
    /\ is_registration_succeed \in BOOLEAN
    /\ worker \in [pc : {"idle", "collected", "matched"}, IoU : Overlaps,
                   patch_info_ptr : [Cells -> Patches \cup {NoPatch}],
                   pairs : SUBSET (Cells \X Patches)]
    /\ tasks \in 0 .. MaxKeyframes
    /\ polarcontexts_ \in BoundedSeq(Scans, MaxKeyframes)

BestOfBoth(iou, standing) ==
    /\ \A a, b \in standing : a # b => a[1] # b[1] /\ a[2] # b[2]
    /\ \A a \in standing, p \in Patches : iou[a[1]][p] <= iou[a[1]][a[2]]
    /\ \A c \in Cells, p \in Patches :
        iou[c][p] > 0 /\ (\A q \in Patches \ {p} : iou[c][q] < iou[c][p])
            => \E a \in standing : a[2] = p /\ iou[a[1]][p] >= iou[c][p]

\* "if both are the best selection for each other then data-association
\* successed": a patch and a cell are in one pair at most, and a patch that
\* is some cell's best goes to a cell that overlaps it as much, whatever the
\* other thread associates with the same patches at the time.  The update of
\* the surfaces runs over the pairs in parallel.
MutualBest ==
    /\ pc = "matched" => BestOfBoth(IoU, pairs)
    /\ worker.pc = "matched" => BestOfBoth(worker.IoU, worker.pairs)

\* "clear all associated information (important)": no registration, also
\* none that fails, leaves anything for the next one in the patches.
NothingLeft == pc = "idle" => data_asso = NoneCollected

Turned(scan, n) ==
    {[pt EXCEPT !.azimuth = (@ + n * (FullTurn \div PC_NUM_SECTOR)) % FullTurn] : pt \in scan}

\* The sector key tells how far the scan is turned.
TellsHeading(scan) ==
    LET key == makeSectorkeyFromScancontext(makeScancontext(scan))
    IN \A n \in Sectors \ {0} : circshift(key, n) # key

\* No point is just where two sectors meet: one at azimuth 0 is counted to the
\* first sector, though the border of the others belongs to the sector before.
OffBorders(scan) ==
    \A pt \in scan : pt.azimuth % (FullTurn \div PC_NUM_SECTOR) # 0

\* A keyframe that sees what a keyframe old enough saw, from any heading, is
\* recognised, unless points are on borders of sectors or the sector key does not
\* tell the heading.
RevisitRecognised ==
    LET query == Len(polarcontexts_) - 1
        Seen(c) == \E n \in Sectors : Last(polarcontexts_) = Turned(polarcontexts_[c + 1], n)
    IN \A c \in 0 .. query - NUM_EXCLUDE_RECENT :
        Seen(c) /\ OffBorders(polarcontexts_[c + 1]) /\ TellsHeading(polarcontexts_[c + 1]) =>
            /\ Detected(polarcontexts_) >= 0
            /\ query - Detected(polarcontexts_) >= NUM_EXCLUDE_RECENT
            /\ Distances[Last(polarcontexts_)][polarcontexts_[Detected(polarcontexts_) + 1]] = 0

=============================================================================
