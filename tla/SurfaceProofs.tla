--------------------------- MODULE SurfaceProofs ----------------------------
(***************************************************************************)
(* Proofs about the surface of a patch, for every number of scans and of   *)
(* adjustments and every choice of the parameters; and about the file of   *)
(* the map, for every degree, image and word size and wherever it ends.    *)
(***************************************************************************)
EXTENDS MapFile, SequenceTheorems, FiniteSetTheorems, TLAPS

-----------------------------------------------------------------------------
(* The inductive invariant                                                 *)

\* The surface is not being computed: it is that of the plane and the sums, a scan
\* that waits in update_mask apart.
Steady == tpc \in {"idle", "publish", "mark"} \/ (tpc = "mask" /\ ~moving)

\* A scan is about to be added as a new one; after a change of plane it is the one
\* that fixed it, which was added as a kept one before.
Waiting == tpc = "mask" /\ ~moving

\* The first n scans, in order.
UpTo(n) == [i \in 1 .. n |-> i]

\* A patch keeps all its scans until its plane is fixed, and fixes it once.
PlaneFixed ==
  /\ isGround => plane = 0 /\ points = 1 /\ initial = <<>>
  /\ points = -1 => initial = <<>>
  /\ ~isGround /\ points # -1 =>
       /\ points = scan /\ initial = UpTo(scan)
       /\ ~moving => plane = 0 /\ (scan < MinimumScans \/ scan = 1)
  /\ plane = 1 => FixingScan <= scan
  /\ moving => /\ tpc \in {"reset", "mask", "extract", "image", "rows"}
               /\ changed /\ ~isGround /\ plane = 1 /\ points # -1 /\ scan = FixingScan
  /\ tpc = "reset" => moving
  /\ tpc = "mask" => scan > 1
  /\ Waiting /\ changed => plane = 1 /\ scan = FixingScan

\* A scan was added as often as it should.
AddedOnce(s) == sums[s] = 1 \/ (sums[s] = 2 /\ plane = 1 /\ s = FixingScan)

\* What was added, at each step of an update.
SumsWhole ==
  /\ 1 \notin outside /\ outside \subseteq 1 .. scan
  /\ sumsPlane = IF tpc = "reset" THEN 0 ELSE plane
  /\ tpc = "mask" /\ moving => \A s \in Scans : sums[s] = 0
  /\ tpc \in {"extract", "image", "rows"} /\ moving =>
       \A s \in Scans : sums[s] = IF s > scan \/ s \in outside THEN 0 ELSE 1
  /\ Waiting =>
       \A s \in Scans : IF s > scan \/ s \in outside THEN sums[s] = 0
                        ELSE IF s = scan THEN sums[s] = (IF changed THEN 1 ELSE 0)
                        ELSE AddedOnce(s)
  /\ tpc # "mask" /\ ~moving =>
       \A s \in Scans : IF s > scan \/ s \in outside THEN sums[s] = 0 ELSE AddedOnce(s)

\* The counter of the initialization counts a scan once, and a change of plane.
TimesCounted ==
  times <= IF moving /\ tpc \in {"reset", "mask"} THEN scan - 2
           ELSE IF moving \/ Waiting THEN scan - 2 + plane
           ELSE scan - 1 + plane

\* Scans that the coefficients do not know of as they were added.
Behind == {s \in Scans : coefficients.count[s] # sums[s]}

\* Coefficients that are not adjusted follow the sums; an adjusted copy is marked.
Follows ==
  /\ wpc \in {"refresh", "recompute", "wait"} => adjusted.adjusted
  /\ Steady /\ ~coefficients.adjusted =>
       /\ coefficients.plane = plane /\ coefficients.count[1] > 0
       /\ initializing => Cardinality(Behind) <= steps
  /\ tpc \in {"image", "rows"} => coefficients = Extracted /\ ~lowRAM

\* The image and the rows follow the coefficients and the mask.
ViewsFollow ==
  /\ tpc = "mark" => wpc = "wait"
  /\ ~lowRAM /\ (Steady \/ tpc = "rows") =>
       /\ 1 \in image.cells /\ image.cells \subseteq Mask
       /\ ~image.coefficients.adjusted /\ image.coefficients.plane = plane
       /\ tpc \in {"rows", "publish"} \/ (Waiting /\ changed) => image.cells = Mask
  /\ Steady /\ tpc # "mark" /\ ~dirty =>
       IF lowRAM THEN /\ rows.coefficients = coefficients /\ rows.cells \subseteq Mask
                      /\ tpc = "publish" \/ (Waiting /\ changed) => rows.cells = Mask
       ELSE rows = image

\* All of it.
Invariant ==
  TypeOK /\ PlaneFixed /\ SumsWhole /\ TimesCounted /\ Follows /\ ViewsFollow

-----------------------------------------------------------------------------
(* Operators                                                               *)

\* The next scan is entered at the end of those kept, each of which is there once.
LEMMA KeptOnce ==
  ASSUME NEW n \in Nat
  PROVE  /\ UpTo(n) \in Seq(Nat) /\ Len(UpTo(n)) = n
         /\ Append(UpTo(n), n + 1) = UpTo(n + 1)
         /\ \A s \in Nat \ {0} : Occurrences(UpTo(n), s) = IF s <= n THEN 1 ELSE 0
<1>1. UpTo(n) \in Seq(Nat) /\ UpTo(n + 1) \in Seq(Nat)
  BY SeqDef DEF UpTo
<1>2. Len(UpTo(n)) = n /\ Len(UpTo(n + 1)) = n + 1
  BY <1>1, LenProperties DEF UpTo
<1>3. Append(UpTo(n), n + 1) = UpTo(n + 1)
  <2>1. Append(UpTo(n), n + 1) \in Seq(Nat) /\ Len(Append(UpTo(n), n + 1)) = n + 1
    BY <1>1, <1>2, AppendProperties
  <2>2. ASSUME NEW i \in 1 .. n + 1
        PROVE  Append(UpTo(n), n + 1)[i] = UpTo(n + 1)[i]
    <3>1. UpTo(n + 1)[i] = i
      BY DEF UpTo
    <3>2. CASE i = n + 1
      <4>1. i = Len(UpTo(n)) + 1
        BY <1>2, <3>2
      <4>2. Append(UpTo(n), n + 1)[i] = n + 1
        BY <1>1, <4>1, AppendProperties
      <4> QED
        BY <3>1, <3>2, <4>2
    <3>3. CASE i \in 1 .. n
      <4>1. Append(UpTo(n), n + 1)[i] = UpTo(n)[i]
        BY <1>1, <1>2, <3>3, AppendProperties
      <4> QED
        BY <3>1, <3>3, <4>1 DEF UpTo
    <3>4. i = n + 1 \/ i \in 1 .. n
      OBVIOUS
    <3> QED
      BY <3>2, <3>3, <3>4, Zenon
  <2> QED
    BY <1>1, <1>2, <2>1, <2>2, SeqEqual
<1>4. ASSUME NEW s \in Nat \ {0}
      PROVE  Occurrences(UpTo(n), s) = IF s <= n THEN 1 ELSE 0
  <2>1. Occurrences(UpTo(n), s) = Cardinality({i \in 1 .. n : i = s})
    <3>1. {i \in 1 .. Len(UpTo(n)) : UpTo(n)[i] = s} = {i \in 1 .. n : i = s}
      BY <1>2 DEF UpTo
    <3> QED
      BY <3>1 DEF Occurrences
  <2>2. CASE s <= n
    <3>1. {i \in 1 .. n : i = s} = {s}
      BY <2>2
    <3> QED
      BY <2>1, <2>2, <3>1, FS_Singleton
  <2>3. CASE ~(s <= n)
    <3>1. {i \in 1 .. n : i = s} = {}
      BY <2>3
    <3> QED
      BY <2>1, <2>3, <3>1, FS_EmptySet
  <2> QED
    BY <2>2, <2>3
<1> QED
  BY <1>1, <1>2, <1>3, <1>4

\* The scans kept are scans.
LEMMA KeptTyped ==
  ASSUME NEW n \in 1 .. MaxScans
  PROVE  UpTo(n) \in Seq(Scans) /\ Len(UpTo(n)) <= MaxScans
<1>1. UpTo(n) \in [1 .. n -> Scans] /\ n \in Nat /\ n <= MaxScans
  BY SurfaceAssumption DEF UpTo, Scans
<1> QED
  BY <1>1, SeqDef, KeptOnce

\* There are finitely many scans, so the coefficients are some number behind.
LEMMA BehindFinite ==
  ASSUME NEW S \in SUBSET Scans
  PROVE  IsFiniteSet(S) /\ Cardinality(S) \in Nat
<1>1. IsFiniteSet(Scans)
  BY SurfaceAssumption, FS_Interval DEF Scans
<1>2. IsFiniteSet(S)
  BY <1>1, FS_Subset
<1> QED
  BY <1>2, FS_CardinalityType

\* The first scan is in the mask whenever the surface is steady or extracted.
LEMMA FirstInMask ==
  ASSUME TypeOK, SumsWhole, PlaneFixed, tpc # "reset", ~(tpc = "mask" /\ moving)
  PROVE  1 \in Mask /\ sums[1] > 0
<1>1. 1 \in Scans /\ scan \in Nat /\ scan >= 1
  BY SurfaceAssumption DEF TypeOK, Scans
<1>2. sums[1] > 0
  BY <1>1 DEF SumsWhole, PlaneFixed, AddedOnce, Waiting, TypeOK
<1> QED
  BY <1>1, <1>2 DEF Mask

-----------------------------------------------------------------------------
(* Tracking thread                                                         *)

\* What the types and the place of the plane say of numbers and flags.
LEMMA Plain ==
  ASSUME TypeOK, PlaneFixed
  PROVE  /\ scan \in Nat \ {0} /\ scan \in 1 .. MaxScans /\ MaxScans \in Nat \ {0}
         /\ MinimumScans \in Nat /\ FixingScan \in Nat \ {0, 1}
         /\ UpdateSteps \in Nat /\ steps \in 0 .. UpdateSteps /\ UpdateTimes \in Int
         /\ times \in Nat /\ plane \in {0, 1} /\ points \in Int
         /\ lowRAM \in BOOLEAN /\ isGround \in BOOLEAN /\ publishing \in BOOLEAN
         /\ initializing \in BOOLEAN /\ dirty \in BOOLEAN /\ changed \in BOOLEAN
         /\ moving \in BOOLEAN /\ stopped \in BOOLEAN
BY SurfaceAssumption DEF TypeOK, Scans, Planes, FixingScan

\* A scan that is associated has not been added, and is kept while the plane may
\* change.
LEMMA AssociateKeeps ==
  ASSUME Invariant, AssociateScan
  PROVE  Invariant'
<1> USE DEF Invariant
<1>1. /\ tpc = "idle" /\ scan < MaxScans /\ scan' = scan + 1 /\ ~moving
      /\ outside' \in {outside, outside \cup {scan'}}
      /\ UNCHANGED <<lowRAM, isGround, publishing, sums, sumsPlane, steps, times,
                     initializing, coefficients, image, rows, dirty, adjusted, wpc,
                     adjustments, stopped>>
  BY DEF AssociateScan, PlaneFixed, modeVars, sumVars, stepVars, viewVars, workerVars
<1>2. scan' \in 2 .. MaxScans /\ scan' \in Nat \ {0} /\ scan' \in Scans /\ FixingScan' = FixingScan
  BY <1>1, Plain, SurfaceAssumption DEF Scans, FixingScan
<1>3. initial = UpTo(scan) => Kept(scan') = UpTo(scan')
  BY <1>1, Plain, KeptOnce DEF Kept
<1>4. \/ /\ tpc' = "mask" /\ changed' = FALSE /\ moving' = FALSE /\ plane' = plane
         /\ \/ points' = points /\ (isGround \/ points = -1) /\ initial' = <<>>
            \/ ~isGround /\ points = scan /\ points' = scan' /\ initial' = UpTo(scan')
               /\ scan' < MinimumScans /\ plane = 0
            \/ ~isGround /\ points = scan /\ points' = -1 /\ initial' = <<>> /\ plane = 0
      \/ /\ tpc' = "reset" /\ changed' = TRUE /\ moving' = TRUE /\ plane = 0 /\ plane' = 1
         /\ points = scan /\ points' = scan' /\ initial' = UpTo(scan') /\ ~isGround
         /\ scan' = FixingScan
  <2>1. ~isGround /\ points # -1 => /\ points = scan /\ initial = UpTo(scan) /\ plane = 0
                                    /\ scan < MinimumScans \/ scan = 1
    BY <1>1 DEF PlaneFixed
  <2>2. CASE isGround \/ points = -1
    BY <1>1, <2>2, Plain DEF AssociateScan
  <2>3. CASE ~isGround /\ points # -1 /\ points + 1 < MinimumScans
    BY <1>1, <1>3, <2>1, <2>3, Plain DEF AssociateScan
  <2>4. CASE ~isGround /\ points # -1 /\ points + 1 >= MinimumScans
    <3>1. scan' = FixingScan
      BY <1>1, <2>1, <2>4, Plain DEF FixingScan
    <3> QED
      BY <1>1, <1>3, <2>1, <2>4, <3>1, Plain DEF AssociateScan
  <2>5. \/ isGround \/ points = -1
        \/ ~isGround /\ points # -1 /\ points + 1 < MinimumScans
        \/ ~isGround /\ points # -1 /\ points + 1 >= MinimumScans
    BY Plain
  <2> QED
    BY <2>2, <2>3, <2>4, <2>5, Zenon
<1>5. PlaneFixed'
  BY <1>1, <1>2, <1>4, Plain DEF PlaneFixed, Waiting
<1>6. initial' \in Seq(Scans) /\ Len(initial') <= MaxScans
  <2>1. UpTo(scan') \in Seq(Scans) /\ Len(UpTo(scan')) <= MaxScans
    BY <1>2, KeptTyped
  <2>2. <<>> \in Seq(Scans) /\ Len(<<>>) <= MaxScans
    BY Plain
  <2>3. initial' = <<>> \/ initial' = UpTo(scan')
    BY <1>4
  <2> QED
    BY <2>1, <2>2, <2>3, Zenon
<1>7. TypeOK'
  <2>1. points' \in -1 .. MaxScans
    <3>1. points \in -1 .. MaxScans
      BY DEF TypeOK
    <3>2. points' = points \/ points' = scan' \/ points' = -1
      BY <1>4
    <3> QED
      BY <1>2, <3>1, <3>2, Plain
  <2>2. plane' \in Planes /\ outside' \subseteq Scans
    BY <1>1, <1>2, <1>4 DEF TypeOK, Planes
  <2> QED
    BY <1>1, <1>2, <1>4, <1>6, <2>1, <2>2 DEF TypeOK, Shown
<1>8. SumsWhole'
  <2>1. 1 \notin outside' /\ outside' \subseteq 1 .. scan'
    BY <1>1, <1>2, Plain DEF SumsWhole
  <2>2. sumsPlane = plane /\ \A s \in Scans : IF s > scan \/ s \in outside THEN sums[s] = 0
                                             ELSE AddedOnce(s)
    BY <1>1 DEF SumsWhole
  <2>3. CASE tpc' = "reset"
    BY <1>1, <1>4, <2>1, <2>2, <2>3 DEF SumsWhole, Waiting
  <2>4. CASE tpc' = "mask"
    <3>1. \A s \in Scans : s \in Nat
      BY DEF Scans
    <3>2. ASSUME NEW s \in Scans
          PROVE  IF s > scan' \/ s \in outside' THEN sums[s] = 0
                 ELSE IF s = scan' THEN sums[s] = 0
                 ELSE AddedOnce(s)
      BY <1>1, <1>2, <2>2, <3>1, Plain
    <3> QED
      BY <1>1, <1>4, <2>1, <2>2, <2>4, <3>2 DEF SumsWhole, Waiting, AddedOnce
  <2> QED
    BY <1>4, <2>3, <2>4
<1>9. TimesCounted'
  BY <1>1, <1>2, <1>4, Plain DEF TimesCounted, Waiting
<1>10. Follows'
  BY <1>1, <1>4 DEF Follows, Steady, Behind
<1>11. ViewsFollow'
  BY <1>1, <1>4 DEF ViewsFollow, Steady, Waiting, Mask
<1> QED
  BY <1>5, <1>7, <1>8, <1>9, <1>10, <1>11

\* Nothing is added yet in the new plane.
LEMMA ResetKeeps ==
  ASSUME Invariant, Reset
  PROVE  Invariant'
<1> USE DEF Invariant
<1>1. /\ tpc = "reset" /\ tpc' = "mask" /\ sums' = [s \in Scans |-> 0] /\ sumsPlane' = plane
      /\ coefficients' = NoCoefficients /\ dirty' = TRUE
      /\ (lowRAM /\ image' = image /\ rows' = rows) \/ (~lowRAM /\ image' = Nothing /\ rows' = Nothing)
      /\ UNCHANGED <<lowRAM, isGround, publishing, plane, points, initial, outside, scan, steps,
                     times, initializing, changed, moving, adjusted, wpc, adjustments, stopped>>
  BY DEF Reset, modeVars, planeVars, stepVars, workerVars
<1>2. moving /\ scan = FixingScan /\ FixingScan' = FixingScan
  BY <1>1 DEF PlaneFixed, FixingScan
<1>3. NoCoefficients \in Coefficients /\ Nothing \in Shown /\ sums' \in Counts
  BY <1>1 DEF NoCoefficients, Coefficients, Counts, Planes, Nothing, Shown
<1>4. TypeOK'
  BY <1>1, <1>3 DEF TypeOK
<1>5. PlaneFixed'
  BY <1>1, <1>2, Plain DEF PlaneFixed, Waiting
<1>6. SumsWhole'
  BY <1>1, <1>2 DEF SumsWhole, Waiting
<1>7. TimesCounted'
  BY <1>1, <1>2 DEF TimesCounted, Waiting
<1>8. Follows' /\ ViewsFollow'
  BY <1>1, <1>2 DEF Follows, ViewsFollow, Steady
<1> QED
  BY <1>4, <1>5, <1>6, <1>7, <1>8

\* The kept scans are added once each in the new plane.
LEMMA RefillKeeps ==
  ASSUME Invariant, RefillMask
  PROVE  Invariant'
<1> USE DEF Invariant
<1>1. /\ tpc = "mask" /\ moving /\ tpc' = "extract" /\ steps' = 0 /\ times' = times + 1
      /\ sums' = [s \in Scans |-> sums[s] + Added(s) * Occurrences(initial, s)]
      /\ UNCHANGED <<lowRAM, isGround, publishing, plane, points, initial, outside, scan, sumsPlane,
                     initializing, coefficients, image, rows, dirty, changed, moving,
                     adjusted, wpc, adjustments, stopped>>
  BY DEF RefillMask, modeVars, planeVars, viewVars, workerVars
<1>2. initial = UpTo(scan) /\ plane = 1 /\ FixingScan' = FixingScan
  BY <1>1 DEF PlaneFixed, FixingScan
<1>3. ASSUME NEW s \in Scans
      PROVE  sums'[s] = IF s > scan \/ s \in outside THEN 0 ELSE 1
  <2>1. s \in Nat \ {0}
    BY SurfaceAssumption DEF Scans
  <2>2. Occurrences(initial, s) = IF s <= scan THEN 1 ELSE 0
    BY <1>2, <2>1, KeptOnce, Plain
  <2>3. sums[s] = 0
    BY <1>1 DEF SumsWhole
  <2>4. sums'[s] = Added(s) * Occurrences(initial, s)
    BY <1>1, <2>2, <2>3 DEF Added
  <2> QED
    BY <2>1, <2>2, <2>4, Plain DEF Added
<1>4. sums' \in Counts
  <2>1. \A s \in Scans : sums'[s] \in 0 .. 2
    BY <1>3
  <2>2. sums' = [s \in Scans |-> sums'[s]]
    BY <1>1
  <2> QED
    BY <2>1, <2>2 DEF Counts
<1>5. times <= scan - 2
  BY <1>1 DEF TimesCounted
<1>6. TypeOK'
  BY <1>1, <1>4, <1>5, Plain, SMTT(30) DEF TypeOK
<1>7. PlaneFixed'
  BY <1>1, <1>2, Plain DEF PlaneFixed, Waiting
<1>8. SumsWhole'
  BY <1>1, <1>2, <1>3 DEF SumsWhole, Waiting
<1>9. TimesCounted'
  BY <1>1, <1>2, <1>5, Plain DEF TimesCounted, Waiting
<1>10. Follows' /\ ViewsFollow'
  BY <1>1 DEF Follows, ViewsFollow, Steady, Behind
<1> QED
  BY <1>6, <1>7, <1>8, <1>9, <1>10

\* A scan is added to the mask once more, and no other one.
LEMMA UpdateKeeps ==
  ASSUME Invariant, UpdateMask
  PROVE  Invariant'
<1> USE DEF Invariant
<1>1. /\ tpc = "mask" /\ ~moving /\ tpc' \in {"extract", "publish", "idle"}
      /\ tpc' = "publish" => changed
      /\ tpc' = "idle" => ~changed
      /\ sums' = [sums EXCEPT ![scan] = @ + Added(scan)]
      /\ UNCHANGED <<lowRAM, isGround, publishing, plane, points, initial, outside, scan, sumsPlane,
                     coefficients, image, rows, dirty, changed, moving,
                     adjusted, wpc, adjustments, stopped>>
  BY DEF UpdateMask, EndUpdate, modeVars, planeVars, viewVars, workerVars
<1>2. FixingScan' = FixingScan /\ scan \in Scans /\ Waiting /\ scan > 1 /\ 1 \in Scans
  BY <1>1, Plain DEF FixingScan, TypeOK, Waiting, PlaneFixed, Scans
<1>3. sums \in [Scans -> 0 .. 2]
  BY DEF TypeOK, Counts
<1>4. /\ \A s \in Scans : s # scan => sums'[s] = sums[s]
      /\ sums'[scan] = sums[scan] + Added(scan)
      /\ scan \in outside => sums' = sums
  BY <1>1, <1>2, <1>3 DEF Added
<1>5. /\ sums[scan] = IF scan \in outside THEN 0 ELSE IF changed THEN 1 ELSE 0
      /\ sums'[scan] = IF scan \in outside THEN 0 ELSE IF changed THEN 2 ELSE 1
  <2>1. ~(scan > scan)
    BY Plain
  <2>2. sums[scan] = IF scan \in outside THEN 0 ELSE IF changed THEN 1 ELSE 0
    BY <1>2, <2>1 DEF SumsWhole
  <2> QED
    BY <1>4, <2>2 DEF Added
<1>6. ASSUME NEW s \in Scans
      PROVE  IF s > scan \/ s \in outside THEN sums'[s] = 0
             ELSE sums'[s] = 1 \/ (sums'[s] = 2 /\ plane = 1 /\ s = FixingScan)
  <2>1. CASE s = scan
    <3>1. changed => plane = 1 /\ scan = FixingScan
      BY <1>2 DEF PlaneFixed
    <3> QED
      BY <1>5, <2>1, <3>1, Plain
  <2>2. CASE s # scan
    BY <1>2, <1>4, <2>2 DEF SumsWhole, AddedOnce
  <2> QED
    BY <2>1, <2>2
<1>7. sums' \in Counts
  <2>1. \A s \in Scans : sums'[s] \in 0 .. 2
    BY <1>6
  <2> QED
    BY <1>1, <1>3, <2>1 DEF Counts
<1>8. /\ steps' \in 0 .. UpdateSteps /\ times' \in {times, times + 1} /\ initializing' \in BOOLEAN
      /\ initializing' => initializing
      /\ initializing' /\ tpc' # "extract" => (sums' = sums /\ steps' = steps) \/ steps' = steps + 1
  <2>1. CASE lowRAM /\ scan \in outside /\ UNCHANGED stepVars
    BY <1>4, <2>1, Plain DEF stepVars
  <2>2. CASE initializing /\ StepsDone /\ steps' = 0 /\ tpc' = "extract" /\ UNCHANGED <<times, initializing>>
    BY <2>2, Plain
  <2>3. CASE /\ initializing /\ ~StepsDone /\ steps' = steps + 1 /\ times' = times + 1
             /\ initializing' = (UpdateTimes = -1 \/ times <= UpdateTimes)
    BY <2>3, Plain DEF StepsDone
  <2>4. CASE ~initializing /\ UNCHANGED stepVars
    BY <2>4, Plain DEF stepVars
  <2> QED
    BY <2>1, <2>2, <2>3, <2>4 DEF UpdateMask
<1>9. times <= scan - 2 + plane
  BY <1>1, <1>2 DEF TimesCounted
<1>10. TypeOK'
  <2>1. times' \in 0 .. MaxScans + 1
    BY <1>8, <1>9, Plain
  <2> QED
    BY <1>1, <1>7, <1>8, <2>1 DEF TypeOK
<1>11. PlaneFixed'
  BY <1>1, <1>2, Plain DEF PlaneFixed, Waiting
<1>12. SumsWhole'
  BY <1>1, <1>2, <1>6 DEF SumsWhole, Waiting, AddedOnce
<1>13. TimesCounted'
  BY <1>1, <1>8, <1>9, Plain DEF TimesCounted, Waiting
<1>14. Follows'
  <2>1. ASSUME tpc' # "extract", ~coefficients.adjusted, initializing'
        PROVE  Cardinality(Behind') <= steps'
    <3>1. Cardinality(Behind) <= steps
      BY <1>2, <1>8, <2>1 DEF Follows, Steady, Waiting
    <3>2. CASE sums' = sums /\ steps' = steps
      BY <1>1, <3>1, <3>2 DEF Behind
    <3>3. CASE steps' = steps + 1
      <4>1. Behind' \subseteq Behind \cup {scan}
        BY <1>1, <1>4 DEF Behind
      <4>2. IsFiniteSet(Behind) /\ Cardinality(Behind) \in Nat
        BY BehindFinite DEF Behind
      <4>3. /\ IsFiniteSet(Behind \cup {scan})
            /\ Cardinality(Behind \cup {scan}) <= Cardinality(Behind) + 1
            /\ Cardinality(Behind \cup {scan}) \in Nat
        <5>1. /\ IsFiniteSet(Behind \cup {scan})
              /\ Cardinality(Behind \cup {scan}) = IF scan \in Behind THEN Cardinality(Behind)
                                                   ELSE Cardinality(Behind) + 1
          BY <4>2, FS_AddElement
        <5> QED
          BY <4>2, <5>1
      <4>4. Cardinality(Behind') <= Cardinality(Behind \cup {scan}) /\ Cardinality(Behind') \in Nat
        BY <4>1, <4>3, FS_Subset, FS_CardinalityType
      <4> QED
        BY <3>1, <3>3, <4>2, <4>3, <4>4, Plain
    <3> QED
      BY <1>8, <2>1, <3>2, <3>3
  <2>2. Steady' => tpc' # "extract"
    BY <1>1 DEF Steady
  <2>3. tpc' \notin {"image", "rows"}
    BY <1>1
  <2>4. ~coefficients.adjusted => coefficients.plane = plane /\ coefficients.count[1] > 0
    BY <1>2 DEF Follows, Steady, Waiting
  <2> QED
    BY <1>1, <2>1, <2>2, <2>3, <2>4 DEF Follows
<1>15. ViewsFollow'
  <2>1. Mask \subseteq Mask' /\ (changed => Mask' = Mask)
    <3>1. \A s \in Scans : sums[s] > 0 => sums'[s] > 0
      BY <1>3, <1>4, <1>5
    <3>2. changed => \A s \in Scans : sums'[s] > 0 => sums[s] > 0
      BY <1>3, <1>4, <1>5
    <3> QED
      BY <3>1, <3>2 DEF Mask
  <2>2. ~lowRAM => /\ 1 \in image.cells /\ image.cells \subseteq Mask
                   /\ ~image.coefficients.adjusted /\ image.coefficients.plane = plane
                   /\ changed => image.cells = Mask
    BY <1>2 DEF ViewsFollow, Steady, Waiting
  <2>3. ~dirty => IF lowRAM THEN /\ rows.coefficients = coefficients /\ rows.cells \subseteq Mask
                                 /\ changed => rows.cells = Mask
                  ELSE rows = image
    BY <1>1, <1>2 DEF ViewsFollow, Steady, Waiting
  <2> QED
    BY <1>1, <2>1, <2>2, <2>3 DEF ViewsFollow, Steady, Waiting
<1> QED
  BY <1>10, <1>11, <1>12, <1>13, <1>14, <1>15

\* What was extracted, a scan that fixed a new plane waits for its turn, or the
\* update is over.
LEMMA AfterKeeps ==
  ASSUME TypeOK, PlaneFixed, SumsWhole, TimesCounted, tpc \in {"extract", "rows"}, AfterExtraction,
         UNCHANGED <<isGround, plane, outside, scan, sums, sumsPlane, times>>
  PROVE  /\ PlaneFixed' /\ SumsWhole' /\ TimesCounted'
         /\ points' \in -1 .. MaxScans /\ initial' \in Seq(Scans) /\ Len(initial') <= MaxScans
         /\ moving' = FALSE /\ changed' = TRUE
         /\ tpc' = "publish" \/ (tpc' = "mask" /\ Waiting')
<1>1. \/ /\ moving /\ tpc' = "mask" /\ moving' = FALSE /\ points' = -1 /\ initial' = <<>>
         /\ changed /\ changed' = changed /\ plane = 1 /\ scan = FixingScan /\ ~isGround
      \/ /\ ~moving /\ tpc' = "publish" /\ changed' = TRUE /\ UNCHANGED <<moving, points, initial>>
  BY DEF AfterExtraction, PlaneFixed
<1>2. changed' = TRUE /\ moving' = FALSE
  BY <1>1, Plain
<1>3. FixingScan' = FixingScan /\ FixingScan > 1
  BY Plain DEF FixingScan
<1>4. PlaneFixed'
  BY <1>1, <1>2, <1>3, Plain DEF PlaneFixed, Waiting
<1>5. SumsWhole'
  BY <1>1, <1>2, <1>3, Plain DEF SumsWhole, Waiting, AddedOnce
<1>6. TimesCounted'
  BY <1>1, <1>2, Plain DEF TimesCounted, Waiting
<1>7. points' \in -1 .. MaxScans /\ initial' \in Seq(Scans) /\ Len(initial') <= MaxScans
  <2>1. <<>> \in Seq(Scans) /\ Len(<<>>) <= MaxScans /\ -1 \in -1 .. MaxScans
    BY Plain
  <2>2. \/ points' = -1 /\ initial' = <<>>
        \/ points' = points /\ initial' = initial
    BY <1>1
  <2> QED
    BY <2>1, <2>2 DEF TypeOK
<1> QED
  BY <1>1, <1>2, <1>4, <1>5, <1>6, <1>7 DEF Waiting

\* The coefficients that were extracted are those of the sums.
LEMMA ExtractedFollows ==
  ASSUME TypeOK, PlaneFixed, SumsWhole, tpc \in {"extract", "image", "rows"}
  PROVE  /\ Extracted \in Coefficients /\ ~Extracted.adjusted
         /\ Extracted.plane = plane /\ Extracted.count = sums /\ Extracted.count[1] > 0
         /\ {s \in Scans : Extracted.count[s] # sums[s]} = {}
<1>1. sums[1] > 0 /\ sumsPlane = plane
  BY FirstInMask DEF SumsWhole
<1> QED
  BY <1>1 DEF Extracted, Coefficients, TypeOK

\* The coefficients follow the sums again.
LEMMA ExtractKeeps ==
  ASSUME Invariant, Extract
  PROVE  Invariant'
<1> USE DEF Invariant
<1>1. /\ tpc = "extract" /\ coefficients' = Extracted /\ dirty' = TRUE
      /\ UNCHANGED <<lowRAM, isGround, publishing, plane, outside, scan, sums, sumsPlane, steps,
                     times, initializing, image, rows, adjusted, wpc, adjustments, stopped>>
      /\ \/ lowRAM /\ AfterExtraction
         \/ ~lowRAM /\ tpc' = "image" /\ UNCHANGED <<changed, moving, points, initial>>
  BY DEF Extract, modeVars, sumVars, stepVars, workerVars
<1>2. FixingScan' = FixingScan /\ Extracted' = Extracted
  BY <1>1 DEF FixingScan, Extracted
<1>3. /\ PlaneFixed' /\ SumsWhole' /\ TimesCounted'
      /\ points' \in -1 .. MaxScans /\ initial' \in Seq(Scans) /\ Len(initial') <= MaxScans
      /\ moving' \in BOOLEAN /\ changed' \in BOOLEAN
      /\ tpc' \in {"publish", "mask", "image"} /\ (tpc' # "image" <=> lowRAM)
  <2>1. CASE lowRAM /\ AfterExtraction
    BY <1>1, <2>1, AfterKeeps
  <2>2. CASE ~lowRAM /\ tpc' = "image" /\ UNCHANGED <<changed, moving, points, initial>>
    <3>1. PlaneFixed'
      BY <1>1, <1>2, <2>2 DEF PlaneFixed, Waiting
    <3>2. SumsWhole' /\ TimesCounted'
      BY <1>1, <1>2, <2>2 DEF SumsWhole, TimesCounted, Waiting, AddedOnce
    <3> QED
      BY <2>2, <3>1, <3>2 DEF TypeOK
  <2> QED
    BY <1>1, <2>1, <2>2
<1>4. TypeOK'
  BY <1>1, <1>3, ExtractedFollows DEF TypeOK
<1>5. Follows'
  <2>1. Behind' = {}
    BY <1>1, ExtractedFollows DEF Behind
  <2>2. Cardinality(Behind') <= steps'
    BY <1>1, <2>1, FS_EmptySet, Plain
  <2> QED
    BY <1>1, <1>2, <1>3, <2>2, ExtractedFollows DEF Follows
<1>6. ViewsFollow'
  BY <1>1, <1>3 DEF ViewsFollow, Steady
<1> QED
  BY <1>3, <1>4, <1>5, <1>6

\* The image shows the extracted coefficients in the cells of the mask.
LEMMA ImageKeeps ==
  ASSUME Invariant, CalculateImage
  PROVE  Invariant'
<1> USE DEF Invariant
<1>1. /\ tpc = "image" /\ tpc' = "rows" /\ image' = [coefficients |-> coefficients, cells |-> Mask]
      /\ UNCHANGED <<lowRAM, isGround, publishing, plane, points, initial, outside, scan, sums,
                     sumsPlane, steps, times, initializing, coefficients, rows, dirty,
                     changed, moving, adjusted, wpc, adjustments, stopped>>
  BY DEF CalculateImage, modeVars, planeVars, sumVars, stepVars, workerVars
<1>2. /\ FixingScan' = FixingScan /\ Extracted' = Extracted /\ coefficients = Extracted /\ Mask' = Mask
      /\ Mask \in SUBSET Scans
  BY <1>1 DEF FixingScan, Extracted, Follows, Mask
<1>3. TypeOK'
  BY <1>1, <1>2 DEF TypeOK, Shown
<1>4. PlaneFixed'
  BY <1>1, <1>2 DEF PlaneFixed, Waiting
<1>5. SumsWhole' /\ TimesCounted'
  BY <1>1, <1>2 DEF SumsWhole, TimesCounted, Waiting, AddedOnce
<1>6. Follows'
  BY <1>1, <1>2 DEF Follows, Steady
<1>7. ViewsFollow'
  BY <1>1, <1>2, FirstInMask, ExtractedFollows DEF ViewsFollow, Steady, Waiting
<1> QED
  BY <1>3, <1>4, <1>5, <1>6, <1>7

\* So do the rows.
LEMMA RowsKeeps ==
  ASSUME Invariant, CalculateRows
  PROVE  Invariant'
<1> USE DEF Invariant
<1>1. /\ tpc = "rows" /\ rows' = image /\ dirty' = FALSE /\ AfterExtraction
      /\ UNCHANGED <<lowRAM, isGround, publishing, plane, outside, scan, sums, sumsPlane, steps,
                     times, initializing, coefficients, image, adjusted, wpc, adjustments, stopped>>
  BY DEF CalculateRows, modeVars, sumVars, stepVars, workerVars
<1>2. /\ PlaneFixed' /\ SumsWhole' /\ TimesCounted'
      /\ points' \in -1 .. MaxScans /\ initial' \in Seq(Scans) /\ Len(initial') <= MaxScans
      /\ moving' = FALSE /\ changed' = TRUE
      /\ tpc' = "publish" \/ (tpc' = "mask" /\ Waiting')
  BY <1>1, AfterKeeps
<1>3. coefficients = Extracted
  BY <1>1 DEF Follows
<1>4. TypeOK'
  BY <1>1, <1>2 DEF TypeOK
<1>5. Follows'
  <2>1. Behind' = {}
    BY <1>1, <1>3, ExtractedFollows DEF Behind
  <2>2. Cardinality(Behind') <= steps'
    BY <1>1, <2>1, FS_EmptySet, Plain
  <2> QED
    BY <1>1, <1>2, <1>3, <2>2, ExtractedFollows DEF Follows
<1>6. ViewsFollow'
  <2>1. ~lowRAM
    BY <1>1 DEF Follows
  <2> QED
    BY <1>1, <1>2, <2>1 DEF ViewsFollow, Steady, Waiting, Mask
<1> QED
  BY <1>2, <1>4, <1>5, <1>6

\* What is published is computed anew if it is marked.
LEMMA PublishKeeps ==
  ASSUME Invariant, Publish
  PROVE  Invariant'
<1> USE DEF Invariant
<1>1. /\ tpc = "publish" /\ tpc' = "idle" /\ changed' = FALSE
      /\ \/ dirty /\ rows' = Recomputed /\ dirty' = FALSE
         \/ UNCHANGED <<rows, dirty>>
      /\ UNCHANGED <<lowRAM, isGround, publishing, plane, points, initial, outside, scan, sums,
                     sumsPlane, steps, times, initializing, coefficients, image, moving,
                     adjusted, wpc, adjustments, stopped>>
  BY DEF Publish, modeVars, planeVars, sumVars, stepVars, workerVars
<1>2. ~moving /\ FixingScan' = FixingScan /\ Mask' = Mask /\ Mask \in SUBSET Scans
  BY <1>1 DEF PlaneFixed, FixingScan, Mask
<1>3. Recomputed \in Shown
  BY <1>2 DEF Recomputed, Shown, TypeOK
<1>4. TypeOK'
  BY <1>1, <1>3 DEF TypeOK
<1>5. PlaneFixed'
  BY <1>1, <1>2, Plain DEF PlaneFixed, Waiting
<1>6. SumsWhole' /\ TimesCounted'
  BY <1>1, <1>2 DEF SumsWhole, TimesCounted, Waiting, AddedOnce
<1>7. Follows'
  BY <1>1 DEF Follows, Steady, Behind
<1>8. ViewsFollow'
  BY <1>1, <1>2 DEF ViewsFollow, Steady, Waiting, Recomputed
<1> QED
  BY <1>4, <1>5, <1>6, <1>7, <1>8

\* Stage 3: the adjusted coefficients, and the mark; the worker waits.
LEMMA StageThreeKeeps ==
  ASSUME Invariant, CommitAdjusted \/ MarkDirty
  PROVE  Invariant'
<1> USE DEF Invariant
<1>1. CASE CommitAdjusted
  <2>1. /\ tpc = "idle" /\ wpc = "wait" /\ tpc' = "mark" /\ coefficients' = adjusted
        /\ UNCHANGED <<lowRAM, isGround, publishing, plane, points, initial, outside, scan, sums,
                       sumsPlane, steps, times, initializing, image, rows, dirty, changed,
                       moving, adjusted, wpc, adjustments, stopped>>
    BY <1>1 DEF CommitAdjusted, modeVars, planeVars, sumVars, stepVars, viewVars, workerVars
  <2>2. ~moving /\ FixingScan' = FixingScan /\ Mask' = Mask /\ adjusted.adjusted
    BY <2>1 DEF PlaneFixed, FixingScan, Mask, Follows
  <2>3. TypeOK'
    BY <2>1 DEF TypeOK
  <2>4. PlaneFixed'
    BY <2>1, <2>2 DEF PlaneFixed, Waiting
  <2>5. SumsWhole' /\ TimesCounted'
    BY <2>1, <2>2 DEF SumsWhole, TimesCounted, Waiting, AddedOnce
  <2>6. Follows'
    BY <2>1, <2>2 DEF Follows, Steady
  <2>7. ViewsFollow'
    BY <2>1, <2>2 DEF ViewsFollow, Steady, Waiting
  <2> QED
    BY <2>3, <2>4, <2>5, <2>6, <2>7
<1>2. CASE MarkDirty
  <2>1. /\ tpc = "mark" /\ tpc' = "idle" /\ wpc' = "idle" /\ dirty' = TRUE
        /\ UNCHANGED <<lowRAM, isGround, publishing, plane, points, initial, outside, scan, sums,
                       sumsPlane, steps, times, initializing, coefficients, image, rows,
                       changed, moving, adjusted, adjustments, stopped>>
    BY <1>2 DEF MarkDirty, modeVars, planeVars, sumVars, stepVars
  <2>2. ~moving /\ FixingScan' = FixingScan /\ Mask' = Mask
    BY <2>1 DEF PlaneFixed, FixingScan, Mask
  <2>3. TypeOK'
    BY <2>1 DEF TypeOK
  <2>4. PlaneFixed'
    BY <2>1, <2>2 DEF PlaneFixed, Waiting
  <2>5. SumsWhole' /\ TimesCounted'
    BY <2>1, <2>2 DEF SumsWhole, TimesCounted, Waiting, AddedOnce
  <2>6. Follows'
    BY <2>1 DEF Follows, Steady, Behind
  <2>7. ViewsFollow'
    BY <2>1, <2>2 DEF ViewsFollow, Steady, Waiting
  <2> QED
    BY <2>3, <2>4, <2>5, <2>6, <2>7
<1> QED
  BY <1>1, <1>2

-----------------------------------------------------------------------------
(* Worker                                                                  *)

\* The worker copies coefficients and changes its copy, nothing else.
LEMMA CopyKeeps ==
  ASSUME Invariant,
         BeginAdjustment \/ ReadPatch \/ CopyCoefficients \/ Solve \/ RefreshTest
  PROVE  Invariant'
<1> USE DEF Invariant
<1>1. /\ UNCHANGED <<lowRAM, isGround, publishing, plane, points, initial, outside, scan, sums,
                     sumsPlane, steps, times, initializing, coefficients, image, rows, dirty,
                     tpc, changed, moving>>
      /\ wpc # "wait"
  BY DEF BeginAdjustment, ReadPatch, CopyCoefficients, Solve, RefreshTest, modeVars, planeVars,
     sumVars, stepVars, viewVars, trackingVars
<1>2. FixingScan' = FixingScan /\ Extracted' = Extracted /\ Mask' = Mask
  BY <1>1 DEF FixingScan, Extracted, Mask
<1>3. /\ wpc' \in {"idle", "read", "copy", "solve", "refresh", "recompute", "wait"}
      /\ adjustments' \in 0 .. MaxAdjustments
      /\ adjusted' \in Coefficients /\ stopped' \in BOOLEAN
      /\ wpc' \in {"refresh", "recompute", "wait"} => adjusted'.adjusted
  <2>1. CASE BeginAdjustment \/ ReadPatch \/ RefreshTest
    BY <2>1, SurfaceAssumption DEF BeginAdjustment, ReadPatch, RefreshTest, TypeOK, Follows
  <2>2. CASE CopyCoefficients
    BY <2>2 DEF CopyCoefficients, TypeOK
  <2>3. CASE Solve
    BY <2>3 DEF Solve, TypeOK, Coefficients
  <2> QED
    BY <2>1, <2>2, <2>3
<1>4. TypeOK'
  BY <1>1, <1>3 DEF TypeOK
<1>5. PlaneFixed'
  BY <1>1, <1>2 DEF PlaneFixed, Waiting
<1>6. SumsWhole' /\ TimesCounted'
  BY <1>1, <1>2 DEF SumsWhole, TimesCounted, Waiting, AddedOnce
<1>7. Follows'
  BY <1>1, <1>2, <1>3 DEF Follows, Steady, Behind
<1>8. ViewsFollow'
  BY <1>1, <1>2 DEF ViewsFollow, Steady, Waiting
<1> QED
  BY <1>4, <1>5, <1>6, <1>7, <1>8

\* Nothing is empty that rows are computed from while the surface is steady.
LEMMA SteadyNotEmpty ==
  ASSUME Invariant, Steady
  PROVE  ~ReadsEmpty
<1>1. coefficients # NoCoefficients
  <2>1. CASE coefficients.adjusted
    BY <2>1 DEF NoCoefficients
  <2>2. CASE ~coefficients.adjusted
    <3>1. coefficients.count[1] > 0
      BY <2>2 DEF Invariant, Follows
    <3>2. NoCoefficients.count[1] = 0
      BY SurfaceAssumption DEF NoCoefficients, Scans
    <3> QED
      BY <3>1, <3>2
  <2> QED
    BY <2>1, <2>2
<1>2. ~lowRAM => image # Nothing
  BY DEF Invariant, ViewsFollow, Nothing
<1> QED
  BY <1>1, <1>2 DEF ReadsEmpty

\* The worker's refresh agrees with a steady surface, and whatever it leaves in the
\* middle of an update is computed again.
LEMMA RefreshKeeps ==
  ASSUME Invariant, RefreshRows
  PROVE  Invariant'
<1> USE DEF Invariant
<1>1. /\ wpc = "recompute" /\ wpc' = "wait" /\ dirty' = FALSE
      /\ \/ rows' = Recomputed
         \/ rows' = Nothing /\ ReadsEmpty
      /\ stopped' \in BOOLEAN
      /\ UNCHANGED <<lowRAM, isGround, publishing, plane, points, initial, outside, scan, sums,
                     sumsPlane, steps, times, initializing, coefficients, image, tpc,
                     changed, moving, adjusted, adjustments>>
  BY DEF RefreshRows, TypeOK, modeVars, planeVars, sumVars, stepVars, trackingVars
<1>2. FixingScan' = FixingScan /\ Extracted' = Extracted /\ Mask' = Mask /\ Mask \in SUBSET Scans
  BY <1>1 DEF FixingScan, Extracted, Mask
<1>3. Recomputed \in Shown /\ Nothing \in Shown
  BY <1>2 DEF Recomputed, Shown, TypeOK, Nothing, NoCoefficients, Coefficients, Planes, Counts
<1>4. TypeOK'
  BY <1>1, <1>3 DEF TypeOK
<1>5. PlaneFixed'
  BY <1>1, <1>2 DEF PlaneFixed, Waiting
<1>6. SumsWhole' /\ TimesCounted'
  BY <1>1, <1>2 DEF SumsWhole, TimesCounted, Waiting, AddedOnce
<1>7. Follows'
  BY <1>1, <1>2 DEF Follows, Steady, Behind
<1>8. ViewsFollow'
  <2>1. tpc # "mark"
    BY <1>1 DEF ViewsFollow
  <2>2. Steady => rows' = Recomputed
    BY <1>1, SteadyNotEmpty
  <2> QED
    BY <1>1, <1>2, <2>1, <2>2 DEF ViewsFollow, Steady, Waiting, Recomputed
<1> QED
  BY <1>4, <1>5, <1>6, <1>7, <1>8

-----------------------------------------------------------------------------
(* The invariant and what follows from it                                  *)

\* The first scan created the patch.
LEMMA AtFirst == Init => Invariant
<1> SUFFICES ASSUME Init PROVE Invariant
  OBVIOUS
<1>1. /\ lowRAM \in BOOLEAN /\ isGround \in BOOLEAN /\ publishing \in BOOLEAN
      /\ plane = 0 /\ points = 1 /\ outside = {} /\ scan = 1
      /\ initial = IF isGround THEN <<>> ELSE <<1>>
      /\ sums = FirstCount /\ sumsPlane = 0
      /\ steps = 0 /\ times = 0 /\ initializing = TRUE
      /\ coefficients = FirstCoefficients /\ adjusted = NoCoefficients
      /\ \/ lowRAM /\ image = Nothing /\ rows = Nothing /\ dirty = TRUE
         \/ /\ ~lowRAM /\ image = [coefficients |-> FirstCoefficients, cells |-> {1}]
            /\ rows = image /\ dirty = FALSE
      /\ tpc = "publish" /\ changed = TRUE /\ moving = FALSE
      /\ wpc = "idle" /\ adjustments = 0 /\ stopped = FALSE
  BY DEF Init, FirstView
<1>2. 1 \in Scans /\ 1 \in 1 .. MaxScans /\ MaxScans \in Nat /\ Scans \subseteq Nat \ {0}
  BY SurfaceAssumption DEF Scans
<1>3. FirstCount \in Counts /\ FirstCount[1] = 1 /\ Mask = {1}
      /\ \A s \in Scans : FirstCount[s] = IF s > 1 THEN 0 ELSE 1
  BY <1>1, <1>2 DEF FirstCount, Counts, Mask
<1>4. FirstCoefficients \in Coefficients /\ NoCoefficients \in Coefficients
  BY <1>3 DEF FirstCoefficients, NoCoefficients, Coefficients, Planes, Counts
<1>5. <<1>> = UpTo(1)
  BY DEF UpTo
<1>6. image \in Shown /\ rows \in Shown
  BY <1>1, <1>2, <1>4 DEF Shown, Nothing
<1>7. TypeOK
  <2>1. initial \in Seq(Scans) /\ Len(initial) <= MaxScans
    <3>1. UpTo(1) \in Seq(Scans) /\ Len(UpTo(1)) <= MaxScans
      BY <1>2, KeptTyped
    <3>2. <<>> \in Seq(Scans) /\ Len(<<>>) <= MaxScans
      BY <1>2
    <3> QED
      BY <1>1, <1>5, <3>1, <3>2
  <2>2. /\ points \in -1 .. MaxScans /\ steps \in 0 .. UpdateSteps /\ times \in 0 .. MaxScans + 1
        /\ adjustments \in 0 .. MaxAdjustments /\ plane \in Planes /\ sumsPlane \in Planes
    BY <1>1, <1>2, SurfaceAssumption DEF Planes
  <2> QED
    BY <1>1, <1>2, <1>3, <1>4, <1>6, <2>1, <2>2 DEF TypeOK
<1>8. PlaneFixed
  BY <1>1, <1>5 DEF PlaneFixed, Waiting
<1>9. SumsWhole /\ TimesCounted
  BY <1>1, <1>3 DEF SumsWhole, TimesCounted, Waiting, AddedOnce
<1>10. Follows
  <2>1. Behind = {}
    BY <1>1 DEF Behind, FirstCoefficients
  <2>2. Cardinality(Behind) = 0
    BY <2>1, FS_EmptySet
  <2> QED
    BY <1>1, <1>3, <2>2 DEF Follows, FirstCoefficients
<1>11. ViewsFollow
  BY <1>1, <1>3 DEF ViewsFollow, Steady, Waiting, FirstCoefficients
<1> QED
  BY <1>7, <1>8, <1>9, <1>10, <1>11 DEF Invariant

\* Every step keeps the invariant.
LEMMA InvariantKept ==
    ASSUME Invariant, [Next]_vars
    PROVE  Invariant'
<1>1. CASE UNCHANGED vars
  <2>1. UNCHANGED <<lowRAM, isGround, publishing, plane, points, initial, outside, scan, sums,
                    sumsPlane, steps, times, initializing, coefficients, image, rows, dirty,
                    tpc, changed, moving, adjusted, wpc, adjustments, stopped>>
    BY <1>1 DEF vars, modeVars, planeVars, sumVars, stepVars, viewVars, trackingVars, workerVars
  <2>2. FixingScan' = FixingScan /\ Extracted' = Extracted /\ Mask' = Mask
    BY <2>1 DEF FixingScan, Extracted, Mask
  <2> QED
    BY <2>1, <2>2 DEF Invariant, TypeOK, PlaneFixed, SumsWhole, TimesCounted, Follows,
       ViewsFollow, Steady, Waiting, AddedOnce, Behind
<1> QED
  BY <1>1, AssociateKeeps, ResetKeeps, RefillKeeps, UpdateKeeps, ExtractKeeps, ImageKeeps,
     RowsKeeps, PublishKeeps, StageThreeKeeps, CopyKeeps, RefreshKeeps DEF Next

\* The invariant holds at all times.
LEMMA InvariantHolds == Spec => []Invariant
  BY AtFirst, InvariantKept, PTL DEF Spec

\* The variables always have their types: no scan is added more than twice, and the
\* counters stay within what the scans can make of them.
THEOREM TypeCorrect == Spec => []TypeOK
<1>1. Invariant => TypeOK
  BY DEF Invariant
<1> QED
  BY <1>1, InvariantHolds, PTL

LEMMA InvariantAccounts == Invariant => ScansAccounted
<1> SUFFICES ASSUME Invariant, tpc \in {"idle", "publish"}
             PROVE  ScansWhole /\ CoefficientsCurrent
  BY DEF ScansAccounted
<1> USE DEF Invariant
<1>1. ~moving /\ Steady
  BY DEF PlaneFixed, Steady
<1>2. ScansWhole
  BY <1>1 DEF SumsWhole, ScansWhole, AddedOnce
<1>3. Cardinality(Behind) \in Nat
  BY BehindFinite DEF Behind
<1>4. CoefficientsCurrent
  BY <1>1, <1>3, Plain DEF Follows, CoefficientsCurrent, Behind
<1> QED
  BY <1>2, <1>4

LEMMA InvariantCoheres == Invariant => CacheCoherent
<1> SUFFICES ASSUME Invariant, tpc \in {"idle", "publish"}
             PROVE  /\ ~dirty => /\ rows.coefficients = Recomputed.coefficients
                                 /\ rows.cells \subseteq Mask
                                 /\ tpc = "publish" => rows.cells = Mask
                    /\ ~lowRAM => ~image.coefficients.adjusted /\ image.coefficients.plane = plane
  BY DEF CacheCoherent
<1> QED
  BY DEF Invariant, ViewsFollow, Steady, Recomputed

\* No associated scan is lost or added twice, but the one that fixed a new plane,
\* and the coefficients of a new patch follow within update_steps scans.
THEOREM ScansStayAccounted == Spec => []ScansAccounted
  BY InvariantAccounts, InvariantHolds, PTL

\* Rows that are not marked are those of the present surface, although the worker
\* tests the mark and computes the rows in two steps, in between any others.
THEOREM CacheStaysCoherent == Spec => []CacheCoherent
  BY InvariantCoheres, InvariantHolds, PTL

-----------------------------------------------------------------------------
(***************************************************************************)
(* The file of the map.                                                    *)
(***************************************************************************)

Flags == {<<"is_ground", b>> : b \in BOOLEAN}
Poses == {<<"pose", k>> : k \in 0 .. 2}
Known == {Coefficient(c, i) : c \in Coefficients, i \in Nat}
MaskWords == {<<"mask", f>> : f \in [0 .. WordSize - 1 -> 0 .. 1]}
Beyond == {<<"beyond", i>> : i \in Nat}

\* What a file may hold.
Value == Flags \cup Poses \cup Known \cup Beyond \cup MaskWords

\* The patches that log() writes: all their coefficients are there.
Patches ==
  {p \in [is_ground : BOOLEAN, T_w_obj : Poses, sph_coeff : Seq(Known),
          mask : SUBSET (0 .. ImageSize - 1)] :
     Len(p.sph_coeff) = SizeOf(DegreeOf(p.is_ground, Configured))}

LEMMA DivMod ==
    ASSUME NEW a \in Nat, NEW b \in Nat \ {0}
    PROVE  /\ a \div b \in Nat /\ a % b \in 0 .. b - 1
           /\ a = (a \div b) * b + (a % b)
<1>1. b > 0 /\ b \in Int
  OBVIOUS
<1>2. a % b \in 0 .. b - 1
  BY <1>1
<1>3. a = b * (a \div b) + (a % b)
  BY <1>1
<1>4. a \div b \in Int
  BY <1>1
<1>5. a \div b >= 0
  BY <1>1, <1>2, <1>3, <1>4
<1> QED
  BY <1>2, <1>3, <1>4, <1>5

LEMMA Cancel ==
    ASSUME NEW a \in Int, NEW b \in Int, NEW c \in Nat \ {0}, a * c > b * c
    PROVE  a > b
<1>1. ASSUME a <= b PROVE a * c <= b * c
  BY <1>1
<1> QED
  BY <1>1

LEMMA Sizes ==
    /\ ImageSize \in Nat \ {0} /\ Words \in Nat \ {0} /\ WordSize \in Nat \ {0}
    /\ Words * WordSize >= ImageSize
<1>1. ImageSide \in Nat \ {0} /\ WordSize \in Nat \ {0}
  BY FileAssumption
<1>2. ImageSize \in Nat \ {0}
  BY <1>1 DEF ImageSize
<1>3. ImageSize + WordSize - 1 \in Nat
  BY <1>1, <1>2
<1>4. /\ Words \in Nat /\ (ImageSize + WordSize - 1) % WordSize \in 0 .. WordSize - 1
      /\ ImageSize + WordSize - 1 = Words * WordSize + ((ImageSize + WordSize - 1) % WordSize)
  BY <1>1, <1>3, DivMod DEF Words
<1>5. Words * WordSize >= ImageSize
  BY <1>1, <1>2, <1>4
<1>6. Words # 0
  BY <1>1, <1>2, <1>5
<1> QED
  BY <1>1, <1>2, <1>4, <1>5, <1>6

\* A cell of the image has a word and a bit in it.
LEMMA CellsCovered ==
    ASSUME NEW i \in 0 .. ImageSize - 1
    PROVE  /\ i \div WordSize \in 0 .. Words - 1
           /\ i % WordSize \in 0 .. WordSize - 1
           /\ (i \div WordSize) * WordSize + (i % WordSize) = i
<1>1. /\ ImageSize \in Nat /\ Words \in Nat /\ WordSize \in Nat \ {0}
      /\ Words * WordSize >= ImageSize /\ i \in Nat /\ i < ImageSize
  BY Sizes
<1>2. /\ i \div WordSize \in Nat /\ i % WordSize \in 0 .. WordSize - 1
      /\ i = (i \div WordSize) * WordSize + (i % WordSize)
  BY <1>1, DivMod
<1> DEFINE q == i \div WordSize
<1>3. q \in Nat /\ q * WordSize \in Nat
  BY <1>1, <1>2
<1>4. Words * WordSize \in Nat /\ q * WordSize <= i
  BY <1>1, <1>2, <1>3
<1>5. Words * WordSize > q * WordSize
  BY <1>1, <1>3, <1>4
<1> HIDE DEF q
<1>6. Words > q
  BY <1>1, <1>3, <1>5, Cancel
<1>7. q \in 0 .. Words - 1
  BY <1>1, <1>3, <1>6
<1> QED
  BY <1>2, <1>7 DEF q

\* The number of coefficients grows with the degree.
LEMMA SizeGrows ==
    ASSUME NEW a \in Nat, NEW b \in Nat
    PROVE  /\ SizeOf(a) \in Nat \ {0}
           /\ a <= b => SizeOf(a) <= SizeOf(b)
<1>1. SizeOf(a) = (a + 1) * (a + 1) /\ SizeOf(b) = (b + 1) * (b + 1)
  BY DEF SizeOf
<1>2. (a + 1) * (a + 1) \in Nat \ {0}
  OBVIOUS
<1>3. ASSUME a <= b PROVE (a + 1) * (a + 1) <= (b + 1) * (b + 1)
  <2>1. (a + 1) * (a + 1) <= (a + 1) * (b + 1)
    BY <1>3
  <2>2. (a + 1) * (b + 1) <= (b + 1) * (b + 1)
    BY <1>3
  <2> QED
    BY <2>1, <2>2
<1> QED
  BY <1>1, <1>2, <1>3

LEMMA DegreeTypes ==
    ASSUME NEW g \in BOOLEAN
    PROVE  /\ DegreeOf(g, Configured) \in Nat
           /\ \A n \in Nat :
                DegreeOf(g, Lowered(n)) = LowerOf(DegreeOf(g, Configured), n)
<1>1. Configured.ground \in Nat /\ Configured.other \in Nat
      /\ DOMAIN Configured = {"ground", "other"}
  BY FileAssumption DEF Configured
<1>2. \A n \in Nat : /\ Lowered(n).ground = LowerOf(Configured.ground, n)
                     /\ Lowered(n).other = LowerOf(Configured.other, n)
  BY <1>1 DEF Lowered
<1> QED
  BY <1>1, <1>2 DEF DegreeOf

\* A patch as a file holds it.
IsWritten(w, p, size) ==
  /\ w \in Seq(Value) /\ Len(w) = 2 + size + Words
  /\ w[1] = <<"is_ground", p.is_ground>> /\ w[2] = p.T_w_obj
  /\ \A i \in 1 .. size : w[2 + i] = p.sph_coeff[i]
  /\ \A k \in 1 .. Words : w[2 + size + k] = MaskWord(p.mask, k - 1)

LEMMA MaskWordTyped ==
    ASSUME NEW mask, NEW k \in Int
    PROVE  MaskWord(mask, k) \in MaskWords
<1> DEFINE f == [bit \in 0 .. WordSize - 1 |->
                   LET i == k * WordSize + WordSize - 1 - bit
                   IN IF i < ImageSize /\ i \in mask THEN 1 ELSE 0]
<1>1. f \in [0 .. WordSize - 1 -> 0 .. 1]
  OBVIOUS
<1>2. MaskWord(mask, k) = <<"mask", f>>
  BY DEF MaskWord
<1> HIDE DEF f
<1> QED
  BY <1>1, <1>2 DEF MaskWords

LEMMA WrittenShape ==
    ASSUME NEW p \in Patches, NEW size \in 1 .. Len(p.sph_coeff)
    PROVE  IsWritten(Written(p, size), p, size)
<1> DEFINE h == <<<<"is_ground", p.is_ground>>, p.T_w_obj>>
           a == [i \in 1 .. size |-> IF i <= Len(p.sph_coeff) THEN p.sph_coeff[i]
                                     ELSE <<"beyond", i>>]
           b == [w \in 1 .. Words |-> MaskWord(p.mask, w - 1)]
<1>1. /\ p.is_ground \in BOOLEAN /\ p.T_w_obj \in Poses /\ p.sph_coeff \in Seq(Known)
      /\ p.mask \subseteq 0 .. ImageSize - 1
  BY DEF Patches
<1>2. Len(p.sph_coeff) \in Nat /\ size \in Nat /\ Words \in Nat
  BY <1>1, Sizes, LenProperties
<1>3. h \in Seq(Value) /\ Len(h) = 2 /\ h[1] = <<"is_ground", p.is_ground>> /\ h[2] = p.T_w_obj
  <2>1. <<"is_ground", p.is_ground>> \in Value /\ p.T_w_obj \in Value
    BY <1>1 DEF Value, Flags
  <2> QED
    BY <2>1
<1>4. a \in Seq(Value) /\ Len(a) = size /\ \A i \in 1 .. size : a[i] = p.sph_coeff[i]
  <2>1. \A i \in 1 .. size : a[i] = p.sph_coeff[i]
    BY <1>2
  <2>2. \A i \in 1 .. size : p.sph_coeff[i] \in Known
    BY <1>1, <1>2, ElementOfSeq
  <2>3. a = [i \in 1 .. size |-> a[i]]
    OBVIOUS
  <2> HIDE DEF a
  <2>4. a \in [1 .. size -> Value]
    BY <2>1, <2>2, <2>3 DEF Value
  <2> QED
    BY <1>2, <2>1, <2>4
<1>5. b \in Seq(Value) /\ Len(b) = Words /\ \A k \in 1 .. Words : b[k] = MaskWord(p.mask, k - 1)
  <2>1. \A k \in 1 .. Words : MaskWord(p.mask, k - 1) \in Value
    BY <1>2, MaskWordTyped DEF Value
  <2>2. b \in [1 .. Words -> Value]
    BY <2>1
  <2> QED
    BY <1>2, <2>2
<1>6. Written(p, size) = (h \o a) \o b
  BY DEF Written
<1> HIDE DEF h, a, b
<1>7. /\ h \o a \in Seq(Value) /\ Len(h \o a) = 2 + size
      /\ \A i \in 1 .. 2 + size : (h \o a)[i] = IF i <= 2 THEN h[i] ELSE a[i - 2]
  <2>1. /\ h \o a \in Seq(Value) /\ Len(h \o a) = Len(h) + Len(a)
        /\ \A i \in 1 .. Len(h) + Len(a) :
             (h \o a)[i] = IF i <= Len(h) THEN h[i] ELSE a[i - Len(h)]
    BY ONLY <1>3, <1>4, ConcatProperties
  <2> QED
    BY ONLY <1>3, <1>4, <2>1
<1> DEFINE ha == h \o a
<1>8. /\ ha \in Seq(Value) /\ Len(ha) = 2 + size
      /\ \A i \in 1 .. 2 + size : ha[i] = IF i <= 2 THEN h[i] ELSE a[i - 2]
  BY <1>7
<1> HIDE DEF ha
<1>9. /\ ha \o b \in Seq(Value) /\ Len(ha \o b) = 2 + size + Words
      /\ \A i \in 1 .. 2 + size + Words :
           (ha \o b)[i] = IF i <= 2 + size THEN ha[i] ELSE b[i - (2 + size)]
  <2>1. /\ ha \o b \in Seq(Value) /\ Len(ha \o b) = Len(ha) + Len(b)
        /\ \A i \in 1 .. Len(ha) + Len(b) :
             (ha \o b)[i] = IF i <= Len(ha) THEN ha[i] ELSE b[i - Len(ha)]
    BY ONLY <1>5, <1>8, ConcatProperties
  <2> QED
    BY ONLY <1>5, <1>8, <2>1
<1> DEFINE w == ha \o b
<1>10. /\ w \in Seq(Value) /\ Len(w) = 2 + size + Words
       /\ \A i \in 1 .. 2 + size + Words :
            w[i] = IF i <= 2 + size THEN ha[i] ELSE b[i - (2 + size)]
  BY <1>9
<1> HIDE DEF w
<1>11. w[1] = h[1] /\ w[2] = h[2]
  BY <1>2, <1>8, <1>10
<1>12. \A i \in 1 .. size : w[2 + i] = p.sph_coeff[i]
  <2>1. TAKE i \in 1 .. size
  <2>2. w[2 + i] = ha[2 + i]
    BY <1>2, <1>10
  <2>3. ha[2 + i] = a[i]
    BY <1>2, <1>8
  <2> QED
    BY <1>4, <2>2, <2>3
<1>13. \A k \in 1 .. Words : w[2 + size + k] = MaskWord(p.mask, k - 1)
  <2>1. TAKE k \in 1 .. Words
  <2>2. w[2 + size + k] = b[k]
    BY <1>2, <1>10
  <2> QED
    BY <1>5, <2>2
<1>14. Written(p, size) = w
  BY <1>6 DEF w, ha
<1> QED
  BY <1>3, <1>10, <1>11, <1>12, <1>13, <1>14 DEF IsWritten

\* The mask that was written is the one that is read.
LEMMA MaskReadsBack ==
    ASSUME NEW mask, mask \subseteq 0 .. ImageSize - 1,
           NEW words, \A k \in 1 .. Words : words[k] = MaskWord(mask, k - 1)
    PROVE  MaskFrom(words) = mask
<1>1. ASSUME NEW i \in 0 .. ImageSize - 1
      PROVE  LET word == words[i \div WordSize + 1]
             IN /\ word[1] = "mask"
                /\ word[2][WordSize - 1 - (i % WordSize)] = IF i \in mask THEN 1 ELSE 0
  <2>1. /\ i \div WordSize \in 0 .. Words - 1 /\ i % WordSize \in 0 .. WordSize - 1
        /\ (i \div WordSize) * WordSize + (i % WordSize) = i
    BY CellsCovered
  <2> DEFINE q == i \div WordSize
             m == i % WordSize
  <2>2. /\ q \in 0 .. Words - 1 /\ m \in 0 .. WordSize - 1 /\ q * WordSize + m = i
    BY <2>1
  <2> HIDE DEF q, m
  <2>3. q + 1 \in 1 .. Words /\ (q + 1) - 1 = q /\ WordSize \in Nat /\ q \in Nat
    BY <2>2, Sizes
  <2>4. words[q + 1] = MaskWord(mask, q)
    BY <2>3
  <2>5. WordSize - 1 - m \in 0 .. WordSize - 1
    BY <2>2, <2>3
  <2>6. q * WordSize + WordSize - 1 - (WordSize - 1 - m) = i
    BY <2>2, <2>3
  <2> DEFINE f == [bit \in 0 .. WordSize - 1 |->
                     LET j == q * WordSize + WordSize - 1 - bit
                     IN IF j < ImageSize /\ j \in mask THEN 1 ELSE 0]
  <2>7. MaskWord(mask, q) = <<"mask", f>>
    BY DEF MaskWord
  <2>8. f[WordSize - 1 - m] = IF i < ImageSize /\ i \in mask THEN 1 ELSE 0
    BY <2>5, <2>6
  <2> HIDE DEF f
  <2>9. i < ImageSize
    BY Sizes
  <2>10. words[q + 1] = <<"mask", f>>
    BY <2>4, <2>7
  <2>11. words[q + 1][1] = "mask" /\ words[q + 1][2] = f
    BY <2>10
  <2> QED
    BY <2>8, <2>9, <2>11 DEF q, m
<1>2. \A i \in 0 .. ImageSize - 1 : i \in MaskFrom(words) <=> i \in mask
  <2>1. TAKE i \in 0 .. ImageSize - 1
  <2>2. /\ words[i \div WordSize + 1][1] = "mask"
        /\ words[i \div WordSize + 1][2][WordSize - 1 - (i % WordSize)] = IF i \in mask THEN 1 ELSE 0
    BY <1>1
  <2> QED
    BY <2>2 DEF MaskFrom
<1>3. MaskFrom(words) \subseteq 0 .. ImageSize - 1
  BY DEF MaskFrom
<1> QED
  BY <1>2, <1>3

\* The reader after a turn, and a patch without its last coefficients.
Reader(ok, at, patches) == [ok |-> ok, at |-> at, patches |-> patches]
Cut(p, size) ==
  [is_ground |-> p.is_ground, T_w_obj |-> p.T_w_obj,
   sph_coeff |-> SubSeq(p.sph_coeff, 1, size), mask |-> p.mask]
Turns(infile, degrees, r, s) == ReadOne(infile, degrees, r) = s

LEMMA Refused ==
    ASSUME NEW at, NEW ps
    PROVE  [Reader(TRUE, at, ps) EXCEPT !.ok = FALSE] = Reader(FALSE, at, ps)
<1> DEFINE r == Reader(TRUE, at, ps)
           q == [r EXCEPT !.ok = FALSE]
<1>1. r \in [ok : {TRUE}, at : {at}, patches : {ps}]
  BY DEF Reader
<1>2. q = [r EXCEPT !.ok = FALSE]
  OBVIOUS
<1> HIDE DEF r, q
<1>3. q = [ok |-> FALSE, at |-> at, patches |-> ps]
  BY <1>1, <1>2
<1> QED
  BY <1>3 DEF Reader, r, q

\* Where the file goes on with a patch, a turn reads it, or refuses the file when it
\* ends before the patch does.
LEMMA ReadsOne ==
    ASSUME NEW infile \in Seq(Value), NEW degrees, NEW p \in Patches,
           NEW size \in 1 .. Len(p.sph_coeff), size = SizeOf(DegreeOf(p.is_ground, degrees)),
           NEW w, IsWritten(w, p, size), NEW at \in Nat, at < Len(infile), NEW ps,
           \A q \in 1 .. Len(w) : at + q <= Len(infile) => infile[at + q] = w[q]
    PROVE  /\ Len(infile) < at + Len(w) =>
                Turns(infile, degrees, Reader(TRUE, at, ps), Reader(FALSE, at, ps))
           /\ Len(infile) >= at + Len(w) =>
                Turns(infile, degrees, Reader(TRUE, at, ps),
                      Reader(TRUE, at + Len(w), Append(ps, Cut(p, size))))
<1> DEFINE r == Reader(TRUE, at, ps)
           ground == infile[at + 1] = <<"is_ground", TRUE>>
           end == at + 2 + size + Words
<1>1. /\ p.is_ground \in BOOLEAN /\ p.T_w_obj \in Poses /\ p.sph_coeff \in Seq(Known)
      /\ p.mask \subseteq 0 .. ImageSize - 1
      /\ p = [is_ground |-> p.is_ground, T_w_obj |-> p.T_w_obj, sph_coeff |-> p.sph_coeff,
              mask |-> p.mask]
  BY DEF Patches
<1>2. /\ Len(p.sph_coeff) \in Nat /\ size \in Nat \ {0} /\ Words \in Nat \ {0}
      /\ Len(infile) \in Nat /\ Len(w) = 2 + size + Words
  BY <1>1, Sizes, LenProperties DEF IsWritten
<1>3. ground = p.is_ground
  <2>1. infile[at + 1] = <<"is_ground", p.is_ground>>
    BY <1>2, SMTT(30) DEF IsWritten
  <2>2. CASE p.is_ground = TRUE
    <3>1. infile[at + 1] = <<"is_ground", TRUE>>
      BY <2>1, <2>2
    <3> QED
      BY <2>2, <3>1, Zenon
  <2>3. CASE p.is_ground = FALSE
    <3>1. infile[at + 1] = <<"is_ground", FALSE>>
      BY <2>1, <2>3
    <3>2. ~(infile[at + 1] = <<"is_ground", TRUE>>)
      BY <3>1
    <3> QED
      BY <2>3, <3>2, Zenon
  <2> QED
    BY <1>1, <2>2, <2>3
<1>4. size = SizeOf(DegreeOf(ground, degrees))
  BY <1>3
<1>5. r.ok = TRUE /\ r.at = at /\ r.patches = ps
  BY DEF Reader
<1>6. at # Len(infile) /\ end = at + Len(w)
  BY <1>2
<1>7. CASE Len(infile) < end
  <2>1. [Reader(TRUE, at, ps) EXCEPT !.ok = FALSE] = Reader(FALSE, at, ps)
    BY Refused
  <2> HIDE DEF r, ground
  <2>2. ReadOne(infile, degrees, r) = [r EXCEPT !.ok = FALSE]
    BY <1>4, <1>5, <1>6, <1>7 DEF ReadOne, ground
  <2>3. Turns(infile, degrees, Reader(TRUE, at, ps), Reader(FALSE, at, ps))
    BY <2>1, <2>2 DEF Turns, r
  <2>4. ~(Len(infile) >= at + Len(w))
    BY <1>2, <1>6, <1>7
  <2> QED
    BY ONLY <2>3, <2>4
<1>8. CASE Len(infile) >= end
  <2> DEFINE words == SubSeq(infile, at + 3 + size, end)
             coeffs == SubSeq(infile, at + 3, at + 2 + size)
  <2>1. \A q \in 1 .. Len(w) : infile[at + q] = w[q]
    BY <1>2, <1>6, <1>8
  <2>2. infile[at + 2] = p.T_w_obj
    BY <1>2, <2>1 DEF IsWritten
  <2>3. \A i \in 1 .. size : infile[at + 2 + i] = p.sph_coeff[i]
    <3>1. TAKE i \in 1 .. size
    <3>2. 2 + i \in 1 .. Len(w) /\ at + (2 + i) = at + 2 + i
      BY <1>2
    <3>3. infile[at + (2 + i)] = w[2 + i]
      BY <2>1, <3>2
    <3>4. w[2 + i] = p.sph_coeff[i]
      BY DEF IsWritten
    <3> QED
      BY <3>2, <3>3, <3>4
  <2>4. \A k \in 1 .. Words : infile[at + 2 + size + k] = MaskWord(p.mask, k - 1)
    <3>1. TAKE k \in 1 .. Words
    <3>2. 2 + size + k \in 1 .. Len(w) /\ at + (2 + size + k) = at + 2 + size + k
      BY ONLY <1>2, k \in 1 .. Words, at \in Nat
    <3>3. infile[at + (2 + size + k)] = w[2 + size + k]
      BY <2>1, <3>2
    <3>4. w[2 + size + k] = MaskWord(p.mask, k - 1)
      BY DEF IsWritten
    <3> QED
      BY <3>2, <3>3, <3>4
  <2>5. coeffs = SubSeq(p.sph_coeff, 1, size)
    <3>1. \A i \in 1 .. size : p.sph_coeff[i] \in Known
      BY <1>1, <1>2, ElementOfSeq
    <3>2. \A i \in at + 3 .. at + 2 + size : infile[i] \in Known
      <4>1. TAKE i \in at + 3 .. at + 2 + size
      <4>2. i - at - 2 \in 1 .. size /\ at + 2 + (i - at - 2) = i
        BY <1>2
      <4> QED
        BY <2>3, <3>1, <4>2
    <3>3. /\ coeffs \in Seq(Known) /\ Len(coeffs) = size
          /\ \A i \in 1 .. size : coeffs[i] = infile[at + 2 + i]
      <4>1. at + 3 \in Int /\ at + 2 + size \in Int /\ at + 3 <= at + 2 + size
            /\ at + 2 + size - (at + 3) + 1 = size
            /\ \A i \in 1 .. size : at + 3 + i - 1 = at + 2 + i
        BY <1>2
      <4>2. /\ coeffs \in Seq(Known)
            /\ Len(coeffs) = at + 2 + size - (at + 3) + 1
            /\ \A i \in 1 .. at + 2 + size - (at + 3) + 1 : coeffs[i] = infile[at + 3 + i - 1]
        <5>1. coeffs = SubSeq(infile, at + 3, at + 2 + size)
          OBVIOUS
        <5> HIDE DEF coeffs
        <5>2. /\ SubSeq(infile, at + 3, at + 2 + size) \in Seq(Known)
              /\ Len(SubSeq(infile, at + 3, at + 2 + size)) =
                   IF at + 3 <= at + 2 + size THEN at + 2 + size - (at + 3) + 1 ELSE 0
              /\ \A i \in 1 .. at + 2 + size - (at + 3) + 1 :
                   SubSeq(infile, at + 3, at + 2 + size)[i] = infile[at + 3 + i - 1]
          <6> DEFINE a == at + 3
                     z == at + 2 + size
          <6>1. a \in Int /\ z \in Int /\ \A i \in a .. z : infile[i] \in Known
            BY ONLY <3>2, <4>1
          <6> HIDE DEF a, z
          <6>2. /\ SubSeq(infile, a, z) \in Seq(Known)
                /\ Len(SubSeq(infile, a, z)) = IF a <= z THEN z - a + 1 ELSE 0
                /\ \A i \in 1 .. z - a + 1 : SubSeq(infile, a, z)[i] = infile[a + i - 1]
            BY ONLY <6>1, SubSeqProperties
          <6> QED
            BY ONLY <6>2, SMTT(30) DEF a, z
        <5> QED
          BY ONLY <4>1, <5>1, <5>2
      <4> HIDE DEF coeffs
      <4> QED
        BY <4>1, <4>2
    <3>4. /\ SubSeq(p.sph_coeff, 1, size) \in Seq(Known)
          /\ Len(SubSeq(p.sph_coeff, 1, size)) = size
          /\ \A i \in 1 .. size : SubSeq(p.sph_coeff, 1, size)[i] = p.sph_coeff[i]
      BY <1>2, <3>1, SubSeqProperties
    <3> HIDE DEF coeffs
    <3>5. \A i \in 1 .. size : coeffs[i] = SubSeq(p.sph_coeff, 1, size)[i]
      BY <2>3, <3>3, <3>4
    <3> QED
      BY <3>3, <3>4, <3>5, SeqEqual
  <2>6. MaskFrom(words) = p.mask
    <3>1. \A k \in 1 .. Words : words[k] = MaskWord(p.mask, k - 1)
      <4>1. /\ at + 3 + size \in Int /\ end \in Int /\ end - (at + 3 + size) + 1 = Words
            /\ \A k \in 1 .. Words : at + 3 + size + k - 1 = at + 2 + size + k
        BY <1>2, SMTT(30)
      <4>2. \A i \in at + 3 + size .. end : infile[i] \in Value
        BY <1>2, <1>8, ElementOfSeq
      <4>3. \A k \in 1 .. end - (at + 3 + size) + 1 : words[k] = infile[at + 3 + size + k - 1]
        <5>1. words = SubSeq(infile, at + 3 + size, end)
          OBVIOUS
        <5> HIDE DEF words, end
        <5>2. \A k \in 1 .. end - (at + 3 + size) + 1 :
                SubSeq(infile, at + 3 + size, end)[k] = infile[at + 3 + size + k - 1]
          <6> DEFINE a == at + 3 + size
          <6>1. a \in Int /\ end \in Int /\ \A i \in a .. end : infile[i] \in Value
            BY ONLY <4>1, <4>2
          <6> HIDE DEF a
          <6>2. \A k \in 1 .. end - a + 1 : SubSeq(infile, a, end)[k] = infile[a + k - 1]
            BY ONLY <6>1, SubSeqProperties
          <6> QED
            BY ONLY <6>2 DEF a
        <5> QED
          BY ONLY <5>1, <5>2
      <4> HIDE DEF words
      <4> QED
        BY <2>4, <4>1, <4>3
    <3> HIDE DEF words
    <3> QED
      BY <1>1, <3>1, MaskReadsBack
  <2> DEFINE q == [is_ground |-> ground, T_w_obj |-> infile[at + 2], sph_coeff |-> coeffs,
                   mask |-> MaskFrom(words)]
  <2>7. q = Cut(p, size)
    <3> HIDE DEF coeffs, words, ground
    <3> QED
      BY <1>3, <2>2, <2>5, <2>6 DEF Cut
  <2>8. ReadOne(infile, degrees, r) = Reader(TRUE, end, Append(ps, q))
    <3>1. ~(Len(infile) < end)
      BY <1>2, <1>8
    <3> HIDE DEF r
    <3> QED
      BY <1>4, <1>5, <1>6, <3>1 DEF ReadOne, Reader
  <2>9. ~(Len(infile) < at + Len(w))
    BY <1>2, <1>6, <1>8
  <2>10. end = at + Len(w)
    BY <1>6
  <2> HIDE DEF q, end
  <2>11. ReadOne(infile, degrees, Reader(TRUE, at, ps)) =
           Reader(TRUE, at + Len(w), Append(ps, Cut(p, size)))
    BY <2>7, <2>8, <2>10
  <2>12. Turns(infile, degrees, Reader(TRUE, at, ps),
               Reader(TRUE, at + Len(w), Append(ps, Cut(p, size))))
    BY ONLY <2>11 DEF Turns
  <2> QED
    BY ONLY <2>9, <2>12
<1>9. Len(infile) < end \/ Len(infile) >= end
  BY <1>2
<1> QED
  BY ONLY <1>7, <1>8, <1>9

-----------------------------------------------------------------------------
(* Induction over the turns and over the patches                           *)

\* A set of numbers with 0 and with the successor of each of its members has all.
LEMMA EveryNatural ==
    ASSUME NEW T, 0 \in T, \A i \in Nat : i \in T => i + 1 \in T
    PROVE  Nat \subseteq T
<1>1. SUFFICES ASSUME Nat \ T # {}
               PROVE  FALSE
  OBVIOUS
<1>2. PICK i \in Nat \ T : \A j \in Nat \ T : <<j, i>> \notin OpToRel(<, Nat)
  BY <1>1, WFMin, NatLessThanWellFounded, Zenon
<1>3. i # 0 /\ i - 1 \in Nat /\ (i - 1) + 1 = i
  OBVIOUS
<1>4. i - 1 \notin T
  BY <1>3
<1>5. <<i - 1, i>> \in OpToRel(<, Nat)
  BY <1>3 DEF OpToRel
<1> QED
  BY <1>2, <1>3, <1>4, <1>5

\* The turns of load_from_binary, and their existence.
TurnsTo(f, infile, degrees, n) ==
  f = [k \in 0 .. n |-> IF k = 0 THEN Reader(TRUE, 0, <<>>) ELSE ReadOne(infile, degrees, f[k - 1])]

LEMMA TurnsExist ==
    ASSUME NEW infile, NEW degrees
    PROVE  \A n \in Nat : \E f : TurnsTo(f, infile, degrees, n)
<1> DEFINE T == {n \in Nat : \E f : TurnsTo(f, infile, degrees, n)}
           base == Reader(TRUE, 0, <<>>)
<1>1. 0 \in T
  <2> DEFINE f == [k \in 0 .. 0 |-> base]
  <2>1. f = [k \in 0 .. 0 |-> IF k = 0 THEN base ELSE ReadOne(infile, degrees, f[k - 1])]
    OBVIOUS
  <2> HIDE DEF f
  <2> QED
    BY <2>1 DEF TurnsTo
<1>2. ASSUME NEW i \in Nat, i \in T
      PROVE  i + 1 \in T
  <2>1. PICK f : TurnsTo(f, infile, degrees, i)
    BY <1>2
  <2> DEFINE g == [k \in 0 .. i + 1 |-> IF k = i + 1 THEN ReadOne(infile, degrees, f[i]) ELSE f[k]]
  <2> HIDE DEF base
  <2>2. \A k \in 0 .. i : f[k] = IF k = 0 THEN base ELSE ReadOne(infile, degrees, f[k - 1])
    BY <2>1 DEF TurnsTo, base
  <2>3. \A k \in 0 .. i : g[k] = f[k]
    BY <1>2
  <2>4. g[i + 1] = ReadOne(infile, degrees, f[i])
    BY <1>2
  <2>5. \A k \in 0 .. i + 1 : g[k] = IF k = 0 THEN base ELSE ReadOne(infile, degrees, g[k - 1])
    <3>1. TAKE k \in 0 .. i + 1
    <3>2. CASE k = i + 1
      <4>1. i \in 0 .. i /\ k # 0 /\ k - 1 = i
        BY <1>2, <3>2
      <4>2. g[k - 1] = f[i]
        BY <2>3, <4>1
      <4> HIDE DEF g
      <4> QED
        BY <2>4, <3>2, <4>1, <4>2
    <3>3. CASE k # i + 1
      <4>1. k \in 0 .. i /\ (k # 0 => k - 1 \in 0 .. i)
        BY <1>2, <3>3
      <4> HIDE DEF g
      <4> QED
        BY <2>2, <2>3, <4>1
    <3> QED
      BY <3>2, <3>3
  <2>6. g = [k \in 0 .. i + 1 |-> g[k]]
    OBVIOUS
  <2> HIDE DEF g
  <2>7. g = [k \in 0 .. i + 1 |-> IF k = 0 THEN base ELSE ReadOne(infile, degrees, g[k - 1])]
    BY <2>5, <2>6
  <2>8. TurnsTo(g, infile, degrees, i + 1)
    BY <2>7 DEF TurnsTo, base
  <2> QED
    BY <1>2, <2>8
<1>3. Nat \subseteq T
  <2> HIDE DEF T
  <2> QED
    BY <1>1, <1>2, EveryNatural
<1> QED
  BY <1>3

\* The reader's result is that of its last turn.
LEMMA LoadsInTurns ==
    ASSUME NEW infile, NEW degrees, Len(infile) \in Nat
    PROVE  \E f : /\ TurnsTo(f, infile, degrees, Len(infile))
                  /\ load_from_binary(infile, degrees) = f[Len(infile)]
<1> DEFINE f == CHOOSE g : TurnsTo(g, infile, degrees, Len(infile))
<1>1. TurnsTo(f, infile, degrees, Len(infile))
  BY TurnsExist
<1>2. load_from_binary(infile, degrees) = f[Len(infile)]
  BY DEF load_from_binary, TurnsTo, Reader
<1> HIDE DEF f
<1> QED
  BY <1>1, <1>2

\* FlattenSeq puts one sequence after the other.
FlattenedTo(f, seqs, n) ==
  f = [i \in 1 .. n |-> IF i = 1 THEN seqs[i] ELSE f[i - 1] \o seqs[i]]

LEMMA FlattenedExist ==
    ASSUME NEW seqs
    PROVE  \A n \in Nat : \E f : FlattenedTo(f, seqs, n)
<1> DEFINE T == {n \in Nat : \E f : FlattenedTo(f, seqs, n)}
<1>1. 0 \in T
  <2> DEFINE f == [i \in 1 .. 0 |-> <<>>]
  <2>1. f = [i \in 1 .. 0 |-> IF i = 1 THEN seqs[i] ELSE f[i - 1] \o seqs[i]]
    OBVIOUS
  <2> HIDE DEF f
  <2> QED
    BY <2>1 DEF FlattenedTo
<1>2. ASSUME NEW j \in Nat, j \in T
      PROVE  j + 1 \in T
  <2>1. PICK f : FlattenedTo(f, seqs, j)
    BY <1>2
  <2> DEFINE g == [i \in 1 .. j + 1 |->
                     IF i = j + 1 THEN IF j = 0 THEN seqs[1] ELSE f[j] \o seqs[j + 1] ELSE f[i]]
  <2>2. \A i \in 1 .. j : f[i] = IF i = 1 THEN seqs[i] ELSE f[i - 1] \o seqs[i]
    BY <2>1 DEF FlattenedTo
  <2>3. \A i \in 1 .. j : g[i] = f[i]
    BY <1>2
  <2>4. g[j + 1] = IF j = 0 THEN seqs[1] ELSE f[j] \o seqs[j + 1]
    BY <1>2
  <2> HIDE DEF g
  <2>5. \A i \in 1 .. j + 1 : g[i] = IF i = 1 THEN seqs[i] ELSE g[i - 1] \o seqs[i]
    <3>1. TAKE i \in 1 .. j + 1
    <3>2. CASE i = j + 1
      <4>1. CASE j = 0
        BY <2>4, <3>2, <4>1
      <4>2. CASE j # 0
        <5>1. j \in 1 .. j /\ i # 1 /\ i - 1 = j
          BY <1>2, <3>2, <4>2
        <5> QED
          BY <2>3, <2>4, <3>2, <4>2, <5>1
      <4> QED
        BY <4>1, <4>2
    <3>3. CASE i # j + 1
      <4>1. i \in 1 .. j /\ (i # 1 => i - 1 \in 1 .. j)
        BY <1>2, <3>3
      <4> QED
        BY <2>2, <2>3, <4>1
    <3> QED
      BY <3>2, <3>3
  <2>6. g = [i \in 1 .. j + 1 |-> g[i]]
    BY DEF g
  <2>7. g = [i \in 1 .. j + 1 |-> IF i = 1 THEN seqs[i] ELSE g[i - 1] \o seqs[i]]
    BY <2>5, <2>6
  <2>8. FlattenedTo(g, seqs, j + 1)
    BY <2>7 DEF FlattenedTo
  <2> QED
    BY <1>2, <2>8
<1>3. Nat \subseteq T
  <2> HIDE DEF T
  <2> QED
    BY <1>1, <1>2, EveryNatural
<1> QED
  BY <1>3

LEMMA Flattens ==
    ASSUME NEW seqs, Len(seqs) \in Nat \ {0}
    PROVE  \E f : FlattenedTo(f, seqs, Len(seqs)) /\ FlattenSeq(seqs) = f[Len(seqs)]
<1> DEFINE f == CHOOSE g : FlattenedTo(g, seqs, Len(seqs))
<1>1. FlattenedTo(f, seqs, Len(seqs))
  BY FlattenedExist
<1>2. FlattenSeq(seqs) = f[Len(seqs)]
  BY DEF FlattenSeq, FlattenedTo
<1> HIDE DEF f
<1> QED
  BY <1>1, <1>2

\* A file of n patches and where each of them ends in it.
Layout(file, seqs, e, n) ==
  /\ file \in Seq(Value) /\ e \in [0 .. n -> Nat] /\ e[0] = 0 /\ e[n] = Len(file)
  /\ \A k \in 0 .. n : k <= e[k] /\ e[k] <= Len(file)
  /\ \A k \in 0 .. n : k < n => e[k] < Len(file)
  /\ \A k \in 1 .. n : /\ e[k] = e[k - 1] + Len(seqs[k])
                       /\ \A q \in 1 .. Len(seqs[k]) : file[e[k - 1] + q] = seqs[k][q]

LEMMA LayoutGrows ==
    ASSUME NEW file, NEW seqs, NEW e, NEW n \in Nat, Layout(file, seqs, e, n),
           NEW s \in Seq(Value), Len(s) > 0, s = seqs[n + 1]
    PROVE  \E d : Layout(file \o s, seqs, d, n + 1)
<1> DEFINE d == [k \in 0 .. n + 1 |-> IF k = n + 1 THEN Len(file) + Len(s) ELSE e[k]]
           g == file \o s
<1>1. /\ file \in Seq(Value) /\ e \in [0 .. n -> Nat] /\ e[0] = 0 /\ e[n] = Len(file)
      /\ Len(file) \in Nat /\ Len(s) \in Nat \ {0}
  BY LenProperties DEF Layout
<1>2. g \in Seq(Value) /\ Len(g) = Len(file) + Len(s)
      /\ \A i \in 1 .. Len(file) + Len(s) : g[i] = IF i <= Len(file) THEN file[i] ELSE s[i - Len(file)]
  BY ONLY <1>1, s \in Seq(Value), ConcatProperties
<1>3. d \in [0 .. n + 1 -> Nat] /\ d[n + 1] = Len(file) + Len(s) /\ \A k \in 0 .. n : d[k] = e[k]
  BY <1>1
<1> HIDE DEF d, g
<1>4. d[0] = 0 /\ d[n + 1] = Len(g)
  BY <1>1, <1>2, <1>3
<1>5. \A k \in 0 .. n + 1 : k <= d[k] /\ d[k] <= Len(g)
  <2>1. n <= e[n]
    BY DEF Layout
  <2> QED
    BY <1>1, <1>2, <1>3, <2>1, SMTT(30) DEF Layout
<1>6. \A k \in 0 .. n + 1 : k < n + 1 => d[k] < Len(g)
  BY <1>1, <1>2, <1>3 DEF Layout
<1>7. ASSUME NEW k \in 1 .. n + 1
      PROVE  /\ d[k] = d[k - 1] + Len(seqs[k])
             /\ \A q \in 1 .. Len(seqs[k]) : g[d[k - 1] + q] = seqs[k][q]
  <2>1. CASE k = n + 1
    <3>1. d[k - 1] = Len(file) /\ seqs[k] = s
      BY <1>1, <1>3, <2>1
    <3>2. \A q \in 1 .. Len(s) : g[Len(file) + q] = s[q]
      BY <1>1, <1>2
    <3> QED
      BY <1>3, <2>1, <3>1, <3>2
  <2>2. CASE k # n + 1
    <3>1. k \in 1 .. n /\ k \in 0 .. n /\ k - 1 \in 0 .. n
      BY <2>2
    <3>2. /\ e[k] = e[k - 1] + Len(seqs[k]) /\ e[k] <= Len(file)
          /\ \A q \in 1 .. Len(seqs[k]) : file[e[k - 1] + q] = seqs[k][q]
      BY <3>1 DEF Layout
    <3>3. d[k] = e[k] /\ d[k - 1] = e[k - 1] /\ e[k] \in Nat /\ e[k - 1] \in Nat
      BY <1>1, <1>3, <3>1
    <3>4. ASSUME NEW q \in 1 .. Len(seqs[k])
          PROVE  g[d[k - 1] + q] = seqs[k][q]
      <4>1. q \in Nat /\ q > 0 /\ e[k - 1] + q \in Nat /\ Len(seqs[k]) = e[k] - e[k - 1] 
        BY <3>2, <3>3
      <4>2. e[k - 1] + q \in 1 .. Len(file) + Len(s) /\ e[k - 1] + q <= Len(file)
        BY <1>1, <3>2, <3>3, <4>1
      <4> QED
        BY <1>2, <3>2, <3>3, <4>2
    <3> QED
      BY <3>2, <3>3, <3>4
  <2> QED
    BY <2>1, <2>2
<1>8. Layout(g, seqs, d, n + 1)
  BY <1>2, <1>3, <1>4, <1>5, <1>6, <1>7 DEF Layout
<1> QED
  BY <1>8 DEF g

LEMMA Layouts ==
    ASSUME NEW seqs \in Seq(Seq(Value)), \A k \in 1 .. Len(seqs) : Len(seqs[k]) > 0
    PROVE  \E e : Layout(FlattenSeq(seqs), seqs, e, Len(seqs))
<1>1. Len(seqs) \in Nat /\ \A k \in 1 .. Len(seqs) : seqs[k] \in Seq(Value)
  BY LenProperties, ElementOfSeq
<1> DEFINE e0 == [k \in 0 .. 0 |-> 0]
<1>2. ASSUME NEW n \in Nat, n = 0 PROVE Layout(<<>>, seqs, e0, n)
  <2>1. <<>> \in Seq(Value) /\ Len(<<>>) = 0
    OBVIOUS
  <2>2. e0 \in [0 .. 0 -> Nat] /\ e0[0] = 0
    OBVIOUS
  <2> HIDE DEF e0
  <2> QED
    BY <1>2, <2>1, <2>2 DEF Layout
<1> HIDE DEF e0
<1>3. CASE Len(seqs) = 0
  <2>1. seqs = <<>> /\ FlattenSeq(seqs) = seqs
    BY <1>3, EmptySeq DEF FlattenSeq
  <2> QED
    BY <1>1, <1>2, <1>3, <2>1
<1>4. CASE Len(seqs) # 0
  <2>1. PICK f : FlattenedTo(f, seqs, Len(seqs)) /\ FlattenSeq(seqs) = f[Len(seqs)]
    BY <1>1, <1>4, Flattens
  <2>2. \A i \in 1 .. Len(seqs) : f[i] = IF i = 1 THEN seqs[i] ELSE f[i - 1] \o seqs[i]
    BY <2>1 DEF FlattenedTo
  <2> DEFINE T == {n \in Nat : n \in 1 .. Len(seqs) => \E e : Layout(f[n], seqs, e, n)}
  <2>3. 0 \in T
    OBVIOUS
  <2>4. ASSUME NEW n \in Nat, n \in T PROVE n + 1 \in T
    <3>1. SUFFICES ASSUME n + 1 \in 1 .. Len(seqs) PROVE \E e : Layout(f[n + 1], seqs, e, n + 1)
      OBVIOUS
    <3>2. seqs[n + 1] \in Seq(Value) /\ Len(seqs[n + 1]) > 0
      BY <1>1, <3>1
    <3>3. CASE n = 0
      <4>1. Layout(<<>>, seqs, e0, n)
        BY <1>2, <3>3
      <4>2. \E d : Layout(<<>> \o seqs[n + 1], seqs, d, n + 1)
        BY <3>2, <4>1, LayoutGrows
      <4>3. <<>> \o seqs[n + 1] = seqs[n + 1]
        BY <3>2, ConcatEmptySeq
      <4>4. f[n + 1] = seqs[n + 1]
        BY <2>2, <3>1, <3>3
      <4> QED
        BY <4>2, <4>3, <4>4
    <3>4. CASE n # 0
      <4>1. n \in 1 .. Len(seqs) /\ n + 1 # 1 /\ (n + 1) - 1 = n
        BY <1>1, <3>1, <3>4
      <4>2. PICK e : Layout(f[n], seqs, e, n)
        BY <2>4, <4>1
      <4>3. \E d : Layout(f[n] \o seqs[n + 1], seqs, d, n + 1)
        BY <3>2, <4>2, LayoutGrows
      <4>4. f[n + 1] = f[n] \o seqs[n + 1]
        BY <2>2, <3>1, <4>1
      <4> QED
        BY <4>3, <4>4
    <3> QED
      BY <3>3, <3>4
  <2>5. Nat \subseteq T
    <3> HIDE DEF T
    <3> QED
      BY <2>3, <2>4, EveryNatural
  <2>6. Len(seqs) \in 1 .. Len(seqs)
    BY <1>1, <1>4
  <2> QED
    BY <1>1, <2>1, <2>5, <2>6
<1> QED
  BY <1>3, <1>4

\* Patches and the number of coefficients that a file holds of each, which is what a
\* reader of these degrees expects.
Fits(patches, size, degrees) ==
  /\ patches \in Seq(Patches)
  /\ \A k \in 1 .. Len(patches) :
       /\ size[k] \in 1 .. Len(patches[k].sph_coeff)
       /\ size[k] = SizeOf(DegreeOf(patches[k].is_ground, degrees))

Pieces(patches, size) == [k \in DOMAIN patches |-> Written(patches[k], size[k])]
FirstCut(patches, size, n) == [k \in 1 .. n |-> Cut(patches[k], size[k])]

LEMMA PiecesTyped ==
    ASSUME NEW patches, NEW size, NEW degrees, Fits(patches, size, degrees)
    PROVE  /\ Pieces(patches, size) \in Seq(Seq(Value))
           /\ Len(patches) \in Nat /\ Len(Pieces(patches, size)) = Len(patches)
           /\ \A k \in 1 .. Len(patches) :
                /\ patches[k] \in Patches
                /\ Len(Pieces(patches, size)[k]) > 0
                /\ IsWritten(Pieces(patches, size)[k], patches[k], size[k])
<1> DEFINE w == Pieces(patches, size)
<1>1. Len(patches) \in Nat /\ DOMAIN patches = 1 .. Len(patches)
      /\ \A k \in 1 .. Len(patches) : patches[k] \in Patches
  BY LenProperties, ElementOfSeq DEF Fits
<1>2. w = [k \in 1 .. Len(patches) |-> w[k]]
      /\ \A k \in 1 .. Len(patches) : w[k] = Written(patches[k], size[k])
  BY <1>1 DEF Pieces
<1> HIDE DEF w
<1>3. ASSUME NEW k \in 1 .. Len(patches)
      PROVE  IsWritten(w[k], patches[k], size[k]) /\ w[k] \in Seq(Value) /\ Len(w[k]) > 0
  <2>1. size[k] \in 1 .. Len(patches[k].sph_coeff) /\ patches[k] \in Patches
    BY <1>1 DEF Fits
  <2>2. IsWritten(w[k], patches[k], size[k])
    BY <1>2, <2>1, WrittenShape
  <2>3. size[k] \in Nat
    <3>1. patches[k].sph_coeff \in Seq(Known)
      BY <2>1 DEF Patches
    <3> QED
      BY <2>1, <3>1, LenProperties
  <2> QED
    BY <2>2, <2>3, Sizes DEF IsWritten
<1>4. w \in [1 .. Len(patches) -> Seq(Value)]
  BY <1>2, <1>3
<1>5. w \in Seq(Seq(Value)) /\ Len(w) = Len(patches)
  BY <1>1, <1>4
<1> QED
  BY <1>1, <1>3, <1>5 DEF w

\* After k turns the reader has k patches, or all that the c values it finds hold;
\* it refuses the file only when something is missing at its end.
Progress(r, k, c, e, patches, size) ==
  \E j \in 0 .. Len(patches) :
    /\ e[j] <= c
    /\ \/ r = Reader(TRUE, e[j], FirstCut(patches, size, j)) /\ (j = k \/ e[j] = c)
       \/ r = Reader(FALSE, e[j], FirstCut(patches, size, j)) /\ c < e[Len(patches)]

LEMMA StoppedTurn ==
    ASSUME NEW infile, NEW degrees, NEW ok, NEW at, NEW ps, ~ok \/ at = Len(infile)
    PROVE  Turns(infile, degrees, Reader(ok, at, ps), Reader(ok, at, ps))
<1> DEFINE r == Reader(ok, at, ps)
<1>1. r.ok = ok /\ r.at = at
  BY DEF Reader
<1> HIDE DEF r
<1>2. ReadOne(infile, degrees, r) = r
  BY <1>1 DEF ReadOne
<1> QED
  BY <1>2 DEF Turns, r

LEMMA FirstCutGrows ==
    ASSUME NEW patches, NEW size, NEW n \in Nat
    PROVE  FirstCut(patches, size, n + 1) =
             Append(FirstCut(patches, size, n), Cut(patches[n + 1], size[n + 1]))
<1> DEFINE f == FirstCut(patches, size, n)
           g == FirstCut(patches, size, n + 1)
           S == {Cut(patches[k], size[k]) : k \in 1 .. n + 1}
<1>1. f \in [1 .. n -> S] /\ \A k \in 1 .. n : f[k] = Cut(patches[k], size[k])
  BY DEF FirstCut
<1>2. g \in [1 .. n + 1 -> S] /\ \A k \in 1 .. n + 1 : g[k] = Cut(patches[k], size[k])
  BY DEF FirstCut
<1>3. Cut(patches[n + 1], size[n + 1]) \in S
  OBVIOUS
<1> DEFINE x == Cut(patches[n + 1], size[n + 1])
<1> HIDE DEF f, g, S, x
<1>4. f \in Seq(S) /\ Len(f) = n /\ g \in Seq(S) /\ Len(g) = n + 1 /\ x \in S
  BY <1>1, <1>2, <1>3 DEF x
<1>5. /\ Append(f, x) \in Seq(S) /\ Len(Append(f, x)) = Len(f) + 1
      /\ \A i \in 1 .. Len(f) : Append(f, x)[i] = f[i]
      /\ Append(f, x)[Len(f) + 1] = x
  BY ONLY <1>4, AppendProperties
<1>6. \A i \in 1 .. n + 1 : Append(f, x)[i] = g[i]
  <2>1. TAKE i \in 1 .. n + 1
  <2>2. CASE i = n + 1
    BY <1>2, <1>4, <1>5, <2>2 DEF x
  <2>3. CASE i # n + 1
    <3>1. i \in 1 .. n
      BY <2>3
    <3> QED
      BY <1>1, <1>2, <1>4, <1>5, <3>1
  <2> QED
    BY <2>2, <2>3
<1>7. Append(f, x) = g
  BY <1>4, <1>5, <1>6, SeqEqual
<1> QED
  BY <1>7 DEF f, g, x

LEMMA ProgressKept ==
    ASSUME NEW patches, NEW size, NEW degrees, Fits(patches, size, degrees),
           NEW file, NEW e, Layout(file, Pieces(patches, size), e, Len(patches)),
           NEW c \in 0 .. Len(file), NEW infile, infile = SubSeq(file, 1, c),
           NEW r, NEW k \in Nat, Progress(r, k, c, e, patches, size)
    PROVE  Progress(ReadOne(infile, degrees, r), k + 1, c, e, patches, size)
<1> DEFINE N == Len(patches)
           w == Pieces(patches, size)
           first(j) == FirstCut(patches, size, j)
<1>1. /\ N \in Nat
      /\ \A i \in 1 .. N : patches[i] \in Patches /\ Len(w[i]) > 0 /\ IsWritten(w[i], patches[i], size[i])
  BY PiecesTyped
<1>2. /\ file \in Seq(Value) /\ e \in [0 .. N -> Nat] /\ e[N] = Len(file) /\ Len(file) \in Nat
      /\ \A i \in 1 .. N : /\ e[i] = e[i - 1] + Len(w[i])
                           /\ \A q \in 1 .. Len(w[i]) : file[e[i - 1] + q] = w[i][q]
      /\ \A i \in 0 .. N : e[i] <= Len(file)
  BY LenProperties DEF Layout
<1>3. /\ infile \in Seq(Value) /\ Len(infile) = c
      /\ \A i \in 1 .. c : infile[i] = file[i]
  <2>1. \A i \in 1 .. c : file[i] \in Value
    BY <1>2, ElementOfSeq
  <2>2. c \in Int /\ c - 1 + 1 = c /\ (1 <= c \/ c = 0) /\ \A i \in 1 .. c : 1 + i - 1 = i
    BY <1>2
  <2>3. /\ SubSeq(file, 1, c) \in Seq(Value)
        /\ Len(SubSeq(file, 1, c)) = IF 1 <= c THEN c - 1 + 1 ELSE 0
        /\ \A i \in 1 .. c - 1 + 1 : SubSeq(file, 1, c)[i] = file[1 + i - 1]
    BY ONLY <2>1, <2>2, 1 \in Int, SubSeqProperties
  <2> QED
    BY ONLY <2>2, <2>3, infile = SubSeq(file, 1, c)
<1>4. PICK j \in 0 .. N :
        /\ e[j] <= c
        /\ \/ r = Reader(TRUE, e[j], first(j)) /\ (j = k \/ e[j] = c)
           \/ r = Reader(FALSE, e[j], first(j)) /\ c < e[N]
  BY DEF Progress
<1>5. e[j] \in Nat /\ c \in Nat /\ e[N] \in Nat
  BY <1>1, <1>2, SMTT(30)
<1>6. CASE r = Reader(FALSE, e[j], first(j)) /\ c < e[N]
  <2>0. Turns(infile, degrees, Reader(FALSE, e[j], first(j)), Reader(FALSE, e[j], first(j)))
    BY ONLY ~FALSE, StoppedTurn
  <2>1. ReadOne(infile, degrees, r) = r
    BY <1>6, <2>0 DEF Turns
  <2> QED
    BY <1>4, <1>6, <2>1 DEF Progress
<1>7. CASE r = Reader(TRUE, e[j], first(j)) /\ e[j] = c
  <2>0. Turns(infile, degrees, Reader(TRUE, e[j], first(j)), Reader(TRUE, e[j], first(j)))
    <3>1. e[j] = Len(infile)
      BY <1>3, <1>7
    <3> QED
      BY ONLY <3>1, StoppedTurn
  <2>1. ReadOne(infile, degrees, r) = r
    BY <1>7, <2>0 DEF Turns
  <2> QED
    BY <1>4, <1>7, <2>1 DEF Progress
<1>8. CASE r = Reader(TRUE, e[j], first(j)) /\ e[j] # c
  <2>1. j = k /\ e[j] < c
    BY <1>4, <1>5, <1>8 DEF Reader
  <2>2. j # N
    BY <1>2, <1>5, <2>1
  <2> DEFINE i == j + 1
             p == patches[i]
  <2>3. i \in 1 .. N /\ i - 1 = j /\ i = k + 1 /\ i \in 0 .. N /\ j \in Nat
    BY <1>1, <2>1, <2>2
  <2>4. p \in Patches /\ IsWritten(w[i], p, size[i]) /\ Len(w[i]) > 0
        /\ size[i] \in 1 .. Len(p.sph_coeff) /\ size[i] = SizeOf(DegreeOf(p.is_ground, degrees))
    BY <1>1, <2>3 DEF Fits
  <2>5. e[i] = e[j] + Len(w[i]) /\ (\A q \in 1 .. Len(w[i]) : file[e[j] + q] = w[i][q])
        /\ e[i] <= e[N] /\ e[i] \in Nat
    BY <1>2, <2>3
  <2>6. \A q \in 1 .. Len(w[i]) : e[j] + q <= Len(infile) => infile[e[j] + q] = w[i][q]
    <3>1. TAKE q \in 1 .. Len(w[i])
    <3>2. ASSUME e[j] + q <= Len(infile) PROVE e[j] + q \in 1 .. c
      <4>1. q \in Int /\ q >= 1
        OBVIOUS
      <4> QED
        BY <1>3, <1>5, <3>2, <4>1
    <3> QED
      BY <1>3, <2>5, <3>2
  <2>7. e[j] < Len(infile)
    BY <1>3, <2>1
  <2> HIDE DEF i, p, w, first
  <2>8. /\ Len(infile) < e[j] + Len(w[i]) =>
             Turns(infile, degrees, Reader(TRUE, e[j], first(j)), Reader(FALSE, e[j], first(j)))
        /\ Len(infile) >= e[j] + Len(w[i]) =>
             Turns(infile, degrees, Reader(TRUE, e[j], first(j)),
                   Reader(TRUE, e[j] + Len(w[i]), Append(first(j), Cut(p, size[i]))))
    BY ONLY <1>3, <1>5, <2>4, <2>6, <2>7, ReadsOne
  <2>9. CASE c < e[i]
    <3>1. ReadOne(infile, degrees, r) = Reader(FALSE, e[j], first(j))
      BY <1>3, <1>8, <2>5, <2>8, <2>9 DEF Turns
    <3>2. c < e[N]
      BY <1>5, <2>5, <2>9
    <3> QED
      BY <1>4, <3>1, <3>2 DEF Progress, first
  <2>10. CASE e[i] <= c
    <3>1. ReadOne(infile, degrees, r) = Reader(TRUE, e[i], Append(first(j), Cut(p, size[i])))
      BY <1>3, <1>5, <1>8, <2>5, <2>8, <2>10 DEF Turns
    <3>2. first(i) = Append(first(j), Cut(p, size[i]))
      BY <2>3, FirstCutGrows DEF first, p, i
    <3>3. ReadOne(infile, degrees, r) = Reader(TRUE, e[i], first(i))
      BY <3>1, <3>2
    <3> QED
      BY <2>3, <2>10, <3>3 DEF Progress, first
  <2> QED
    BY <1>5, <2>5, <2>9, <2>10
<1> QED
  BY <1>4, <1>6, <1>7, <1>8

\* A reader gets the first patches of a file that ends early, and all of a whole one.
ReadsAs(r, patches, size, whole) ==
  \E j \in 0 .. Len(patches) :
    r.patches = FirstCut(patches, size, j) /\ (whole => r.ok /\ j = Len(patches))

LEMMA ReadsFile ==
    ASSUME NEW patches, NEW size, NEW degrees, Fits(patches, size, degrees),
           NEW file, file = FlattenSeq(Pieces(patches, size)), NEW c \in 0 .. Len(file)
    PROVE  ReadsAs(load_from_binary(SubSeq(file, 1, c), degrees), patches, size, c = Len(file))
<1> DEFINE N == Len(patches)
           infile == SubSeq(file, 1, c)
<1>1. /\ Pieces(patches, size) \in Seq(Seq(Value)) /\ Len(Pieces(patches, size)) = N /\ N \in Nat
      /\ \A k \in 1 .. N : Len(Pieces(patches, size)[k]) > 0
  BY PiecesTyped
<1>2. PICK e : Layout(file, Pieces(patches, size), e, N)
  <2>1. \E e : Layout(FlattenSeq(Pieces(patches, size)), Pieces(patches, size), e, N)
    BY <1>1, Layouts
  <2> QED
    BY <2>1
<1>3. /\ file \in Seq(Value) /\ e \in [0 .. N -> Nat] /\ e[0] = 0 /\ e[N] = Len(file)
      /\ \A k \in 0 .. N : k <= e[k] /\ e[k] <= Len(file) /\ (k < N => e[k] < Len(file))
      /\ Len(file) \in Nat
  BY <1>2, LenProperties DEF Layout
<1>4. Len(infile) = c /\ c \in Nat
  <2>1. \A i \in 1 .. c : file[i] \in Value
    BY <1>3, ElementOfSeq
  <2>2. c \in Int /\ c - 1 + 1 = c /\ (1 <= c \/ c = 0)
    BY <1>3
  <2>3. Len(SubSeq(file, 1, c)) = IF 1 <= c THEN c - 1 + 1 ELSE 0
    BY ONLY <2>1, <2>2, 1 \in Int, SubSeqProperties
  <2> QED
    BY <1>3, <2>2, <2>3
<1> HIDE DEF infile
<1>5. PICK f : TurnsTo(f, infile, degrees, c) /\ load_from_binary(infile, degrees) = f[c]
  BY <1>4, LoadsInTurns
<1>6. /\ f[0] = Reader(TRUE, 0, <<>>)
      /\ \A k \in 1 .. c : f[k] = ReadOne(infile, degrees, f[k - 1])
  BY <1>4, <1>5, SMTT(30) DEF TurnsTo
<1> DEFINE T == {n \in Nat : n <= c => Progress(f[n], n, c, e, patches, size)}
<1>7. 0 \in T
  <2>1. FirstCut(patches, size, 0) = <<>>
    BY DEF FirstCut
  <2>2. e[0] <= c /\ 0 \in 0 .. N
    BY <1>1, <1>3, <1>4
  <2>4. f[0] = Reader(TRUE, e[0], FirstCut(patches, size, 0))
    BY ONLY <1>3, <1>6, <2>1
  <2>3. Progress(f[0], 0, c, e, patches, size)
    BY ONLY <2>2, <2>4 DEF Progress
  <2> QED
    BY <2>3
<1>8. ASSUME NEW n \in Nat, n \in T PROVE n + 1 \in T
  <2>1. SUFFICES ASSUME n + 1 <= c PROVE Progress(f[n + 1], n + 1, c, e, patches, size)
    OBVIOUS
  <2>2. Progress(f[n], n, c, e, patches, size) /\ n + 1 \in 1 .. c /\ (n + 1) - 1 = n
    BY <1>4, <1>8, <2>1
  <2>3. infile = SubSeq(file, 1, c)
    BY DEF infile
  <2>4. Progress(ReadOne(infile, degrees, f[n]), n + 1, c, e, patches, size)
    BY <1>2, <2>2, <2>3, ProgressKept
  <2> QED
    BY <1>6, <2>2, <2>4
<1>9. c \in T
  <2>1. Nat \subseteq T
    <3> HIDE DEF T
    <3> QED
      BY <1>7, <1>8, EveryNatural
  <2> QED
    BY <1>4, <2>1
<1>10. PICK j \in 0 .. N :
         /\ e[j] <= c
         /\ \/ f[c] = Reader(TRUE, e[j], FirstCut(patches, size, j)) /\ (j = c \/ e[j] = c)
            \/ f[c] = Reader(FALSE, e[j], FirstCut(patches, size, j)) /\ c < e[N]
  <2>1. Progress(f[c], c, c, e, patches, size)
    BY <1>4, <1>9
  <2> QED
    BY ONLY <2>1 DEF Progress
<1>11. f[c].patches = FirstCut(patches, size, j)
  BY <1>10 DEF Reader
<1>12. ASSUME c = Len(file) PROVE f[c].ok /\ j = N
  <2>1. f[c] = Reader(TRUE, e[j], FirstCut(patches, size, j)) /\ (j = c \/ e[j] = c)
    <3>1. ~(c < e[N])
      BY <1>3, <1>4, <1>12
    <3> QED
      BY ONLY <1>10, <3>1
  <2>2. e[j] = c
    <3>1. e[j] <= c /\ e[j] \in Nat /\ j <= e[j] /\ j \in Nat
      BY <1>1, <1>3, <1>10
    <3> QED
      BY ONLY <1>4, <2>1, <3>1
  <2>3. j = N
    <3>1. ~(e[j] < Len(file)) /\ (j < N => e[j] < Len(file))
      BY <1>3, <1>12, <2>2
    <3> QED
      BY <1>1, <3>1
  <2> QED
    BY <2>1, <2>3 DEF Reader
<1>13. ReadsAs(f[c], patches, size, c = Len(file))
  BY <1>11, <1>12 DEF ReadsAs
<1> QED
  BY <1>5, <1>13 DEF infile

-----------------------------------------------------------------------------
(* The two files                                                           *)

AllSizes(patches) == [k \in DOMAIN patches |-> Len(patches[k].sph_coeff)]
SavedSizes(patches, n) == [k \in DOMAIN patches |-> SavedSize(patches[k], n)]

LEMMA PatchSizes ==
    ASSUME NEW p \in Patches
    PROVE  /\ p.is_ground \in BOOLEAN /\ p.sph_coeff \in Seq(Known)
           /\ DegreeOf(p.is_ground, Configured) \in Nat
           /\ Len(p.sph_coeff) = SizeOf(DegreeOf(p.is_ground, Configured))
           /\ Len(p.sph_coeff) \in Nat \ {0}
           /\ p = [is_ground |-> p.is_ground, T_w_obj |-> p.T_w_obj,
                   sph_coeff |-> p.sph_coeff, mask |-> p.mask]
           /\ p \in [is_ground : BOOLEAN, T_w_obj : Poses, sph_coeff : Seq(Known),
                     mask : SUBSET (0 .. ImageSize - 1)]
<1>1. /\ p.is_ground \in BOOLEAN /\ p.sph_coeff \in Seq(Known)
      /\ Len(p.sph_coeff) = SizeOf(DegreeOf(p.is_ground, Configured))
      /\ p \in [is_ground : BOOLEAN, T_w_obj : Poses, sph_coeff : Seq(Known),
                mask : SUBSET (0 .. ImageSize - 1)]
  BY DEF Patches
<1>2. DegreeOf(p.is_ground, Configured) \in Nat
  BY <1>1, DegreeTypes
<1>3. SizeOf(DegreeOf(p.is_ground, Configured)) \in Nat \ {0}
  BY <1>2, SizeGrows
<1> QED
  BY <1>1, <1>2, <1>3

\* The writer of the map and the reader agree on the coefficients of a patch.
LEMMA MapFits ==
    ASSUME NEW patches \in Seq(Patches)
    PROVE  /\ Fits(patches, AllSizes(patches), Configured)
           /\ curl_map(patches) = FlattenSeq(Pieces(patches, AllSizes(patches)))
<1>1. DOMAIN patches = 1 .. Len(patches) /\ \A k \in 1 .. Len(patches) : patches[k] \in Patches
  BY LenProperties, ElementOfSeq
<1>2. \A k \in 1 .. Len(patches) : AllSizes(patches)[k] = Len(patches[k].sph_coeff)
  BY <1>1 DEF AllSizes
<1>3. ASSUME NEW k \in 1 .. Len(patches)
      PROVE  /\ AllSizes(patches)[k] \in 1 .. Len(patches[k].sph_coeff)
             /\ AllSizes(patches)[k] = SizeOf(DegreeOf(patches[k].is_ground, Configured))
  <2>1. /\ Len(patches[k].sph_coeff) = SizeOf(DegreeOf(patches[k].is_ground, Configured))
        /\ Len(patches[k].sph_coeff) \in Nat \ {0}
    BY <1>1, PatchSizes
  <2> QED
    BY <1>2, <2>1
<1>4. Pieces(patches, AllSizes(patches)) =
        [i \in DOMAIN patches |-> Written(patches[i], Len(patches[i].sph_coeff))]
  BY <1>1, <1>2 DEF Pieces
<1> QED
  BY <1>3, <1>4 DEF Fits, curl_map

\* A reader of the lower degrees expects what save_curlmap leaves of a patch.
LEMMA SavedSizeFits ==
    ASSUME NEW p \in Patches, NEW n \in Nat
    PROVE  /\ SavedSize(p, n) \in 1 .. Len(p.sph_coeff)
           /\ SavedSize(p, n) = SizeOf(DegreeOf(p.is_ground, Lowered(n)))
           /\ SavedSize(p, n) = LowerOf(Len(p.sph_coeff), SizeOf(n))
<1> DEFINE d == DegreeOf(p.is_ground, Configured)
<1>1. /\ p.is_ground \in BOOLEAN /\ d \in Nat /\ Len(p.sph_coeff) = SizeOf(d)
      /\ Len(p.sph_coeff) \in Nat \ {0}
  BY PatchSizes
<1>2. DegreeOf(p.is_ground, Lowered(n)) = IF d < n THEN d ELSE n
  <2>1. DegreeOf(p.is_ground, Lowered(n)) = LowerOf(d, n)
    BY <1>1, DegreeTypes
  <2> QED
    BY <2>1 DEF LowerOf
<1>3. SavedSize(p, n) = IF n > d THEN SizeOf(d) ELSE SizeOf(n)
  BY <1>1 DEF SavedSize
<1>4. LowerOf(Len(p.sph_coeff), SizeOf(n)) = IF SizeOf(d) < SizeOf(n) THEN SizeOf(d) ELSE SizeOf(n)
  BY <1>1 DEF LowerOf
<1> HIDE DEF d
<1>5. /\ SizeOf(d) \in Nat \ {0} /\ SizeOf(n) \in Nat \ {0}
      /\ d <= n => SizeOf(d) <= SizeOf(n)
      /\ n <= d => SizeOf(n) <= SizeOf(d)
  BY <1>1, SizeGrows
<1>6. CASE n > d
  BY <1>1, <1>2, <1>3, <1>4, <1>5, <1>6
<1>7. CASE n <= d
  BY <1>1, <1>2, <1>3, <1>4, <1>5, <1>7
<1> QED
  BY <1>1, <1>6, <1>7

LEMMA ReducedFits ==
    ASSUME NEW patches \in Seq(Patches), NEW n \in Nat
    PROVE  /\ Fits(patches, SavedSizes(patches, n), Lowered(n))
           /\ save_curlmap(patches, n) = FlattenSeq(Pieces(patches, SavedSizes(patches, n)))
<1>1. DOMAIN patches = 1 .. Len(patches) /\ \A k \in 1 .. Len(patches) : patches[k] \in Patches
  BY LenProperties, ElementOfSeq
<1>2. \A k \in 1 .. Len(patches) : SavedSizes(patches, n)[k] = SavedSize(patches[k], n)
  BY <1>1 DEF SavedSizes
<1>3. ASSUME NEW k \in 1 .. Len(patches)
      PROVE  /\ SavedSizes(patches, n)[k] \in 1 .. Len(patches[k].sph_coeff)
             /\ SavedSizes(patches, n)[k] = SizeOf(DegreeOf(patches[k].is_ground, Lowered(n)))
  BY <1>1, <1>2, SavedSizeFits
<1>4. Pieces(patches, SavedSizes(patches, n)) =
        [i \in DOMAIN patches |-> Written(patches[i], SavedSize(patches[i], n))]
  BY <1>1, <1>2 DEF Pieces
<1> QED
  BY <1>3, <1>4 DEF Fits, save_curlmap

\* What is cut from a patch.
LEMMA CutTruncates ==
    ASSUME NEW p \in Patches, NEW n \in Nat
    PROVE  Cut(p, SavedSize(p, n)) = Truncated(p, n)
<1> DEFINE c == SubSeq(p.sph_coeff, 1, SavedSize(p, n))
           q == [p EXCEPT !.sph_coeff = c]
<1>1. /\ p \in [is_ground : BOOLEAN, T_w_obj : Poses, sph_coeff : Seq(Known),
                mask : SUBSET (0 .. ImageSize - 1)]
      /\ p.sph_coeff \in Seq(Known) /\ Len(p.sph_coeff) \in Nat
      /\ SavedSize(p, n) \in 1 .. Len(p.sph_coeff)
      /\ SavedSize(p, n) = LowerOf(Len(p.sph_coeff), SizeOf(n))
  BY PatchSizes, SavedSizeFits
<1>2. c \in Seq(Known)
  <2>1. \A i \in 1 .. SavedSize(p, n) : p.sph_coeff[i] \in Known
    BY <1>1, ElementOfSeq
  <2> QED
    BY <1>1, <2>1, SubSeqProperties
<1>3. Truncated(p, n) = q
  BY <1>1 DEF Truncated
<1>4. q = [p EXCEPT !.sph_coeff = c]
  OBVIOUS
<1>5. Cut(p, SavedSize(p, n)) =
        [is_ground |-> p.is_ground, T_w_obj |-> p.T_w_obj, sph_coeff |-> c, mask |-> p.mask]
  BY DEF Cut
<1> HIDE DEF c, q
<1>6. q = [is_ground |-> p.is_ground, T_w_obj |-> p.T_w_obj, sph_coeff |-> c, mask |-> p.mask]
  BY ONLY <1>1, <1>2, <1>4
<1> QED
  BY ONLY <1>3, <1>5, <1>6

LEMMA CutNothing ==
    ASSUME NEW p \in Patches
    PROVE  Cut(p, Len(p.sph_coeff)) = p
<1>1. SubSeq(p.sph_coeff, 1, Len(p.sph_coeff)) = p.sph_coeff
  BY PatchSizes, SubSeqFull
<1> QED
  BY <1>1, PatchSizes DEF Cut

-----------------------------------------------------------------------------
(* The invariant of the two processes                                      *)

\* The first n patches of a map.
First(patches, n) == [k \in 1 .. n |-> patches[k]]

\* While the map is made there is no file; afterwards the file holds a beginning of
\* the map, and the reader whole patches of it.
FileKept ==
  /\ rpc \in {"none", "written", "show", "ended"}
  /\ IF rpc = "none" THEN saved = <<>> ELSE saved \in Seq(Patches) /\ Len(saved) = 2
  /\ rpc = "written" => \E n \in 0 .. Len(curl_map(saved)) : map_file = SubSeq(curl_map(saved), 1, n)
  /\ IF rpc \in {"none", "written"} THEN simple_patches = <<>>
     ELSE \E n \in 0 .. 2 : /\ simple_patches = First(saved, n)
                            /\ map_file = curl_map(saved) => rpc = "show" /\ n = 2

ReaderKept ==
  /\ config \in Configs /\ current \in Configs /\ saved_curlmap_flag \in BOOLEAN
  /\ DOMAIN reduced = Degrees
  /\ \A n \in Degrees : reduced[n] # <<>> =>
       rpc = "show" /\ reduced[n] = save_curlmap(simple_patches, n)

FileInvariant == Invariant /\ FileKept /\ ReaderKept

LEMMA FirstTyped ==
    ASSUME NEW S, NEW s \in Seq(S), NEW n \in 0 .. Len(s)
    PROVE  First(s, n) \in Seq(S) /\ Len(First(s, n)) = n /\ DOMAIN First(s, n) = 1 .. n
<1>1. \A k \in 1 .. Len(s) : s[k] \in S
  BY ElementOfSeq
<1>2. Len(s) \in Nat
  BY LenProperties
<1>3. First(s, n) \in [1 .. n -> S]
  BY <1>1, <1>2 DEF First
<1> QED
  BY <1>2, <1>3

\* What the node reads from the map.
LEMMA LoadsMap ==
    ASSUME NEW patches \in Seq(Patches), NEW c \in 0 .. Len(curl_map(patches)),
           NEW r, r = load_from_binary(SubSeq(curl_map(patches), 1, c), Configured)
    PROVE  \E n \in 0 .. Len(patches) :
             /\ r.patches = First(patches, n)
             /\ c = Len(curl_map(patches)) => r.ok /\ n = Len(patches)
<1> DEFINE size == AllSizes(patches)
           file == curl_map(patches)
<1>1. Fits(patches, size, Configured) /\ file = FlattenSeq(Pieces(patches, size))
  BY MapFits
<1> HIDE DEF size, file
<1>2. ReadsAs(load_from_binary(SubSeq(file, 1, c), Configured), patches, size, c = Len(file))
  <2>1. c \in 0 .. Len(file)
    BY DEF file
  <2> QED
    BY ONLY <1>1, <2>1, ReadsFile
<1>3. ReadsAs(r, patches, size, c = Len(file))
  BY <1>2 DEF file
<1>4. PICK n \in 0 .. Len(patches) :
        r.patches = FirstCut(patches, size, n) /\ (c = Len(file) => r.ok /\ n = Len(patches))
  BY <1>3 DEF ReadsAs
<1>5. FirstCut(patches, size, n) = First(patches, n)
  <2>1. \A k \in 1 .. n : Cut(patches[k], size[k]) = patches[k]
    <3>1. TAKE k \in 1 .. n
    <3>2. k \in 1 .. Len(patches) /\ DOMAIN patches = 1 .. Len(patches)
      BY LenProperties
    <3>3. patches[k] \in Patches
      BY <3>2, ElementOfSeq
    <3>4. size[k] = Len(patches[k].sph_coeff)
      BY <3>2 DEF size, AllSizes
    <3>5. Cut(patches[k], Len(patches[k].sph_coeff)) = patches[k]
      BY <3>3, CutNothing
    <3> QED
      BY <3>4, <3>5
  <2> QED
    BY <2>1 DEF FirstCut, First
<1> QED
  BY <1>4, <1>5 DEF file

\* What a node configured with lower degrees reads from a reduced map.
LEMMA LoadsReduced ==
    ASSUME NEW patches \in Seq(Patches), NEW n \in Nat,
           NEW r, r = load_from_binary(save_curlmap(patches, n), Lowered(n))
    PROVE  r.ok /\ r.patches = [k \in DOMAIN patches |-> Truncated(patches[k], n)]
<1> DEFINE size == SavedSizes(patches, n)
           file == save_curlmap(patches, n)
<1>1. Fits(patches, size, Lowered(n)) /\ file = FlattenSeq(Pieces(patches, size))
  BY ReducedFits
<1>2. DOMAIN patches = 1 .. Len(patches) /\ Len(patches) \in Nat
  BY LenProperties
<1>3. \A k \in 1 .. Len(patches) : size[k] = SavedSize(patches[k], n)
  BY <1>2 DEF SavedSizes
<1> HIDE DEF size, file
<1>4. file \in Seq(Value)
  <2>1. \E e : Layout(file, Pieces(patches, size), e, Len(patches))
    <3>1. /\ Pieces(patches, size) \in Seq(Seq(Value)) /\ Len(Pieces(patches, size)) = Len(patches)
          /\ \A k \in 1 .. Len(patches) : Len(Pieces(patches, size)[k]) > 0
      BY <1>1, PiecesTyped
    <3>2. \E e : Layout(FlattenSeq(Pieces(patches, size)), Pieces(patches, size), e,
                        Len(Pieces(patches, size)))
      BY <3>1, Layouts
    <3> QED
      BY <1>1, <3>1, <3>2
  <2> QED
    BY <2>1 DEF Layout
<1>5. SubSeq(file, 1, Len(file)) = file /\ Len(file) \in 0 .. Len(file)
  BY <1>4, SubSeqFull, LenProperties
<1>6. ReadsAs(load_from_binary(SubSeq(file, 1, Len(file)), Lowered(n)), patches, size,
              Len(file) = Len(file))
  BY ONLY <1>1, <1>5, ReadsFile
<1>7. ReadsAs(r, patches, size, TRUE)
  BY <1>5, <1>6 DEF file
<1>8. r.ok /\ r.patches = FirstCut(patches, size, Len(patches))
  BY <1>7 DEF ReadsAs
<1>9. FirstCut(patches, size, Len(patches)) = [k \in DOMAIN patches |-> Truncated(patches[k], n)]
  <2>1. \A k \in 1 .. Len(patches) : Cut(patches[k], size[k]) = Truncated(patches[k], n)
    <3>1. TAKE k \in 1 .. Len(patches)
    <3>2. patches[k] \in Patches
      BY ElementOfSeq
    <3> QED
      BY <1>3, <3>2, CutTruncates
  <2> QED
    BY <1>2, <2>1 DEF FirstCut
<1> QED
  BY <1>8, <1>9

LEMMA CurlMapTyped ==
    ASSUME NEW patches \in Seq(Patches)
    PROVE  curl_map(patches) \in Seq(Value)
<1> DEFINE w == Pieces(patches, AllSizes(patches))
<1>1. Fits(patches, AllSizes(patches), Configured) /\ curl_map(patches) = FlattenSeq(w)
  BY MapFits
<1> HIDE DEF w
<1>2. w \in Seq(Seq(Value)) /\ \A k \in 1 .. Len(w) : Len(w[k]) > 0
  BY <1>1, PiecesTyped DEF w
<1>3. \E e : Layout(FlattenSeq(w), w, e, Len(w))
  BY <1>2, Layouts
<1> QED
  BY <1>1, <1>3 DEF Layout

\* The patches that log() finds have all their coefficients.
LEMMA PatchesSaved ==
    ASSUME TypeOK, NEW patches \in SavedPatches
    PROVE  patches \in Seq(Patches) /\ Len(patches) = 2
<1>1. /\ isGround \in BOOLEAN /\ plane \in Planes /\ coefficients \in Coefficients
      /\ MaxScans \in Nat \ {0}
  BY SurfaceAssumption DEF TypeOK
<1>2. FirstCoefficients \in Coefficients
  <2>1. FirstCount \in Counts
    BY <1>1 DEF FirstCount, Counts, Scans
  <2> QED
    BY <2>1 DEF FirstCoefficients, Coefficients, Planes
<1>3. ASSUME NEW g \in BOOLEAN, NEW of \in Coefficients, NEW n \in Nat \ {0}
      PROVE  [i \in 1 .. n |-> Coefficient(of, i)] \in Seq(Known)
             /\ Len([i \in 1 .. n |-> Coefficient(of, i)]) = n
  <2>1. \A i \in 1 .. n : Coefficient(of, i) \in Known
    BY DEF Known
  <2>2. [i \in 1 .. n |-> Coefficient(of, i)] \in [1 .. n -> Known]
    BY <2>1
  <2> QED
    BY <2>2
<1>4. SurfacePatch \in Patches
  <2> DEFINE n == SizeOf(DegreeOf(isGround, Configured))
             c == [i \in 1 .. n |-> Coefficient(coefficients, i)]
             m == {CellOf(s) : s \in Mask}
  <2>1. n \in Nat \ {0}
    <3>1. DegreeOf(isGround, Configured) \in Nat
      BY <1>1, DegreeTypes
    <3> QED
      BY <3>1, SizeGrows
  <2> HIDE DEF n
  <2>2. c \in Seq(Known) /\ Len(c) = n
    BY <1>1, <1>3, <2>1
  <2>3. m \subseteq 0 .. ImageSize - 1
    <3>1. 2 * MaxScans - 1 <= ImageSize /\ ImageSize \in Nat
      BY FileAssumption, Sizes DEF ImageSize
    <3>2. ASSUME NEW s \in Mask PROVE CellOf(s) \in 0 .. ImageSize - 1
      <4>1. s \in 1 .. MaxScans
        BY DEF Mask, Scans
      <4> QED
        BY <1>1, <3>1, <4>1 DEF CellOf
    <3> QED
      BY <3>2
  <2>4. <<"pose", plane>> \in Poses
    BY <1>1 DEF Poses, Planes
  <2>5. SurfacePatch = [is_ground |-> isGround, T_w_obj |-> <<"pose", plane>>,
                        sph_coeff |-> c, mask |-> m]
    BY DEF SurfacePatch, n
  <2> HIDE DEF c, m
  <2> QED
    BY <1>1, <2>2, <2>3, <2>4, <2>5 DEF Patches, n
<1>5. GroundPatch \in Patches
  <2> DEFINE n == SizeOf(GroundDegree)
             c == [i \in 1 .. n |-> Coefficient(FirstCoefficients, i)]
             m == {ImageSize - 1}
  <2>1. n \in Nat \ {0} /\ DegreeOf(TRUE, Configured) = GroundDegree
    <3>1. GroundDegree \in Nat
      BY FileAssumption
    <3> QED
      BY <3>1, SizeGrows DEF DegreeOf, Configured
  <2> HIDE DEF n
  <2>2. c \in Seq(Known) /\ Len(c) = n
    BY <1>2, <1>3, <2>1
  <2>3. m \subseteq 0 .. ImageSize - 1
    BY Sizes
  <2>4. <<"pose", 2>> \in Poses
    BY DEF Poses
  <2>5. GroundPatch = [is_ground |-> TRUE, T_w_obj |-> <<"pose", 2>>, sph_coeff |-> c, mask |-> m]
    BY DEF GroundPatch, n
  <2> HIDE DEF c, m
  <2> QED
    BY <2>1, <2>2, <2>3, <2>4, <2>5 DEF Patches, n
<1>6. patches = <<SurfacePatch, GroundPatch>> \/ patches = <<GroundPatch, SurfacePatch>>
  BY DEF SavedPatches
<1>7. ASSUME NEW a \in Patches, NEW b \in Patches
      PROVE  <<a, b>> \in Seq(Patches) /\ Len(<<a, b>>) = 2
  OBVIOUS
<1> QED
  BY ONLY <1>4, <1>5, <1>6, <1>7

\* What is left of the patch when its process has ended.
LEMMA ReleasedKeeps ==
    ASSUME Released
    PROVE  Invariant'
<1>1. /\ lowRAM' = TRUE /\ isGround' = FALSE /\ publishing' = FALSE
      /\ plane' = 0 /\ points' = 1 /\ initial' = <<1>> /\ outside' = {} /\ scan' = 1
      /\ sums' = FirstCount /\ sumsPlane' = 0
      /\ steps' = 0 /\ times' = 0 /\ initializing' = TRUE
      /\ coefficients' = FirstCoefficients /\ image' = Nothing /\ rows' = Nothing
      /\ dirty' = TRUE /\ adjusted' = NoCoefficients
      /\ tpc' = "idle" /\ changed' = FALSE /\ moving' = FALSE
      /\ wpc' = "idle" /\ adjustments' = 0 /\ stopped' = TRUE
  BY DEF Released
<1>2. 1 \in Scans /\ 1 \in 1 .. MaxScans /\ MaxScans \in Nat /\ Scans \subseteq Nat \ {0}
  BY SurfaceAssumption DEF Scans
<1>3. FirstCount \in Counts /\ FirstCount[1] = 1
      /\ \A s \in Scans : FirstCount[s] = IF s > 1 THEN 0 ELSE 1
  BY <1>2 DEF FirstCount, Counts
<1>4. FirstCoefficients \in Coefficients /\ NoCoefficients \in Coefficients /\ Nothing \in Shown
      /\ FirstCoefficients.count = FirstCount /\ FirstCoefficients.plane = 0
  BY <1>3 DEF FirstCoefficients, NoCoefficients, Coefficients, Planes, Counts, Nothing, Shown
<1>5. <<1>> = UpTo(1)
  BY DEF UpTo
<1>6. TypeOK'
  <2>1. <<1>> \in Seq(Scans) /\ Len(<<1>>) <= MaxScans
    BY <1>2
  <2>2. /\ 1 \in -1 .. MaxScans /\ 0 \in 0 .. UpdateSteps /\ 0 \in 0 .. MaxScans + 1
        /\ 0 \in 0 .. MaxAdjustments /\ 0 \in Planes
    BY <1>2, SurfaceAssumption DEF Planes
  <2> QED
    BY <1>1, <1>2, <1>3, <1>4, <2>1, <2>2 DEF TypeOK
<1>7. PlaneFixed'
  BY <1>1, <1>5 DEF PlaneFixed, Waiting
<1>8. (SumsWhole /\ TimesCounted)'
  BY <1>1, <1>3 DEF SumsWhole, TimesCounted, Waiting, AddedOnce
<1>9. Follows'
  <2>1. Behind' = {}
    BY <1>1, <1>4 DEF Behind
  <2>2. Cardinality(Behind') = 0
    BY <2>1, FS_EmptySet
  <2> QED
    BY <1>1, <1>3, <1>4, <2>2 DEF Follows
<1>10. ViewsFollow'
  BY <1>1 DEF ViewsFollow, Steady, Waiting
<1> QED
  BY <1>6, <1>7, <1>8, <1>9, <1>10 DEF Invariant

LEMMA FileAtFirst == FileInit => FileInvariant
<1> SUFFICES ASSUME FileInit PROVE FileInvariant
  OBVIOUS
<1>1. /\ Init /\ rpc = "none" /\ saved = <<>> /\ simple_patches = <<>>
      /\ config = [SH_degree |-> MaxDegree, is_save_curlmap |-> FALSE] /\ current = config
      /\ saved_curlmap_flag = FALSE /\ reduced = [n \in Degrees |-> <<>>]
  BY DEF FileInit
<1>2. Invariant
  BY <1>1, AtFirst
<1>3. FileKept
  BY <1>1 DEF FileKept
<1>4. MaxDegree \in Degrees
  BY FileAssumption DEF Degrees
<1>5. ReaderKept
  BY <1>1, <1>4 DEF ReaderKept, Configs
<1> QED
  BY <1>2, <1>3, <1>5 DEF FileInvariant

LEMMA LogKeeps ==
    ASSUME FileInvariant, Log
    PROVE  FileInvariant'
<1>1. /\ rpc = "none" /\ rpc' = "written" /\ saved' \in SavedPatches /\ Released
      /\ UNCHANGED <<simple_patches, config, current, saved_curlmap_flag, reduced>>
      /\ \E n \in 0 .. Len(curl_map(saved')) : map_file' = SubSeq(curl_map(saved'), 1, n)
  BY DEF Log, readerVars
<1>2. Invariant'
  BY <1>1, ReleasedKeeps
<1>3. saved' \in Seq(Patches) /\ Len(saved') = 2
  BY <1>1, PatchesSaved DEF FileInvariant, Invariant
<1>4. simple_patches = <<>> /\ \A n \in Degrees : reduced[n] = <<>>
  BY <1>1 DEF FileInvariant, FileKept, ReaderKept
<1>5. FileKept'
  BY <1>1, <1>3, <1>4 DEF FileKept
<1>6. ReaderKept'
  BY <1>1, <1>4 DEF FileInvariant, ReaderKept
<1> QED
  BY <1>2, <1>5, <1>6 DEF FileInvariant

LEMMA LoadKeeps ==
    ASSUME FileInvariant, Load
    PROVE  FileInvariant'
<1> DEFINE r == load_from_binary(map_file, Configured)
<1>1. /\ rpc = "written" /\ UNCHANGED <<vars, saved, map_file, reduced>>
      /\ simple_patches' = r.patches /\ rpc' = IF r.ok THEN "show" ELSE "ended"
      /\ config' \in Configs /\ current' = config' /\ saved_curlmap_flag' = FALSE
  BY DEF Load
<1>2. Invariant'
  BY <1>1, InvariantKept DEF FileInvariant
<1>3. /\ saved \in Seq(Patches) /\ Len(saved) = 2
      /\ \E n \in 0 .. Len(curl_map(saved)) : map_file = SubSeq(curl_map(saved), 1, n)
  BY <1>1 DEF FileInvariant, FileKept
<1>4. PICK c \in 0 .. Len(curl_map(saved)) : map_file = SubSeq(curl_map(saved), 1, c)
  BY <1>3
<1>5. PICK n \in 0 .. Len(saved) :
        r.patches = First(saved, n) /\ (c = Len(curl_map(saved)) => r.ok /\ n = Len(saved))
  <2>1. r = load_from_binary(SubSeq(curl_map(saved), 1, c), Configured)
    BY <1>4
  <2> HIDE DEF r
  <2> QED
    BY <1>3, <2>1, LoadsMap
<1>6. map_file = curl_map(saved) => c = Len(curl_map(saved))
  <2>1. curl_map(saved) \in Seq(Value) /\ Len(curl_map(saved)) \in Nat
    BY <1>3, CurlMapTyped, LenProperties
  <2>2. \A i \in 1 .. c : curl_map(saved)[i] \in Value
    BY <2>1, ElementOfSeq
  <2>3. c \in Int /\ c - 1 + 1 = c /\ (1 <= c \/ c = 0)
    BY <2>1
  <2>4. Len(SubSeq(curl_map(saved), 1, c)) = IF 1 <= c THEN c - 1 + 1 ELSE 0
    BY ONLY <2>2, <2>3, 1 \in Int, SubSeqProperties
  <2> QED
    BY <1>4, <2>3, <2>4
<1> HIDE DEF r
<1>7. /\ n \in 0 .. 2 /\ simple_patches' = First(saved, n)
      /\ map_file = curl_map(saved) => rpc' = "show" /\ n = 2
  BY <1>1, <1>3, <1>5, <1>6
<1>8. FileKept'
  <2>1. saved' = saved /\ map_file' = map_file /\ rpc' \in {"show", "ended"}
    BY <1>1
  <2>2. \E i \in 0 .. 2 : /\ simple_patches' = First(saved', i)
                          /\ map_file' = curl_map(saved') => rpc' = "show" /\ i = 2
    BY <1>7, <2>1
  <2> QED
    BY <1>3, <2>1, <2>2 DEF FileKept
<1>9. ReaderKept'
  BY <1>1 DEF FileInvariant, ReaderKept
<1> QED
  BY <1>2, <1>8, <1>9 DEF FileInvariant

LEMMA ReconstructKeeps ==
    ASSUME FileInvariant, Reconstruct
    PROVE  FileInvariant'
<1>1. /\ UNCHANGED <<vars, rpc, saved, map_file, simple_patches, config, reduced>>
      /\ current' = config /\ saved_curlmap_flag' = FALSE
  BY DEF Reconstruct
<1>2. Invariant'
  BY <1>1, InvariantKept DEF FileInvariant
<1>3. FileKept'
  BY <1>1 DEF FileInvariant, FileKept
<1>4. ReaderKept'
  BY <1>1 DEF FileInvariant, ReaderKept
<1> QED
  BY <1>2, <1>3, <1>4 DEF FileInvariant

LEMMA TurnKeeps ==
    ASSUME FileInvariant, Turn
    PROVE  FileInvariant'
<1>1. /\ UNCHANGED <<vars, rpc, saved, map_file, simple_patches, current>>
      /\ rpc = "show" /\ current.SH_degree = config.SH_degree /\ config' \in Configs
      /\ \/ /\ reduced' = [reduced EXCEPT ![config.SH_degree] =
                             save_curlmap(simple_patches, current.SH_degree)]
            /\ saved_curlmap_flag' = TRUE
         \/ UNCHANGED <<reduced, saved_curlmap_flag>>
  BY DEF Turn, Reconfigured
<1>2. Invariant'
  BY <1>1, InvariantKept DEF FileInvariant
<1>3. FileKept'
  BY <1>1 DEF FileInvariant, FileKept
<1>4. ReaderKept'
  <2>1. CASE UNCHANGED <<reduced, saved_curlmap_flag>>
    BY <1>1, <2>1 DEF FileInvariant, ReaderKept
  <2>2. CASE /\ reduced' = [reduced EXCEPT ![config.SH_degree] =
                              save_curlmap(simple_patches, current.SH_degree)]
             /\ saved_curlmap_flag' = TRUE
    <3> DEFINE d == config.SH_degree
               s == save_curlmap(simple_patches, d)
    <3>1. reduced' = [reduced EXCEPT ![d] = s] /\ DOMAIN reduced = Degrees
      BY <1>1, <2>2 DEF FileInvariant, ReaderKept
    <3>2. \A n \in Degrees : reduced'[n] # <<>> => reduced'[n] = save_curlmap(simple_patches, n)
      BY <3>1 DEF FileInvariant, ReaderKept
    <3>3. DOMAIN reduced' = Degrees
      BY <3>1
    <3> QED
      BY <1>1, <2>2, <3>2, <3>3 DEF FileInvariant, ReaderKept
  <2> QED
    BY <1>1, <2>1, <2>2
<1> QED
  BY <1>2, <1>3, <1>4 DEF FileInvariant

LEMMA FileInvariantHolds == FileSpec => []FileInvariant
<1>1. FileInvariant /\ [FileNext]_<<vars, fileVars>> => FileInvariant'
  <2> SUFFICES ASSUME FileInvariant, [FileNext]_<<vars, fileVars>> PROVE FileInvariant'
    OBVIOUS
  <2>1. CASE rpc = "none" /\ Next /\ UNCHANGED fileVars
    <3>1. Invariant'
      BY <2>1, InvariantKept DEF FileInvariant
    <3>2. UNCHANGED <<rpc, saved, map_file, simple_patches, config, current, saved_curlmap_flag,
                      reduced>>
      BY <2>1 DEF fileVars, readerVars
    <3>3. FileKept' /\ ReaderKept'
      BY <3>2 DEF FileInvariant, FileKept, ReaderKept
    <3> QED
      BY <3>1, <3>3 DEF FileInvariant
  <2>2. CASE UNCHANGED <<vars, fileVars>>
    <3>1. Invariant'
      BY <2>2, InvariantKept DEF FileInvariant
    <3>2. UNCHANGED <<rpc, saved, map_file, simple_patches, config, current, saved_curlmap_flag,
                      reduced>>
      BY <2>2 DEF fileVars, readerVars
    <3>3. FileKept' /\ ReaderKept'
      BY <3>2 DEF FileInvariant, FileKept, ReaderKept
    <3> QED
      BY <3>1, <3>3 DEF FileInvariant
  <2> QED
    BY <2>1, <2>2, LogKeeps, LoadKeeps, ReconstructKeeps, TurnKeeps DEF FileNext
<1> QED
  BY <1>1, FileAtFirst, PTL DEF FileSpec

-----------------------------------------------------------------------------
(* The theorems                                                            *)

\* The patch's variables and those of the reader always have their types, after the
\* end of the process that made the map too; no reader has more patches than were saved.
THEOREM FileTypeCorrect == FileSpec => []FileTypeOK
<1>1. FileInvariant => FileTypeOK
  <2> SUFFICES ASSUME FileInvariant PROVE FileTypeOK
    OBVIOUS
  <2>1. TypeOK
    BY DEF FileInvariant, Invariant
  <2>2. Len(saved) \in 0 .. 2
    BY DEF FileInvariant, FileKept
  <2>3. Len(simple_patches) \in 0 .. 2
    <3>1. CASE rpc \in {"none", "written"}
      BY <3>1 DEF FileInvariant, FileKept
    <3>2. CASE rpc \notin {"none", "written"}
      <4>1. PICK n \in 0 .. 2 : simple_patches = First(saved, n)
        BY <3>2 DEF FileInvariant, FileKept
      <4>2. saved \in Seq(Patches) /\ n \in 0 .. Len(saved)
        BY <3>2 DEF FileInvariant, FileKept
      <4> QED
        BY <4>1, <4>2, FirstTyped
    <3> QED
      BY <3>1, <3>2
  <2> QED
    BY <2>1, <2>2, <2>3 DEF FileInvariant, FileKept, ReaderKept, FileTypeOK
<1> QED
  BY <1>1, FileInvariantHolds, PTL

\* The accounting of scans and the coherence of the marker rows hold of the patch in
\* the program that also writes the map when it ends.
THEOREM ScansStayAccountedToTheEnd == FileSpec => []ScansAccounted
<1>1. FileInvariant => ScansAccounted
  BY InvariantAccounts DEF FileInvariant
<1> QED
  BY <1>1, FileInvariantHolds, PTL

THEOREM CacheStaysCoherentToTheEnd == FileSpec => []CacheCoherent
<1>1. FileInvariant => CacheCoherent
  BY InvariantCoheres DEF FileInvariant
<1> QED
  BY <1>1, FileInvariantHolds, PTL

\* However early the file of the map ends, a node that goes on to show it shows whole
\* patches that log() wrote, from the first one on, and all of them if the file is whole;
\* a reduced map is read back with each patch's coefficients up to the lower degree.
THEOREM MapReadsBack == FileSpec => []ReadsBack
<1>1. FileInvariant => ReadsBack
  <2> SUFFICES ASSUME FileInvariant, rpc = "show" PROVE
        /\ IsPrefix(simple_patches, saved)
        /\ map_file = curl_map(saved) => simple_patches = saved
        /\ \A n \in Degrees :
             reduced[n] # <<>> =>
               LET r == load_from_binary(reduced[n], Lowered(n))
               IN /\ r.ok
                  /\ r.patches = [i \in DOMAIN simple_patches |-> Truncated(simple_patches[i], n)]
    BY DEF ReadsBack
  <2>1. saved \in Seq(Patches) /\ Len(saved) = 2
    BY DEF FileInvariant, FileKept
  <2>2. PICK n \in 0 .. 2 : /\ simple_patches = First(saved, n)
                            /\ map_file = curl_map(saved) => n = 2
    BY DEF FileInvariant, FileKept
  <2>3. simple_patches \in Seq(Patches) /\ Len(simple_patches) = n
    BY <2>1, <2>2, FirstTyped
  <2>4. \A i \in 1 .. n : simple_patches[i] = saved[i]
    BY <2>2 DEF First
  <2>5. IsPrefix(simple_patches, saved)
    <3>1. \A i \in 1 .. n : saved[i] \in Patches
      BY <2>1, ElementOfSeq, SMTT(30)
    <3>2. 1 \in Int /\ n \in Int /\ n - 1 + 1 = n /\ (1 <= n \/ n = 0)
          /\ \A i \in 1 .. n : 1 + i - 1 = i
      OBVIOUS
    <3>3. /\ SubSeq(saved, 1, n) \in Seq(Patches)
          /\ Len(SubSeq(saved, 1, n)) = IF 1 <= n THEN n - 1 + 1 ELSE 0
          /\ \A i \in 1 .. n - 1 + 1 : SubSeq(saved, 1, n)[i] = saved[1 + i - 1]
      BY ONLY <3>1, <3>2, SubSeqProperties
    <3>4. Len(SubSeq(saved, 1, n)) = n /\ \A i \in 1 .. n : SubSeq(saved, 1, n)[i] = simple_patches[i]
      BY ONLY <2>4, <3>2, <3>3
    <3>5. SubSeq(saved, 1, n) = simple_patches
      BY <2>3, <3>3, <3>4, SeqEqual
    <3>6. SubSeq(simple_patches, 1, n) = simple_patches
      BY <2>3, SubSeqFull
    <3> QED
      BY <2>1, <2>3, <3>5, <3>6 DEF IsPrefix
  <2>6. ASSUME map_file = curl_map(saved) PROVE simple_patches = saved
    BY <2>1, <2>2, <2>3, <2>4, <2>6, SeqEqual
  <2>7. ASSUME NEW d \in Degrees, reduced[d] # <<>>
        PROVE  LET r == load_from_binary(reduced[d], Lowered(d))
               IN /\ r.ok
                  /\ r.patches = [i \in DOMAIN simple_patches |-> Truncated(simple_patches[i], d)]
    <3>1. reduced[d] = save_curlmap(simple_patches, d)
      BY <2>7 DEF FileInvariant, ReaderKept
    <3>2. d \in Nat
      BY FileAssumption DEF Degrees
    <3> QED
      BY <2>3, <3>1, <3>2, LoadsReduced
  <2> QED
    BY <2>5, <2>6, <2>7
<1> QED
  BY <1>1, FileInvariantHolds, PTL
=============================================================================
