---------------------------- MODULE PointFactors ----------------------------
(***************************************************************************)
(* How far a measured point is from the surface of a patch, and which way  *)
(* that moves a pose or the surface: the residuals of registration, coarse *)
(* to fine against the patch's image or directly against its coefficients, *)
(* and those of the adjustment.                                            *)
(*                                                                         *)
(* A surface is a plane, which is known to the step of its table.          *)
(* Positions count from the lower left corner of the patch's frame,        *)
(* CellWidth of them from cell to cell; a cell is <<row, column>>, from    *)
(* the upper left corner.  Heights are integers, in Units of a height that *)
(* every division below leaves whole.  The pyramid has two levels at most, *)
(* as in every configuration.                                              *)
(*                                                                         *)
(* The surface changes with scans, which renew the image, and with the     *)
(* coefficients that an adjustment found, which do not.                    *)
(***************************************************************************)
EXTENDS Integers, FiniteSetsExt

CONSTANTS
  Unit,                      \* of heights and slopes
  minimum_img_rso,           \* cells along a side of the image
  pyramid_minimum_img_rso,
  azi_rso, elev_rso,         \* directions in the table of spherical harmonics
  CellWidth,
  Surfaces,                  \* [height, x, y]: the height at the corner, the slopes
  Scans,                     \* sets of positions <<x, y>> a scan may consist of
  Probes,                    \* positions and heights <<x, y, z>> of measured points
  OptStatuses,               \* of totally_separate, half_separate, no_separate
  max_valid_residual,        \* seg_max_valid_residual, and max_residual
  half_diag_cut_threshold,
  BA_recons_downsample_stride

Side == CellWidth * (minimum_img_rso - 1)

\* The number of positions and the Unit are scales: any resolution of image and
\* table has such ones, also where the table has no direction of most cells.
ASSUME FactorAssumption ==
  /\ {minimum_img_rso, azi_rso, elev_rso} \subseteq Nat \ {0, 1}
  /\ {pyramid_minimum_img_rso, CellWidth, Unit} \subseteq Nat \ {0}
  /\ minimum_img_rso < 4 * pyramid_minimum_img_rso
  /\ Unit % (8192 * CellWidth * CellWidth * CellWidth) = 0
  /\ \A rso \in {azi_rso, elev_rso} : Side % (rso - 1) = 0
  /\ {BA_recons_downsample_stride, max_valid_residual, half_diag_cut_threshold} \subseteq Nat \ {0}
  /\ Surfaces \subseteq [height : Int, x : Int, y : Int]
  /\ \A scan \in Scans : scan \subseteq Int \X Int
  /\ Probes \subseteq Int \X Int \X Int

VARIABLES
  is_SH_analytic_jacobian,   \* the low RAM mode: no image is kept
  sph_coeff,                 \* the surface
  extracted,                 \* as scans left it: what the image is of
  adjustment,                \* the points that the worker read to hold the surface
  mask,                      \* the cells that scans fell into: I_mask, mask_idx
  pyramids,                  \* the image and its gradients by level
  remaining,                 \* solves left of a registration, or -1 between two
  pyramid_idx,               \* of the registration's residuals
  evaluation                 \* what the latest call of Evaluate returned

patchVars == <<is_SH_analytic_jacobian, sph_coeff, extracted, mask, pyramids>>
solveVars == <<remaining, pyramid_idx>>
factorVars == <<patchVars, solveVars, adjustment, evaluation>>

T_INVALID == 2147483647

Magnitude(a) == IF a < 0 THEN -a ELSE a
Ceil(a, b) == -((-a) \div b)

\* std::round of a / b: halves go away from zero.
Round(a, b) ==
  IF a >= 0 THEN (2 * a + b) \div (2 * b) ELSE -((b - 2 * a) \div (2 * b))

InFrame(x, y) == x \in 0 .. Side /\ y \in 0 .. Side

-----------------------------------------------------------------------------
(* The table of spherical harmonics *)

PlaneHeight(c, x, y) == Unit * (c.height + c.x * x + c.y * y)

azi_idx(x) == Round(x * (azi_rso - 1), Side)
elev_idx(y) == Round(y * (elev_rso - 1), Side)

\* A row of the table times the coefficients.
SH_table(c, row) ==
  PlaneHeight(c, (row \div elev_rso) * (Side \div (azi_rso - 1)),
                 (row % elev_rso) * (Side \div (elev_rso - 1)))

invLeastSquaresSHT_table(c, x, y) == SH_table(c, azi_idx(x) * elev_rso + elev_idx(y))

get_recons_height(c, x, y) ==
  IF InFrame(x, y) THEN invLeastSquaresSHT_table(c, x, y) ELSE T_INVALID

-----------------------------------------------------------------------------
(* The mask *)

\* Of level 0, and of level 1.
ImageSize(k) == IF k = 0 THEN minimum_img_rso ELSE (minimum_img_rso + 1) \div 2
grid_len(k) == IF k = 0 THEN CellWidth ELSE 2 * CellWidth

Cells(k) == (0 .. ImageSize(k) - 1) \X (0 .. ImageSize(k) - 1)

\* A mistake: rows that count from below.
NearestCellFromBelow(x, y) == <<Round(y, CellWidth), Round(x, CellWidth)>>

NearestCell(x, y) == <<Round(Side - y, CellWidth), Round(x, CellWidth)>>

CornerCells(x, y, len) ==
  {(Side - y) \div len, Ceil(Side - y, len)} \X {x \div len, Ceil(x, len)}

update_mask(scan) == {NearestCell(p[1], p[2]) : p \in scan} \cap Cells(0)

update_mask_low_RAM(scan) ==
  (UNION {CornerCells(p[1], p[2], CellWidth) : p \in scan}) \cap Cells(0)

\* Only the low RAM mode fills mask_idx_flags and mask_idx_set.
mask_idx_flags == IF is_SH_analytic_jacobian THEN mask ELSE {}

-----------------------------------------------------------------------------
(* The image, its pyramid and gradients *)

Depth(lowRAM) ==
  IF lowRAM \/ minimum_img_rso < 2 * pyramid_minimum_img_rso THEN 1 ELSE 2

calculate_I(c, cells) ==
  [cell \in Cells(0) |->
     IF cell \in cells
     THEN invLeastSquaresSHT_table(c, cell[2] * CellWidth, Side - cell[1] * CellWidth)
     ELSE T_INVALID]

\* A row of gaussian_blur_kernel_5, times 16, which is its column, too.
Weighted(v) == v[-2] + 4 * v[-1] + 6 * v[0] + 4 * v[1] + v[2]

Clamped(i, size) == IF i < 0 THEN 0 ELSE IF i >= size THEN size - 1 ELSE i

\* What a cell adds to a blurred one: one that is missing counts as that.
Neighbour(I, cell, k, l) ==
  LET near == <<Clamped(cell[1] + k, minimum_img_rso), Clamped(cell[2] + l, minimum_img_rso)>>
  IN IF I[near] = T_INVALID THEN I[cell] ELSE I[near]

Blurred(I, cell) ==
  Weighted([k \in -2 .. 2 |-> Weighted([l \in -2 .. 2 |-> Neighbour(I, cell, k, l) \div 256])])

\* Every other cell of the finest image, blurred.
pyr_down(I) ==
  [cell \in Cells(1) |->
     LET centre == <<2 * cell[1], 2 * cell[2]>>
     IN IF I[centre] = T_INVALID THEN T_INVALID ELSE Blurred(I, centre)]

\* A mistake: y along the rows, which count from above.
ForwardInImage(axis) == IF axis = "x" THEN <<0, 1>> ELSE <<1, 0>>

\* Along x to the right, along y upwards.
Forward(axis) == IF axis = "x" THEN <<0, 1>> ELSE <<-1, 0>>

eigen_central_gradient(I, axis, k) ==
  LET Next(cell) == <<cell[1] + Forward(axis)[1], cell[2] + Forward(axis)[2]>>
      Prev(cell) == <<cell[1] - Forward(axis)[1], cell[2] - Forward(axis)[2]>>
  IN [cell \in Cells(k) |->
        IF /\ {Prev(cell), Next(cell)} \subseteq Cells(k)
           /\ \A near \in {Prev(cell), cell, Next(cell)} : I[near] # T_INVALID
        THEN (I[Next(cell)] - I[Prev(cell)]) \div (2 * grid_len(k))
        ELSE T_INVALID]

\* calculate_I_without_conformal_mapping, calculate_delta_without_conformal_mapping
Pyramids(c, cells) ==
  LET I(k) == IF k = 0 THEN calculate_I(c, cells) ELSE pyr_down(calculate_I(c, cells))
  IN [k \in 0 .. Depth(FALSE) - 1 |->
        [I |-> I(k),
         Gx |-> eigen_central_gradient(I(k), "x", k),
         Gy |-> eigen_central_gradient(I(k), "y", k)]]

\* Between the corners around a position; nothing when one of them is missing.
fetch_I(I, x, y, k) ==
  LET len == grid_len(k)
      corners == CornerCells(x, y, len)
      Between(a, b, d) == (a \div len) * (len - d) + (b \div len) * d
      AlongRow(row) == Between(I[<<row, x \div len>>], I[<<row, Ceil(x, len)>>], x % len)
  IN IF /\ InFrame(x, y) /\ corners \subseteq Cells(k)
        /\ \A cell \in corners : I[cell] # T_INVALID
     THEN Between(AlongRow((Side - y) \div len), AlongRow(Ceil(Side - y, len)), (Side - y) % len)
     ELSE T_INVALID

is_valid_in_mask(x, y) == InFrame(x, y) /\ NearestCell(x, y) \in mask

\* Whether the slope along x, and along y, may not be used.
check_is_on_edge_low_RAM(x, y) ==
  LET cell == NearestCell(x, y)
      OnEdge(o) == ~ {cell, <<cell[1] - o[1], cell[2] - o[2]>>, <<cell[1] + o[1], cell[2] + o[2]>>}
                       \subseteq mask_idx_flags
  IN IF InFrame(x, y) THEN <<OnEdge(<<0, 2>>), OnEdge(<<2, 0>>)>> ELSE <<TRUE, TRUE>>

-----------------------------------------------------------------------------
(* The residuals *)

NoEvaluation == [kind |-> "none"]

\* The slopes of the surface at a row of the table, of which those along an edge
\* of what was seen are not used.
TableSlopes(c, x, y) ==
  LET is_on_edge == check_is_on_edge_low_RAM(x, y)
  IN <<IF is_on_edge[1] THEN 0 ELSE Unit * c.x, IF is_on_edge[2] THEN 0 ELSE Unit * c.y>>

\* A missing slope is none.
ImageSlopes(x, y, k) ==
  LET Slope(G) == IF fetch_I(G, x, y, k) = T_INVALID THEN 0 ELSE fetch_I(G, x, y, k)
  IN <<Slope(pyramids[k].Gx), Slope(pyramids[k].Gy)>>

\* CoupleFixSphDirectFactor: a point of the scan against the surface, to move the
\* pose only.
CoupleFixSphDirectFactor(p) ==
  LET I == IF is_SH_analytic_jacobian THEN get_recons_height(sph_coeff, p[1], p[2])
           ELSE fetch_I(pyramids[pyramid_idx].I, p[1], p[2], pyramid_idx)
      is_fault == I = T_INVALID \/ Magnitude(Unit * p[3] - I) > Unit * max_valid_residual
  IN [kind |-> "direct", p |-> p, used |-> ~is_fault,
      residual |-> IF is_fault THEN 0 ELSE Unit * p[3] - I,
      slopes |-> IF is_fault THEN <<0, 0>>
                 ELSE IF is_SH_analytic_jacobian THEN TableSlopes(sph_coeff, p[1], p[2])
                 ELSE ImageSlopes(p[1], p[2], pyramid_idx)]

\* By opt_status, whether a valid residual moves the poses, and whether it changes
\* the surface.
is_optimize_pose(opt_status, near, valid) ==
  near /\ (opt_status = "totally_separate" => valid)

is_optimize_sph_coeff(opt_status, valid) ==
  opt_status = "totally_separate" => ~valid

\* CoupleSphModFactor: a point of a loop against trial coefficients, to move the
\* poses and to change the surface.
CoupleSphModFactor(p, c, opt_status) ==
  LET is_fault == ~ InFrame(p[1], p[2])
      res == Unit * p[3] - get_recons_height(c, p[1], p[2])
      valid == is_valid_in_mask(p[1], p[2])
      moves == ~is_fault /\ is_optimize_pose(opt_status, Magnitude(res) <= Unit * max_valid_residual, valid)
  IN [kind |-> "couple", p |-> p, coeff |-> c, opt_status |-> opt_status, used |-> ~is_fault,
      residual |-> IF is_fault THEN 0 ELSE res,
      weight |-> IF is_fault THEN "none" ELSE IF valid THEN "prior" ELSE "observation",
      slopes |-> IF moves THEN TableSlopes(c, p[1], p[2]) ELSE <<0, 0>>,
      pose |-> moves,
      surface |-> ~is_fault /\ is_optimize_sph_coeff(opt_status, valid)]

\* The points that hold a surface where it is: those of its cells, or of some.
get_recons_v_obj_downsample ==
  {<<cell[2] * CellWidth, Side - cell[1] * CellWidth,
     invLeastSquaresSHT_table(sph_coeff, cell[2] * CellWidth, Side - cell[1] * CellWidth)>> :
     cell \in {q \in mask : \A i \in 1 .. 2 : q[i] % BA_recons_downsample_stride = 0}}

\* CoupleSphModRegFactor: one of them against trial coefficients.
CoupleSphModRegFactor(p, c) ==
  LET is_fault == Magnitude(p[3]) >= Unit * half_diag_cut_threshold
  IN [kind |-> "reg", p |-> p, coeff |-> c, used |-> ~is_fault,
      residual |-> IF is_fault THEN 0 ELSE p[3] - get_recons_height(c, p[1], p[2])]

-----------------------------------------------------------------------------
(* Scans, registrations and adjustments *)

UpdateMask(scan) ==
  IF is_SH_analytic_jacobian THEN update_mask_low_RAM(scan) ELSE update_mask(scan)

NoPyramids == [k \in {} |-> NoEvaluation]
NoAdjustment == [points |-> {}]

\* The patch is created from a scan, whose points lie in its frame.
FactorInit ==
  /\ is_SH_analytic_jacobian \in BOOLEAN
  /\ sph_coeff \in Surfaces /\ extracted = sph_coeff
  /\ \E scan \in Scans : mask = UpdateMask(scan) /\ mask # {}
  /\ pyramids = IF is_SH_analytic_jacobian THEN NoPyramids ELSE Pyramids(sph_coeff, mask)
  /\ remaining = -1 /\ pyramid_idx = 0
  /\ adjustment = NoAdjustment /\ evaluation = NoEvaluation

\* Between two registrations and two residuals.
Idle == remaining = -1 /\ evaluation = NoEvaluation

\* A mistake: the image is left as it is.
UpdateSphResidualsKeepingImage ==
  /\ Idle
  /\ \E scan \in Scans : mask' = mask \cup UpdateMask(scan)
  /\ \/ UNCHANGED <<sph_coeff, extracted>>
     \/ sph_coeff' \in Surfaces /\ extracted' = sph_coeff'
  /\ UNCHANGED <<is_SH_analytic_jacobian, pyramids, solveVars, adjustment, evaluation>>

\* A scan is added; the coefficients, and with them the image, change now or with
\* a later scan.
UpdateSphResiduals ==
  /\ Idle
  /\ \E scan \in Scans : mask' = mask \cup UpdateMask(scan)
  /\ \/ UNCHANGED <<sph_coeff, extracted, pyramids>>
     \/ /\ sph_coeff' \in Surfaces /\ extracted' = sph_coeff'
        /\ pyramids' = IF is_SH_analytic_jacobian THEN NoPyramids ELSE Pyramids(sph_coeff', mask')
  /\ UNCHANGED <<is_SH_analytic_jacobian, solveVars, adjustment, evaluation>>

\* The worker has copied the coefficients, of which its solver tries any, and reads
\* the points that will hold the surface: of the one there is now, which a scan may
\* have changed since the copy.  Those of other associations are alike.
LoadResiduals ==
  /\ Idle /\ adjustment = NoAdjustment
  /\ adjustment' = [of |-> sph_coeff, points |-> get_recons_v_obj_downsample]
  /\ UNCHANGED <<patchVars, solveVars, evaluation>>

\* Stage 3: what the solver made of the copy replaces the coefficients, what scans
\* made of them meanwhile included.  The image remains as it is.
CommitBASphCoeff ==
  /\ Idle /\ adjustment # NoAdjustment
  /\ sph_coeff' \in Surfaces
  /\ adjustment' = NoAdjustment
  /\ UNCHANGED <<is_SH_analytic_jacobian, extracted, mask, pyramids, solveVars, evaluation>>

\* A registration begins: one solve for each level, or one in all.
CreateFactors ==
  /\ Idle
  /\ remaining' = Depth(is_SH_analytic_jacobian)
  /\ pyramid_idx' = Depth(is_SH_analytic_jacobian)
  /\ UNCHANGED <<patchVars, adjustment, evaluation>>

update_pyramid_idx == pyramid_idx' = IF pyramid_idx - 1 < 0 THEN 0 ELSE pyramid_idx - 1

\* The next solve, one level finer.
NextSolve ==
  /\ evaluation = NoEvaluation /\ remaining > 0
  /\ remaining' = remaining - 1
  /\ IF is_SH_analytic_jacobian THEN UNCHANGED pyramid_idx ELSE update_pyramid_idx
  /\ UNCHANGED <<patchVars, adjustment, evaluation>>

\* The solver evaluates a point at the pose it tries.
EvaluateDirect ==
  /\ evaluation = NoEvaluation
  /\ remaining \in 0 .. Depth(is_SH_analytic_jacobian) - 1
  /\ \E p \in Probes : evaluation' = CoupleFixSphDirectFactor(p)
  /\ UNCHANGED <<patchVars, solveVars, adjustment>>

EndRegistration ==
  /\ evaluation = NoEvaluation /\ remaining = 0
  /\ remaining' = -1 /\ pyramid_idx' = 0
  /\ UNCHANGED <<patchVars, adjustment, evaluation>>

\* The worker's solver evaluates a point, with the coefficients it tries; the mask
\* is the one of this moment.
EvaluateAdjustment ==
  /\ Idle /\ adjustment # NoAdjustment
  /\ \E c \in Surfaces :
       \/ \E p \in Probes, opt_status \in OptStatuses :
            evaluation' = CoupleSphModFactor(p, c, opt_status)
       \/ \E p \in adjustment.points : evaluation' = CoupleSphModRegFactor(p, c)
  /\ UNCHANGED <<patchVars, solveVars, adjustment>>

\* The solver has added the residual to its sums.
TakeResidual ==
  /\ evaluation # NoEvaluation /\ evaluation' = NoEvaluation
  /\ UNCHANGED <<patchVars, solveVars, adjustment>>

FactorNext ==
  \/ UpdateSphResiduals \/ LoadResiduals \/ CommitBASphCoeff
  \/ CreateFactors \/ NextSolve \/ EvaluateDirect \/ EndRegistration
  \/ EvaluateAdjustment \/ TakeResidual

FactorSpec == FactorInit /\ [][FactorNext]_factorVars

-----------------------------------------------------------------------------
(* What a residual must be *)

Slopes(c) == <<Unit * c.x, Unit * c.y>>
SlopesOrNone(c, slopes) == \A i \in 1 .. 2 : slopes[i] \in {0, Slopes(c)[i]}

\* How far the table's directions are apart, and twice the error of the nearest
\* one: half a step by axis.
TableStep(i) == Side \div ((IF i = 1 THEN azi_rso ELSE elev_rso) - 1)
TableError(c) == TableStep(1) * Magnitude(Slopes(c)[1]) + TableStep(2) * Magnitude(Slopes(c)[2])

Distance(c, p) == Unit * p[3] - PlaneHeight(c, p[1], p[2])

\* The nearest direction is at most half a step off, and the difference between
\* those of two cells a whole step.
NearTable(c, p, value) == 2 * Magnitude(value - Distance(c, p)) <= TableError(c)
NearSlope(c, i, slope) ==
  2 * CellWidth * Magnitude(slope - Slopes(c)[i]) <= TableStep(i) * Magnitude(Slopes(c)[i])

\* A solve is about a level that there is, and the last one about the finest.
LevelsDescend ==
  remaining \in 0 .. Depth(is_SH_analytic_jacobian) - 1 /\ ~is_SH_analytic_jacobian =>
    pyramid_idx = remaining

\* Where the image shows a surface, a point and the cells around it, in positions.
Shown == {cell \in Cells(0) : pyramids[0].I[cell] # T_INVALID}
PositionOf(cell) == <<cell[2] * CellWidth, Side - cell[1] * CellWidth>>
Around(p, reach) ==
  {cell \in Cells(0) : \A i \in 1 .. 2 : Magnitude(PositionOf(cell)[i] - p[i]) < reach}

\* The finest image yields the distance from the surface that scans left, and only
\* where all cells around are shown: there, unless it is too far.  It yields the
\* slope at least where the neighbours of these cells are shown, too.
FineNear(p) ==
  LET c == extracted
      shown == InFrame(p[1], p[2]) /\ Around(p, CellWidth) \subseteq Shown
      inner == \A i \in 1 .. 2 : p[i] \in CellWidth .. Side - CellWidth
      limit == Unit * max_valid_residual
  IN /\ evaluation.used =>
          shown /\ NearTable(c, p, evaluation.residual) /\ Magnitude(evaluation.residual) <= limit
     /\ shown /\ 2 * Magnitude(Distance(c, p)) + TableError(c) <= 2 * limit => evaluation.used
     /\ \A i \in 1 .. 2 : evaluation.slopes[i] = 0 \/ NearSlope(c, i, evaluation.slopes[i])
     /\ evaluation.used /\ inner /\ Around(p, 2 * CellWidth) \subseteq Shown =>
          \A i \in 1 .. 2 : NearSlope(c, i, evaluation.slopes[i])

\* A coarse image lies between the heights shown within its reach, and where the
\* surface rises along one axis only, its slopes never fall.
CoarseBetween(p) ==
  LET c == extracted
      near == Around(p, grid_len(pyramid_idx) + 2 * grid_len(pyramid_idx - 1) + 1) \cap Shown
      heights == {PlaneHeight(c, PositionOf(cell)[1], PositionOf(cell)[2]) : cell \in near}
  IN evaluation.used =>
       /\ 2 * (Unit * p[3] - evaluation.residual)
            \in 2 * Min(heights) - TableError(c) .. 2 * Max(heights) + TableError(c)
       /\ \A i \in 1 .. 2 :
            Slopes(c)[3 - i] = 0 => evaluation.slopes[i] * c[IF i = 1 THEN "x" ELSE "y"] >= 0

DirectSound(p) ==
  IF ~is_SH_analytic_jacobian
  THEN IF pyramid_idx = 0 THEN FineNear(p) ELSE CoarseBetween(p)
  ELSE evaluation.used =>
         /\ NearTable(sph_coeff, p, evaluation.residual)
         /\ SlopesOrNone(sph_coeff, evaluation.slopes)

\* Within half a distance, by axis, of a cell that a scan fell into.
NearMask(p, distance) ==
  \E cell \in mask : \A i \in 1 .. 2 : 2 * Magnitude(PositionOf(cell)[i] - p[i]) <= distance

\* Where a point was seen it holds the surface, elsewhere it may shape it, and a
\* point that is too far moves no pose.
CoupleSound(p, c) ==
  /\ evaluation.used <=> InFrame(p[1], p[2])
  /\ evaluation.used => NearTable(c, p, evaluation.residual)
  /\ SlopesOrNone(c, evaluation.slopes)
  /\ evaluation.pose => Magnitude(evaluation.residual) <= Unit * max_valid_residual
  /\ evaluation.weight = "prior" => NearMask(p, CellWidth)
  /\ evaluation.used /\ NearMask(p, CellWidth - 1) => evaluation.weight = "prior"
  /\ evaluation.used /\ evaluation.weight = "observation" => evaluation.surface

\* What moves a pose or a surface is the distance of a point from a surface and its
\* slope, up to the table's step.  In the default mode registration knows the
\* surface that scans left, where its image shows it, also after an adjustment
\* committed another; in the low RAM mode it knows the coefficients, committed ones
\* at once and also where nothing was seen.  The points that hold a surface hold
\* the one they were read from.  A residual that is not used moves nothing.
ResidualsSound ==
  /\ LevelsDescend
  /\ evaluation.kind # "none" /\ ~ evaluation.used => evaluation.residual = 0
  /\ evaluation.kind = "direct" =>
       DirectSound(evaluation.p) /\ (~evaluation.used => evaluation.slopes = <<0, 0>>)
  /\ evaluation.kind = "couple" => CoupleSound(evaluation.p, evaluation.coeff)
  /\ evaluation.kind = "reg" /\ evaluation.coeff = adjustment.of => evaluation.residual = 0
=============================================================================
