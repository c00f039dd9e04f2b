----------------------------- MODULE MCGeometry -----------------------------
(* Small instances of LoopSearch, Preprocess and PointFactors for TLC: they  *)
(* share no state, so a behaviour is one of the search, of the intake or of  *)
(* the residuals.                                                            *)
EXTENDS LoopSearch, Preprocess, PointFactors

VARIABLE part

vars == <<part, searchVars, preprocessVars, factorVars>>

\* A lattice of uneven steps, and the moves of a solve.
MCPlaces == {0, 8, 24} \X {0} \X {0, 16}
MCShifts == {<<8, 0, 0>>, <<-16, 0, 0>>, <<0, 0, 16>>}

\* Points on both sides of zero, on the border of cells and of the scan, inside
\* one voxel, and too far; two points make a patch.
MCSegPoints == {<<-150, 50, 0>>, <<300, 50, 0>>, <<1000, 0, 0>>, <<1200, 100, 0>>,
                <<-2000, 1500, 500>>, <<-2300, 1500, 500>>, <<4000, 0, 0>>}
MCGroundPoints == {<<0, 2000, -1000>>, <<200, 1900, -1000>>}
MCPoses == {<<0, 0, 0>>, <<700, 0, 1000>>}

\* Surfaces that rise along one axis, and along both; scans of a part of the left
\* side, and of positions between the cells of the rest; points on cells, which are
\* between two directions of the table, between cells, on every border and out of
\* the frame.
MCSurfaces == {[height |-> 0, x |-> 1, y |-> 0], [height |-> 1, x |-> 0, y |-> -1],
               [height |-> 2, x |-> -1, y |-> 1]}
MCScans == {(0 .. 12) \X (0 .. 17), (10 .. 21) \X {2, 9, 15}}
MCProbes == {-1, 0, 5, 7, 10, 12, 18, 20} \X {0, 3, 10, 11, 21} \X {0, 5}

Init ==
  /\ part \in {"search", "intake", "factors"}
  /\ SearchInit /\ PreprocessInit
  /\ IF part = "factors" THEN FactorInit
     ELSE /\ is_SH_analytic_jacobian = FALSE /\ mask = {} /\ pyramids = NoPyramids
          /\ sph_coeff = CHOOSE c \in Surfaces : TRUE
          /\ extracted = sph_coeff /\ adjustment = NoAdjustment
          /\ remaining = -1 /\ pyramid_idx = 0 /\ evaluation = NoEvaluation

Next ==
  /\ UNCHANGED part
  /\ \/ part = "search" /\ SearchNext /\ UNCHANGED <<preprocessVars, factorVars>>
     \/ part = "intake" /\ PreprocessNext /\ UNCHANGED <<searchVars, factorVars>>
     \/ part = "factors" /\ FactorNext /\ UNCHANGED <<searchVars, preprocessVars>>

Spec == Init /\ [][Next]_vars
=============================================================================
