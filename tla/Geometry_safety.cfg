\* Five keyframes make two trees, one of them three levels deep with one point
\* to a leaf.  Two frames of points, the second thinned.
SPECIFICATION Spec
CONSTANTS
  MaxBackend = 5
  MaxLoops = 1
  Places <- MCPlaces
  Shifts <- MCShifts
  radius = 450
  m_leaf_max_size = 1
  treeCount = 3
  MaxQueue = 1
  SegPoints <- MCSegPoints
  GroundPoints <- MCGroundPoints
  Poses <- MCPoses
  is_seg_only = FALSE
  is_voxel_grid_filter = TRUE
  update_steps = 0
  leaf_size = 400
  minimum_squared_dis = 10000
  maximum_squared_dis = 9000000
  cut_threshold = 1000
  patch_minimun_pts_num_after_filter = 2
  region_width_elements = 2
  Unit = 1024000
  minimum_img_rso = 5
  pyramid_minimum_img_rso = 2
  azi_rso = 6
  elev_rso = 11
  CellWidth = 5
  Surfaces <- MCSurfaces
  Scans <- MCScans
  Probes <- MCProbes
  OptStatuses = {"totally_separate", "half_separate", "no_separate"}
  max_valid_residual = 3
  half_diag_cut_threshold = 11
  BA_recons_downsample_stride = 2
INVARIANTS
  SearchExact
  FrameDivided
  ResidualsSound
\* The keyframes are bounded, and the process may end at its first message.
CHECK_DEADLOCK FALSE
