------------------------------ MODULE MapFile ------------------------------
(***************************************************************************)
(* The map as a file.  When run() ends, log() writes every patch of the    *)
(* map: the patch of module Surface, and one more on the ground.  Another  *)
(* process, map_binary_recons_node, reads the file and shows the map; its  *)
(* parameters may change while it does, and it saves the map once more     *)
(* with the coefficients up to the present degree, if asked to.            *)
(*                                                                         *)
(* A file is the sequence of what one call of write() put into it: a flag, *)
(* a pose, a coefficient, a word of the mask.  It has no header and no     *)
(* lengths: the reader takes them from its own configuration.              *)
(***************************************************************************)
EXTENDS Surface, SequencesExt

CONSTANTS
  MaxDegree,      \* max_SH_degree
  GroundDegree,   \* ground_SH_degree
  ImageSide,      \* minimum_img_rso
  WordSize        \* 64: the cells of the mask that one word holds

ASSUME FileAssumption ==
  /\ {MaxDegree, GroundDegree} \subseteq Nat /\ {ImageSide, WordSize} \subseteq Nat \ {0}
  /\ 2 * MaxScans - 1 <= ImageSide * ImageSide

VARIABLES
  rpc,               \* what has become of the file: none, written, show, ended
  saved,             \* the patches that log() wrote
  map_file,          \* curl_map.bin: all that was written, or less after a crash
  simple_patches,    \* the reader's patches
  config,            \* curl_continuous_recons_config_ptr
  current,           \* current_curl_continuous_recons_config
  saved_curlmap_flag,
  reduced            \* degree_<n>.bin

readerVars == <<simple_patches, config, current, saved_curlmap_flag, reduced>>
fileVars == <<rpc, saved, map_file, readerVars>>

ImageSize == ImageSide * ImageSide
Words == (ImageSize + WordSize - 1) \div WordSize
Degrees == 0 .. MaxDegree
Configs == [SH_degree : Degrees, is_save_curlmap : BOOLEAN]

\* The degrees a reader is configured with: those of the writer, or lower ones.
Configured == [ground |-> GroundDegree, other |-> MaxDegree]
LowerOf(a, b) == IF a < b THEN a ELSE b
Lowered(n) == [d \in DOMAIN Configured |-> LowerOf(Configured[d], n)]
DegreeOf(is_ground, degrees) == IF is_ground THEN degrees.ground ELSE degrees.other
SizeOf(degree) == (degree + 1) * (degree + 1)

-----------------------------------------------------------------------------
(* Patches and what is written of them *)

Coefficient(of, i) == <<"coefficient", of, i>>

\* Scan s fell into one cell of the image; the last scan may fall into the last.
CellOf(s) == 2 * s - 2

SurfacePatch ==
  [is_ground |-> isGround, T_w_obj |-> <<"pose", plane>>,
   sph_coeff |-> [i \in 1 .. SizeOf(DegreeOf(isGround, Configured)) |->
                    Coefficient(coefficients, i)],
   mask |-> {CellOf(s) : s \in Mask}]

GroundPatch ==
  [is_ground |-> TRUE, T_w_obj |-> <<"pose", 2>>,
   sph_coeff |-> [i \in 1 .. SizeOf(GroundDegree) |-> Coefficient(FirstCoefficients, i)],
   mask |-> {ImageSize - 1}]

\* all_saving_patches_ptr has no order.
SavedPatches == {<<SurfacePatch, GroundPatch>>, <<GroundPatch, SurfacePatch>>}

\* The first cell of a word is its highest bit; the last word may not be full.
MaskWord(mask, word) ==
  <<"mask", [bit \in 0 .. WordSize - 1 |->
               LET i == word * WordSize + WordSize - 1 - bit
               IN IF i < ImageSize /\ i \in mask THEN 1 ELSE 0]>>

\* Any number of coefficients is written from where the vector begins.
Written(patch, size) ==
  <<<<"is_ground", patch.is_ground>>, patch.T_w_obj>>
    \o [i \in 1 .. size |-> IF i <= Len(patch.sph_coeff) THEN patch.sph_coeff[i]
                            ELSE <<"beyond", i>>]
    \o [w \in 1 .. Words |-> MaskWord(patch.mask, w - 1)]

curl_map(patches) ==
  FlattenSeq([i \in DOMAIN patches |-> Written(patches[i], Len(patches[i].sph_coeff))])

\* Plausible bug: a patch of a lower degree is not told apart.
SavedSizeUnguarded(patch, degree) == SizeOf(degree)

\* save_curlmap: coefficients above the degree are left out.
SavedSize(patch, degree) ==
  IF degree > DegreeOf(patch.is_ground, Configured)
  THEN Len(patch.sph_coeff) ELSE SizeOf(degree)

save_curlmap(patches, degree) ==
  FlattenSeq([i \in DOMAIN patches |-> Written(patches[i], SavedSize(patches[i], degree))])

-----------------------------------------------------------------------------
(* Reading *)

MaskFrom(words) ==
  {i \in 0 .. ImageSize - 1 :
     LET word == words[i \div WordSize + 1]
     IN word[1] = "mask" /\ word[2][WordSize - 1 - (i % WordSize)] = 1}

\* A turn of the loop of load_from_binary: it has read the file up to at.  The end of
\* the file between two patches is the end of the map; anywhere else the file is
\* refused, and the patches read so far stay.
ReadOne(infile, degrees, r) ==
  LET ground == infile[r.at + 1] = <<"is_ground", TRUE>>
      size == SizeOf(DegreeOf(ground, degrees))
      end == r.at + 2 + size + Words
  IN IF ~r.ok \/ r.at = Len(infile) THEN r
     ELSE IF Len(infile) < end THEN [r EXCEPT !.ok = FALSE]
     ELSE [ok |-> TRUE, at |-> end,
           patches |-> Append(r.patches,
                              [is_ground |-> ground, T_w_obj |-> infile[r.at + 2],
                               sph_coeff |-> SubSeq(infile, r.at + 3, r.at + 2 + size),
                               mask |-> MaskFrom(SubSeq(infile, r.at + 3 + size, end))])]

\* Every turn reads something or is the last.
load_from_binary(infile, degrees) ==
  LET loop[n \in 0 .. Len(infile)] ==
        IF n = 0 THEN [ok |-> TRUE, at |-> 0, patches |-> <<>>]
        ELSE ReadOne(infile, degrees, loop[n - 1])
  IN loop[Len(infile)]

-----------------------------------------------------------------------------
(* The two processes *)

\* The memory of the process that made the map is gone.
Released ==
  /\ lowRAM' = TRUE /\ isGround' = FALSE /\ publishing' = FALSE
  /\ plane' = 0 /\ points' = 1 /\ initial' = <<1>> /\ outside' = {} /\ scan' = 1
  /\ sums' = FirstCount /\ sumsPlane' = 0
  /\ steps' = 0 /\ times' = 0 /\ initializing' = TRUE
  /\ coefficients' = FirstCoefficients /\ image' = Nothing /\ rows' = Nothing
  /\ dirty' = TRUE /\ adjusted' = NoCoefficients
  /\ tpc' = "idle" /\ changed' = FALSE /\ moving' = FALSE
  /\ wpc' = "idle" /\ adjustments' = 0 /\ stopped' = TRUE

\* log(), at the end of run(), whatever a worker is doing; the process may be killed
\* before it is done.
Log ==
  /\ rpc = "none" /\ tpc = "idle" /\ ~stopped
  /\ saved' \in SavedPatches
  /\ \E n \in 0 .. Len(curl_map(saved')) : map_file' = SubSeq(curl_map(saved'), 1, n)
  /\ Released
  /\ rpc' = "written"
  /\ UNCHANGED readerVars

\* The node starts with any parameters.  A refused file ends it; with any other it goes on to run_reconstruction.
Load ==
  /\ rpc = "written"
  /\ LET r == load_from_binary(map_file, Configured)
     IN simple_patches' = r.patches /\ rpc' = IF r.ok THEN "show" ELSE "ended"
  /\ config' \in Configs /\ current' = config' /\ saved_curlmap_flag' = FALSE
  /\ UNCHANGED <<vars, saved, map_file, reduced>>

\* Configurations are compared without is_save_curlmap.
Reconfigured == current.SH_degree # config.SH_degree

\* run_reconstruction: for new parameters the points are computed again, and the map
\* may be saved again.
Reconstruct ==
  /\ rpc = "show" /\ Reconfigured
  /\ current' = config /\ saved_curlmap_flag' = FALSE
  /\ UNCHANGED <<vars, rpc, saved, map_file, simple_patches, config, reduced>>

\* Otherwise the map is saved, once, and then param_callback may run.
Turn ==
  /\ rpc = "show" /\ ~Reconfigured
  /\ IF config.is_save_curlmap /\ ~saved_curlmap_flag
     THEN /\ reduced' = [reduced EXCEPT ![config.SH_degree] =
                           save_curlmap(simple_patches, current.SH_degree)]
          /\ saved_curlmap_flag' = TRUE
     ELSE UNCHANGED <<reduced, saved_curlmap_flag>>
  /\ config' \in Configs
  /\ UNCHANGED <<vars, rpc, saved, map_file, simple_patches, current>>

-----------------------------------------------------------------------------
FileInit ==
  /\ Init
  /\ rpc = "none" /\ saved = <<>> /\ map_file = <<>> /\ simple_patches = <<>>
  /\ config = [SH_degree |-> MaxDegree, is_save_curlmap |-> FALSE] /\ current = config
  /\ saved_curlmap_flag = FALSE /\ reduced = [n \in Degrees |-> <<>>]

FileNext ==
  \/ rpc = "none" /\ Next /\ UNCHANGED fileVars
  \/ Log \/ Load \/ Reconstruct \/ Turn

FileSpec == FileInit /\ [][FileNext]_<<vars, fileVars>>

-----------------------------------------------------------------------------
(* Properties *)

FileTypeOK ==
  /\ TypeOK
  /\ rpc \in {"none", "written", "show", "ended"}
  /\ config \in Configs /\ current \in Configs /\ saved_curlmap_flag \in BOOLEAN
  /\ {Len(saved), Len(simple_patches)} \subseteq 0 .. 2
  /\ DOMAIN reduced = Degrees

Truncated(patch, n) ==
  [patch EXCEPT !.sph_coeff =
     SubSeq(@, 1, LowerOf(Len(@), SizeOf(n)))]

\* What the node shows are the patches log() wrote, all of them unless the file was
\* cut, and never a part of one; a reduced map that it saved is read back by a node
\* configured with the lower degrees as the same patches without the coefficients
\* above the degree.
ReadsBack ==
  rpc = "show" =>
    /\ IsPrefix(simple_patches, saved)
    /\ map_file = curl_map(saved) => simple_patches = saved
    /\ \A n \in Degrees :
         reduced[n] # <<>> =>
           LET r == load_from_binary(reduced[n], Lowered(n))
           IN /\ r.ok
              /\ r.patches = [i \in DOMAIN simple_patches |-> Truncated(simple_patches[i], n)]
=============================================================================
