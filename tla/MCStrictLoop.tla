---------------------------- MODULE MCStrictLoop ----------------------------
(* Small instances of StrictLoop for TLC. *)
EXTENDS StrictLoop, TLC

\* Threads, patches and keyframes are interchangeable.
Symmetry == Permutations(Workers) \cup Permutations(Patches) \cup Permutations(Keyframes)
=============================================================================
