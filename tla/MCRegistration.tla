--------------------------- MODULE MCRegistration ---------------------------
(* A small instance of Registration for TLC. *)
EXTENDS Registration

\* Two cells, each in a region of its own, off the ground.
MCCells == {<<0, 0>>, <<1, 0>>}
MCNone == {}

Point(range, azimuth, z) == [range |-> range, azimuth |-> azimuth, z |-> z]

\* The keyframe being adjusted has one of them.
MCKeyframeCells == {<<1, 0>>}

\* A place seen from two headings, and one whose sector key does not tell
\* the heading.
MCScans ==
    LET somewhere == {Point(1, 1, 2), Point(3, 3, 1), Point(9, 5, 2)}
        ambiguous == {Point(3, 1, 1), Point(1, 5, 1)}
    IN {somewhere, Turned(somewhere, 3), ambiguous}

\* Patches are interchangeable: none is ground.
Symmetry == Permutations(Patches)
=============================================================================
